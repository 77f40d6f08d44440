--------------------------- MODULE UobjcollLayout ---------------------------
(***************************************************************************)
(* The memory layout of a uobj collection: initialize and                  *)
(* consolidate_sections_with_memory_map of uberspark_uobj.ml, and the      *)
(* functions of uberspark_uobjcoll.ml that build calls from                *)
(* initialize_uobjs_within_uobjinfo_list to                                *)
(* prepare_for_uobjcoll_sentinel_codegen.                                  *)
(*                                                                         *)
(* Sizes come before addresses.  Every uobj is laid out at address 0,      *)
(* which sets its size; the collection places sentinels and uobjs one      *)
(* after the other by these sizes; then every uobj is laid out again where *)
(* it was placed, and the sentinels receive the addresses its public       *)
(* methods have by then.  One step places one section.  Sentinels are      *)
(* placed in manifest order by the code, in any order here.                *)
(***************************************************************************)
EXTENDS Naturals, Sequences

CONSTANTS
    Collections,    \* collection manifests with those of their uobjs
    Configs,        \* configurations
    Name, Type,     \* names of uobjs, types of sentinels
    CodeSize        \* [facet, type] of a sentinel -> size of its code

Facet == {"inter", "intra"}
Collection ==
    [uobjs : Seq([name : Name, methods : Nat, sections : Seq(Nat)]),
     exposed : SUBSET [uobj : Nat, method : Nat, type : Type],
     intra : SUBSET Type]
Config ==
    [sectionAlign : Nat \ {0}, defaultSize : Nat, uobjAlign : Nat \ {0},
     uobjSize : Nat, uniform : BOOLEAN, collAlign : Nat \ {0}, load : Nat]

ASSUME LayoutAssumption ==
    /\ Collections \subseteq Collection
    /\ Configs \subseteq Config
    /\ CodeSize \in [Facet \X Type -> Nat]

VARIABLES
    coll, conf,     \* the input
    pc,             \* what is done next
    pass, u, i,     \* first or second layout of uobjs; uobj, section index
    next,           \* the next section load address
    parsed, inited, \* uobjs whose manifest, and whose slt manifest, was read
    load, size,     \* d_load_addr and d_size of each uobj
    map,            \* d_memorymapped_sections_list of each uobj
    methodAddr,     \* f_addr of the public methods of all uobjs
    collMap,        \* d_memorymapped_sections_list of the collection
    collSize,       \* d_size of the collection
    generated       \* d_sentinel_info_for_codegen_list

vars == <<coll, conf, pc, pass, u, i, next, parsed, inited, load, size, map,
          methodAddr, collMap, collSize, generated>>
input == <<coll, conf>>
collVars == <<collMap, collSize, generated>>

Uobj == DOMAIN coll.uobjs
Method(v) == 1 .. coll.uobjs[v].methods
MethodId == UNION {{v} \X Method(v) : v \in Uobj}
Location ==
    {"uobj", "place", "sentinel", "slot", "relocate", "codegen", "exit", "raised"}

Init ==
    /\ coll \in Collections
    /\ conf \in Configs
    /\ pc = IF coll.uobjs = <<>> THEN "sentinel" ELSE "uobj"
    /\ pass = 1 /\ u = 1 /\ i = 1
    /\ next = conf.load
    /\ parsed = {} /\ inited = {}
    /\ load = [v \in Uobj |-> 0]
    /\ size = [v \in Uobj |-> conf.uobjSize]
    /\ map = [v \in Uobj |-> <<>>]
    /\ methodAddr = [m \in MethodId |-> 0]
    /\ collMap = <<>> /\ collSize = 0
    /\ generated = {}

\* Uobj sections are rounded up to the alignment; sentinels are too, and get a
\* whole alignment more if there is nothing to round.
Pad(n, a) == IF (n % a) > 0 THEN a - (n % a) ELSE 0
PadAlways(n, a) == a - (n % a)

---------------------------------------------------------------------------
(* one uobj: initialize, consolidate_sections_with_memory_map *)

\* add_default_uobj_binary_sections: one for the state save area, one for each
\* public method, then 12 others; after these the sections of the manifest.
DefaultSections(v) == [k \in 1 .. 13 + coll.uobjs[v].methods |-> conf.defaultSize]
Sections(v) ==
    (IF v \in inited THEN DefaultSections(v) ELSE <<>>)
        \o (IF v \in parsed THEN coll.uobjs[v].sections ELSE <<>>)
ForMethod(v, k) == v \in inited /\ k - 1 \in Method(v)

\* Clear the list and start at the load address.
StartMap(v, address) ==
    /\ load' = [load EXCEPT ![v] = address]
    /\ map' = [map EXCEPT ![v] = <<>>]
    /\ next' = address
    /\ i' = 1
    /\ pc' = "place"
    /\ UNCHANGED <<input, pass, u, size, methodAddr, collVars>>

\* The next uobj, or what follows the last one.
Advance ==
    /\ IF u + 1 \in Uobj
       THEN u' = u + 1 /\ pc' = IF pass = 1 THEN "uobj" ELSE "relocate"
       ELSE u' = 1 /\ pc' = IF pass = 1 THEN "sentinel" ELSE "codegen"
    /\ i' = 1
    /\ next' = conf.load
    /\ UNCHANGED <<input, pass, parsed, inited, load, methodAddr, collVars>>

Initialize ==
    /\ pc = "uobj"
    /\ parsed' = parsed \cup {u}
    /\ inited' = inited \cup {u}
    /\ StartMap(u, 0)

\* A manifest is not read: the uobj is left as it is, and nobody notices.
InitializeFails ==
    /\ pc = "uobj"
    /\ parsed' \in {parsed, parsed \cup {u}}
    /\ IF u + 1 \in Uobj THEN u' = u + 1 /\ UNCHANGED pc
       ELSE u' = 1 /\ pc' = "sentinel"
    /\ i' = 1 /\ next' = conf.load
    /\ UNCHANGED <<input, pass, inited, load, size, map, methodAddr, collVars>>

Place(length) ==
    /\ pc = "place"
    /\ i <= Len(Sections(u))
    /\ map' = [map EXCEPT ![u] = Append(@, [start |-> next, size |-> length])]
    /\ next' = next + length
    /\ i' = i + 1
    /\ UNCHANGED <<input, pc, pass, u, parsed, inited, load, size, collVars>>

\* Mutant of PlaceSection: the address of a public method is recorded once.
PlaceSectionOnce ==
    LET n == Sections(u)[i] IN
    /\ Place(n + Pad(n, conf.sectionAlign))
    /\ IF ForMethod(u, i) /\ pass = 1
       THEN methodAddr' = [methodAddr EXCEPT ![<<u, i - 1>>] = next]
       ELSE UNCHANGED methodAddr

PlaceSection ==
    LET n == Sections(u)[i] IN
    /\ Place(n + Pad(n, conf.sectionAlign))
    /\ IF ForMethod(u, i)
       THEN methodAddr' = [methodAddr EXCEPT ![<<u, i - 1>>] = next]
       ELSE UNCHANGED methodAddr

AllPlaced == pc = "place" /\ i > Len(Sections(u))

\* Mutant of FillUniform: sections beyond the size of the uobj are accepted.
FillUniformUnchecked ==
    LET total == next - load[u] IN
    /\ AllPlaced
    /\ conf.uniform
    /\ map' = [map EXCEPT ![u] = Append(@, [start |-> next, size |-> size[u] - total])]
    /\ Advance
    /\ UNCHANGED size

\* Uniform size: fill what is left of it, or give up.
FillUniform ==
    LET total == next - load[u] IN
    /\ AllPlaced
    /\ conf.uniform
    /\ IF total > size[u]
       THEN /\ pc' = "exit"
            /\ UNCHANGED <<input, pass, u, i, next, parsed, inited, load, map,
                           methodAddr, collVars>>
       ELSE /\ map' = IF total < size[u]
                      THEN [map EXCEPT ![u] = Append(@, [start |-> next,
                                                         size |-> size[u] - total])]
                      ELSE map
            /\ Advance
    /\ UNCHANGED size

\* Mutant of PadAndResize: the size is taken from address 0 on.
PadAndResizeFromZero ==
    LET padding == Pad(next, conf.uobjAlign) IN
    /\ AllPlaced
    /\ ~conf.uniform
    /\ IF padding > 0
       THEN /\ map' = [map EXCEPT ![u] = Append(@, [start |-> next, size |-> padding])]
            /\ size' = [size EXCEPT ![u] = next + padding]
       ELSE UNCHANGED <<map, size>>
    /\ Advance

\* Otherwise pad to the alignment of uobjs and set the size -- but only if
\* there is something to pad.
PadAndResize ==
    LET padding == Pad(next, conf.uobjAlign) IN
    /\ AllPlaced
    /\ ~conf.uniform
    /\ IF padding > 0
       THEN /\ map' = [map EXCEPT ![u] = Append(@, [start |-> next, size |-> padding])]
            /\ size' = [size EXCEPT ![u] = next + padding - load[u]]
       ELSE UNCHANGED <<map, size>>
    /\ Advance

---------------------------------------------------------------------------
(* the collection: consolidate_sections_with_memory_map *)

\* One sentinel for each public method and type that the collection exposes,
\* and one for each method of each of its uobjs and each type between uobjs.
Exposed ==
    {[facet |-> "inter", uobj |-> e.uobj, method |-> e.method, type |-> e.type] :
        e \in coll.exposed}
Intra ==
    UNION {[facet : {"intra"}, uobj : {v}, method : Method(v), type : coll.intra] :
              v \in parsed}
UobjKey(v) == [facet |-> "uobj", name |-> coll.uobjs[v].name]
Placed(key) == \E k \in DOMAIN collMap : collMap[k].key = key

AddSection(key, length) ==
    /\ collMap' = Append(collMap, [key |-> key, start |-> next, size |-> length])
    /\ next' = next + length
    /\ UNCHANGED <<input, pass, parsed, inited, load, size, map, methodAddr,
                   collSize, generated>>

\* Mutant of PlaceSentinel: the next section follows the code, not its padding.
PlaceSentinelUnpadded ==
    /\ pc = "sentinel"
    /\ \E s \in Exposed \cup Intra :
        LET n == CodeSize[<<s.facet, s.type>>] IN
        /\ ~Placed(s)
        /\ collMap' = Append(collMap, [key |-> s, start |-> next,
                                       size |-> n + PadAlways(n, conf.collAlign)])
        /\ next' = next + n
    /\ UNCHANGED <<input, pc, pass, u, i, parsed, inited, load, size, map,
                   methodAddr, collSize, generated>>

PlaceSentinel ==
    /\ pc = "sentinel"
    /\ \E s \in Exposed \cup Intra :
        LET n == CodeSize[<<s.facet, s.type>>] IN
        /\ ~Placed(s)
        /\ s \in Intra => \A e \in Exposed : Placed(e)
        /\ AddSection(s, n + PadAlways(n, conf.collAlign))
    /\ UNCHANGED <<pc, u, i>>

\* After the sentinels, the uobjs, by the sizes they have.
PlaceUobj ==
    /\ pc \in {"sentinel", "slot"}
    /\ \A s \in Exposed \cup Intra : Placed(s)
    /\ u \in Uobj
    /\ AddSection(UobjKey(u), size[u])
    /\ u' = u + 1
    /\ pc' = "slot"
    /\ UNCHANGED i

FinishCollection ==
    /\ pc \in {"sentinel", "slot"}
    /\ \A s \in Exposed \cup Intra : Placed(s)
    /\ u \notin Uobj
    /\ collSize' = next - conf.load
    /\ pass' = 2
    /\ u' = 1
    /\ pc' = IF Uobj = {} THEN "codegen" ELSE "relocate"
    /\ UNCHANGED <<input, i, next, parsed, inited, load, size, map, methodAddr,
                   collMap, generated>>

\* List.assoc: the first section of that name.
SectionOf(key) ==
    collMap[CHOOSE k \in DOMAIN collMap :
                /\ collMap[k].key = key
                /\ \A j \in 1 .. k - 1 : collMap[j].key # key]

\* compute_uobjs_section_memory_map_within_uobjinfo_list
Relocate ==
    /\ pc = "relocate"
    /\ StartMap(u, SectionOf(UobjKey(u)).start)
    /\ UNCHANGED <<parsed, inited>>

\* The addresses of a sentinel and of its method go into its code, which comes
\* from the table of exposed sentinels for both facets.
Known(s) ==
    /\ s.uobj \in parsed /\ s.method \in Method(s.uobj)
    /\ s.type \in {e.type : e \in Exposed}
Generate ==
    /\ pc = "codegen"
    /\ \E s \in Exposed \cup Intra :
        /\ Known(s)
        /\ generated' = generated \cup
            {[sentinel |-> s, code |-> "inter", addr |-> SectionOf(s).start,
              methodAddr |-> methodAddr[<<s.uobj, s.method>>]]}
    /\ UNCHANGED <<input, pc, pass, u, i, next, parsed, inited, load, size, map,
                   methodAddr, collMap, collSize>>

\* Not_found: no such method, or no exposed sentinel of that type.
GenerateRaises ==
    /\ pc = "codegen"
    /\ \E s \in Exposed \cup Intra : ~Known(s)
    /\ pc' = "raised"
    /\ UNCHANGED <<input, pass, u, i, next, parsed, inited, load, size, map,
                   methodAddr, collVars>>

Next ==
    \/ Initialize \/ InitializeFails
    \/ PlaceSection \/ FillUniform \/ PadAndResize
    \/ PlaceSentinel \/ PlaceUobj \/ FinishCollection
    \/ Relocate \/ Generate \/ GenerateRaises

Spec == Init /\ [][Next]_vars

---------------------------------------------------------------------------
(* Properties *)

Section == [start : Nat, size : Nat]
SentinelKey == [facet : Facet, uobj : Nat, method : Nat, type : Type]
Key == SentinelKey \cup [facet : {"uobj"}, name : Name]

InputOK == coll \in Collection /\ conf \in Config
PositionOK ==
    /\ pc \in Location /\ pass \in {1, 2}
    /\ u \in Nat \ {0} /\ i \in Nat \ {0} /\ next \in Nat
UobjsOK ==
    /\ parsed \subseteq Uobj /\ inited \subseteq parsed
    /\ load \in [Uobj -> Nat] /\ size \in [Uobj -> Nat]
    /\ map \in [Uobj -> Seq(Section)]
    /\ methodAddr \in [MethodId -> Nat]
CollOK ==
    /\ collMap \in Seq([key : Key, start : Nat, size : Nat])
    /\ collSize \in Nat
    /\ generated \subseteq [sentinel : SentinelKey, code : Facet, addr : Nat,
                            methodAddr : Nat]

\* Addresses and sizes never become negative, and every lookup finds something.
TypeOK == InputOK /\ PositionOK /\ UobjsOK /\ CollOK

End(s) == s.start + s.size
Before(s, t) == End(s) <= t.start

\* The sections of the collection lie one behind the other, whatever order the
\* sentinels come in, and inside the memory that the linker script gives it.
CollectionDisjoint ==
    /\ \A j, k \in DOMAIN collMap : j < k => Before(collMap[j], collMap[k])
    /\ \A k \in DOMAIN collMap :
        /\ conf.load <= collMap[k].start
        /\ pass = 2 => End(collMap[k]) <= conf.load + collSize

\* The configuration's alignments fit together, and no two uobjs share a name.
Harmonious ==
    /\ conf.load % conf.uobjAlign = 0
    /\ conf.collAlign % conf.uobjAlign = 0
    /\ conf.uobjSize % conf.uobjAlign = 0
    /\ \A v, w \in Uobj : coll.uobjs[v].name = coll.uobjs[w].name => v = w

\* The sums of the sizes of sections after rounding, and what a uobj needs.
RoundedSums(s, a) ==
    LET sum[k \in 0 .. Len(s)] == IF k = 0 THEN 0 ELSE sum[k - 1] + s[k] + Pad(s[k], a)
    IN  sum
Total(v) == RoundedSums(Sections(v), conf.sectionAlign)[Len(Sections(v))]
\* Its size is what its sections need.
Sized(v) == v \in inited /\ (conf.uniform \/ (Total(v) % conf.uobjAlign) > 0)

\* When all is placed, every uobj fills the very section that the collection
\* reserved for it before it knew the address: its size, computed at address 0,
\* did not change at the final address, and so no two uobjs overlap.
UobjsFillTheirSections ==
    pc = "codegen" /\ Harmonious /\ (\A v \in Uobj : Sized(v)) =>
        \A v \in Uobj :
            LET s == SectionOf(UobjKey(v)) IN
            /\ map[v][1].start = s.start
            /\ End(map[v][Len(map[v])]) = End(s)
            /\ size[v] = s.size

\* Every sentinel that is generated enters its public method where the method
\* is in the end: behind the state save area and the methods before it, in the
\* section of its uobj.
SentinelsEnterMethods ==
    \A g \in generated :
        LET s == g.sentinel
            slot == SectionOf(UobjKey(s.uobj))
            length == conf.defaultSize + Pad(conf.defaultSize, conf.sectionAlign)
        IN  s.uobj \in inited => g.methodAddr = slot.start + s.method * length

(* What the source says, and the code does not do *)

\* uberspark_uobj.ml: "uobj binary image size; will be overwritten with actual
\* size using alignment if uniform_size=false"
SizeIsActualSize ==
    pc = "codegen" /\ ~conf.uniform => \A v \in inited : size[v] >= Total(v)

=============================================================================
