------------------------ MODULE UobjcollLayoutProofs ------------------------
(***************************************************************************)
(* Proofs about UobjcollLayout for every collection and configuration:     *)
(* type correctness -- no address or size ever becomes negative, no lookup *)
(* of a placed section fails -- that the sections of the collection are    *)
(* disjoint and inside the memory reserved for it, and that what is laid   *)
(* out twice, at 0 and at the final addresses, agrees.                     *)
(***************************************************************************)
EXTENDS UobjcollLayout, TLAPS

\* Where the layout is.
Cursor ==
    /\ pc \in {"uobj", "place", "relocate"} => u \in Uobj
    /\ pc \in {"uobj", "sentinel", "slot"} => pass = 1
    /\ pc \in {"relocate", "codegen", "raised"} => pass = 2
    /\ pc = "place" => load[u] <= next
    /\ pc \in {"sentinel", "slot"} => conf.load <= next
    /\ pc = "sentinel" => u = 1

\* What has a section already, and that the section that a lookup finds, the
\* first one of its key, exists.
First(key, k) ==
    /\ k \in DOMAIN collMap
    /\ collMap[k].key = key
    /\ \A j \in 1 .. k - 1 : collMap[j].key # key
AllFound ==
    \A k \in DOMAIN collMap : \E j \in DOMAIN collMap : First(collMap[k].key, j)
Reserved ==
    /\ AllFound
    /\ pc \in {"sentinel", "slot"} =>
        \A v \in Uobj : v < u => Placed(UobjKey(v))
    /\ pass = 2 => \A v \in Uobj : Placed(UobjKey(v))
    /\ pass = 2 => \A s \in Exposed \cup Intra : Placed(s)

\* All sections end before the next one starts.
Frontier ==
    /\ pc \in {"sentinel", "slot"} => \A k \in DOMAIN collMap : End(collMap[k]) <= next
    /\ pass = 1 /\ pc \notin {"sentinel", "slot"} => collMap = <<>>

IInv == TypeOK /\ Cursor /\ Reserved /\ Frontier /\ CollectionDisjoint

---------------------------------------------------------------------------
(* Lemmas about the operators *)

\* Padding is never negative.
LEMMA PadNat ==
    ASSUME NEW n \in Nat, NEW a \in Nat \ {0}
    PROVE  Pad(n, a) \in Nat /\ PadAlways(n, a) \in Nat
<1>1. (n % a) \in Nat /\ (n % a) < a
  OBVIOUS
<1>2. QED  BY <1>1 DEF Pad, PadAlways

\* An element of a sequence.
LEMMA SeqElement ==
    ASSUME NEW S, NEW s \in Seq(S), NEW k \in DOMAIN s
    PROVE  s[k] \in S
OBVIOUS

\* The input is of its type.
LEMMA Input == TypeOK => coll \in Collection /\ conf \in Config
BY DEF TypeOK, InputOK

\* The fields of a configuration.
LEMMA ConfigFields ==
    ASSUME conf \in Config
    PROVE  /\ conf.sectionAlign \in Nat \ {0} /\ conf.uobjAlign \in Nat \ {0}
           /\ conf.collAlign \in Nat \ {0}
           /\ conf.defaultSize \in Nat /\ conf.uobjSize \in Nat
           /\ conf.load \in Nat
BY DEF Config

\* The fields of a collection.
LEMMA CollectionFields ==
    ASSUME coll \in Collection
    PROVE  /\ Uobj = 1 .. Len(coll.uobjs) /\ Len(coll.uobjs) \in Nat
           /\ \A v \in Uobj : /\ coll.uobjs[v].name \in Name
                              /\ coll.uobjs[v].methods \in Nat
                              /\ coll.uobjs[v].sections \in Seq(Nat)
           /\ coll.exposed \subseteq [uobj : Nat, method : Nat, type : Type]
           /\ coll.intra \subseteq Type
<1> DEFINE Each == [name : Name, methods : Nat, sections : Seq(Nat)]
<1>1. coll.uobjs \in Seq(Each)
  BY DEF Collection
<1>2. Uobj = 1 .. Len(coll.uobjs) /\ Len(coll.uobjs) \in Nat
  BY <1>1 DEF Uobj
<1>3. \A v \in Uobj : coll.uobjs[v] \in Each
  <2> HIDE DEF Each
  <2> QED  BY <1>1, SeqElement DEF Uobj
<1>4. \A v \in Uobj : /\ coll.uobjs[v].name \in Name
                      /\ coll.uobjs[v].methods \in Nat
                      /\ coll.uobjs[v].sections \in Seq(Nat)
  BY <1>3
<1>5. /\ coll.exposed \subseteq [uobj : Nat, method : Nat, type : Type]
      /\ coll.intra \subseteq Type
  BY DEF Collection
<1>6. QED  BY <1>2, <1>4, <1>5

\* What sections a uobj has: natural sizes.
LEMMA SectionsSeq ==
    ASSUME TypeOK, NEW v \in Uobj
    PROVE  Sections(v) \in Seq(Nat)
<1>1. DefaultSections(v) \in Seq(Nat)
  <2>1. conf.defaultSize \in Nat /\ 13 + coll.uobjs[v].methods \in Nat
    BY ConfigFields, CollectionFields, Input
  <2>2. QED  BY <2>1 DEF DefaultSections
<1>2. coll.uobjs[v].sections \in Seq(Nat)
  BY CollectionFields, Input
<1>3. QED  BY <1>1, <1>2 DEF Sections

\* Sentinels are keys, with sizes.
LEMMA SentinelKeys ==
    ASSUME TypeOK
    PROVE  /\ Exposed \cup Intra \subseteq SentinelKey
           /\ \A s \in Exposed \cup Intra : CodeSize[<<s.facet, s.type>>] \in Nat
<1>1. Exposed \subseteq SentinelKey
  BY CollectionFields, Input DEF Exposed, SentinelKey, Facet
<1>2. Intra \subseteq SentinelKey
  <2>1. SUFFICES ASSUME NEW v \in parsed,
                        NEW s \in [facet : {"intra"}, uobj : {v}, method : Method(v),
                                   type : coll.intra]
                 PROVE  s \in SentinelKey
    BY DEF Intra
  <2>2. v \in Uobj
    BY DEF TypeOK, UobjsOK
  <2>3. v \in Nat /\ Method(v) \subseteq Nat /\ coll.intra \subseteq Type
    BY <2>2, CollectionFields, Input DEF Method
  <2>4. QED  BY <2>3 DEF SentinelKey, Facet
<1>3. \A s \in SentinelKey : CodeSize[<<s.facet, s.type>>] \in Nat
  BY LayoutAssumption DEF SentinelKey
<1>4. QED  BY <1>1, <1>2, <1>3

\* A section of the collection.
Entry == [key : Key, start : Nat, size : Nat]
LEMMA Entries ==
    ASSUME TypeOK
    PROVE  /\ collMap \in Seq(Entry)
           /\ DOMAIN collMap = 1 .. Len(collMap)
           /\ \A k \in DOMAIN collMap :
                /\ collMap[k] \in Entry
                /\ collMap[k].start \in Nat /\ collMap[k].size \in Nat
<1>1. collMap \in Seq(Entry)
  BY DEF TypeOK, CollOK, Entry
<1>2. \A k \in DOMAIN collMap : collMap[k] \in Entry
  BY <1>1, SeqElement
<1>3. QED  BY <1>1, <1>2 DEF Entry

\* A lookup of a placed section answers a section.
LEMMA Lookup ==
    ASSUME IInv, NEW key, Placed(key)
    PROVE  /\ SectionOf(key) \in Entry
           /\ \E k \in DOMAIN collMap : SectionOf(key) = collMap[k]
<1>1. PICK k \in DOMAIN collMap : First(key, k)
  BY DEF IInv, Reserved, AllFound, Placed
<1>2. PICK j : j = CHOOSE n \in DOMAIN collMap :
                 /\ collMap[n].key = key
                 /\ \A m \in 1 .. n - 1 : collMap[m].key # key
  OBVIOUS
<1>3. j \in DOMAIN collMap
  BY <1>1, <1>2 DEF First
<1>4. SectionOf(key) = collMap[j]
  BY <1>2 DEF SectionOf
<1>5. QED  BY <1>3, <1>4, Entries DEF IInv

---------------------------------------------------------------------------
(* The invariant holds initially *)

LEMMA InitIInv == Init => IInv
<1> SUFFICES ASSUME Init PROVE IInv
  OBVIOUS
<1>1. coll \in Collection /\ conf \in Config
  BY LayoutAssumption DEF Init
<1>2. conf.load \in Nat /\ conf.uobjSize \in Nat
  BY <1>1, ConfigFields
<1>3. Uobj = 1 .. Len(coll.uobjs) /\ Len(coll.uobjs) \in Nat
  BY <1>1, CollectionFields
<1>4. coll.uobjs = <<>> \/ 1 \in Uobj
  <2>1. coll.uobjs \in Seq([name : Name, methods : Nat, sections : Seq(Nat)])
    BY <1>1 DEF Collection
  <2>2. Len(coll.uobjs) = 0 => coll.uobjs = <<>>
    BY <2>1
  <2>3. QED  BY <2>2, <1>3
<1>5. TypeOK
  BY <1>1, <1>2, <1>3 DEF Init, TypeOK, InputOK, PositionOK, UobjsOK, CollOK, Location
<1>6. Cursor
  BY <1>2, <1>4 DEF Init, Cursor
<1>7. Reserved
  BY <1>3 DEF Init, Reserved, AllFound
<1>8. Frontier /\ CollectionDisjoint
  BY DEF Init, Frontier, CollectionDisjoint
<1>9. QED  BY <1>5, <1>6, <1>7, <1>8 DEF IInv

---------------------------------------------------------------------------
(* Type correctness is preserved *)

\* The input does not change, and with it the operators that depend on it.
LEMMA SameInput ==
    ASSUME Next
    PROVE  /\ coll' = coll /\ conf' = conf
           /\ Uobj' = Uobj /\ MethodId' = MethodId
           /\ \A v : UobjKey(v)' = UobjKey(v)
           /\ Exposed' = Exposed
           /\ InputOK => InputOK'
<1>1. coll' = coll /\ conf' = conf
  BY DEF Next, Initialize, InitializeFails, PlaceSection, Place, FillUniform,
         PadAndResize, PlaceSentinel, PlaceUobj, FinishCollection, Relocate, Generate,
         GenerateRaises, StartMap, Advance, AddSection, input
<1>2. QED  BY <1>1 DEF Uobj, MethodId, Method, UobjKey, Exposed, InputOK

\* An action that leaves the sections of the collection alone.
LEMMA SameColl ==
    ASSUME CollOK, UNCHANGED <<collMap, collSize, generated>>
    PROVE  CollOK'
BY DEF CollOK

\* The next section, or the next uobj, is one.
LEMMA PositionAdvance ==
    ASSUME TypeOK, Advance
    PROVE  PositionOK'
<1>1. conf.load \in Nat
  BY ConfigFields, Input
<1>2. QED  BY <1>1 DEF TypeOK, PositionOK, Advance, Location

LEMMA TypeUobj ==
    ASSUME IInv, Initialize \/ InitializeFails, Next
    PROVE  TypeOK'
<1>1. TypeOK /\ u \in Uobj /\ conf.load \in Nat
  BY ConfigFields, Input DEF IInv, Cursor, Initialize, InitializeFails
<1>2. UobjsOK'
  <2>1. CASE Initialize
    <3>1. /\ parsed' = parsed \cup {u} /\ inited' = inited \cup {u}
          /\ load' = [load EXCEPT ![u] = 0] /\ map' = [map EXCEPT ![u] = <<>>]
          /\ size' = size /\ methodAddr' = methodAddr
      BY <2>1 DEF Initialize, StartMap
    <3>2. load' \in [Uobj -> Nat] /\ map' \in [Uobj -> Seq(Section)]
      <4>1. <<>> \in Seq(Section)
        OBVIOUS
      <4>2. load \in [Uobj -> Nat] /\ map \in [Uobj -> Seq(Section)]
        BY <1>1 DEF TypeOK, UobjsOK
      <4>3. QED  BY <3>1, <4>1, <4>2
    <3>3. parsed' \subseteq Uobj /\ inited' \subseteq parsed'
      BY <1>1, <3>1 DEF TypeOK, UobjsOK
    <3>4. QED  BY <1>1, <3>1, <3>2, <3>3, SameInput DEF TypeOK, UobjsOK
  <2>2. CASE InitializeFails
    BY <1>1, <2>2, SameInput DEF TypeOK, UobjsOK, InitializeFails
  <2>3. QED  BY <2>1, <2>2
<1>3. PositionOK'
  BY <1>1 DEF TypeOK, PositionOK, Initialize, InitializeFails, StartMap, Location
<1>4. CollOK'
  BY <1>1, SameColl DEF TypeOK, Initialize, InitializeFails, StartMap, collVars
<1>5. QED  BY <1>1, <1>2, <1>3, <1>4, SameInput DEF TypeOK

\* What an action appends to the list of a uobj are sections.
LEMMA AppendMap ==
    ASSUME TypeOK, u \in Uobj, NEW length \in Nat,
           map' = [map EXCEPT ![u] = Append(@, [start |-> next, size |-> length])]
    PROVE  map' \in [Uobj -> Seq(Section)]
<1>1. map \in [Uobj -> Seq(Section)] /\ map[u] \in Seq(Section) /\ next \in Nat
  BY DEF TypeOK, UobjsOK, PositionOK
<1>2. [start |-> next, size |-> length] \in Section
  BY <1>1 DEF Section
<1>3. Append(map[u], [start |-> next, size |-> length]) \in Seq(Section)
  BY <1>1, <1>2
<1>4. QED  BY <1>1, <1>3

LEMMA TypePlaceSection ==
    ASSUME IInv, PlaceSection, Next
    PROVE  TypeOK'
<1> DEFINE n == Sections(u)[i]
           length == n + Pad(n, conf.sectionAlign)
<1>1. TypeOK /\ u \in Uobj /\ next \in Nat /\ i \in Nat \ {0}
  BY DEF IInv, Cursor, PlaceSection, Place, TypeOK, PositionOK
<1>2. n \in Nat
  <2>1. Sections(u) \in Seq(Nat)
    BY <1>1, SectionsSeq
  <2>2. i \in DOMAIN Sections(u)
    BY <1>1, <2>1 DEF PlaceSection, Place
  <2>3. QED  BY <2>1, <2>2, SeqElement
<1>3. length \in Nat
  <2>1. Pad(n, conf.sectionAlign) \in Nat
    BY <1>1, <1>2, PadNat, ConfigFields, Input
  <2>2. QED  BY <1>2, <2>1
<1>4. Place(length) /\ (IF ForMethod(u, i)
                        THEN methodAddr' = [methodAddr EXCEPT ![<<u, i - 1>>] = next]
                        ELSE UNCHANGED methodAddr)
  BY DEF PlaceSection
<1> HIDE DEF length
<1>5. map' \in [Uobj -> Seq(Section)]
  BY <1>1, <1>3, <1>4, AppendMap DEF Place
<1>6. methodAddr' \in [MethodId -> Nat]
  BY <1>1, <1>4 DEF TypeOK, UobjsOK
<1>7. UobjsOK'
  BY <1>1, <1>4, <1>5, <1>6, SameInput DEF TypeOK, UobjsOK, Place
<1>8. PositionOK'
  BY <1>1, <1>3, <1>4 DEF TypeOK, PositionOK, Place
<1>9. QED
  BY <1>1, <1>4, <1>7, <1>8, SameInput, SameColl DEF TypeOK, Place, collVars

LEMMA TypeFinish ==
    ASSUME IInv, FillUniform \/ PadAndResize, Next
    PROVE  TypeOK'
<1>1. TypeOK /\ u \in Uobj /\ load[u] <= next
  BY DEF IInv, Cursor, FillUniform, PadAndResize, AllPlaced
<1>2. /\ load \in [Uobj -> Nat] /\ size \in [Uobj -> Nat] /\ map \in [Uobj -> Seq(Section)]
      /\ load[u] \in Nat /\ size[u] \in Nat /\ next \in Nat
  BY <1>1 DEF TypeOK, UobjsOK, PositionOK
<1>3. CollOK' /\ UNCHANGED <<parsed, inited, load, methodAddr>>
  BY <1>1, SameColl DEF TypeOK, FillUniform, PadAndResize, Advance, collVars
<1>4. PositionOK'
  <2>1. CASE Advance
    BY <1>1, <2>1, PositionAdvance
  <2>2. CASE pc' = "exit" /\ UNCHANGED <<pass, u, i, next>>
    BY <1>1, <2>2 DEF TypeOK, PositionOK, Location
  <2>3. QED  BY <2>1, <2>2 DEF FillUniform, PadAndResize
<1>5. map' \in [Uobj -> Seq(Section)] /\ size' \in [Uobj -> Nat]
  <2>1. CASE FillUniform
    <3> DEFINE rest == size[u] - (next - load[u])
    <3>1. size' = size
      BY <2>1 DEF FillUniform
    <3>2. \/ map' = map
          \/ /\ next - load[u] < size[u]
             /\ map' = [map EXCEPT ![u] = Append(@, [start |-> next, size |-> rest])]
      BY <2>1 DEF FillUniform
    <3>3. next - load[u] < size[u] => rest \in Nat
      BY <1>1, <1>2
    <3> HIDE DEF rest
    <3>4. QED  BY <1>1, <1>2, <3>1, <3>2, <3>3, AppendMap
  <2>2. CASE PadAndResize
    <3> DEFINE padding == Pad(next, conf.uobjAlign)
    <3>1. padding \in Nat
      BY <1>1, <1>2, PadNat, ConfigFields, Input
    <3>2. \/ map' = map /\ size' = size
          \/ /\ map' = [map EXCEPT ![u] = Append(@, [start |-> next, size |-> padding])]
             /\ size' = [size EXCEPT ![u] = next + padding - load[u]]
      BY <2>2 DEF PadAndResize
    <3> HIDE DEF padding
    <3>3. next + padding - load[u] \in Nat
      BY <1>1, <1>2, <3>1
    <3>4. size' \in [Uobj -> Nat]
      BY <1>2, <3>2, <3>3
    <3>5. map' \in [Uobj -> Seq(Section)]
      BY <1>1, <1>2, <3>1, <3>2, AppendMap
    <3>6. QED  BY <3>4, <3>5
  <2>3. QED  BY <2>1, <2>2
<1>6. UobjsOK'
  BY <1>1, <1>3, <1>5, SameInput DEF TypeOK, UobjsOK
<1>7. QED  BY <1>1, <1>3, <1>4, <1>6, SameInput DEF TypeOK

\* A section is appended to the list of the collection.
LEMMA TypeAddSection ==
    ASSUME TypeOK, NEW key \in Key, NEW length \in Nat, AddSection(key, length)
    PROVE  CollOK' /\ next' \in Nat
<1>1. next \in Nat /\ collMap \in Seq(Entry)
  BY Entries DEF TypeOK, PositionOK
<1>2. [key |-> key, start |-> next, size |-> length] \in Entry
  BY <1>1 DEF Entry
<1>3. collMap' \in Seq(Entry)
  BY <1>1, <1>2 DEF AddSection
<1>4. QED  BY <1>1, <1>3 DEF AddSection, TypeOK, CollOK, Entry

LEMMA TypePlaceSentinel ==
    ASSUME IInv, PlaceSentinel, Next
    PROVE  TypeOK'
<1>1. TypeOK
  BY DEF IInv
<1>2. PICK s \in Exposed \cup Intra :
        LET n == CodeSize[<<s.facet, s.type>>] IN
        AddSection(s, n + PadAlways(n, conf.collAlign))
  BY DEF PlaceSentinel
<1> DEFINE n == CodeSize[<<s.facet, s.type>>]
           length == n + PadAlways(n, conf.collAlign)
<1>3. s \in Key
  BY <1>1, SentinelKeys DEF Key
<1>4. length \in Nat
  <2>1. n \in Nat
    BY <1>1, SentinelKeys
  <2>2. PadAlways(n, conf.collAlign) \in Nat
    BY <1>1, <2>1, PadNat, ConfigFields, Input
  <2>3. QED  BY <2>1, <2>2
<1>5. AddSection(s, length)
  BY <1>2
<1> HIDE DEF length
<1>6. CollOK' /\ next' \in Nat
  BY <1>1, <1>3, <1>4, <1>5, TypeAddSection
<1>7. PositionOK' /\ UobjsOK'
  BY <1>1, <1>5, <1>6, SameInput
     DEF TypeOK, PositionOK, UobjsOK, PlaceSentinel, AddSection
<1>8. QED  BY <1>1, <1>6, <1>7, SameInput DEF TypeOK

LEMMA TypePlaceUobj ==
    ASSUME IInv, PlaceUobj, Next
    PROVE  TypeOK'
<1>1. TypeOK /\ u \in Uobj /\ AddSection(UobjKey(u), size[u])
  BY DEF IInv, PlaceUobj
<1>2. UobjKey(u) \in Key /\ size[u] \in Nat
  BY <1>1, CollectionFields, Input DEF UobjKey, Key, TypeOK, UobjsOK
<1>3. CollOK' /\ next' \in Nat
  BY <1>1, <1>2, TypeAddSection
<1>4. PositionOK'
  BY <1>1, <1>3 DEF TypeOK, PositionOK, PlaceUobj, AddSection, Location
<1>5. UobjsOK'
  BY <1>1, SameInput DEF TypeOK, UobjsOK, AddSection
<1>6. QED  BY <1>1, <1>3, <1>4, <1>5, SameInput DEF TypeOK

LEMMA TypeFinishCollection ==
    ASSUME IInv, FinishCollection, Next
    PROVE  TypeOK'
<1>1. TypeOK /\ conf.load \in Nat /\ next \in Nat /\ conf.load <= next
  BY ConfigFields, Input DEF IInv, Cursor, FinishCollection, TypeOK, PositionOK
<1>2. PositionOK' /\ UobjsOK'
  BY <1>1, SameInput DEF TypeOK, PositionOK, UobjsOK, FinishCollection, Location
<1>3. CollOK'
  BY <1>1 DEF TypeOK, CollOK, FinishCollection
<1>4. QED  BY <1>1, <1>2, <1>3, SameInput DEF TypeOK

LEMMA TypeRelocate ==
    ASSUME IInv, Relocate, Next
    PROVE  TypeOK'
<1> DEFINE s == SectionOf(UobjKey(u))
<1>1. TypeOK /\ u \in Uobj /\ pass = 2
  BY DEF IInv, Cursor, Relocate
<1>2. s.start \in Nat
  <2>1. Placed(UobjKey(u))
    BY <1>1 DEF IInv, Reserved
  <2>2. QED  BY <2>1, Lookup DEF Entry
<1>3. StartMap(u, s.start) /\ UNCHANGED <<parsed, inited>>
  BY DEF Relocate
<1> HIDE DEF s
<1>4. PositionOK'
  BY <1>1, <1>2, <1>3 DEF TypeOK, PositionOK, StartMap, Location
<1>5. UobjsOK'
  <2>1. load' \in [Uobj -> Nat] /\ map' \in [Uobj -> Seq(Section)]
    BY <1>1, <1>2, <1>3 DEF TypeOK, UobjsOK, StartMap
  <2>2. QED  BY <1>1, <1>3, <2>1, SameInput DEF TypeOK, UobjsOK, StartMap
<1>6. QED
  BY <1>1, <1>3, <1>4, <1>5, SameInput, SameColl DEF TypeOK, StartMap, collVars

LEMMA TypeGenerate ==
    ASSUME IInv, Generate, Next
    PROVE  TypeOK'
<1>1. TypeOK /\ pass = 2
  BY DEF IInv, Cursor, Generate
<1>2. PICK s \in Exposed \cup Intra :
        /\ Known(s)
        /\ generated' = generated \cup
            {[sentinel |-> s, code |-> "inter", addr |-> SectionOf(s).start,
              methodAddr |-> methodAddr[<<s.uobj, s.method>>]]}
  BY DEF Generate
<1>3. SectionOf(s).start \in Nat
  <2>1. Placed(s)
    BY <1>1 DEF IInv, Reserved
  <2>2. QED  BY <2>1, Lookup DEF Entry
<1>4. methodAddr[<<s.uobj, s.method>>] \in Nat
  <2>1. s.uobj \in Uobj /\ s.method \in Method(s.uobj)
    BY <1>1, <1>2 DEF Known, TypeOK, UobjsOK
  <2>2. <<s.uobj, s.method>> \in MethodId
    BY <2>1 DEF MethodId
  <2>3. QED  BY <1>1, <2>2 DEF TypeOK, UobjsOK
<1>5. s \in SentinelKey
  BY <1>1, SentinelKeys
<1>6. CollOK'
  <2>1. [sentinel |-> s, code |-> "inter", addr |-> SectionOf(s).start,
         methodAddr |-> methodAddr[<<s.uobj, s.method>>]]
           \in [sentinel : SentinelKey, code : Facet, addr : Nat, methodAddr : Nat]
    BY <1>3, <1>4, <1>5 DEF Facet
  <2>2. QED  BY <1>1, <1>2, <2>1 DEF TypeOK, CollOK, Generate
<1>7. PositionOK' /\ UobjsOK'
  BY <1>1, SameInput DEF TypeOK, PositionOK, UobjsOK, Generate
<1>8. QED  BY <1>1, <1>6, <1>7, SameInput DEF TypeOK

LEMMA TypeRaises ==
    ASSUME IInv, GenerateRaises, Next
    PROVE  TypeOK'
<1>1. TypeOK
  BY DEF IInv
<1>2. PositionOK' /\ UobjsOK'
  BY <1>1, SameInput DEF TypeOK, PositionOK, UobjsOK, GenerateRaises, Location
<1>3. QED
  BY <1>1, <1>2, SameInput, SameColl DEF TypeOK, GenerateRaises, collVars

LEMMA TypeStep ==
    ASSUME IInv, Next
    PROVE  TypeOK'
BY TypeUobj, TypePlaceSection, TypeFinish, TypePlaceSentinel, TypePlaceUobj,
   TypeFinishCollection, TypeRelocate, TypeGenerate, TypeRaises DEF Next

---------------------------------------------------------------------------
(* The other parts of the invariant are preserved *)

\* An action of the layout of a uobj or of the sentinels' code leaves the
\* sections of the collection, the pass and what is placed alone.
Outside ==
    Initialize \/ InitializeFails \/ PlaceSection \/ FillUniform \/ PadAndResize
        \/ Relocate \/ Generate \/ GenerateRaises

LEMMA OutsideUnchanged ==
    ASSUME IInv, Next, Outside
    PROVE  /\ collMap' = collMap /\ collSize' = collSize /\ pass' = pass
           /\ pc \notin {"sentinel", "slot"}
           /\ pc' \in {"sentinel", "slot"} =>
                pass = 1 /\ u' = 1 /\ next' = conf.load
           /\ pass = 2 => parsed' = parsed
<1>1. collMap' = collMap /\ collSize' = collSize /\ pass' = pass
  BY DEF Outside, Initialize, InitializeFails, PlaceSection, Place, FillUniform,
         PadAndResize, Relocate, Generate, GenerateRaises, StartMap, Advance, collVars
<1>2. pc \notin {"sentinel", "slot"}
  BY DEF Outside, Initialize, InitializeFails, PlaceSection, Place, FillUniform,
         PadAndResize, AllPlaced, Relocate, Generate, GenerateRaises
<1>3. pc = "uobj" => pass = 1
  BY DEF IInv, Cursor
<1>4. pc' \in {"sentinel", "slot"} => pass = 1 /\ u' = 1 /\ next' = conf.load
  BY <1>2, <1>3
     DEF Outside, Initialize, InitializeFails, PlaceSection, Place, FillUniform,
         PadAndResize, Relocate, Generate, GenerateRaises, StartMap, Advance
<1>5. pass = 2 => parsed' = parsed
  BY <1>3
     DEF Outside, Initialize, InitializeFails, PlaceSection, Place, FillUniform,
         PadAndResize, Relocate, Generate, GenerateRaises, StartMap, Advance
<1>6. QED  BY <1>1, <1>2, <1>4, <1>5

LEMMA CursorStep ==
    ASSUME IInv, Next, TypeOK'
    PROVE  Cursor'
<1>1. TypeOK /\ Cursor /\ conf.load \in Nat /\ next \in Nat /\ u \in Nat /\ pass \in {1, 2}
  BY ConfigFields, Input DEF IInv, TypeOK, PositionOK
<1>2. load \in [Uobj -> Nat]
  BY <1>1 DEF TypeOK, UobjsOK
<1>3. Uobj = {} \/ 1 \in Uobj
  BY <1>1, CollectionFields, Input
<1>4. CASE Initialize
  <2>1. pass' = 1 /\ pc' = "place" /\ u' = u /\ u \in Uobj /\ load'[u] = 0 /\ next' = 0
    BY <1>1, <1>2, <1>4 DEF Initialize, StartMap, Cursor
  <2>2. QED  BY <2>1, SameInput DEF Cursor
<1>5. CASE InitializeFails
  BY <1>1, <1>5, SameInput DEF InitializeFails, Cursor
<1>6. CASE PlaceSection
  <2>1. /\ u' = u /\ u \in Uobj /\ pass' = pass /\ pc' = pc /\ pc = "place"
        /\ load' = load /\ load[u] <= next
    BY <1>1, <1>6 DEF PlaceSection, Place, Cursor
  <2>2. load'[u] \in Nat /\ next <= next'
    <3>1. Sections(u) \in Seq(Nat) /\ i \in Nat \ {0}
      BY <1>1, <2>1, SectionsSeq DEF TypeOK, PositionOK
    <3>2. Sections(u)[i] \in Nat
      <4>1. i \in DOMAIN Sections(u)
        BY <3>1, <1>6 DEF PlaceSection, Place
      <4>2. QED  BY <3>1, <4>1, SeqElement
    <3>3. Pad(Sections(u)[i], conf.sectionAlign) \in Nat
      BY <1>1, <3>2, PadNat, ConfigFields, Input
    <3>4. next' = next + (Sections(u)[i] + Pad(Sections(u)[i], conf.sectionAlign))
      BY <1>6 DEF PlaceSection, Place
    <3>5. QED  BY <1>1, <1>2, <2>1, <3>2, <3>3, <3>4
  <2>3. next' \in Nat
    BY DEF TypeOK, PositionOK
  <2>4. load[u] <= next'
    BY <1>1, <2>1, <2>2, <2>3
  <2>5. QED  BY <2>1, <2>4, SameInput DEF Cursor
<1>7. CASE FillUniform \/ PadAndResize
  <2>1. CASE Advance
    <3>1. pass' = pass /\ next' = conf.load
      BY <2>1 DEF Advance
    <3>2. \/ u + 1 \in Uobj /\ u' = u + 1 /\ pc' = IF pass = 1 THEN "uobj" ELSE "relocate"
          \/ u' = 1 /\ pc' = IF pass = 1 THEN "sentinel" ELSE "codegen"
      BY <2>1 DEF Advance
    <3>3. QED  BY <1>1, <3>1, <3>2, SameInput DEF Cursor
  <2>2. CASE pc' = "exit"
    BY <2>2 DEF Cursor
  <2>3. QED  BY <1>7, <2>1, <2>2 DEF FillUniform, PadAndResize
<1>8. CASE PlaceSentinel
  <2>1. PICK s \in Exposed \cup Intra :
          LET n == CodeSize[<<s.facet, s.type>>] IN
          AddSection(s, n + PadAlways(n, conf.collAlign))
    BY <1>8 DEF PlaceSentinel
  <2>2. CodeSize[<<s.facet, s.type>>] \in Nat
    BY <1>1, SentinelKeys
  <2>3. PadAlways(CodeSize[<<s.facet, s.type>>], conf.collAlign) \in Nat
    BY <1>1, <2>2, PadNat, ConfigFields, Input
  <2>4. next <= next'
    BY <1>1, <2>1, <2>2, <2>3 DEF AddSection
  <2>5. /\ pc = "sentinel" /\ pc' = pc /\ pass' = pass /\ u' = u
    BY <1>8, <2>1 DEF PlaceSentinel, AddSection
  <2>6. next' \in Nat
    BY DEF TypeOK, PositionOK
  <2>7. QED  BY <1>1, <2>4, <2>5, <2>6, SameInput DEF Cursor
<1>9. CASE PlaceUobj
  <2>1. u \in Uobj /\ next' = next + size[u] /\ pass' = pass /\ pc' = "slot"
    BY <1>9 DEF PlaceUobj, AddSection
  <2>2. size[u] \in Nat
    BY <1>1, <2>1 DEF TypeOK, UobjsOK
  <2>3. pass = 1 /\ conf.load <= next
    BY <1>1, <1>9 DEF PlaceUobj, Cursor
  <2>4. conf.load <= next'
    BY <1>1, <2>1, <2>2, <2>3
  <2>5. QED  BY <2>1, <2>3, <2>4, SameInput DEF Cursor
<1>10. CASE FinishCollection
  BY <1>3, <1>10, SameInput DEF FinishCollection, Cursor
<1>11. CASE Relocate
  <2>1. /\ pass' = pass /\ pc' = "place" /\ u' = u /\ u \in Uobj
        /\ load'[u] = next' /\ pass = 2
    BY <1>1, <1>2, <1>11 DEF Relocate, StartMap, Cursor
  <2>2. next' \in Nat
    BY DEF TypeOK, PositionOK
  <2>3. QED  BY <2>1, <2>2, SameInput DEF Cursor
<1>12. CASE Generate \/ GenerateRaises
  BY <1>1, <1>12, SameInput DEF Generate, GenerateRaises, Cursor
<1>13. QED
  BY <1>4, <1>5, <1>6, <1>7, <1>8, <1>9, <1>10, <1>11, <1>12 DEF Next

\* A section appended to the list of the collection: the others stay what and
\* where they were, and what was placed stays placed.
LEMMA Appended ==
    ASSUME IInv, TypeOK', NEW key, NEW length \in Nat, AddSection(key, length)
    PROVE  /\ Len(collMap') = Len(collMap) + 1
           /\ DOMAIN collMap' = 1 .. Len(collMap) + 1
           /\ \A k \in DOMAIN collMap : collMap'[k] = collMap[k]
           /\ collMap'[Len(collMap) + 1] = [key |-> key, start |-> next, size |-> length]
           /\ next' = next + length
           /\ \A other : Placed(other) => Placed(other)'
           /\ Placed(key)'
           /\ AllFound'
<1>1. TypeOK /\ Reserved
  BY DEF IInv
<1>2. collMap' = Append(collMap, [key |-> key, start |-> next, size |-> length])
      /\ next' = next + length
  BY DEF AddSection
<1>3. collMap \in Seq(Entry) /\ DOMAIN collMap = 1 .. Len(collMap) /\ Len(collMap) \in Nat
  BY <1>1, Entries
<1>4. /\ Len(collMap') = Len(collMap) + 1
      /\ DOMAIN collMap' = 1 .. Len(collMap) + 1
      /\ \A k \in DOMAIN collMap : collMap'[k] = collMap[k]
      /\ collMap'[Len(collMap) + 1] = [key |-> key, start |-> next, size |-> length]
  <2>1. DOMAIN collMap' = 1 .. Len(collMap') /\ collMap' \in Seq(Entry')
    BY Entries DEF TypeOK, CollOK, Entry
  <2>2. Len(collMap') = Len(collMap) + 1
    BY <1>2, <1>3
  <2>3. \A k \in 1 .. Len(collMap) : collMap'[k] = collMap[k]
    BY <1>2, <1>3
  <2>4. collMap'[Len(collMap) + 1] = [key |-> key, start |-> next, size |-> length]
    BY <1>2, <1>3
  <2>5. QED  BY <1>3, <2>1, <2>2, <2>3, <2>4
<1>5. \A other : Placed(other) => Placed(other)'
  BY <1>3, <1>4 DEF Placed
<1>6. Placed(key)'
  BY <1>3, <1>4 DEF Placed
<1> DEFINE FirstOf(k, j) == /\ collMap'[j].key = collMap'[k].key
                            /\ \A m \in 1 .. j - 1 : collMap'[m].key # collMap'[k].key
<1>7. ASSUME NEW k \in DOMAIN collMap', NEW j, First(collMap'[k].key, j)
      PROVE  j \in DOMAIN collMap' /\ FirstOf(k, j)
  <2>1. /\ j \in DOMAIN collMap /\ collMap[j].key = collMap'[k].key
        /\ \A m \in 1 .. j - 1 : collMap[m].key # collMap'[k].key
    BY <1>7 DEF First
  <2>2. \A m \in 1 .. j - 1 : m \in DOMAIN collMap
    BY <1>3, <2>1
  <2>3. QED  BY <1>3, <1>4, <2>1, <2>2
<1>8. ASSUME NEW k \in DOMAIN collMap'
      PROVE  \E j \in DOMAIN collMap' : FirstOf(k, j)
  <2>1. CASE k \in DOMAIN collMap
    <3>1. PICK j \in DOMAIN collMap : First(collMap[k].key, j)
      BY <1>1, <2>1 DEF Reserved, AllFound
    <3>2. First(collMap'[k].key, j)
      BY <1>4, <2>1, <3>1
    <3>3. QED  BY <1>7, <3>2
  <2>2. CASE k = Len(collMap) + 1 /\ Placed(key)
    <3>1. PICK m \in DOMAIN collMap : collMap[m].key = key
      BY <2>2 DEF Placed
    <3>2. PICK j \in DOMAIN collMap : First(collMap[m].key, j)
      BY <1>1 DEF Reserved, AllFound
    <3>3. collMap'[k].key = key
      BY <1>4, <2>2
    <3>4. First(collMap'[k].key, j)
      BY <3>1, <3>2, <3>3
    <3>5. QED  BY <1>7, <3>4
  <2>3. CASE k = Len(collMap) + 1 /\ ~Placed(key)
    <3>1. collMap'[k].key = key
      BY <1>4, <2>3
    <3>2. \A m \in 1 .. k - 1 : m \in DOMAIN collMap /\ collMap'[m].key # key
      BY <1>3, <1>4, <2>3 DEF Placed
    <3>3. QED  BY <3>1, <3>2
  <2>4. QED  BY <1>3, <1>4, <2>1, <2>2, <2>3
<1>9. AllFound'
  BY <1>8 DEF AllFound, First
<1>10. QED  BY <1>2, <1>4, <1>5, <1>6, <1>9

\* What PlaceSentinel and PlaceUobj add.
LEMMA AddsSection ==
    ASSUME IInv, PlaceSentinel \/ PlaceUobj
    PROVE  \E key : \E length \in Nat : AddSection(key, length)
<1>1. TypeOK
  BY DEF IInv
<1>2. CASE PlaceUobj
  <2>1. u \in Uobj /\ AddSection(UobjKey(u), size[u])
    BY <1>2 DEF PlaceUobj
  <2>2. size[u] \in Nat
    BY <1>1, <2>1 DEF TypeOK, UobjsOK
  <2>3. QED  BY <2>1, <2>2
<1>3. CASE PlaceSentinel
  <2>1. PICK s \in Exposed \cup Intra :
          LET n == CodeSize[<<s.facet, s.type>>] IN
          AddSection(s, n + PadAlways(n, conf.collAlign))
    BY <1>3 DEF PlaceSentinel
  <2> DEFINE n == CodeSize[<<s.facet, s.type>>]
             length == n + PadAlways(n, conf.collAlign)
  <2>2. n \in Nat
    BY <1>1, SentinelKeys
  <2>3. PadAlways(n, conf.collAlign) \in Nat
    BY <1>1, <2>2, PadNat, ConfigFields, Input
  <2>4. length \in Nat /\ AddSection(s, length)
    BY <2>1, <2>2, <2>3
  <2> HIDE DEF length
  <2>5. QED  BY <2>4
<1>4. QED  BY <1>2, <1>3

\* The actions that change the sections of the collection.
LEMMA ThreeGroups ==
    ASSUME Next
    PROVE  Outside \/ (PlaceSentinel \/ PlaceUobj) \/ FinishCollection
BY DEF Next, Outside

LEMMA ReservedStep ==
    ASSUME IInv, Next, TypeOK'
    PROVE  Reserved'
<1>1. TypeOK /\ Cursor /\ Reserved /\ Frontier
  BY DEF IInv
<1>2. CASE Outside
  <2>1. collMap' = collMap /\ pass' = pass /\ AllFound'
    BY <1>1, <1>2, OutsideUnchanged DEF Reserved, AllFound, First
  <2>2. \A key : Placed(key)' = Placed(key)
    BY <2>1 DEF Placed
  <2>3. pc' \in {"sentinel", "slot"} => \A v \in Uobj' : ~(v < u')
    <3>1. pc' \in {"sentinel", "slot"} => u' = 1
      BY <1>2, OutsideUnchanged
    <3>2. \A v \in Uobj : ~(v < 1)
      BY <1>1, CollectionFields, Input
    <3>3. QED  BY <3>1, <3>2, SameInput
  <2>4. pass' = 2 => Intra' = Intra
    BY <1>2, <2>1, OutsideUnchanged, SameInput DEF Intra, Method
  <2>5. pass' = 2 => \A v \in Uobj' : Placed(UobjKey(v))'
    BY <1>1, <2>1, <2>2, SameInput DEF Reserved
  <2>6. pass' = 2 => \A s \in (Exposed \cup Intra)' : Placed(s)'
    BY <1>1, <2>1, <2>2, <2>4, SameInput DEF Reserved
  <2>7. QED  BY <2>1, <2>3, <2>5, <2>6 DEF Reserved
<1>3. CASE PlaceSentinel \/ PlaceUobj
  <2>a. PICK key : \E length \in Nat : AddSection(key, length)
    BY <1>3, AddsSection
  <2>1. PICK length \in Nat : AddSection(key, length)
    BY <2>a
  <2>2. AllFound' /\ \A other : Placed(other) => Placed(other)'
    BY <2>1, Appended
  <2>3. pass' = 1
    BY <1>1, <1>3, <2>1 DEF Cursor, PlaceSentinel, PlaceUobj, AddSection
  <2>4. ASSUME NEW v \in Uobj', v < u', pc' \in {"sentinel", "slot"}
        PROVE  Placed(UobjKey(v))'
    <3>1. CASE v < u
      <4>1. Placed(UobjKey(v))
        BY <1>1, <1>3, <2>4, <3>1, SameInput DEF Reserved, PlaceSentinel, PlaceUobj
      <4>2. QED  BY <2>2, <4>1, SameInput
    <3>2. CASE PlaceSentinel /\ ~(v < u)
      BY <2>4, <3>2 DEF PlaceSentinel
    <3>3. CASE PlaceUobj /\ ~(v < u)
      <4>1. v = u
        <5>1. u' = u + 1 /\ u \in Nat /\ v \in Nat
          BY <1>1, <3>3, SameInput, CollectionFields, Input
             DEF PlaceUobj, TypeOK, PositionOK
        <5>2. QED  BY <2>4, <3>3, <5>1
      <4>2. u \in Uobj /\ AddSection(UobjKey(u), size[u])
        BY <3>3 DEF PlaceUobj
      <4>3. size[u] \in Nat
        BY <1>1, <4>2 DEF TypeOK, UobjsOK
      <4>4. PICK n : n = UobjKey(u)
        OBVIOUS
      <4>5. Placed(n)'
        BY <4>2, <4>3, <4>4, Appended
      <4>6. UobjKey(v)' = n
        BY <4>1, <4>4, SameInput
      <4>7. QED  BY <4>5, <4>6 DEF Placed
    <3>4. QED  BY <1>3, <3>1, <3>2, <3>3
  <2>5. QED  BY <2>2, <2>3, <2>4 DEF Reserved
<1>4. CASE FinishCollection
  <2>1. /\ collMap' = collMap /\ parsed' = parsed /\ u \notin Uobj
        /\ pc \in {"sentinel", "slot"} /\ pc' \notin {"sentinel", "slot"}
        /\ \A s \in Exposed \cup Intra : Placed(s)
    BY <1>4 DEF FinishCollection
  <2>2. \A key : Placed(key)' = Placed(key)
    BY <2>1 DEF Placed
  <2>3. AllFound' /\ Intra' = Intra
    BY <1>1, <2>1, SameInput DEF Reserved, AllFound, First, Intra, Method
  <2>4. \A v \in Uobj : v < u
    <3>1. /\ \A v \in Uobj : \A w \in 1 .. v : w \in Uobj
          /\ u \in Nat \ {0} /\ \A v \in Uobj : v \in Nat
      BY <1>1, CollectionFields, Input DEF TypeOK, PositionOK
    <3>2. QED  BY <2>1, <3>1
  <2>5. \A v \in Uobj' : Placed(UobjKey(v))'
    BY <1>1, <2>1, <2>2, <2>4, SameInput DEF Reserved
  <2>6. \A s \in (Exposed \cup Intra)' : Placed(s)'
    BY <2>1, <2>2, <2>3, SameInput
  <2>7. QED  BY <2>1, <2>3, <2>5, <2>6 DEF Reserved
<1>5. QED  BY <1>2, <1>3, <1>4, ThreeGroups

\* What was placed ends before the next section, so the next section ends
\* behind all of them.
LEMMA DisjointStep ==
    ASSUME IInv, Next, TypeOK'
    PROVE  Frontier' /\ CollectionDisjoint'
<1>1. TypeOK /\ Cursor /\ Frontier /\ CollectionDisjoint
  BY DEF IInv
<1>2. /\ conf.load \in Nat /\ next \in Nat /\ pass \in {1, 2}
      /\ DOMAIN collMap = 1 .. Len(collMap) /\ Len(collMap) \in Nat
      /\ \A k \in DOMAIN collMap : collMap[k].start \in Nat /\ collMap[k].size \in Nat
  BY <1>1, ConfigFields, Input, Entries DEF TypeOK, PositionOK
<1>3. CASE Outside
  <2>1. /\ collMap' = collMap /\ collSize' = collSize /\ pass' = pass
        /\ pc \notin {"sentinel", "slot"}
        /\ pc' \in {"sentinel", "slot"} => pass = 1
    BY <1>3, OutsideUnchanged
  <2>2. CollectionDisjoint'
    BY <1>1, <2>1, SameInput DEF CollectionDisjoint
  <2>3. Frontier'
    BY <1>1, <2>1 DEF Frontier
  <2>4. QED  BY <2>2, <2>3
<1>4. CASE PlaceSentinel \/ PlaceUobj
  <2>a. PICK key : \E length \in Nat : AddSection(key, length)
    BY <1>4, AddsSection
  <2>1. PICK length \in Nat : AddSection(key, length)
    BY <2>a
  <2> DEFINE last == Len(collMap) + 1
  <2>2. /\ DOMAIN collMap' = 1 .. last
        /\ \A k \in DOMAIN collMap : collMap'[k] = collMap[k]
        /\ collMap'[last].start = next /\ collMap'[last].size = length
        /\ next' = next + length
    <3>1. collMap'[last] = [key |-> key, start |-> next, size |-> length]
      BY <2>1, Appended
    <3>2. collMap'[last].start = next /\ collMap'[last].size = length
      BY <3>1
    <3>3. DOMAIN collMap' = 1 .. last /\ next' = next + length
      BY <2>1, Appended
    <3>4. \A k \in DOMAIN collMap : collMap'[k] = collMap[k]
      BY <2>1, Appended
    <3>5. QED  BY <3>2, <3>3, <3>4
  <2>3. /\ pc \in {"sentinel", "slot"} /\ pc' \in {"sentinel", "slot"}
        /\ pass = 1 /\ pass' = 1 /\ conf.load <= next
    BY <1>1, <1>4, <2>1 DEF Cursor, PlaceSentinel, PlaceUobj, AddSection
  <2>4. \A k \in DOMAIN collMap : End(collMap[k]) <= next
    BY <1>1, <2>3 DEF Frontier
  <2>5. \A k \in DOMAIN collMap' : k \in DOMAIN collMap \/ k = last
    BY <1>2, <2>2
  <2>6. \A k \in DOMAIN collMap' : End(collMap'[k]) <= next'
    BY <1>2, <2>2, <2>4, <2>5 DEF End
  <2>7. \A k \in DOMAIN collMap' : conf.load <= collMap'[k].start
    BY <1>1, <1>2, <2>2, <2>3, <2>5 DEF CollectionDisjoint
  <2>8. \A j, k \in DOMAIN collMap' : j < k => Before(collMap'[j], collMap'[k])
    <3>1. ASSUME NEW j \in DOMAIN collMap', NEW k \in DOMAIN collMap', j < k
          PROVE  Before(collMap'[j], collMap'[k])
      <4>1. j \in DOMAIN collMap
        BY <1>2, <2>2, <3>1
      <4>2. CASE k \in DOMAIN collMap
        BY <1>1, <2>2, <3>1, <4>1, <4>2 DEF CollectionDisjoint
      <4>3. CASE k = last
        BY <2>2, <2>4, <4>1, <4>3 DEF Before
      <4>4. QED  BY <2>5, <4>2, <4>3
    <3>2. QED  BY <3>1
  <2>9. QED
    BY <2>3, <2>6, <2>7, <2>8, SameInput DEF Frontier, CollectionDisjoint
<1>5. CASE FinishCollection
  <2>1. /\ collMap' = collMap /\ collSize' = next - conf.load /\ pass' = 2
        /\ pc \in {"sentinel", "slot"} /\ pc' \notin {"sentinel", "slot"}
    BY <1>5 DEF FinishCollection
  <2>2. conf.load + collSize' = next
    BY <1>1, <1>2, <2>1 DEF Cursor
  <2>3. \A k \in DOMAIN collMap : End(collMap[k]) <= next
    BY <1>1, <2>1 DEF Frontier
  <2>4. QED
    BY <1>1, <2>1, <2>2, <2>3, SameInput DEF Frontier, CollectionDisjoint
<1>6. QED  BY <1>3, <1>4, <1>5, ThreeGroups

---------------------------------------------------------------------------
(* Theorems *)

\* The invariant of the layout holds in every state.
LEMMA InductiveInvariant == Spec => []IInv
<1>1. IInv /\ [Next]_vars => IInv'
  <2>1. ASSUME IInv, Next PROVE IInv'
    BY <2>1, TypeStep, CursorStep, ReservedStep, DisjointStep DEF IInv
  <2>2. ASSUME IInv, UNCHANGED vars PROVE IInv'
    <3>1. /\ coll' = coll /\ conf' = conf /\ pc' = pc /\ pass' = pass /\ u' = u
          /\ i' = i /\ next' = next /\ parsed' = parsed /\ inited' = inited
          /\ load' = load /\ size' = size /\ map' = map /\ methodAddr' = methodAddr
          /\ collMap' = collMap /\ collSize' = collSize /\ generated' = generated
      BY <2>2 DEF vars
    <3>2. /\ Uobj' = Uobj /\ MethodId' = MethodId /\ Exposed' = Exposed /\ Intra' = Intra
          /\ \A v : UobjKey(v)' = UobjKey(v)
      BY <3>1 DEF Uobj, MethodId, Method, Exposed, Intra, UobjKey
    <3>3. \A key : Placed(key)' = Placed(key)
      BY <3>1 DEF Placed
    <3>4. TypeOK'
      BY <2>2, <3>1, <3>2 DEF IInv, TypeOK, InputOK, PositionOK, UobjsOK, CollOK
    <3>5. Reserved'
      BY <2>2, <3>1, <3>2, <3>3 DEF IInv, Reserved, AllFound, First
    <3>6. Cursor' /\ Frontier' /\ CollectionDisjoint'
      BY <2>2, <3>1, <3>2 DEF IInv, Cursor, Frontier, CollectionDisjoint
    <3>7. QED  BY <3>4, <3>5, <3>6 DEF IInv
  <2>3. QED  BY <2>1, <2>2
<1>2. QED  BY InitIInv, <1>1, PTL DEF Spec

\* In the layout of any collection under any configuration no address and no
\* size becomes negative, and every lookup by name finds a section.
THEOREM TypeCorrect == Spec => []TypeOK
<1>1. IInv => TypeOK
  BY DEF IInv
<1>2. QED  BY InductiveInvariant, <1>1, PTL

\* For any collection and configuration, whatever uobjs fail to initialize, the
\* sections of the collection are disjoint and inside its memory.
THEOREM Disjoint == Spec => []CollectionDisjoint
<1>1. IInv => CollectionDisjoint
  BY DEF IInv
<1>2. QED  BY InductiveInvariant, <1>1, PTL
-----------------------------------------------------------------------------
(***************************************************************************)
(* What the layout at address 0 computes is right at the final addresses:  *)
(* every uobj fills the section that the collection reserved for it, and   *)
(* every sentinel enters its public method.                                *)
(*                                                                         *)
(* What a uobj needs is a sum over its sections.  Its partial sums are     *)
(* made by the steps that place the sections, and the invariant says so:   *)
(* the sums of the sections placed exist, and the last of any such sums is *)
(* how far the layout has come.                                            *)
(***************************************************************************)
\* The uobj whose turn it is, in the first pass, and those before it.
TurnInv ==
    /\ pc = "uobj" => \A v \in inited : v < u
    /\ pass = 1 /\ pc = "place" => u \in inited /\ \A v \in inited : v <= u

\* The sizes of the first n sections s, rounded, added up.
Sums(s, a, n, f) ==
    /\ f[0] = 0
    /\ \A k \in 1 .. n : f[k] = f[k - 1] + s[k] + Pad(s[k], a)

\* The section of a uobj in the collection, and the uobjs laid out in each pass.
Start(v) == SectionOf(UobjKey(v)).start
Settled(v) == v \in inited /\ (pass = 2 \/ v < u \/ pc \in {"sentinel", "slot"})
Final(v) == pass = 2 /\ (pc \in {"codegen", "raised"} \/ v < u)

\* How far the layout of a uobj has come: the sections placed so far are in its
\* list, the next one starts behind them.
PlacedSums ==
    /\ i <= Len(Sections(u)) + 1
    /\ \E f : Sums(Sections(u), conf.sectionAlign, i - 1, f)
    /\ \A f : Sums(Sections(u), conf.sectionAlign, i - 1, f) =>
                f[i - 1] = next - load[u]
PlacedMap ==
    /\ Len(map[u]) = i - 1
    /\ i = 1 => next = load[u]
    /\ i > 1 => map[u][1].start = load[u] /\ End(map[u][i - 1]) = next
    /\ load[u] = IF pass = 1 THEN 0 ELSE Start(u)
WalkInv == pc = "place" => PlacedSums /\ PlacedMap

\* The sum of all sections of a uobj exists once it has been laid out.
SumsInv ==
    \A v \in Uobj : Settled(v) =>
        Sums(Sections(v), conf.sectionAlign, Len(Sections(v)),
             RoundedSums(Sections(v), conf.sectionAlign))

\* Public methods come right behind the state save area, each as long as it.
Length == conf.defaultSize + Pad(conf.defaultSize, conf.sectionAlign)
MethodAt(v, m) == Start(v) + m * Length
MethodInv ==
    /\ pc = "place" /\ u \in inited /\ i <= coll.uobjs[u].methods + 2 =>
           next = load[u] + (i - 1) * Length
    /\ \A v \in inited : \A m \in Method(v) :
           Final(v) \/ (pass = 2 /\ pc = "place" /\ v = u /\ m + 1 < i) =>
               methodAddr[<<v, m>>] = MethodAt(v, m)
    /\ pc \notin {"codegen", "raised"} => generated = {}
    /\ \A g \in generated : g.sentinel.uobj \in inited =>
           g.methodAddr = MethodAt(g.sentinel.uobj, g.sentinel.method)

\* What a uobj takes.
Fits(n) == n % conf.uobjAlign = 0
Extent(v) ==
    IF conf.uniform THEN conf.uobjSize ELSE Total(v) + Pad(Total(v), conf.uobjAlign)
SizeInv ==
    /\ \A v \in Uobj : Fits(size[v])
    /\ conf.uniform => \A v \in Uobj : size[v] = conf.uobjSize
    /\ \A v \in Uobj : Settled(v) /\ Sized(v) => size[v] = Extent(v)

\* The sections of the collection start at multiples of the alignment of uobjs, and
\* those of the uobjs are as large as the uobjs.
SlotInv ==
    /\ pc \in {"sentinel", "slot"} => Fits(next)
    /\ \A k \in DOMAIN collMap : Fits(collMap[k].start)
    /\ pc \in {"sentinel", "slot"} =>
           \A k \in DOMAIN collMap : \A v \in Uobj : collMap[k].key = UobjKey(v) => v < u
    /\ \A v \in Uobj :
           Sized(v) /\ (pass = 2 \/ (pc = "slot" /\ v < u)) =>
               SectionOf(UobjKey(v)).size = Extent(v)

\* A uobj that has been laid out where it was placed fills its section.
FilledInv ==
    \A v \in Uobj : Sized(v) /\ Final(v) =>
        /\ map[v] # <<>>
        /\ map[v][1].start = Start(v)
        /\ End(map[v][Len(map[v])]) = Start(v) + Extent(v)

Layouts == TurnInv /\ WalkInv /\ SumsInv
HInv == Harmonious => SizeInv /\ SlotInv /\ FilledInv
JInv == Layouts /\ MethodInv /\ HInv

---------------------------------------------------------------------------
(* Lemmas about sums and multiples *)

\* What the code sums up are the sums, if there are any.
LEMMA SumsChosen ==
    ASSUME NEW s, NEW a, Len(s) \in Nat, NEW f, Sums(s, a, Len(s), f)
    PROVE  Sums(s, a, Len(s), RoundedSums(s, a))
<1> DEFINE n == Len(s)
           P(g) == g = [k \in 0 .. n |-> IF k = 0 THEN 0 ELSE g[k - 1] + s[k] + Pad(s[k], a)]
           h == [k \in 0 .. n |-> f[k]]
<1>1. P(h)
  <2>1. h = [k \in 0 .. n |-> IF k = 0 THEN 0 ELSE f[k - 1] + s[k] + Pad(s[k], a)]
    BY DEF Sums
  <2>2. \A k \in 1 .. n : k - 1 \in 0 .. n /\ h[k - 1] = f[k - 1]
    OBVIOUS
  <2>3. \A k \in 0 .. n : k = 0 \/ k \in 1 .. n
    OBVIOUS
  <2> QED  BY <2>1, <2>2, <2>3
<1>2. RoundedSums(s, a) = CHOOSE g : P(g)
  BY DEF RoundedSums
<1>3. P(RoundedSums(s, a))
  BY <1>1, <1>2
<1>4. QED  BY <1>3 DEF Sums

\* Sums of one more section.
LEMMA SumsExtend ==
    ASSUME NEW s, NEW a, NEW n \in Nat, NEW f, Sums(s, a, n, f)
    PROVE  \E g : Sums(s, a, n + 1, g)
<1> DEFINE last == f[n] + s[n + 1] + Pad(s[n + 1], a)
           g == [k \in 0 .. n + 1 |-> IF k = n + 1 THEN last ELSE f[k]]
<1>1. g[0] = 0
  BY DEF Sums
<1>2. ASSUME NEW k \in 1 .. n + 1
      PROVE  g[k] = g[k - 1] + s[k] + Pad(s[k], a)
  <2>1. CASE k = n + 1
    <3>1. g[k] = last /\ g[k - 1] = f[n] /\ k - 1 = n
      BY <2>1
    <3>2. QED  BY <2>1, <3>1
  <2>2. CASE k \in 1 .. n
    <3>1. g[k] = f[k] /\ g[k - 1] = f[k - 1]
      BY <2>2
    <3>2. QED  BY <2>2, <3>1 DEF Sums
  <2>3. QED  BY <1>2, <2>1, <2>2
<1>3. QED  BY <1>1, <1>2 DEF Sums

\* Sums of one section more contain those of the others.
LEMMA SumsPrefix ==
    ASSUME NEW s, NEW a, NEW n \in Nat, NEW f, Sums(s, a, n + 1, f)
    PROVE  Sums(s, a, n, f) /\ f[n + 1] = f[n] + s[n + 1] + Pad(s[n + 1], a)
<1>1. n + 1 \in 1 .. n + 1 /\ \A k \in 1 .. n : k \in 1 .. n + 1
  OBVIOUS
<1>2. (n + 1) - 1 = n
  OBVIOUS
<1>3. QED  BY <1>1, <1>2 DEF Sums

\* Division with remainder, and that it is unique.
LEMMA Quotient ==
    ASSUME NEW c \in Nat \ {0}, NEW n \in Nat
    PROVE  \E q \in Nat : \E r \in Nat : n = c * q + r /\ r < c /\ n % c = r
<1>1. /\ n = c * (n \div c) + (n % c) /\ n \div c \in Nat
      /\ n % c \in Nat /\ n % c < c
  OBVIOUS
<1>2. QED  BY <1>1

LEMMA RemainderIs ==
    ASSUME NEW c \in Nat \ {0}, NEW q \in Nat, NEW r \in Nat, NEW n \in Nat,
           n = c * q + r, r < c
    PROVE  n % c = r
OBVIOUS

\* A multiple is a product.
LEMMA Multiple ==
    ASSUME NEW c \in Nat \ {0}, NEW n \in Nat
    PROVE  n % c = 0 <=> \E q \in Nat : n = c * q
<1>1. n % c = 0 => \E q \in Nat : n = c * q
  <2>1. PICK q \in Nat, r \in Nat : n = c * q + r /\ n % c = r
    BY Quotient
  <2>2. QED  BY <2>1
<1>2. ASSUME NEW q \in Nat, n = c * q
      PROVE  n % c = 0
  <2>1. n = c * q + 0
    BY <1>2
  <2>2. QED  BY <2>1, RemainderIs
<1>3. QED  BY <1>1, <1>2

\* A multiple in front does not change the remainder.
LEMMA Remainder ==
    ASSUME NEW c \in Nat \ {0}, NEW x \in Nat, NEW n \in Nat, x % c = 0
    PROVE  (x + n) % c = n % c
<1>1. PICK p \in Nat : x = c * p
  BY Multiple
<1>2. PICK q \in Nat, r \in Nat : n = c * q + r /\ r < c /\ n % c = r
  BY Quotient
<1>3. PICK s \in Nat : s = p + q
  OBVIOUS
<1>4. c * p + (c * q + r) = c * (p + q) + r
  OBVIOUS
<1>5. x + n = c * s + r /\ x + n \in Nat
  BY <1>1, <1>2, <1>3, <1>4
<1>6. (x + n) % c = r
  BY <1>2, <1>5, RemainderIs
<1>7. QED  BY <1>2, <1>6

\* Sums and differences of multiples.
LEMMA Multiples ==
    ASSUME NEW c \in Nat \ {0}, NEW x \in Nat, NEW y \in Nat, x % c = 0, y % c = 0
    PROVE  (x + y) % c = 0 /\ (x <= y => (y - x) % c = 0)
<1>1. (x + y) % c = 0
  BY Remainder
<1>2. ASSUME x <= y PROVE (y - x) % c = 0
  <2>1. PICK d \in Nat : y = x + d
    BY <1>2
  <2>2. d % c = 0
    BY <2>1, Remainder
  <2>3. QED  BY <2>1, <2>2
<1>3. QED  BY <1>1, <1>2

\* A multiple of a multiple.
LEMMA MultipleOfMultiple ==
    ASSUME NEW c \in Nat \ {0}, NEW a \in Nat \ {0}, NEW x \in Nat,
           x % c = 0, c % a = 0
    PROVE  x % a = 0
<1>1. PICK p \in Nat : x = c * p
  BY Multiple
<1>2. PICK q \in Nat : c = a * q
  BY Multiple
<1>3. PICK n \in Nat : n = q * p
  OBVIOUS
<1>4. a * (q * p) = (a * q) * p
  OBVIOUS
<1>5. x = a * n
  BY <1>1, <1>2, <1>3, <1>4
<1>6. QED  BY <1>5, Multiple

\* A number and its padding are a multiple.
LEMMA Padded ==
    ASSUME NEW c \in Nat \ {0}, NEW n \in Nat
    PROVE  /\ (n + Pad(n, c)) % c = 0
           /\ (n + PadAlways(n, c)) % c = 0
           /\ Pad(n, c) = 0 <=> n % c = 0
<1>1. PICK q \in Nat, r \in Nat : n = c * q + r /\ r < c /\ n % c = r
  BY Quotient
<1>2. PICK s \in Nat : s = q + 1
  OBVIOUS
<1>3. (c * q + r) + (c - r) = c * (q + 1)
  OBVIOUS
<1>4. n + (c - r) \in Nat /\ n + (c - r) = c * s
  BY <1>1, <1>2, <1>3
<1>5. (n + (c - r)) % c = 0
  BY <1>4, Multiple
<1>6. QED  BY <1>1, <1>5 DEF Pad, PadAlways

\* A multiple in front does not change the padding.
LEMMA PadShift ==
    ASSUME NEW c \in Nat \ {0}, NEW x \in Nat, NEW n \in Nat, x % c = 0
    PROVE  Pad(x + n, c) = Pad(n, c)
<1>1. (x + n) % c = n % c
  BY Remainder
<1>2. QED  BY <1>1 DEF Pad
---------------------------------------------------------------------------
(* Lemmas about steps *)

\* The types of what the proofs below reckon with.
LEMMA Basics ==
    ASSUME TypeOK
    PROVE  /\ conf.sectionAlign \in Nat \ {0} /\ conf.uobjAlign \in Nat \ {0}
           /\ conf.collAlign \in Nat \ {0}
           /\ conf.defaultSize \in Nat /\ conf.uobjSize \in Nat /\ conf.load \in Nat
           /\ Uobj = 1 .. Len(coll.uobjs) /\ Len(coll.uobjs) \in Nat
           /\ u \in Nat \ {0} /\ i \in Nat \ {0} /\ next \in Nat /\ pass \in {1, 2}
           /\ inited \subseteq parsed /\ parsed \subseteq Uobj
           /\ load \in [Uobj -> Nat] /\ size \in [Uobj -> Nat]
           /\ map \in [Uobj -> Seq(Section)] /\ methodAddr \in [MethodId -> Nat]
BY Input, ConfigFields, CollectionFields DEF TypeOK, PositionOK, UobjsOK

\* The sections of a uobj have natural sizes; those of an initialized one begin
\* with one for the state save area and one for each method, all of one size.
LEMMA SectionSizes ==
    ASSUME TypeOK, NEW v \in Uobj
    PROVE  /\ Len(Sections(v)) \in Nat /\ DOMAIN Sections(v) = 1 .. Len(Sections(v))
           /\ \A k \in 1 .. Len(Sections(v)) : Sections(v)[k] \in Nat
           /\ v \in inited =>
                /\ 13 + coll.uobjs[v].methods <= Len(Sections(v))
                /\ \A k \in 1 .. 13 + coll.uobjs[v].methods :
                       Sections(v)[k] = conf.defaultSize
<1>1. Sections(v) \in Seq(Nat)
  BY SectionsSeq
<1>2. \A k \in 1 .. Len(Sections(v)) : Sections(v)[k] \in Nat
  BY <1>1, SeqElement
<1>3. ASSUME v \in inited
      PROVE  /\ 13 + coll.uobjs[v].methods <= Len(Sections(v))
             /\ \A k \in 1 .. 13 + coll.uobjs[v].methods :
                    Sections(v)[k] = conf.defaultSize
  <2>1. coll.uobjs[v].methods \in Nat /\ coll.uobjs[v].sections \in Seq(Nat)
        /\ conf.defaultSize \in Nat
    BY CollectionFields, ConfigFields, Input
  <2>2. PICK m \in Nat : m = 13 + coll.uobjs[v].methods
    BY <2>1
  <2>3. PICK d \in Nat : d = conf.defaultSize
    BY <2>1
  <2>a. (IF v \in parsed THEN coll.uobjs[v].sections ELSE <<>>) \in Seq(Nat)
    BY <2>1
  <2>4. PICK t \in Seq(Nat) : t = IF v \in parsed THEN coll.uobjs[v].sections ELSE <<>>
    BY <2>a
  <2>5. Sections(v) = [k \in 1 .. m |-> d] \o t
    BY <1>3, <2>2, <2>3, <2>4 DEF Sections, DefaultSections
  <2>6. [k \in 1 .. m |-> d] \in Seq(Nat)
    OBVIOUS
  <2>7. PICK p \in Seq(Nat) : p = [k \in 1 .. m |-> d]
    BY <2>6
  <2>8. Len(p) = m /\ \A k \in 1 .. m : p[k] = d
    <3>1. DOMAIN p = 1 .. m /\ \A k \in 1 .. m : p[k] = d
      BY <2>7
    <3>2. DOMAIN p = 1 .. Len(p) /\ Len(p) \in Nat
      OBVIOUS
    <3>3. QED  BY <3>1, <3>2
  <2>9. Len(p \o t) = m + Len(t) /\ \A k \in 1 .. m : (p \o t)[k] = p[k]
    <3>1. Len(p \o t) = Len(p) + Len(t)
      OBVIOUS
    <3>2. \A k \in 1 .. Len(p) : (p \o t)[k] = p[k]
      OBVIOUS
    <3>3. QED  BY <2>8, <3>1, <3>2
  <2>10. Sections(v) = p \o t /\ Len(t) \in Nat
    BY <2>5, <2>7
  <2>11. m <= Len(Sections(v)) /\ \A k \in 1 .. m : Sections(v)[k] = d
    BY <2>8, <2>9, <2>10
  <2>12. QED  BY <2>2, <2>3, <2>11
<1>4. QED  BY <1>1, <1>2, <1>3

LEMMA SectionsFinite == TypeOK => \A v \in Uobj : Len(Sections(v)) \in Nat
BY SectionSizes

\* An action of the layout of a uobj at an address.
Starts == Initialize \/ Relocate
Finishes == FillUniform \/ PadAndResize

\* Which uobjs are initialized changes in the first pass only, one by one.
LEMMA InitedSteps ==
    ASSUME IInv, Next
    PROVE  /\ parsed \subseteq parsed' /\ inited \subseteq inited'
           /\ pc # "uobj" => parsed' = parsed /\ inited' = inited
           /\ ~Initialize => inited' = inited
           /\ Initialize => inited' = inited \cup {u}
BY DEF Next, Initialize, InitializeFails, PlaceSection, Place, FillUniform,
       PadAndResize, PlaceSentinel, PlaceUobj, FinishCollection, Relocate, Generate,
       GenerateRaises, StartMap, Advance, AddSection, AllPlaced

\* What depends on the manifests that were read stays what it is.
LEMMA SectionsStay ==
    ASSUME IInv, Next, NEW v, v \in inited \/ pc # "uobj"
    PROVE  /\ Sections(v)' = Sections(v)
           /\ Total(v)' = Total(v) /\ Extent(v)' = Extent(v)
           /\ Sized(v)' <=> Sized(v)
<1>1. inited \subseteq parsed
  BY Basics DEF IInv
<1>2. (v \in inited' <=> v \in inited) /\ (v \in parsed' <=> v \in parsed)
  BY <1>1, InitedSteps
<1>3. coll' = coll /\ conf' = conf
  BY SameInput
<1>4. DefaultSections(v)' = DefaultSections(v)
  BY <1>3 DEF DefaultSections
<1>5. Sections(v)' = Sections(v)
  BY <1>2, <1>3, <1>4 DEF Sections
<1>6. Total(v)' = Total(v)
  BY <1>3, <1>5 DEF Total
<1>7. QED  BY <1>2, <1>3, <1>5, <1>6 DEF Extent, Sized

\* A lookup in a list of sections finds the first of that name.
Find(m, key) ==
    m[CHOOSE k \in DOMAIN m :
        m[k].key = key /\ \A j \in 1 .. k - 1 : m[j].key # key]
Leads(m, key, k) ==
    k \in DOMAIN m /\ m[k].key = key /\ \A j \in 1 .. k - 1 : m[j].key # key

LEMMA FindsFirst ==
    ASSUME NEW m, NEW key, NEW k, DOMAIN m \subseteq Nat \ {0}, Leads(m, key, k)
    PROVE  Find(m, key) = m[k]
<1>1. PICK j : j = CHOOSE n \in DOMAIN m :
                     m[n].key = key /\ \A h \in 1 .. n - 1 : m[h].key # key
  OBVIOUS
<1>2. Leads(m, key, j)
  BY <1>1 DEF Leads
<1>3. j = k
  <2>1. j \in Nat \ {0} /\ k \in Nat \ {0}
    BY <1>2 DEF Leads
  <2>2. ~(j < k) /\ ~(k < j)
    <3>1. j < k => j \in 1 .. k - 1
      BY <2>1
    <3>2. k < j => k \in 1 .. j - 1
      BY <2>1
    <3>3. QED  BY <1>2, <3>1, <3>2 DEF Leads
  <2>3. QED  BY <2>1, <2>2
<1>4. QED  BY <1>1, <1>3 DEF Find

\* A section that has been placed is found where it is from then on.
LEMMA SectionStays ==
    ASSUME IInv, Next, TypeOK', NEW key, Placed(key)
    PROVE  Find(collMap', key) = Find(collMap, key)
<1>1. CASE collMap' = collMap
  BY <1>1
<1>2. CASE PlaceSentinel \/ PlaceUobj
  <2>1. PICK other : \E length \in Nat : AddSection(other, length)
    BY <1>2, AddsSection
  <2>2. PICK length \in Nat : AddSection(other, length)
    BY <2>1
  <2>3. /\ DOMAIN collMap' = 1 .. Len(collMap) + 1
        /\ \A k \in DOMAIN collMap : collMap'[k] = collMap[k]
    BY <2>2, Appended
  <2>4. DOMAIN collMap = 1 .. Len(collMap) /\ Len(collMap) \in Nat
    BY Entries DEF IInv
  <2>5. PICK k : First(key, k)
    BY DEF Placed, IInv, Reserved, AllFound
  <2>6. Leads(collMap, key, k)
    BY <2>5 DEF First, Leads
  <2>7. \A j \in 1 .. k - 1 : j \in DOMAIN collMap
    BY <2>4, <2>6 DEF Leads
  <2>8. Leads(collMap', key, k)
    BY <2>3, <2>4, <2>6, <2>7 DEF Leads
  <2>9. Find(collMap, key) = collMap[k]
    BY <2>4, <2>6, FindsFirst
  <2>10. Find(collMap', key) = collMap'[k]
    BY <2>3, <2>4, <2>8, FindsFirst
  <2>11. QED  BY <2>3, <2>6, <2>9, <2>10 DEF Leads
<1>3. Outside => collMap' = collMap
  BY OutsideUnchanged
<1>4. FinishCollection => collMap' = collMap
  BY DEF FinishCollection
<1>5. QED  BY <1>1, <1>2, <1>3, <1>4, ThreeGroups

LEMMA SlotStays ==
    ASSUME IInv, Next, TypeOK', NEW v \in Uobj, Placed(UobjKey(v))
    PROVE  /\ SectionOf(UobjKey(v))' = SectionOf(UobjKey(v))
           /\ Start(v)' = Start(v)
<1>1. PICK key : key = UobjKey(v)
  OBVIOUS
<1>2. UobjKey(v)' = key
  BY <1>1, SameInput
<1>3. Placed(key)
  BY <1>1 DEF Placed
<1>4. SectionOf(UobjKey(v)) = Find(collMap, key)
  BY <1>1 DEF SectionOf, Find
<1>5. SectionOf(UobjKey(v))' = Find(collMap', key)
  BY <1>2 DEF SectionOf, Find
<1>6. QED  BY <1>3, <1>4, <1>5, SectionStays DEF Start

\* In the second pass all uobjs have their places, which are multiples.
LEMMA Slots ==
    ASSUME IInv, NEW v \in Uobj, Placed(UobjKey(v))
    PROVE  /\ Start(v) \in Nat
           /\ \E k \in DOMAIN collMap : Start(v) = collMap[k].start
<1>1. SectionOf(UobjKey(v)) \in Entry
      /\ \E k \in DOMAIN collMap : SectionOf(UobjKey(v)) = collMap[k]
  BY Lookup
<1>2. QED  BY <1>1 DEF Start, Entry

---------------------------------------------------------------------------
(* The walk over the sections of a uobj *)

LEMMA InitLayouts == Init => Layouts /\ MethodInv /\ HInv
<1> SUFFICES ASSUME Init PROVE Layouts /\ MethodInv /\ HInv
  OBVIOUS
<1>1. IInv
  BY InitIInv
<1>2. /\ inited = {} /\ pc \in {"uobj", "sentinel"} /\ pass = 1 /\ u = 1
      /\ next = conf.load /\ collMap = <<>> /\ generated = {}
      /\ \A v \in Uobj : size[v] = conf.uobjSize
  BY DEF Init
<1>3. Layouts
  BY <1>2 DEF Layouts, TurnInv, WalkInv, SumsInv, Settled
<1>4. MethodInv
  BY <1>2 DEF MethodInv
<1>5. DOMAIN collMap = {} /\ \A v \in Uobj : ~Sized(v)
  BY <1>2 DEF Sized
<1>6. HInv
  BY <1>2, <1>5 DEF HInv, SizeInv, SlotInv, FilledInv, Harmonious, Fits
<1>7. QED  BY <1>3, <1>4, <1>6

LEMMA TurnStep ==
    ASSUME IInv, TurnInv, Next
    PROVE  TurnInv'
<1>1. u \in Nat \ {0} /\ inited \subseteq Uobj /\ Uobj \subseteq Nat
  BY Basics DEF IInv
<1>2. CASE Initialize
  <2>1. /\ inited' = inited \cup {u} /\ u' = u /\ pc' = "place" /\ pc = "uobj"
    BY <1>2 DEF Initialize, StartMap
  <2>2. QED  BY <1>1, <2>1 DEF TurnInv
<1>3. CASE InitializeFails
  <2>1. pc = "uobj" /\ inited' = inited /\ (pc' = "uobj" => u' = u + 1)
        /\ pc' \in {"uobj", "sentinel"}
    BY <1>3 DEF InitializeFails
  <2>2. QED  BY <1>1, <2>1 DEF TurnInv
<1>4. CASE PlaceSection
  BY <1>4 DEF PlaceSection, Place, TurnInv
<1>5. CASE Finishes
  <2>1. pc = "place" /\ inited' = inited /\ pc' # "place"
    BY <1>5, InitedSteps DEF Finishes, FillUniform, PadAndResize, AllPlaced, Advance
  <2>2. pc' = "uobj" => pass = 1 /\ u' = u + 1
    BY <1>5 DEF Finishes, FillUniform, PadAndResize, Advance
  <2>3. QED  BY <1>1, <2>1, <2>2 DEF TurnInv
<1>6. CASE Relocate
  <2>1. pc' = "place" /\ pass' = pass /\ pass = 2
    BY <1>6 DEF Relocate, StartMap, IInv, Cursor
  <2>2. QED  BY <2>1 DEF TurnInv
<1>7. CASE PlaceSentinel \/ PlaceUobj \/ FinishCollection \/ Generate \/ GenerateRaises
  <2>1. pc' \notin {"uobj", "place"}
    BY <1>7 DEF PlaceSentinel, PlaceUobj, FinishCollection, Generate, GenerateRaises
  <2>2. QED  BY <2>1 DEF TurnInv
<1>8. QED  BY <1>2, <1>3, <1>4, <1>5, <1>6, <1>7 DEF Next, Finishes

\* A uobj starts at its load address, with no section.
LEMMA WalkStarts ==
    ASSUME IInv, Next, TypeOK', Starts
    PROVE  PlacedSums' /\ PlacedMap'
<1>1. /\ u \in Uobj /\ load \in [Uobj -> Nat] /\ map \in [Uobj -> Seq(Section)]
      /\ Initialize => pass = 1
      /\ Relocate => pass = 2
  BY Basics DEF IInv, Starts, Initialize, Relocate, Cursor
<1>2. PICK address : /\ StartMap(u, address)
                     /\ address = IF pass = 1 THEN 0 ELSE Start(u)
  BY <1>1 DEF Starts, Initialize, Relocate, Start
<1>3. /\ u' = u /\ i' = 1 /\ next' = address /\ pass' = pass
      /\ load'[u] = address /\ map'[u] = <<>>
  BY <1>1, <1>2 DEF StartMap
<1>4. pass = 2 => Start(u)' = Start(u)
  <2>1. pass = 2 => Placed(UobjKey(u))
    BY <1>1 DEF IInv, Reserved
  <2>2. ASSUME NEW v \in Uobj, Placed(UobjKey(v)) PROVE Start(v)' = Start(v)
    BY <2>2, SlotStays
  <2>3. PICK v \in Uobj : v = u
    BY <1>1
  <2>4. Start(u)' = Start(v)'
    BY <1>3, <2>3 DEF Start
  <2>5. QED  BY <2>1, <2>2, <2>3, <2>4
<1>5. PlacedMap'
  <2>1. Len(map'[u]) = 0
    BY <1>3
  <2>2. pass \in {1, 2} /\ (pass = 1 \/ Start(u)' = Start(u))
    BY <1>4, Basics DEF IInv
  <2>3. address = IF pass' = 1 THEN 0 ELSE Start(u)'
    BY <1>2, <1>3, <2>2
  <2>4. QED  BY <1>3, <2>1, <2>3 DEF PlacedMap, Start
<1>6. PlacedSums'
  <2>1. Sums(Sections(u)', conf'.sectionAlign, 0, [k \in {0} |-> 0])
    BY DEF Sums
  <2>2. \A f : Sums(Sections(u)', conf'.sectionAlign, 0, f) => f[0] = 0
    BY DEF Sums
  <2>3. i' - 1 = 0 /\ next' - load'[u'] = 0
    <3>1. next' \in Nat
      BY DEF TypeOK, PositionOK
    <3>2. QED  BY <1>3, <3>1
  <2>4. Len(Sections(u)') \in Nat
    <3>1. (TypeOK => \A v \in Uobj : Len(Sections(v)) \in Nat)'
      BY SectionsFinite, PTL
    <3>2. u \in Uobj'
      BY <1>1, SameInput
    <3>3. QED  BY <3>1, <3>2
  <2>5. QED  BY <1>3, <2>1, <2>2, <2>3, <2>4 DEF PlacedSums
<1>7. QED  BY <1>5, <1>6

\* One more section.
LEMMA WalkContinues ==
    ASSUME IInv, WalkInv, Next, TypeOK', PlaceSection
    PROVE  PlacedSums' /\ PlacedMap'
<1> DEFINE s == Sections(u)
           a == conf.sectionAlign
           length == s[i] + Pad(s[i], a)
<1>1. /\ u \in Uobj /\ i \in Nat \ {0} /\ next \in Nat /\ pc = "place"
      /\ load \in [Uobj -> Nat] /\ map \in [Uobj -> Seq(Section)] /\ a \in Nat \ {0}
      /\ load[u] \in Nat /\ map[u] \in Seq(Section)
  BY Basics DEF IInv, Cursor, PlaceSection, Place
<1>2. PlacedSums /\ PlacedMap /\ i <= Len(s) /\ Len(s) \in Nat
  BY <1>1, SectionSizes DEF WalkInv, PlaceSection, Place, IInv
<1>3. s[i] \in Nat /\ Pad(s[i], a) \in Nat
  <2>1. s[i] \in Nat
    BY <1>1, <1>2, SectionSizes DEF IInv
  <2>2. QED  BY <1>1, <2>1, PadNat
<1>4. /\ u' = u /\ i' = i + 1 /\ load' = load /\ pass' = pass
      /\ next' = next + length
      /\ map' = [map EXCEPT ![u] = Append(@, [start |-> next, size |-> length])]
  BY DEF PlaceSection, Place
<1>5. Sections(u)' = s /\ conf' = conf
  <2>1. PICK v : v = u
    OBVIOUS
  <2>2. Sections(v)' = Sections(v)
    BY <1>1, SectionsStay
  <2>3. QED  BY <1>4, <2>1, <2>2, SameInput
<1>6. PlacedSums'
  <2>1. PICK n \in Nat : n = i - 1
    BY <1>1
  <2>2. PICK f : Sums(s, a, n, f)
    BY <1>2, <2>1 DEF PlacedSums
  <2>3. \E g : Sums(s, a, n + 1, g)
    BY <2>2, SumsExtend
  <2>4. ASSUME NEW g, Sums(s, a, n + 1, g)
        PROVE  g[n + 1] = next' - load[u]
    <3>1. Sums(s, a, n, g) /\ g[n + 1] = g[n] + s[n + 1] + Pad(s[n + 1], a)
      BY <2>4, SumsPrefix
    <3>2. g[n] = next - load[u]
      BY <1>2, <2>1, <3>1 DEF PlacedSums
    <3>3. n + 1 = i
      BY <1>1, <2>1
    <3>4. g[n + 1] = (next - load[u]) + s[i] + Pad(s[i], a)
      BY <3>1, <3>2, <3>3
    <3>5. QED  BY <1>1, <1>3, <1>4, <3>4
  <2>5. i' - 1 = n + 1 /\ i' <= Len(s) + 1
    BY <1>1, <1>2, <1>4, <2>1
  <2> HIDE DEF s, a
  <2>6. QED  BY <1>4, <1>5, <2>3, <2>4, <2>5 DEF PlacedSums, s, a
<1>7. PlacedMap'
  <2>1. PICK m \in Seq(Section) : m = map[u]
    BY <1>1
  <2>2. PICK d : d = length
    OBVIOUS
  <2>3. d \in Nat
    BY <1>3, <2>2
  <2> HIDE DEF length
  <2>4. map'[u] = Append(m, [start |-> next, size |-> d])
    BY <1>1, <1>4, <2>1, <2>2
  <2>5. Len(m) = i - 1
    BY <1>2, <2>1 DEF PlacedMap
  <2>6. Len(map'[u]) = i /\ map'[u][i] = [start |-> next, size |-> d]
    BY <1>1, <2>4, <2>5
  <2>7. i > 1 => map'[u][1] = map[u][1]
    BY <1>1, <2>1, <2>4, <2>5
  <2>8. map'[u][1].start = load[u]
    <3>1. CASE i > 1
      BY <1>2, <2>7, <3>1 DEF PlacedMap
    <3>2. CASE i = 1
      <4>1. next = load[u] /\ map'[u][1] = [start |-> next, size |-> d]
        BY <1>2, <2>6, <3>2 DEF PlacedMap
      <4>2. QED  BY <4>1
    <3>3. QED  BY <1>1, <3>1, <3>2
  <2>9. End(map'[u][i]) = next'
    BY <1>4, <2>2, <2>6 DEF End
  <2>10. load[u] = IF pass = 1 THEN 0 ELSE Start(u)'
    <3>1. load[u] = IF pass = 1 THEN 0 ELSE Start(u)
      BY <1>2 DEF PlacedMap
    <3>2. pass \in {1, 2} /\ (pass = 2 => Placed(UobjKey(u)))
      BY <1>1, Basics DEF IInv, Reserved
    <3>3. pass = 2 => Start(u)' = Start(u)
      <4>1. collMap' = collMap /\ u' = u
        BY DEF PlaceSection, Place, collVars
      <4>2. UobjKey(u)' = UobjKey(u)
        BY <4>1, SameInput DEF UobjKey
      <4>3. QED  BY <4>1, <4>2 DEF Start, SectionOf
    <3>4. QED  BY <3>1, <3>2, <3>3
  <2>11. i' - 1 = i /\ i' > 1 /\ i' # 1
    BY <1>1, <1>4
  <2>12. QED
    BY <1>4, <2>6, <2>8, <2>9, <2>10, <2>11 DEF PlacedMap, Start
<1>8. QED  BY <1>6, <1>7

LEMMA WalkStep ==
    ASSUME IInv, WalkInv, Next, TypeOK'
    PROVE  WalkInv'
<1>1. CASE Starts
  BY <1>1, WalkStarts DEF WalkInv
<1>2. CASE PlaceSection
  BY <1>2, WalkContinues DEF WalkInv
<1>3. CASE ~Starts /\ ~PlaceSection
  <2>1. pc' # "place"
    BY <1>3 DEF Next, Starts, InitializeFails, FillUniform, PadAndResize, Advance,
       AllPlaced, PlaceSentinel, PlaceUobj, FinishCollection, Generate, GenerateRaises
  <2>2. QED  BY <2>1 DEF WalkInv
<1>4. QED  BY <1>1, <1>2, <1>3

\* When all sections of a uobj are placed, what it needs lies behind its load
\* address.
LEMMA WalkEnds ==
    ASSUME IInv, Layouts, AllPlaced
    PROVE  /\ u \in Uobj /\ load[u] \in Nat /\ Total(u) \in Nat
           /\ next = load[u] + Total(u)
           /\ load[u] = IF pass = 1 THEN 0 ELSE Start(u)
           /\ Sums(Sections(u), conf.sectionAlign, Len(Sections(u)),
                   RoundedSums(Sections(u), conf.sectionAlign))
           /\ u \in inited =>
                /\ Len(map[u]) > 0 /\ map[u][1].start = load[u]
                /\ End(map[u][Len(map[u])]) = next
<1> DEFINE s == Sections(u)
           a == conf.sectionAlign
<1>1. /\ u \in Uobj /\ i \in Nat \ {0} /\ next \in Nat
      /\ load[u] \in Nat /\ load[u] <= next /\ Len(s) \in Nat
  BY Basics, SectionSizes DEF IInv, Cursor, AllPlaced
<1>2. PlacedSums /\ PlacedMap /\ i > Len(s)
  BY DEF Layouts, WalkInv, AllPlaced
<1>3. i - 1 = Len(s)
  BY <1>1, <1>2 DEF PlacedSums
<1>4. Sums(s, a, Len(s), RoundedSums(s, a))
  <2>1. PICK f : Sums(s, a, Len(s), f)
    BY <1>2, <1>3 DEF PlacedSums
  <2> HIDE DEF s, a
  <2>2. QED  BY <1>1, <2>1, SumsChosen
<1>5. Total(u) = next - load[u]
  BY <1>2, <1>3, <1>4 DEF PlacedSums, Total
<1>6. u \in inited => i > 1
  <2>1. u \in inited => 13 + coll.uobjs[u].methods <= Len(s) /\ coll.uobjs[u].methods \in Nat
    BY <1>1, SectionSizes, CollectionFields, Input DEF IInv
  <2>2. QED  BY <1>1, <1>3, <2>1
<1>7. u \in inited => Len(map[u]) > 0 /\ map[u][1].start = load[u]
                      /\ End(map[u][Len(map[u])]) = next
  BY <1>1, <1>2, <1>6 DEF PlacedMap
<1>8. load[u] = IF pass = 1 THEN 0 ELSE Start(u)
  BY <1>2 DEF PlacedMap
<1>9. QED  BY <1>1, <1>4, <1>5, <1>7, <1>8

\* Which uobjs have been laid out.
LEMMA SettledSteps ==
    ASSUME IInv, TurnInv, Next, NEW v \in Uobj, Settled(v)'
    PROVE  v \in inited /\ (Settled(v) \/ (v = u /\ AllPlaced /\ pass = 1 /\ Finishes))
<1>1. /\ u \in Nat \ {0} /\ v \in Nat /\ pass \in {1, 2} /\ Uobj = 1 .. Len(coll.uobjs)
      /\ Len(coll.uobjs) \in Nat /\ inited \subseteq Uobj
  BY Basics DEF IInv
<1>2. CASE Initialize
  <2>1. /\ inited' = inited \cup {u} /\ u' = u /\ pass' = pass /\ pass = 1
        /\ pc' = "place"
    BY <1>2 DEF Initialize, StartMap, IInv, Cursor
  <2>2. QED  BY <1>1, <2>1 DEF Settled
<1>3. CASE InitializeFails
  <2>1. v \in inited /\ pc = "uobj"
    BY <1>3 DEF InitializeFails, Settled
  <2>2. QED  BY <2>1 DEF TurnInv, Settled
<1>4. CASE Finishes
  <2>1. AllPlaced /\ pc = "place" /\ inited' = inited /\ pass' = pass
    BY <1>4 DEF Finishes, FillUniform, PadAndResize, Advance, AllPlaced
  <2>2. v \in inited /\ u \in Uobj
    BY <2>1 DEF Settled, IInv, Cursor
  <2>3. pass = 1 => v <= u
    BY <2>1, <2>2 DEF TurnInv
  <2>4. QED  BY <1>1, <1>4, <2>1, <2>2, <2>3 DEF Settled
<1>5. CASE PlaceSection \/ Generate \/ GenerateRaises
  <2>1. inited' = inited /\ pass' = pass /\ u' = u
    BY <1>5 DEF PlaceSection, Place, Generate, GenerateRaises
  <2>2. pc' = pc \/ pass = 2
    BY <1>5 DEF PlaceSection, Place, Generate, GenerateRaises, IInv, Cursor
  <2>3. QED  BY <2>1, <2>2 DEF Settled
<1>6. CASE Relocate
  BY <1>6 DEF Relocate, StartMap, IInv, Cursor, Settled
<1>7. CASE PlaceSentinel \/ PlaceUobj \/ FinishCollection
  <2>1. pc \in {"sentinel", "slot"} /\ inited' = inited
    BY <1>7 DEF PlaceSentinel, PlaceUobj, FinishCollection, AddSection
  <2>2. QED  BY <2>1 DEF Settled
<1>8. QED
  BY <1>2, <1>3, <1>4, <1>5, <1>6, <1>7 DEF Next, Finishes

LEMMA SumsStep ==
    ASSUME IInv, Layouts, Next
    PROVE  SumsInv'
<1>1. ASSUME NEW v \in Uobj, Settled(v)'
      PROVE  Sums(Sections(v)', conf'.sectionAlign, Len(Sections(v)'),
                  RoundedSums(Sections(v)', conf'.sectionAlign))
  <2>1. v \in inited /\ (Settled(v) \/ (v = u /\ AllPlaced))
    BY <1>1, SettledSteps DEF Layouts
  <2>2. Sums(Sections(v), conf.sectionAlign, Len(Sections(v)),
             RoundedSums(Sections(v), conf.sectionAlign))
    BY <2>1, WalkEnds DEF Layouts, SumsInv
  <2>3. Sections(v)' = Sections(v) /\ conf' = conf
    BY <2>1, SectionsStay, SameInput
  <2>4. QED  BY <2>2, <2>3
<1>2. QED  BY <1>1, SameInput DEF SumsInv

---------------------------------------------------------------------------
(* Methods and the sentinels that enter them *)

LEMMA LengthNat == TypeOK => Length \in Nat
<1>1. ASSUME TypeOK PROVE Length \in Nat
  <2>1. conf.defaultSize \in Nat /\ conf.sectionAlign \in Nat \ {0}
    BY <1>1, Basics
  <2>2. Pad(conf.defaultSize, conf.sectionAlign) \in Nat
    BY <2>1, PadNat
  <2>3. QED  BY <2>1, <2>2 DEF Length
<1>2. QED  BY <1>1

\* Up to the last method each section is as long as the state save area.
LEMMA MethodWalk ==
    ASSUME IInv, WalkInv, MethodInv, Next, TypeOK',
           pc' = "place", u' \in inited', i' <= coll'.uobjs[u'].methods + 2
    PROVE  next' = load'[u'] + (i' - 1) * Length'
<1>1. Length' = Length /\ Length \in Nat
  BY LengthNat, SameInput DEF Length, IInv
<1>2. CASE Starts
  <2>1. i' = 1 /\ u \in Uobj /\ u' = u
    BY <1>2 DEF Starts, Initialize, Relocate, StartMap, IInv, Cursor
  <2>2. next' = load'[u']
    BY <1>2, <2>1, WalkStarts DEF PlacedMap
  <2>3. load'[u'] \in Nat
    <3>1. load' \in [Uobj' -> Nat] /\ u' \in Uobj'
      BY <2>1, SameInput DEF TypeOK, UobjsOK
    <3>2. QED  BY <3>1
  <2>4. (i' - 1) * Length' = 0
    BY <1>1, <2>1
  <2>5. QED  BY <2>2, <2>3, <2>4
<1>3. CASE PlaceSection
  <2> DEFINE s == Sections(u)
  <2>1. /\ pc = "place" /\ u \in Uobj /\ i \in Nat \ {0} /\ next \in Nat
        /\ load[u] \in Nat
    BY <1>3, Basics DEF IInv, Cursor, PlaceSection, Place
  <2>2. /\ u' = u /\ i' = i + 1 /\ load' = load /\ coll' = coll /\ inited' = inited
        /\ next' = next + (s[i] + Pad(s[i], conf.sectionAlign))
    BY <1>3, SameInput DEF PlaceSection, Place
  <2>3. PICK m \in Nat : m = coll.uobjs[u].methods
    BY <2>1, CollectionFields, Input DEF IInv
  <2>4. u \in inited /\ i + 1 <= m + 2
    BY <2>2, <2>3
  <2>5. s[i] = conf.defaultSize
    <3>1. i \in 1 .. 13 + m
      BY <2>1, <2>4
    <3>2. QED  BY <2>1, <2>3, <2>4, <3>1, SectionSizes DEF IInv
  <2>6. next' = next + Length
    BY <2>2, <2>5 DEF Length
  <2>7. next = load[u] + (i - 1) * Length
    BY <2>1, <2>3, <2>4 DEF MethodInv
  <2>8. PICK d \in Nat : d = Length
    BY <1>1
  <2>9. PICK n \in Nat : n = i - 1
    BY <2>1
  <2>10. (n + 1) * d = n * d + d /\ n * d \in Nat
    OBVIOUS
  <2>11. next' = (load[u] + n * d) + d
    BY <2>6, <2>7, <2>8, <2>9
  <2>12. next' = load[u] + (n + 1) * d
    BY <2>1, <2>10, <2>11
  <2>13. i' - 1 = n + 1
    BY <2>1, <2>2, <2>9
  <2>14. QED  BY <1>1, <2>2, <2>8, <2>12, <2>13
<1>4. CASE ~Starts /\ ~PlaceSection
  <2>1. pc' # "place"
    BY <1>4 DEF Next, Starts, InitializeFails, FillUniform, PadAndResize, Advance,
       AllPlaced, PlaceSentinel, PlaceUobj, FinishCollection, Generate, GenerateRaises
  <2>2. QED  BY <2>1
<1>5. QED  BY <1>2, <1>3, <1>4

\* A uobj that is final was final before, or has just been laid out.
LEMMA FinalSteps ==
    ASSUME IInv, Next, NEW v \in Uobj, Final(v)'
    PROVE  pass = 2 /\ (Final(v) \/ (v = u /\ AllPlaced /\ Finishes))
<1>1. /\ u \in Nat \ {0} /\ v \in Nat \ {0} /\ pass \in {1, 2}
      /\ Uobj = 1 .. Len(coll.uobjs) /\ Len(coll.uobjs) \in Nat
  BY Basics DEF IInv
<1>2. CASE FinishCollection
  BY <1>1, <1>2 DEF FinishCollection, Final
<1>3. ASSUME ~FinishCollection PROVE pass' = pass /\ pass = 2
  BY <1>3, OutsideUnchanged, ThreeGroups DEF Final, PlaceSentinel, PlaceUobj, AddSection
<1>4. CASE Finishes
  <2>1. AllPlaced /\ u \in Uobj
    BY <1>4 DEF Finishes, FillUniform, PadAndResize, AllPlaced, IInv, Cursor
  <2>2. \/ Advance
        \/ pc' = "exit" /\ u' = u
    BY <1>4 DEF Finishes, FillUniform, PadAndResize
  <2>3. v < u \/ v = u
    <3>1. CASE Advance
      BY <1>1, <1>3, <2>1, <3>1 DEF Advance, Final, FinishCollection, AllPlaced
    <3>2. CASE pc' = "exit" /\ u' = u
      BY <3>2 DEF Final
    <3>3. QED  BY <2>2, <3>1, <3>2
  <2>4. QED  BY <1>3, <1>4, <2>1, <2>3 DEF Final, FinishCollection, AllPlaced
<1>5. CASE PlaceSection \/ Relocate \/ Generate \/ GenerateRaises
  <2>1. u' = u /\ pass' = pass
    BY <1>5 DEF PlaceSection, Place, Relocate, StartMap, Generate, GenerateRaises
  <2>2. pc' \in {"codegen", "raised"} => pc \in {"codegen", "raised"}
    BY <1>5 DEF PlaceSection, Place, Relocate, StartMap, Generate, GenerateRaises
  <2>3. QED  BY <2>1, <2>2 DEF Final
<1>6. CASE Initialize \/ InitializeFails \/ PlaceSentinel \/ PlaceUobj
  <2>1. pass = 1 /\ pass' = pass
    BY <1>6 DEF Initialize, InitializeFails, StartMap, PlaceSentinel, PlaceUobj,
       AddSection, IInv, Cursor
  <2>2. QED  BY <2>1 DEF Final
<1>7. QED  BY <1>2, <1>4, <1>5, <1>6 DEF Next, Finishes

\* Places do not move in the second pass.
LEMMA PlacesStay ==
    ASSUME IInv, Next, TypeOK', NEW v \in Uobj, pass = 2
    PROVE  /\ Start(v)' = Start(v) /\ \A m : MethodAt(v, m)' = MethodAt(v, m)
           /\ SectionOf(UobjKey(v))' = SectionOf(UobjKey(v))
<1>1. Placed(UobjKey(v))
  BY DEF IInv, Reserved
<1>2. Start(v)' = Start(v) /\ SectionOf(UobjKey(v))' = SectionOf(UobjKey(v))
  BY <1>1, SlotStays
<1>3. Length' = Length
  BY SameInput DEF Length
<1>4. QED  BY <1>2, <1>3 DEF MethodAt

\* The addresses of methods.
LEMMA MethodAddresses ==
    ASSUME IInv, Layouts, MethodInv, Next, TypeOK',
           NEW v \in inited', NEW m \in Method(v)',
           Final(v)' \/ (pass' = 2 /\ pc' = "place" /\ v = u' /\ m + 1 < i')
    PROVE  methodAddr'[<<v, m>>] = MethodAt(v, m)'
<1>1. /\ u \in Nat \ {0} /\ i \in Nat \ {0} /\ pass \in {1, 2} /\ inited \subseteq Uobj
      /\ methodAddr \in [MethodId -> Nat]
  BY Basics DEF IInv
<1>2. CASE PlaceSection
  <2>1. /\ pc = "place" /\ pc' = pc /\ pass' = pass /\ u' = u /\ i' = i + 1
        /\ inited' = inited /\ u \in Uobj
    BY <1>2 DEF PlaceSection, Place, IInv, Cursor
  <2>2. pass = 2 /\ v \in inited /\ m \in Method(v)
    BY <2>1, SameInput DEF Final, Method
  <2>3. MethodAt(v, m)' = MethodAt(v, m)
    BY <1>1, <2>2, PlacesStay
  <2>4. m \in Nat \ {0} /\ v \in Uobj
    BY <1>1, <2>2, CollectionFields, Input DEF Method, IInv
  <2>5. <<v, m>> \in MethodId
    BY <2>2, <2>4 DEF MethodId
  <2>6. CASE v = u /\ m = i - 1
    <3>1. ForMethod(u, i)
      BY <2>2, <2>6 DEF ForMethod
    <3>2. methodAddr'[<<v, m>>] = next
      BY <1>1, <1>2, <2>5, <2>6, <3>1 DEF PlaceSection
    <3>3. i <= coll.uobjs[u].methods + 2
      <4>1. coll.uobjs[u].methods \in Nat
        BY <2>4, <2>6, CollectionFields, Input DEF IInv
      <4>2. QED  BY <1>1, <2>2, <2>6, <4>1 DEF Method
    <3>4. next = load[u] + (i - 1) * Length
      BY <2>1, <2>2, <2>6, <3>3 DEF MethodInv
    <3>5. load[u] = Start(u)
      BY <2>1, <2>2 DEF Layouts, WalkInv, PlacedMap
    <3>6. QED  BY <2>3, <2>6, <3>2, <3>4, <3>5 DEF MethodAt
  <2>7. CASE ~(v = u /\ m = i - 1)
    <3>1. <<v, m>> # <<u, i - 1>>
      BY <2>7
    <3>2. methodAddr'[<<v, m>>] = methodAddr[<<v, m>>]
      BY <1>1, <1>2, <2>5, <3>1 DEF PlaceSection
    <3>3. Final(v) \/ (v = u /\ m + 1 < i)
      <4>1. CASE Final(v)'
        BY <2>1, <4>1 DEF Final
      <4>2. CASE v = u /\ m + 1 < i + 1
        BY <1>1, <2>4, <2>7, <4>2
      <4>3. QED  BY <2>1, <4>1, <4>2
    <3>4. methodAddr[<<v, m>>] = MethodAt(v, m)
      BY <2>1, <2>2, <3>3 DEF MethodInv
    <3>5. QED  BY <2>3, <3>2, <3>4
  <2>8. QED  BY <2>6, <2>7
<1>3. CASE ~PlaceSection
  <2>1. methodAddr' = methodAddr
    BY <1>3 DEF Next, Initialize, InitializeFails, FillUniform, PadAndResize,
       PlaceSentinel, PlaceUobj, FinishCollection, Relocate, Generate, GenerateRaises,
       StartMap, Advance, AddSection
  <2>2. v \in Uobj
    <3>1. inited' \subseteq Uobj'
      BY DEF TypeOK, UobjsOK
    <3>2. QED  BY <3>1, SameInput
  <2>3. Final(v)'
    <3>1. ASSUME pc' = "place" PROVE i' = 1
      BY <1>3, <3>1 DEF Next, InitializeFails, FillUniform, PadAndResize,
         AllPlaced, PlaceSentinel, PlaceUobj, FinishCollection, Generate,
         GenerateRaises, Initialize, Relocate, StartMap, Advance
    <3>2. m \in Nat
      <4>1. Method(v)' = Method(v)
        BY SameInput DEF Method
      <4>2. QED  BY <4>1 DEF Method
    <3>3. QED  BY <3>1, <3>2
  <2>4. pass = 2 /\ (Final(v) \/ (v = u /\ AllPlaced /\ Finishes))
    BY <2>2, <2>3, FinalSteps
  <2>5. v \in inited /\ m \in Method(v)
    <3>1. inited' = inited
      BY <2>4, InitedSteps DEF IInv, Cursor
    <3>2. QED  BY <3>1, SameInput DEF Method
  <2>6. MethodAt(v, m)' = MethodAt(v, m)
    BY <2>2, <2>4, PlacesStay
  <2>7. CASE Final(v)
    BY <2>1, <2>5, <2>6, <2>7 DEF MethodInv
  <2>8. CASE v = u /\ AllPlaced
    <3>1. pc = "place" /\ i > Len(Sections(u))
      BY <2>8 DEF AllPlaced
    <3>2. m + 1 < i
      <4>1. /\ 13 + coll.uobjs[u].methods <= Len(Sections(u))
            /\ Len(Sections(u)) \in Nat
        BY <2>2, <2>5, <2>8, SectionSizes DEF IInv
      <4>2. coll.uobjs[u].methods \in Nat
        BY <2>2, <2>8, CollectionFields, Input DEF IInv
      <4>3. m \in 1 .. coll.uobjs[u].methods
        BY <2>5, <2>8 DEF Method
      <4>4. QED  BY <1>1, <3>1, <4>1, <4>2, <4>3
    <3>3. methodAddr[<<v, m>>] = MethodAt(v, m)
      BY <2>4, <2>5, <2>8, <3>1, <3>2 DEF MethodInv
    <3>4. QED  BY <2>1, <2>6, <3>3
  <2>9. QED  BY <2>4, <2>7, <2>8
<1>4. QED  BY <1>2, <1>3

\* Sentinels are generated when all methods are where they stay.
LEMMA GeneratedStep ==
    ASSUME IInv, Layouts, MethodInv, Next, TypeOK'
    PROVE  /\ pc' \notin {"codegen", "raised"} => generated' = {}
           /\ \A g \in generated' : g.sentinel.uobj \in inited' =>
                 g.methodAddr = MethodAt(g.sentinel.uobj, g.sentinel.method)'
<1>1. CASE Generate
  <2>1. pc = "codegen" /\ pc' = pc /\ pass = 2 /\ inited' = inited
    BY <1>1 DEF Generate, IInv, Cursor
  <2>2. PICK s \in Exposed \cup Intra :
          /\ Known(s)
          /\ generated' = generated \cup
              {[sentinel |-> s, code |-> "inter", addr |-> SectionOf(s).start,
                methodAddr |-> methodAddr[<<s.uobj, s.method>>]]}
    BY <1>1 DEF Generate
  <2>3. ASSUME NEW g \in generated', g.sentinel.uobj \in inited
        PROVE  g.methodAddr = MethodAt(g.sentinel.uobj, g.sentinel.method)
    <3>1. CASE g \in generated
      BY <2>3, <3>1 DEF MethodInv
    <3>2. CASE g \notin generated
      <4>1. g.sentinel = s /\ g.methodAddr = methodAddr[<<s.uobj, s.method>>]
        BY <2>2, <3>2
      <4>2. s.uobj \in inited /\ s.method \in Method(s.uobj) /\ Final(s.uobj)
        BY <2>1, <2>2, <2>3, <4>1 DEF Known, Final
      <4>3. methodAddr[<<s.uobj, s.method>>] = MethodAt(s.uobj, s.method)
        BY <4>2 DEF MethodInv
      <4>4. QED  BY <4>1, <4>3
    <3>3. QED  BY <3>1, <3>2
  <2>4. \A v \in inited : \A m : MethodAt(v, m)' = MethodAt(v, m)
    BY <2>1, PlacesStay, Basics DEF IInv
  <2>5. QED  BY <2>1, <2>3, <2>4
<1>2. CASE ~Generate
  <2>1. generated' = generated
    BY <1>2 DEF Next, Initialize, InitializeFails, PlaceSection, Place, FillUniform,
       PadAndResize, PlaceSentinel, PlaceUobj, FinishCollection, Relocate,
       GenerateRaises, StartMap, Advance, AddSection, collVars
  <2>2. CASE generated = {}
    BY <2>1, <2>2
  <2>3. CASE generated # {}
    <3>1. pc \in {"codegen", "raised"} /\ pass = 2
      BY <2>3 DEF MethodInv, IInv, Cursor
    <3>2. pc' = "raised" /\ inited' = inited
      BY <1>2, <3>1, InitedSteps
         DEF Next, Initialize, InitializeFails, PlaceSection, Place, FillUniform,
             PadAndResize, AllPlaced, PlaceSentinel, PlaceUobj, FinishCollection,
             Relocate, GenerateRaises
    <3>3. \A v \in inited : \A m : MethodAt(v, m)' = MethodAt(v, m)
      BY <3>1, PlacesStay, Basics DEF IInv
    <3>4. QED  BY <2>1, <3>2, <3>3 DEF MethodInv
  <2>4. QED  BY <2>2, <2>3
<1>3. QED  BY <1>1, <1>2

LEMMA MethodStep ==
    ASSUME IInv, Layouts, MethodInv, Next, TypeOK'
    PROVE  MethodInv'
<1>1. pc' = "place" /\ u' \in inited' /\ i' <= coll'.uobjs[u'].methods + 2 =>
          next' = load'[u'] + (i' - 1) * Length'
  BY MethodWalk DEF Layouts
<1>2. \A v \in inited' : \A m \in Method(v)' :
         Final(v)' \/ (pass' = 2 /\ pc' = "place" /\ v = u' /\ m + 1 < i') =>
             methodAddr'[<<v, m>>] = MethodAt(v, m)'
  BY MethodAddresses
<1>3. QED  BY <1>1, <1>2, GeneratedStep DEF MethodInv

---------------------------------------------------------------------------
(* Sizes *)

LEMMA SameHarmony == Next => (Harmonious' <=> Harmonious)
BY SameInput DEF Harmonious

\* Multiples remain multiples of the same alignment.
LEMMA SameFits == Next => \A n : Fits(n)' <=> Fits(n)
BY SameInput DEF Fits

\* What a uobj takes, when it has been laid out, is a natural number.
LEMMA ExtentAtEnd ==
    ASSUME IInv, Layouts, AllPlaced
    PROVE  Extent(u) \in Nat /\ Pad(Total(u), conf.uobjAlign) \in Nat
<1>1. Total(u) \in Nat /\ conf.uobjAlign \in Nat \ {0} /\ conf.uobjSize \in Nat
  BY WalkEnds, Basics DEF IInv
<1>2. Pad(Total(u), conf.uobjAlign) \in Nat
  BY <1>1, PadNat
<1>3. QED  BY <1>1, <1>2 DEF Extent

\* The load address of a uobj is a multiple, so what comes behind it is padded
\* as it would be at address 0.
LEMMA LoadFits ==
    ASSUME IInv, Layouts, AllPlaced, SlotInv
    PROVE  /\ Fits(load[u])
           /\ Pad(next, conf.uobjAlign) = Pad(Total(u), conf.uobjAlign)
           /\ Fits(next + Pad(next, conf.uobjAlign))
<1>1. /\ u \in Uobj /\ load[u] \in Nat /\ Total(u) \in Nat /\ next \in Nat
      /\ next = load[u] + Total(u)
      /\ load[u] = IF pass = 1 THEN 0 ELSE Start(u)
      /\ conf.uobjAlign \in Nat \ {0} /\ pass \in {1, 2}
  BY WalkEnds, Basics DEF IInv
<1>2. Fits(load[u])
  <2>1. CASE pass = 1
    <3>1. 0 % conf.uobjAlign = 0
      BY <1>1
    <3>2. QED  BY <1>1, <2>1, <3>1 DEF Fits
  <2>2. CASE pass = 2
    <3>1. \E k \in DOMAIN collMap : Start(u) = collMap[k].start
      BY <1>1, <2>2, Slots DEF IInv, Reserved
    <3>2. QED  BY <1>1, <2>2, <3>1 DEF SlotInv
  <2>3. QED  BY <1>1, <2>1, <2>2
<1>3. Pad(next, conf.uobjAlign) = Pad(Total(u), conf.uobjAlign)
  BY <1>1, <1>2, PadShift DEF Fits
<1>4. Fits(next + Pad(next, conf.uobjAlign))
  BY <1>1, Padded DEF Fits
<1>5. QED  BY <1>2, <1>3, <1>4

\* The size that PadAndResize gives.
LEMMA Resized ==
    ASSUME IInv, Layouts, AllPlaced, SlotInv
    PROVE  LET padding == Pad(next, conf.uobjAlign) IN
           /\ padding \in Nat
           /\ next + padding - load[u] \in Nat
           /\ Fits(next + padding - load[u])
           /\ ~conf.uniform => next + padding - load[u] = Extent(u)
           /\ padding = 0 <=> ~(Total(u) % conf.uobjAlign > 0)
<1> DEFINE padding == Pad(next, conf.uobjAlign)
<1>1. /\ load[u] \in Nat /\ Total(u) \in Nat /\ next \in Nat
      /\ next = load[u] + Total(u) /\ conf.uobjAlign \in Nat \ {0}
  BY WalkEnds, Basics DEF IInv
<1>2. /\ Fits(load[u]) /\ padding = Pad(Total(u), conf.uobjAlign)
      /\ Fits(next + padding) /\ padding \in Nat
  BY <1>1, LoadFits, PadNat
<1>3. padding = 0 <=> ~(Total(u) % conf.uobjAlign > 0)
  <2>1. padding = 0 <=> Total(u) % conf.uobjAlign = 0
    BY <1>1, <1>2, Padded
  <2>2. Total(u) % conf.uobjAlign \in Nat
    BY <1>1
  <2>3. QED  BY <2>1, <2>2
<1> HIDE DEF padding
<1>4. next + padding - load[u] = Total(u) + padding
  BY <1>1, <1>2
<1>5. load[u] <= next + padding /\ next + padding \in Nat
  BY <1>1, <1>2
<1>6. Fits(next + padding - load[u])
  <2>1. PICK x \in Nat : x = load[u]
    BY <1>1
  <2>2. PICK y \in Nat : y = next + padding
    BY <1>5
  <2>3. PICK c \in Nat \ {0} : c = conf.uobjAlign
    BY <1>1
  <2>4. x % c = 0 /\ y % c = 0 /\ x <= y
    BY <1>2, <1>5, <2>1, <2>2, <2>3 DEF Fits
  <2>5. (y - x) % c = 0
    BY <2>4, Multiples
  <2>6. y - x = next + padding - load[u]
    BY <1>1, <1>2, <2>1, <2>2
  <2>7. QED  BY <2>3, <2>5, <2>6 DEF Fits
<1>7. ~conf.uniform => next + padding - load[u] = Extent(u)
  BY <1>2, <1>4 DEF Extent
<1>8. QED
  BY <1>1, <1>2, <1>3, <1>4, <1>6, <1>7 DEF padding

\* Sizes change in PadAndResize only.
LEMMA SizeSteps ==
    ASSUME IInv, Layouts, SlotInv, Next
    PROVE  \/ size' = size
           \/ /\ PadAndResize /\ ~conf.uniform /\ u \in Uobj
              /\ size' = [size EXCEPT ![u] = next + Pad(next, conf.uobjAlign) - load[u]]
<1>1. CASE PadAndResize
  <2>1. u \in Uobj
    BY <1>1 DEF PadAndResize, AllPlaced, IInv, Cursor
  <2>2. QED  BY <1>1, <2>1 DEF PadAndResize
<1>2. CASE ~PadAndResize
  BY <1>2 DEF Next, Initialize, InitializeFails, PlaceSection, Place, FillUniform,
     PlaceSentinel, PlaceUobj, FinishCollection, Relocate, Generate, GenerateRaises,
     StartMap, AddSection
<1>3. QED  BY <1>1, <1>2

LEMMA SizeStep ==
    ASSUME IInv, Layouts, Harmonious, SizeInv, SlotInv, Next
    PROVE  SizeInv'
<1>1. conf' = conf /\ Uobj' = Uobj
  BY SameInput
<1>2. size \in [Uobj -> Nat] /\ u \in Nat
  BY Basics DEF IInv
<1>3. \A v \in Uobj : Fits(size'[v])
  <2>1. CASE size' = size
    BY <2>1 DEF SizeInv
  <2>2. CASE PadAndResize /\ size' = [size EXCEPT ![u] = next + Pad(next, conf.uobjAlign) - load[u]]
    <3>1. Fits(next + Pad(next, conf.uobjAlign) - load[u])
      BY <2>2, Resized DEF PadAndResize
    <3>2. \A v \in Uobj : size'[v] = size[v] \/ size'[v] = next + Pad(next, conf.uobjAlign) - load[u]
      BY <1>2, <2>2
    <3>3. QED  BY <3>1, <3>2 DEF SizeInv
  <2>3. QED  BY <2>1, <2>2, SizeSteps
<1>4. conf.uniform => \A v \in Uobj : size'[v] = conf.uobjSize
  BY SizeSteps DEF SizeInv
<1>5. ASSUME NEW v \in Uobj, Settled(v)', Sized(v)'
      PROVE  size'[v] = Extent(v)'
  <2>1. v \in inited /\ (Settled(v) \/ (v = u /\ AllPlaced /\ Finishes))
    BY <1>5, SettledSteps DEF Layouts
  <2>2. Extent(v)' = Extent(v) /\ Sized(v)
    BY <1>5, <2>1, SectionsStay
  <2>3. CASE conf.uniform
    BY <1>4, <2>2, <2>3 DEF Extent
  <2>4. CASE ~conf.uniform /\ size'[v] = size[v] /\ Settled(v)
    BY <2>2, <2>4 DEF SizeInv
  <2>5. CASE ~conf.uniform /\ v = u /\ PadAndResize
    <3>1. AllPlaced /\ Total(u) % conf.uobjAlign > 0
      BY <2>2, <2>5 DEF PadAndResize, Sized
    <3>2. Pad(next, conf.uobjAlign) # 0 /\ Pad(next, conf.uobjAlign) \in Nat
      BY <3>1, Resized
    <3>3. size' = [size EXCEPT ![u] = next + Pad(next, conf.uobjAlign) - load[u]]
      BY <2>5, <3>2 DEF PadAndResize
    <3>4. next + Pad(next, conf.uobjAlign) - load[u] = Extent(u)
      BY <2>5, <3>1, Resized
    <3>5. QED  BY <1>2, <2>2, <2>5, <3>3, <3>4
  <2>6. CASE ~conf.uniform /\ ~(v = u /\ PadAndResize)
    <3>1. size'[v] = size[v]
      BY <1>2, <2>6, SizeSteps
    <3>2. ~FillUniform
      BY <2>6 DEF FillUniform
    <3>3. Settled(v)
      BY <2>1, <2>6, <3>2 DEF Finishes
    <3>4. QED  BY <2>4, <2>6, <3>1, <3>3
  <2>7. QED  BY <2>3, <2>5, <2>6
<1>6. (\A v \in Uobj : Fits(size[v]))'
  BY <1>1, <1>3 DEF Fits
<1>7. QED  BY <1>1, <1>4, <1>5, <1>6 DEF SizeInv

---------------------------------------------------------------------------
(* The places that the collection gives to uobjs *)

\* What is placed at a multiple, and takes a multiple, leaves a multiple.
LEMMA NextFits ==
    ASSUME IInv, Harmonious, SizeInv, Fits(next), PlaceSentinel \/ PlaceUobj
    PROVE  Fits(next')
<1>1. /\ conf.uobjAlign \in Nat \ {0} /\ conf.collAlign \in Nat \ {0} /\ next \in Nat
      /\ size \in [Uobj -> Nat]
  BY Basics DEF IInv
<1>2. CASE PlaceUobj
  <2>1. next' = next + size[u] /\ u \in Uobj /\ size[u] \in Nat
    BY <1>1, <1>2 DEF PlaceUobj, AddSection
  <2>2. Fits(size[u])
    BY <2>1 DEF SizeInv
  <2>3. QED  BY <1>1, <2>1, <2>2, Multiples DEF Fits
<1>3. CASE PlaceSentinel
  <2>1. PICK s \in Exposed \cup Intra :
          LET n == CodeSize[<<s.facet, s.type>>] IN
          AddSection(s, n + PadAlways(n, conf.collAlign))
    BY <1>3 DEF PlaceSentinel
  <2>2. PICK n \in Nat : n = CodeSize[<<s.facet, s.type>>]
    BY SentinelKeys DEF IInv
  <2>3. PICK t \in Nat : t = n + PadAlways(n, conf.collAlign)
    BY <1>1, PadNat
  <2>4. next' = next + t
    BY <2>1, <2>2, <2>3 DEF AddSection
  <2>5. t % conf.collAlign = 0
    BY <1>1, <2>3, Padded
  <2>6. conf.collAlign % conf.uobjAlign = 0
    BY DEF Harmonious
  <2>7. t % conf.uobjAlign = 0
    BY <1>1, <2>5, <2>6, MultipleOfMultiple
  <2>8. QED  BY <1>1, <2>4, <2>7, Multiples DEF Fits
<1>4. QED  BY <1>2, <1>3

\* The names of the sections of uobjs, and that no sentinel has such a name.
LEMMA PlacedKeys ==
    ASSUME IInv, Harmonious, PlaceSentinel \/ PlaceUobj
    PROVE  \E key : \E length \in Nat :
             /\ AddSection(key, length)
             /\ \/ PlaceUobj /\ u \in Uobj /\ key = UobjKey(u) /\ length = size[u]
                \/ PlaceSentinel /\ \A v : key # UobjKey(v)
<1>1. CASE PlaceUobj
  <2>1. u \in Uobj /\ AddSection(UobjKey(u), size[u]) /\ size[u] \in Nat
    BY <1>1, Basics DEF PlaceUobj, IInv
  <2>2. QED  BY <1>1, <2>1
<1>2. CASE PlaceSentinel
  <2>1. PICK s \in Exposed \cup Intra :
          LET n == CodeSize[<<s.facet, s.type>>] IN
          AddSection(s, n + PadAlways(n, conf.collAlign))
    BY <1>2 DEF PlaceSentinel
  <2>2. PICK n \in Nat : n = CodeSize[<<s.facet, s.type>>]
    BY SentinelKeys DEF IInv
  <2>3. PICK t \in Nat : t = n + PadAlways(n, conf.collAlign)
    <3>1. conf.collAlign \in Nat \ {0}
      BY Basics DEF IInv
    <3>2. PadAlways(n, conf.collAlign) \in Nat
      BY <3>1, PadNat
    <3>3. QED  BY <3>2
  <2>4. AddSection(s, t)
    BY <2>1, <2>2, <2>3
  <2>5. s.facet \in Facet
    BY SentinelKeys DEF IInv, SentinelKey
  <2>6. \A v : s # UobjKey(v)
    <3>1. \A v : UobjKey(v).facet = "uobj"
      BY DEF UobjKey
    <3>2. QED  BY <2>5, <3>1 DEF Facet
  <2>7. QED  BY <1>2, <2>4, <2>6
<1>3. QED  BY <1>1, <1>2

\* A new section starts at a multiple, and the first section of the name of a
\* uobj is the one that the uobj gets.
LEMMA SlotPlace ==
    ASSUME IInv, Layouts, Harmonious, SizeInv, SlotInv, Next, TypeOK',
           PlaceSentinel \/ PlaceUobj
    PROVE  SlotInv'
<1> DEFINE Adds(key, length) ==
             /\ AddSection(key, length)
             /\ \/ PlaceUobj /\ u \in Uobj /\ key = UobjKey(u) /\ length = size[u]
                \/ PlaceSentinel /\ \A v : key # UobjKey(v)
<1>a. PICK key : \E length \in Nat : Adds(key, length)
  BY PlacedKeys
<1>1. PICK length \in Nat : Adds(key, length)
  BY <1>a
<1>2. /\ conf' = conf /\ Uobj' = Uobj /\ \A v : UobjKey(v)' = UobjKey(v)
      /\ \A n : Fits(n)' <=> Fits(n)
  BY SameInput, SameFits
<1>3. PICK last \in Nat : last = Len(collMap) + 1
  BY Entries DEF IInv
<1>4. /\ DOMAIN collMap = 1 .. last - 1 /\ DOMAIN collMap' = 1 .. last
      /\ \A k \in DOMAIN collMap : collMap'[k] = collMap[k]
      /\ collMap'[last].key = key /\ collMap'[last].start = next
      /\ collMap'[last].size = length
  <2>1. /\ DOMAIN collMap' = 1 .. Len(collMap) + 1
        /\ \A k \in DOMAIN collMap : collMap'[k] = collMap[k]
        /\ collMap'[Len(collMap) + 1] = [key |-> key, start |-> next, size |-> length]
    BY <1>1, Appended
  <2>2. DOMAIN collMap = 1 .. Len(collMap) /\ Len(collMap) \in Nat
    BY Entries DEF IInv
  <2>3. collMap'[last] = [key |-> key, start |-> next, size |-> length]
    BY <1>3, <2>1
  <2>4. QED  BY <1>3, <2>1, <2>2, <2>3
<1>5. /\ pc \in {"sentinel", "slot"} /\ pc' \in {"sentinel", "slot"} /\ pass = 1
      /\ pass' = pass /\ u \in Nat \ {0} /\ inited' = inited
      /\ PlaceUobj => u' = u + 1 /\ pc' = "slot"
      /\ PlaceSentinel => u' = u /\ pc' = "sentinel"
  BY <1>1, Basics DEF PlaceSentinel, PlaceUobj, IInv, Cursor, AddSection
<1>6. Uobj \subseteq Nat
  BY Basics DEF IInv
<1>7. (pc \in {"sentinel", "slot"} => Fits(next))'
  BY <1>2, <1>5, NextFits DEF SlotInv
<1>8. (\A k \in DOMAIN collMap : Fits(collMap[k].start))'
  <2>1. ASSUME NEW k \in 1 .. last PROVE Fits(collMap'[k].start)
    <3>1. CASE k = last
      BY <1>4, <1>5, <3>1 DEF SlotInv
    <3>2. CASE k # last
      <4>1. k \in DOMAIN collMap
        BY <1>4, <3>2
      <4>2. QED  BY <1>4, <4>1 DEF SlotInv
    <3>3. QED  BY <3>1, <3>2
  <2>2. QED  BY <1>2, <1>4, <2>1
<1>9. ASSUME NEW k \in 1 .. last, NEW v \in Uobj, collMap'[k].key = UobjKey(v)
      PROVE  v < u'
  <2>1. CASE k # last
    <3>1. k \in DOMAIN collMap
      BY <1>4, <2>1
    <3>2. collMap[k].key = UobjKey(v)
      BY <1>4, <1>9, <3>1
    <3>3. v < u
      BY <1>5, <3>1, <3>2 DEF SlotInv
    <3>4. u <= u'
      BY <1>1, <1>5
    <3>5. u' \in Nat /\ v \in Nat
      BY <1>6 DEF TypeOK, PositionOK
    <3>6. QED  BY <1>5, <3>3, <3>4, <3>5
  <2>2. CASE k = last
    <3>1. key = UobjKey(v) /\ PlaceUobj /\ u \in Uobj /\ key = UobjKey(u)
      BY <1>1, <1>4, <1>9, <2>2
    <3>2. coll.uobjs[v].name = coll.uobjs[u].name
      BY <3>1 DEF UobjKey
    <3>3. v = u
      BY <3>1, <3>2 DEF Harmonious
    <3>4. QED  BY <1>5, <3>1, <3>3
  <2>3. QED  BY <2>1, <2>2
<1>10. (pc \in {"sentinel", "slot"} =>
         \A k \in DOMAIN collMap : \A v \in Uobj :
             collMap[k].key = UobjKey(v) => v < u)'
  BY <1>2, <1>4, <1>9
<1>11. ASSUME NEW v \in Uobj, Sized(v)', pass' = 2 \/ (pc' = "slot" /\ v < u')
       PROVE  SectionOf(UobjKey(v))'.size = Extent(v)'
  <2>1. PlaceUobj /\ u' = u + 1 /\ v <= u
    BY <1>1, <1>5, <1>6, <1>11
  <2>2. /\ v \in inited /\ Extent(v)' = Extent(v) /\ Sized(v)
    <3>1. v \in inited
      BY <1>5, <1>11 DEF Sized
    <3>2. QED  BY <1>11, <3>1, SectionsStay
  <2>3. CASE v < u
    <3>1. pc = "slot"
      <4>1. u # 1
        BY <1>6, <2>3, Basics DEF IInv
      <4>2. QED  BY <1>5, <4>1 DEF IInv, Cursor
    <3>2. Placed(UobjKey(v))
      BY <2>3, <3>1 DEF IInv, Reserved
    <3>3. SectionOf(UobjKey(v))' = SectionOf(UobjKey(v))
      BY <3>2, SlotStays
    <3>4. SectionOf(UobjKey(v)).size = Extent(v)
      BY <2>2, <2>3, <3>1 DEF SlotInv
    <3>5. QED  BY <2>2, <3>3, <3>4
  <2>4. CASE v = u
    <3>1. key = UobjKey(v) /\ length = size[v]
      BY <1>1, <2>1, <2>4 DEF PlaceSentinel
    <3>2. \A k \in 1 .. last - 1 : collMap'[k].key # key
      <4>1. ASSUME NEW k \in 1 .. last - 1, collMap'[k].key = key PROVE FALSE
        <5>1. k \in DOMAIN collMap /\ collMap[k].key = UobjKey(v)
          BY <1>4, <3>1, <4>1
        <5>2. v < u
          BY <1>5, <5>1 DEF SlotInv
        <5>3. QED  BY <1>5, <2>4, <5>2
      <4>2. QED  BY <4>1
    <3>3. Leads(collMap', key, last)
      BY <1>3, <1>4, <3>2 DEF Leads
    <3>4. Find(collMap', key) = collMap'[last]
      <4>1. DOMAIN collMap' \subseteq Nat \ {0}
        BY <1>4
      <4>2. QED  BY <3>3, <4>1, FindsFirst
    <3>5. UobjKey(v)' = key
      BY <1>2, <3>1
    <3>6. SectionOf(UobjKey(v))' = collMap'[last]
      BY <3>4, <3>5 DEF SectionOf, Find
    <3>7. Settled(v)
      BY <1>5, <2>2 DEF Settled
    <3>8. size[v] = Extent(v)
      BY <2>2, <3>7 DEF SizeInv
    <3>9. QED  BY <1>4, <2>2, <3>1, <3>6, <3>8
  <2>5. QED  BY <1>5, <1>6, <2>1, <2>3, <2>4
<1>12. (\A v \in Uobj :
          Sized(v) /\ (pass = 2 \/ (pc = "slot" /\ v < u)) =>
              SectionOf(UobjKey(v)).size = Extent(v))'
  BY <1>2, <1>11
<1>13. QED  BY <1>7, <1>8, <1>10, <1>12 DEF SlotInv

\* The other steps leave the sections of the collection alone.
LEMMA SlotRest ==
    ASSUME IInv, Layouts, Harmonious, SlotInv, Next, TypeOK',
           collMap' = collMap, ~PlaceSentinel, ~PlaceUobj
    PROVE  SlotInv'
<1>1. /\ conf' = conf /\ Uobj' = Uobj /\ \A v : UobjKey(v)' = UobjKey(v)
      /\ \A n : Fits(n)' <=> Fits(n)
  BY SameInput, SameFits
<1>2. ASSUME pc' \in {"sentinel", "slot"}
      PROVE  next' = conf.load /\ collMap = <<>> /\ pass' = 1
  <2>1. Outside
    BY <1>2, ThreeGroups DEF FinishCollection
  <2>2. /\ pc \notin {"sentinel", "slot"} /\ pass = 1 /\ next' = conf.load
        /\ pass' = pass
    BY <1>2, <2>1, OutsideUnchanged
  <2>3. QED  BY <2>2 DEF IInv, Frontier
<1>3. (pc \in {"sentinel", "slot"} => Fits(next))'
  BY <1>1, <1>2 DEF Harmonious, Fits
<1>4. (\A k \in DOMAIN collMap : Fits(collMap[k].start))'
  BY <1>1 DEF SlotInv
<1>5. (pc \in {"sentinel", "slot"} =>
         \A k \in DOMAIN collMap : \A v \in Uobj :
             collMap[k].key = UobjKey(v) => v < u)'
  <2>1. pc' \in {"sentinel", "slot"} => DOMAIN collMap' = {}
    BY <1>2
  <2>2. QED  BY <2>1
<1>6. ASSUME NEW v \in Uobj, Sized(v)', pass' = 2 \/ (pc' = "slot" /\ v < u')
      PROVE  SectionOf(UobjKey(v))'.size = Extent(v)'
  <2>1. pc' # "slot"
    BY DEF Next, Initialize, InitializeFails, PlaceSection, Place, FillUniform,
       PadAndResize, AllPlaced, FinishCollection, Relocate, Generate, GenerateRaises,
       StartMap, Advance, IInv, Cursor
  <2>2. SectionOf(UobjKey(v))' = SectionOf(UobjKey(v))
    BY <1>1 DEF SectionOf
  <2>3. pass = 2 \/ FinishCollection
    <3>1. Outside => pass' = pass
      BY OutsideUnchanged
    <3>2. QED  BY <1>6, <2>1, <3>1, ThreeGroups
  <2>4. pc # "uobj"
    BY <2>3 DEF FinishCollection, IInv, Cursor
  <2>5. Extent(v)' = Extent(v) /\ Sized(v)
    BY <1>6, <2>4, SectionsStay
  <2>6. pass = 2 \/ (pc = "slot" /\ v < u)
    <3>1. CASE FinishCollection /\ pass # 2
      <4>1. pc \in {"sentinel", "slot"} /\ u \notin Uobj
        BY <3>1 DEF FinishCollection
      <4>2. /\ Uobj = 1 .. Len(coll.uobjs) /\ Len(coll.uobjs) \in Nat
            /\ u \in Nat \ {0} /\ v \in Nat \ {0}
        BY Basics DEF IInv
      <4>3. v < u
        BY <4>1, <4>2
      <4>4. pc # "sentinel"
        BY <4>2, <4>3 DEF IInv, Cursor
      <4>5. QED  BY <4>1, <4>3, <4>4
    <3>2. QED  BY <2>3, <3>1
  <2>7. QED  BY <2>2, <2>5, <2>6 DEF SlotInv
<1>7. (\A v \in Uobj :
         Sized(v) /\ (pass = 2 \/ (pc = "slot" /\ v < u)) =>
             SectionOf(UobjKey(v)).size = Extent(v))'
  BY <1>1, <1>6
<1>8. QED  BY <1>3, <1>4, <1>5, <1>7 DEF SlotInv

LEMMA SlotStep ==
    ASSUME IInv, Layouts, Harmonious, SizeInv, SlotInv, Next, TypeOK'
    PROVE  SlotInv'
<1>1. CASE PlaceSentinel \/ PlaceUobj
  BY <1>1, SlotPlace
<1>2. CASE ~(PlaceSentinel \/ PlaceUobj)
  <2>1. collMap' = collMap
    BY <1>2, OutsideUnchanged, ThreeGroups DEF FinishCollection
  <2>2. QED  BY <1>2, <2>1, SlotRest
<1>3. QED  BY <1>1, <1>2

\* A uobj that has just been laid out in the second pass fills its section.
LEMMA FilledNow ==
    ASSUME IInv, Layouts, Harmonious, SizeInv, SlotInv, Finishes, pass = 2,
           Sized(u), Advance
    PROVE  /\ map'[u] # <<>>
           /\ map'[u][1].start = Start(u)
           /\ End(map'[u][Len(map'[u])]) = Start(u) + Extent(u)
<1>1. AllPlaced
  BY DEF Finishes, FillUniform, PadAndResize
<1>2. u \in Uobj /\ u \in inited /\ map \in [Uobj -> Seq(Section)]
      /\ size \in [Uobj -> Nat]
  BY <1>1, WalkEnds, Basics DEF Sized, IInv
<1>3. PICK m \in Seq(Section) : m = map[u]
  BY <1>2
<1>4. /\ load[u] \in Nat /\ Total(u) \in Nat /\ next = load[u] + Total(u)
      /\ load[u] = Start(u) /\ next \in Nat
      /\ Len(m) > 0 /\ m[1].start = load[u] /\ End(m[Len(m)]) = next
  BY <1>1, <1>2, <1>3, WalkEnds
<1>5. Len(m) \in Nat /\ m # <<>>
  BY <1>4
\* With or without one more section.
<1>6. ASSUME NEW n \in Nat, next + n = Start(u) + Extent(u),
             map' = [map EXCEPT ![u] = Append(@, [start |-> next, size |-> n])]
      PROVE  /\ map'[u] # <<>>
             /\ map'[u][1].start = Start(u)
             /\ End(map'[u][Len(map'[u])]) = Start(u) + Extent(u)
  <2>1. map'[u] = Append(m, [start |-> next, size |-> n])
    BY <1>2, <1>3, <1>6
  <2>2. /\ Len(map'[u]) = Len(m) + 1 /\ map'[u][1] = m[1]
        /\ map'[u][Len(m) + 1] = [start |-> next, size |-> n]
    BY <1>4, <1>5, <2>1
  <2>3. End(map'[u][Len(map'[u])]) = next + n
    BY <2>2 DEF End
  <2>4. map'[u] # <<>>
    BY <1>5, <2>1
  <2>5. QED  BY <1>4, <1>6, <2>2, <2>3, <2>4
<1>7. ASSUME next = Start(u) + Extent(u), map' = map
      PROVE  /\ map'[u] # <<>>
             /\ map'[u][1].start = Start(u)
             /\ End(map'[u][Len(map'[u])]) = Start(u) + Extent(u)
  BY <1>3, <1>4, <1>5, <1>7
<1>8. CASE FillUniform
  <2>1. size[u] = conf.uobjSize /\ Extent(u) = conf.uobjSize /\ size[u] \in Nat
    BY <1>2, <1>8 DEF FillUniform, SizeInv, Extent
  <2>2. PICK t \in Nat : t = Total(u)
    BY <1>4
  <2>3. next - load[u] = t
    BY <1>4, <2>2
  <2>4. ~(t > size[u])
    <3>1. pc' # "exit"
      BY <1>1 DEF Advance, AllPlaced
    <3>2. QED  BY <1>8, <2>3, <3>1 DEF FillUniform
  <2>5. map' = IF t < size[u]
               THEN [map EXCEPT ![u] = Append(@, [start |-> next, size |-> size[u] - t])]
               ELSE map
    BY <1>8, <2>3, <2>4 DEF FillUniform
  <2>6. next + (size[u] - t) = Start(u) + Extent(u)
    BY <1>4, <2>1, <2>2
  <2>7. CASE t < size[u]
    <3>1. PICK n \in Nat : n = size[u] - t
      BY <2>1, <2>7
    <3>2. map' = [map EXCEPT ![u] = Append(@, [start |-> next, size |-> n])]
      BY <2>5, <2>7, <3>1
    <3>3. next + n = Start(u) + Extent(u)
      BY <2>6, <3>1
    <3>4. QED  BY <1>6, <3>2, <3>3
  <2>8. CASE t = size[u]
    <3>1. map' = map
      BY <2>1, <2>5, <2>8
    <3>2. next = Start(u) + Extent(u)
      BY <1>4, <2>1, <2>2, <2>8
    <3>3. QED  BY <1>7, <3>1, <3>2
  <2>9. QED  BY <2>1, <2>4, <2>7, <2>8
<1>9. CASE PadAndResize
  <2>1. ~conf.uniform
    BY <1>9 DEF PadAndResize
  <2>2. PICK n \in Nat : n = Pad(next, conf.uobjAlign)
    BY <1>1, Resized
  <2>3. next + n = Start(u) + Extent(u)
    <3>1. Pad(next, conf.uobjAlign) = Pad(Total(u), conf.uobjAlign)
      BY <1>1, LoadFits
    <3>2. Extent(u) = Total(u) + n
      BY <2>1, <2>2, <3>1 DEF Extent
    <3>3. QED  BY <1>4, <3>2
  <2>4. CASE n > 0
    <3>1. map' = [map EXCEPT ![u] = Append(@, [start |-> next, size |-> n])]
      BY <1>9, <2>2, <2>4 DEF PadAndResize
    <3>2. QED  BY <1>6, <2>3, <3>1
  <2>5. CASE n = 0
    <3>1. map' = map
      BY <1>9, <2>2, <2>5 DEF PadAndResize
    <3>2. next = Start(u) + Extent(u)
      BY <1>4, <2>3, <2>5
    <3>3. QED  BY <1>7, <3>1, <3>2
  <2>6. QED  BY <2>4, <2>5
<1>10. QED  BY <1>8, <1>9 DEF Finishes

\* The list of another uobj is not touched.
LEMMA OtherMaps ==
    ASSUME IInv, Next, NEW v \in Uobj, v # u
    PROVE  map'[v] = map[v]
<1>1. map \in [Uobj -> Seq(Section)]
  BY Basics DEF IInv
<1>2. map' = map \/ \E x : map' = [map EXCEPT ![u] = x]
  BY DEF Next, Initialize, InitializeFails, PlaceSection, Place, FillUniform,
     PadAndResize, PlaceSentinel, PlaceUobj, FinishCollection, Relocate, Generate,
     GenerateRaises, StartMap, Advance, AddSection
<1>3. QED  BY <1>1, <1>2

LEMMA FilledStep ==
    ASSUME IInv, Layouts, Harmonious, SizeInv, SlotInv, FilledInv, Next, TypeOK'
    PROVE  FilledInv'
<1>1. ASSUME NEW v \in Uobj, Sized(v)', Final(v)'
      PROVE  /\ map'[v] # <<>>
             /\ map'[v][1].start = Start(v)'
             /\ End(map'[v][Len(map'[v])]) = Start(v)' + Extent(v)'
  <2>1. pass = 2 /\ (Final(v) \/ (v = u /\ AllPlaced /\ Finishes))
    BY <1>1, FinalSteps
  <2>2. pc # "uobj"
    BY <2>1 DEF IInv, Cursor
  <2>3. Extent(v)' = Extent(v) /\ Sized(v) /\ Start(v)' = Start(v)
    BY <1>1, <2>1, <2>2, SectionsStay, PlacesStay
  <2>4. CASE Final(v)
    <3>1. map'[v] = map[v]
      <4>1. CASE v # u
        BY <4>1, OtherMaps
      <4>2. CASE v = u
        <5>1. pc \in {"codegen", "raised"}
          BY <2>4, <4>2, Basics DEF Final, IInv
        <5>2. map' = map
          BY <5>1 DEF Next, Initialize, InitializeFails, PlaceSection, Place,
             FillUniform, PadAndResize, AllPlaced, PlaceSentinel, PlaceUobj,
             FinishCollection, Relocate, Generate, GenerateRaises, AddSection
        <5>3. QED  BY <5>2
      <4>3. QED  BY <4>1, <4>2
    <3>2. /\ map[v] # <<>> /\ map[v][1].start = Start(v)
          /\ End(map[v][Len(map[v])]) = Start(v) + Extent(v)
      BY <2>3, <2>4 DEF FilledInv
    <3>3. QED  BY <2>3, <3>1, <3>2
  <2>5. CASE ~Final(v) /\ v = u /\ Finishes
    <3>1. Advance
      <4>1. pc' = "exit" /\ u' = u => FALSE
        BY <1>1, <2>1, <2>5, Basics DEF Final, IInv
      <4>2. QED  BY <2>5, <4>1 DEF Finishes, FillUniform, PadAndResize
    <3>2. Sized(u)
      BY <2>3, <2>5
    <3>3. QED  BY <2>1, <2>3, <2>5, <3>1, <3>2, FilledNow
  <2>6. QED  BY <2>1, <2>4, <2>5
<1>2. QED  BY <1>1, SameInput DEF FilledInv

---------------------------------------------------------------------------
(* Theorems *)

\* The invariant of what the layout has computed holds in every state.
LEMMA SizesInvariant == Spec => [](IInv /\ JInv)
<1>1. Init => JInv
  BY InitLayouts DEF JInv
<1>2. ASSUME IInv, IInv', JInv, Next PROVE JInv'
  <2>1. TypeOK'
    BY <1>2 DEF IInv
  <2>2. Layouts'
    BY <1>2, <2>1, TurnStep, WalkStep, SumsStep DEF JInv, Layouts
  <2>3. MethodInv'
    BY <1>2, <2>1, MethodStep DEF JInv
  <2>4. ASSUME Harmonious' PROVE SizeInv' /\ SlotInv' /\ FilledInv'
    <3>1. Harmonious /\ SizeInv /\ SlotInv /\ FilledInv
      BY <1>2, <2>4, SameHarmony DEF JInv, HInv
    <3>2. QED  BY <1>2, <2>1, <3>1, SizeStep, SlotStep, FilledStep DEF JInv
  <2>5. HInv'
    BY <2>4 DEF HInv
  <2>6. QED  BY <2>2, <2>3, <2>5 DEF JInv
<1>3. ASSUME IInv, JInv, UNCHANGED vars PROVE JInv'
  <2>1. /\ coll' = coll /\ conf' = conf /\ pc' = pc /\ pass' = pass /\ u' = u
        /\ i' = i /\ next' = next /\ parsed' = parsed /\ inited' = inited
        /\ load' = load /\ size' = size /\ map' = map /\ methodAddr' = methodAddr
        /\ collMap' = collMap /\ collSize' = collSize /\ generated' = generated
    BY <1>3 DEF vars
  <2>2. /\ Uobj' = Uobj /\ \A v : UobjKey(v)' = UobjKey(v)
        /\ \A v : Method(v)' = Method(v)
        /\ \A v : DefaultSections(v)' = DefaultSections(v)
        /\ Length' = Length
    BY <2>1 DEF Uobj, Method, UobjKey, DefaultSections, Length
  <2>3. /\ \A v : Sections(v)' = Sections(v)
        /\ \A v : SectionOf(UobjKey(v))' = SectionOf(UobjKey(v))
    BY <2>1, <2>2 DEF Sections, SectionOf
  <2>4. /\ \A v : Total(v)' = Total(v)
        /\ \A v : Start(v)' = Start(v)
        /\ Sections(u)' = Sections(u) /\ Start(u)' = Start(u)
    BY <2>1, <2>3 DEF Total, Start
  <2>5. /\ \A v : Sized(v)' <=> Sized(v)
        /\ \A v : Extent(v)' = Extent(v)
        /\ \A v, m : MethodAt(v, m)' = MethodAt(v, m)
    BY <2>1, <2>2, <2>4 DEF Sized, Extent, MethodAt
  <2>6. /\ \A v : Settled(v)' <=> Settled(v)
        /\ \A v : Final(v)' <=> Final(v)
        /\ Harmonious' <=> Harmonious
    BY <2>1, <2>2 DEF Settled, Final, Harmonious
  <2>7. Layouts'
    <3>1. TurnInv'
      BY <1>3, <2>1 DEF JInv, Layouts, TurnInv
    <3>2. WalkInv'
      <4>1. PlacedSums => PlacedSums'
        BY <2>1, <2>4 DEF PlacedSums
      <4>2. PlacedMap => PlacedMap'
        BY <2>1, <2>4 DEF PlacedMap
      <4>3. QED  BY <1>3, <2>1, <4>1, <4>2 DEF JInv, Layouts, WalkInv
    <3>3. SumsInv'
      BY <1>3, <2>1, <2>2, <2>3, <2>6 DEF JInv, Layouts, SumsInv
    <3>4. QED  BY <3>1, <3>2, <3>3 DEF Layouts
  <2>8. MethodInv'
    BY <1>3, <2>1, <2>2, <2>5, <2>6 DEF JInv, MethodInv
  <2>9. HInv'
    <3>1. SizeInv => SizeInv'
      BY <2>1, <2>2, <2>5, <2>6 DEF SizeInv, Fits
    <3>2. SlotInv => SlotInv'
      BY <2>1, <2>2, <2>3, <2>5 DEF SlotInv, Fits
    <3>3. FilledInv => FilledInv'
      BY <2>1, <2>2, <2>4, <2>5, <2>6 DEF FilledInv
    <3>4. QED  BY <1>3, <2>6, <3>1, <3>2, <3>3 DEF JInv, HInv
  <2>10. QED  BY <2>7, <2>8, <2>9 DEF JInv
<1>4. IInv /\ IInv' /\ JInv /\ [Next]_vars => JInv'
  BY <1>2, <1>3
<1>5. QED  BY InductiveInvariant, <1>1, <1>4, PTL DEF Spec

\* For any collection and any configuration whose alignments fit together, every
\* uobj fills the very section that the collection reserved for it before it
\* knew the address: the size that the layout at address 0 computed is the size
\* at the final address.
THEOREM Filled == Spec => []UobjsFillTheirSections
<1>1. ASSUME IInv, JInv PROVE UobjsFillTheirSections
  <2>1. ASSUME pc = "codegen", Harmonious, \A v \in Uobj : Sized(v), NEW v \in Uobj
        PROVE  /\ map[v][1].start = SectionOf(UobjKey(v)).start
               /\ End(map[v][Len(map[v])]) = End(SectionOf(UobjKey(v)))
               /\ size[v] = SectionOf(UobjKey(v)).size
    <3>1. pass = 2 /\ Sized(v) /\ SizeInv /\ SlotInv /\ FilledInv
      BY <1>1, <2>1 DEF IInv, Cursor, JInv, HInv
    <3>2. Final(v) /\ Settled(v)
      BY <2>1, <3>1 DEF Final, Settled, Sized
    <3>3. SectionOf(UobjKey(v)).size = Extent(v) /\ size[v] = Extent(v)
      BY <3>1, <3>2 DEF SlotInv, SizeInv
    <3>4. /\ map[v][1].start = Start(v)
          /\ End(map[v][Len(map[v])]) = Start(v) + Extent(v)
      BY <3>1, <3>2 DEF FilledInv
    <3>5. QED  BY <3>3, <3>4 DEF Start, End
  <2>2. QED  BY <2>1 DEF UobjsFillTheirSections
<1>2. QED  BY SizesInvariant, <1>1, PTL

\* For any collection and configuration, every sentinel that is generated for a
\* uobj that was initialized enters the address that its public method has in
\* the section of the uobj.
THEOREM EnterMethods == Spec => []SentinelsEnterMethods
<1>1. ASSUME IInv, JInv PROVE SentinelsEnterMethods
  <2>1. \A g \in generated : g.sentinel.uobj \in inited =>
           g.methodAddr = MethodAt(g.sentinel.uobj, g.sentinel.method)
    BY <1>1 DEF JInv, MethodInv
  <2>2. QED  BY <2>1 DEF SentinelsEnterMethods, MethodAt, Start, Length
<1>2. QED  BY SizesInvariant, <1>1, PTL
=============================================================================
