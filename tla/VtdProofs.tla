----------------------------- MODULE VtdProofs -----------------------------
(***************************************************************************)
(* Proofs about VtdDrivers for any set of units, any register addresses    *)
(* and any arguments of the callers, over the hardware model and over a    *)
(* real unit: type correctness, that the translation of a unit stays as a  *)
(* driver has reported it until the next command, that a cache             *)
(* invalidation which reports success was carried out since the call, and  *)
(* that a driver which returns has delivered what it was asked for.        *)
(***************************************************************************)
EXTENDS VtdDrivers, TLAPS

(* The values of a 32-bit word, as the sets of its one bits. *)
WordSets == SUBSET (0..31)

(* An address of a word is decoded to that word. *)
LEMMA DecodeWord ==
  ASSUME NEW u \in Units, NEW w \in Words
  PROVE  WordAddr(u, w) \in DOMAIN Decode /\ Decode[WordAddr(u, w)] = <<u, w>>
<1> DEFINE addr == WordAddr(u, w)
           d == <<u, w>>
           found == CHOOSE e \in Units \X Words : WordAddr(e[1], e[2]) = addr
<1>1. d \in Units \X Words /\ WordAddr(d[1], d[2]) = addr
  OBVIOUS
<1>2. found \in Units \X Words /\ WordAddr(found[1], found[2]) = addr
  BY <1>1
<1>3. found = d
  BY <1>1, <1>2, DrhdAddresses
<1>4. addr \in {WordAddr(e[1], e[2]) : e \in Units \X Words}
  BY <1>1
<1> QED
  BY <1>3, <1>4 DEF Decode

(* The addresses at which the drivers access registers. *)
LEMMA RegisterAddresses ==
  ASSUME NEW u \in Units
  PROVE  /\ \A reg \in Regs32 : RegAddr(u, reg) = WordAddr(u, reg)
         /\ RegAddr(u, "cap") = WordAddr(u, "cap_lo") /\ RegAddr(u, "cap") + 4 = WordAddr(u, "cap_hi")
         /\ RegAddr(u, "rtaddr") = WordAddr(u, "rtaddr_lo") /\ RegAddr(u, "rtaddr") + 4 = WordAddr(u, "rtaddr_hi")
         /\ RegAddr(u, "ccmd") = WordAddr(u, "ccmd_lo") /\ RegAddr(u, "ccmd") + 4 = WordAddr(u, "ccmd_hi")
         /\ RegAddr(u, "phmbase") = WordAddr(u, "phmbase_lo") /\ RegAddr(u, "phmbase") + 4 = WordAddr(u, "phmbase_hi")
         /\ RegAddr(u, "phmlimit") = WordAddr(u, "phmlimit_lo") /\ RegAddr(u, "phmlimit") + 4 = WordAddr(u, "phmlimit_hi")
         /\ RegAddr(u, "iotlb") = WordAddr(u, "iotlb_lo") /\ RegAddr(u, "iotlb") + 4 = WordAddr(u, "iotlb_hi")
<1>1. Drhd[u].regbaseaddr \in Int /\ Drhd[u].iotlbaddr \in Int
  BY DrhdTypes
<1> QED
  BY <1>1 DEF RegAddr, Regs32, LowOf, WordAddr, Offset

(* A 32-bit register is one word of the unit. *)
LEMMA RegistersAreWords == Regs32 \subseteq Words
  BY DEF Regs32, Words, Offset

(* The words the drivers and the unit name. *)
LEMMA SomeWords == {"cap_lo", "cap_hi", "rtaddr_lo", "rtaddr_hi", "ccmd_lo", "ccmd_hi", "phmbase_lo", "phmbase_hi",
  "phmlimit_lo", "phmlimit_hi", "iotlb_lo", "iotlb_hi", "gcmd", "gsts", "pmen", "fectl", "plmbase", "plmlimit"} \subseteq Words
  BY DEF Words, Offset

(* Every word of every unit holds a word. *)
UnitsTyped == drhd \in [Units -> [Words -> WordSets]] /\ kind \in {"hwm", "unit"}
(* What a write to a word of a unit leaves alone. *)
LEMMA WrittenWord ==
  ASSUME NEW regs \in [Words -> WordSets], NEW w \in Words, NEW v \in WordSets
  PROVE  /\ WriteWord(regs, w, v) \in [Words -> WordSets]
         /\ UnitStore(regs, w, v) \in [Words -> WordSets]
         /\ \A y \in Words : y # w /\ (w = "gcmd" => y # "gsts") =>
              WriteWord(regs, w, v)[y] = regs[y] /\ UnitStore(regs, w, v)[y] = regs[y]
<1>1. {"gcmd", "gsts", "pmen", "ccmd_hi", "iotlb_hi"} \subseteq Words
  BY SomeWords
<1>2. CASE w = "gcmd"
  BY <1>1, <1>2 DEF WriteWord, WriteGcmd, UnitStore, WordSets
<1>3. CASE w = "pmen"
  BY <1>1, <1>3 DEF WriteWord, WritePmen, UnitStore, WordSets
<1>4. CASE w = "ccmd_hi"
  BY <1>1, <1>4 DEF WriteWord, WriteCcmd, UnitStore, WordSets
<1>5. CASE w = "iotlb_hi"
  BY <1>1, <1>5 DEF WriteWord, WriteIotlb, UnitStore, WordSets
<1>6. CASE w \notin {"gcmd", "pmen", "ccmd_hi", "iotlb_hi"}
  BY <1>1, <1>6 DEF WriteWord, UnitStore, WordSets
<1> QED
  BY <1>2, <1>3, <1>4, <1>5, <1>6

(* What a store of the driver writes to the units, by the kind of unit behind the
   addresses. *)
LEMMA StoredAt ==
  ASSUME UnitsTyped, NEW u \in Units, NEW w \in Words, NEW v, Store(WordAddr(u, w), v)
  PROVE  drhd' = [drhd EXCEPT ![u] = IF kind = "hwm" THEN WriteWord(drhd[u], w, v)
                                                    ELSE UnitStore(drhd[u], w, v)]
<1>1. Decode[WordAddr(u, w)] = <<u, w>>
  BY DecodeWord
<1>2. CASE kind = "hwm"
  <2>1. drhd' = [drhd EXCEPT ![u] = WriteWord(@, w, v)]
    BY <1>1, <1>2 DEF Store, StoreAt, VtdWrite
  <2> QED
    BY <1>2, <2>1
<1>3. CASE kind # "hwm"
  <2>1. drhd' = [drhd EXCEPT ![u] = UnitStore(@, w, v)]
    BY <1>1, <1>3 DEF Store, StoreAt
  <2> QED
    BY <1>3, <2>1
<1> QED
  BY <1>2, <1>3

(* A store leaves every other unit, and every other word except the status that a
   command sets, as it was. *)
LEMMA StoreFrame ==
  ASSUME UnitsTyped, NEW u \in Units, NEW w \in Words, NEW v \in WordSets, Store(WordAddr(u, w), v)
  PROVE  /\ drhd' \in [Units -> [Words -> WordSets]]
         /\ \A x \in Units, y \in Words :
              x # u \/ (y # w /\ (w = "gcmd" => y # "gsts")) => drhd'[x][y] = drhd[x][y]
<1> DEFINE new == IF kind = "hwm" THEN WriteWord(drhd[u], w, v) ELSE UnitStore(drhd[u], w, v)
<1>1. drhd[u] \in [Words -> WordSets]
  BY DEF UnitsTyped
<1>2. /\ new \in [Words -> WordSets]
      /\ \A y \in Words : y # w /\ (w = "gcmd" => y # "gsts") => new[y] = drhd[u][y]
  BY <1>1, WrittenWord
<1>3. drhd' = [drhd EXCEPT ![u] = new]
  BY StoredAt
<1> HIDE DEF new
<1>4. drhd' \in [Units -> [Words -> WordSets]]
  BY <1>2, <1>3 DEF UnitsTyped
<1>5. drhd'[u] = new /\ \A x \in Units : x # u => drhd'[x] = drhd[x]
  BY <1>3 DEF UnitsTyped
<1> QED
  BY <1>2, <1>4, <1>5
-----------------------------------------------------------------------------
(* A layout whose fields start inside the 64 bits of a register and are not empty. *)
LayoutTyped(layout) ==
  \A f \in DOMAIN layout : layout[f].lo \in 0..63 /\ layout[f].width \in Nat \ {0}

(* Every register layout of the VT-d headers is one. *)
LEMMA LayoutsTyped ==
  /\ LayoutTyped(VTD_CAP_REG) /\ LayoutTyped(VTD_GCMD_REG) /\ LayoutTyped(VTD_GSTS_REG)
  /\ LayoutTyped(VTD_CCMD_REG) /\ LayoutTyped(VTD_IOTLB_REG) /\ LayoutTyped(VTD_FECTL_REG)
  /\ LayoutTyped(VTD_PMEN_REG)
  BY DEF LayoutTyped, Place, VTD_CAP_REG, VTD_GCMD_REG, VTD_GSTS_REG, VTD_CCMD_REG, VTD_IOTLB_REG,
         VTD_FECTL_REG, VTD_PMEN_REG

(* How many fields a driver unpacks from each register. *)
LEMMA FieldLengths ==
  /\ Len(FieldOrder.cap) = 20 /\ Len(FieldOrder.fectl) = 3 /\ Len(FieldOrder.ccmd) = 7
  /\ Len(FieldOrder.iotlb) = 8 /\ Len(FieldOrder.gsts) = 10 /\ Len(FieldOrder.pmen) = 3
  BY DEF FieldOrder

(* The fields that are unpacked are fields of the layout of the register. *)
LEMMA FieldsOfLayout ==
  /\ \A k \in 1..20 : FieldOrder.cap[k] \in DOMAIN VTD_CAP_REG
  /\ \A k \in 1..3 : FieldOrder.fectl[k] \in DOMAIN VTD_FECTL_REG
  /\ \A k \in 1..7 : FieldOrder.ccmd[k] \in DOMAIN VTD_CCMD_REG
  /\ \A k \in 1..8 : FieldOrder.iotlb[k] \in DOMAIN VTD_IOTLB_REG
  /\ \A k \in 1..10 : FieldOrder.gsts[k] \in DOMAIN VTD_GSTS_REG
  /\ \A k \in 1..3 : FieldOrder.pmen[k] \in DOMAIN VTD_PMEN_REG
  BY DEF FieldOrder, Place, VTD_CAP_REG, VTD_GCMD_REG, VTD_GSTS_REG, VTD_CCMD_REG, VTD_IOTLB_REG,
         VTD_FECTL_REG, VTD_PMEN_REG

(* The place of a field in its register is a number. *)
LEMMA PlacesTyped ==
  ASSUME NEW layout, LayoutTyped(layout), NEW f \in DOMAIN layout
  PROVE  layout[f].lo \in Int /\ layout[f].width \in Int
  BY DEF LayoutTyped

(* The fields that are unpacked at a label have a place in the layout of the register
   read there. *)
LEMMA UnpackedFields ==
  ASSUME NEW pc \in DOMAIN Unpacks
  PROVE  /\ Len(Fields(pc)) \in 1..20
         /\ \A k \in 1..Len(Fields(pc)) : 
              /\ Layout[Unpacks[pc]][Fields(pc)[k]].lo \in Int
              /\ Layout[Unpacks[pc]][Fields(pc)[k]].width \in Int
<1>1. Unpacks[pc] \in {"cap", "fectl", "ccmd", "iotlb", "gsts", "pmen"}
  BY DEF Unpacks
<1>2. CASE Unpacks[pc] = "cap"
  <2>1. Fields(pc) = FieldOrder.cap /\ Layout[Unpacks[pc]] = VTD_CAP_REG
    BY <1>2 DEF Fields, Layout
  <2>2. Len(FieldOrder.cap) = 20 /\ \A k \in 1..20 : FieldOrder.cap[k] \in DOMAIN VTD_CAP_REG
    BY FieldLengths, FieldsOfLayout
  <2>3. \A f \in DOMAIN VTD_CAP_REG : VTD_CAP_REG[f].lo \in Int /\ VTD_CAP_REG[f].width \in Int
    BY LayoutsTyped, PlacesTyped
  <2> QED
    BY <2>1, <2>2, <2>3
<1>3. CASE Unpacks[pc] = "fectl"
  <2>1. Fields(pc) = FieldOrder.fectl /\ Layout[Unpacks[pc]] = VTD_FECTL_REG
    BY <1>3 DEF Fields, Layout
  <2>2. Len(FieldOrder.fectl) = 3 /\ \A k \in 1..3 : FieldOrder.fectl[k] \in DOMAIN VTD_FECTL_REG
    BY FieldLengths, FieldsOfLayout
  <2>3. \A f \in DOMAIN VTD_FECTL_REG : VTD_FECTL_REG[f].lo \in Int /\ VTD_FECTL_REG[f].width \in Int
    BY LayoutsTyped, PlacesTyped
  <2> QED
    BY <2>1, <2>2, <2>3
<1>4. CASE Unpacks[pc] = "ccmd"
  <2>1. Fields(pc) = FieldOrder.ccmd /\ Layout[Unpacks[pc]] = VTD_CCMD_REG
    BY <1>4 DEF Fields, Layout
  <2>2. Len(FieldOrder.ccmd) = 7 /\ \A k \in 1..7 : FieldOrder.ccmd[k] \in DOMAIN VTD_CCMD_REG
    BY FieldLengths, FieldsOfLayout
  <2>3. \A f \in DOMAIN VTD_CCMD_REG : VTD_CCMD_REG[f].lo \in Int /\ VTD_CCMD_REG[f].width \in Int
    BY LayoutsTyped, PlacesTyped
  <2> QED
    BY <2>1, <2>2, <2>3
<1>5. CASE Unpacks[pc] = "iotlb"
  <2>1. Fields(pc) = FieldOrder.iotlb /\ Layout[Unpacks[pc]] = VTD_IOTLB_REG
    BY <1>5 DEF Fields, Layout
  <2>2. Len(FieldOrder.iotlb) = 8 /\ \A k \in 1..8 : FieldOrder.iotlb[k] \in DOMAIN VTD_IOTLB_REG
    BY FieldLengths, FieldsOfLayout
  <2>3. \A f \in DOMAIN VTD_IOTLB_REG : VTD_IOTLB_REG[f].lo \in Int /\ VTD_IOTLB_REG[f].width \in Int
    BY LayoutsTyped, PlacesTyped
  <2> QED
    BY <2>1, <2>2, <2>3
<1>6. CASE Unpacks[pc] = "gsts"
  <2>1. Fields(pc) = FieldOrder.gsts /\ Layout[Unpacks[pc]] = VTD_GSTS_REG
    BY <1>6 DEF Fields, Layout
  <2>2. Len(FieldOrder.gsts) = 10 /\ \A k \in 1..10 : FieldOrder.gsts[k] \in DOMAIN VTD_GSTS_REG
    BY FieldLengths, FieldsOfLayout
  <2>3. \A f \in DOMAIN VTD_GSTS_REG : VTD_GSTS_REG[f].lo \in Int /\ VTD_GSTS_REG[f].width \in Int
    BY LayoutsTyped, PlacesTyped
  <2> QED
    BY <2>1, <2>2, <2>3
<1>7. CASE Unpacks[pc] = "pmen"
  <2>1. Fields(pc) = FieldOrder.pmen /\ Layout[Unpacks[pc]] = VTD_PMEN_REG
    BY <1>7 DEF Fields, Layout
  <2>2. Len(FieldOrder.pmen) = 3 /\ \A k \in 1..3 : FieldOrder.pmen[k] \in DOMAIN VTD_PMEN_REG
    BY FieldLengths, FieldsOfLayout
  <2>3. \A f \in DOMAIN VTD_PMEN_REG : VTD_PMEN_REG[f].lo \in Int /\ VTD_PMEN_REG[f].width \in Int
    BY LayoutsTyped, PlacesTyped
  <2> QED
    BY <2>1, <2>2, <2>3
<1> QED
  BY <1>1, <1>2, <1>3, <1>4, <1>5, <1>6, <1>7

(* A field that was unpacked is a set of integers. *)
LEMMA FieldTyped ==
  ASSUME NEW value, NEW p, p.lo \in Int, p.width \in Int
  PROVE  Field(value, p) \in SUBSET Int
  BY DEF Field

(* The fields of these registers are among the field names of the structures. *)
LEMMA FieldNamesHave ==
  /\ DOMAIN VTD_GCMD_REG \subseteq FieldNames /\ DOMAIN VTD_GSTS_REG \subseteq FieldNames
  /\ DOMAIN VTD_CCMD_REG \subseteq FieldNames /\ DOMAIN VTD_IOTLB_REG \subseteq FieldNames
  /\ DOMAIN VTD_PMEN_REG \subseteq FieldNames /\ DOMAIN VTD_FECTL_REG \subseteq FieldNames
  BY DEF FieldNames, Layout

(* A command in which no field, one or two fields of a bit are set. *)
LEMMA PackNothing ==
  ASSUME NEW layout, LayoutTyped(layout), NEW s, \A f \in DOMAIN layout : s[f] = {}
  PROVE  Pack(layout, s) = {}
<1>1. \A f \in DOMAIN layout : {b + layout[f].lo : b \in s[f] \cap (0..(layout[f].width - 1))} = {}
  BY DEF LayoutTyped
<1> QED
  BY <1>1 DEF Pack, LayoutTyped

(* A structure with one field set packs to the bits of that field. *)
LEMMA PackOne ==
  ASSUME NEW layout, LayoutTyped(layout), NEW s, NEW g \in DOMAIN layout,
         \A f \in DOMAIN layout : s[f] = IF f = g THEN {0} ELSE {}
  PROVE  Pack(layout, s) = {layout[g].lo}
<1>1. \A f \in DOMAIN layout : {b + layout[f].lo : b \in s[f] \cap (0..(layout[f].width - 1))}
                               = IF f = g THEN {layout[f].lo} ELSE {}
  BY DEF LayoutTyped
<1> QED
  BY <1>1 DEF Pack, LayoutTyped

(* A structure with two fields set packs to the bits of both. *)
LEMMA PackTwo ==
  ASSUME NEW layout, LayoutTyped(layout), NEW s, NEW g \in DOMAIN layout, NEW h \in DOMAIN layout,
         \A f \in DOMAIN layout : s[f] = IF f \in {g, h} THEN {0} ELSE {}
  PROVE  Pack(layout, s) = {layout[g].lo, layout[h].lo}
<1>1. \A f \in DOMAIN layout : {b + layout[f].lo : b \in s[f] \cap (0..(layout[f].width - 1))}
                               = IF f \in {g, h} THEN {layout[f].lo} ELSE {}
  BY DEF LayoutTyped
<1> QED
  BY <1>1 DEF Pack, LayoutTyped

(* The command that sets the root table pointer is bit 30 of GCMD. *)
LEMMA SrtpCommand == Pack(VTD_GCMD_REG, [Zeroed EXCEPT !.srtp = {0}]) = {30}
<1> DEFINE s == [Zeroed EXCEPT !.srtp = {0}]
<1>1. LayoutTyped(VTD_GCMD_REG)
  BY LayoutsTyped
<1>2. "srtp" \in DOMAIN VTD_GCMD_REG /\ VTD_GCMD_REG["srtp"].lo = 30
  BY DEF VTD_GCMD_REG, Place
<1>3. \A f \in DOMAIN VTD_GCMD_REG : s[f] = IF f = "srtp" THEN {0} ELSE {}
  BY FieldNamesHave DEF Zeroed
<1> HIDE DEF s
<1>4. Pack(VTD_GCMD_REG, s) = {VTD_GCMD_REG["srtp"].lo}
  BY <1>1, <1>2, <1>3, PackOne
<1> QED
  BY <1>2, <1>4 DEF s

(* The command that enables translation is bit 31 of GCMD. *)
LEMMA TeCommand ==
  ASSUME NEW on \in BOOLEAN
  PROVE  Pack(VTD_GCMD_REG, [Zeroed EXCEPT !.te = IF on THEN {0} ELSE {}]) = IF on THEN {31} ELSE {}
<1> DEFINE s == [Zeroed EXCEPT !.te = IF on THEN {0} ELSE {}]
<1>1. LayoutTyped(VTD_GCMD_REG)
  BY LayoutsTyped
<1>2. "te" \in DOMAIN VTD_GCMD_REG /\ VTD_GCMD_REG["te"].lo = 31
  BY DEF VTD_GCMD_REG, Place
<1>3. \A f \in DOMAIN VTD_GCMD_REG : s[f] = IF f = "te" /\ on THEN {0} ELSE {}
  BY FieldNamesHave DEF Zeroed
<1>4. CASE on
  <2> HIDE DEF s
  <2>1. Pack(VTD_GCMD_REG, s) = {VTD_GCMD_REG["te"].lo}
    BY <1>1, <1>2, <1>3, <1>4, PackOne
  <2> QED
    BY <1>2, <1>4, <2>1 DEF s
<1>5. CASE ~on
  <2> HIDE DEF s
  <2>1. Pack(VTD_GCMD_REG, s) = {}
    BY <1>1, <1>3, <1>5, PackNothing
  <2> QED
    BY <1>5, <2>1 DEF s
<1> QED
  BY <1>4, <1>5

(* The command that invalidates the context cache: the start bit and the global
   granularity. *)
LEMMA ContextCommandBits == ContextCommand = {61, 63}
<1> DEFINE s == [Zeroed EXCEPT !.cirg = {0}, !.icc = {0}]
<1>1. LayoutTyped(VTD_CCMD_REG)
  BY LayoutsTyped
<1>2. /\ "cirg" \in DOMAIN VTD_CCMD_REG /\ VTD_CCMD_REG["cirg"].lo = 61
      /\ "icc" \in DOMAIN VTD_CCMD_REG /\ VTD_CCMD_REG["icc"].lo = 63
  BY DEF VTD_CCMD_REG, Place
<1>3. \A f \in DOMAIN VTD_CCMD_REG : s[f] = IF f \in {"cirg", "icc"} THEN {0} ELSE {}
  BY FieldNamesHave DEF Zeroed
<1> HIDE DEF s
<1>4. Pack(VTD_CCMD_REG, s) = {VTD_CCMD_REG["cirg"].lo, VTD_CCMD_REG["icc"].lo}
  BY <1>1, <1>2, <1>3, PackTwo
<1> QED
  BY <1>2, <1>4 DEF s, ContextCommand

(* The command that invalidates the IOTLB: the start bit and the global granularity. *)
LEMMA IotlbCommandBits == IotlbCommand = {60, 63}
<1> DEFINE s == [Zeroed EXCEPT !.iirg = {0}, !.ivt = {0}]
<1>1. LayoutTyped(VTD_IOTLB_REG)
  BY LayoutsTyped
<1>2. /\ "iirg" \in DOMAIN VTD_IOTLB_REG /\ VTD_IOTLB_REG["iirg"].lo = 60
      /\ "ivt" \in DOMAIN VTD_IOTLB_REG /\ VTD_IOTLB_REG["ivt"].lo = 63
  BY DEF VTD_IOTLB_REG, Place
<1>3. \A f \in DOMAIN VTD_IOTLB_REG : s[f] = IF f \in {"iirg", "ivt"} THEN {0} ELSE {}
  BY FieldNamesHave DEF Zeroed
<1> HIDE DEF s
<1>4. Pack(VTD_IOTLB_REG, s) = {VTD_IOTLB_REG["iirg"].lo, VTD_IOTLB_REG["ivt"].lo}
  BY <1>1, <1>2, <1>3, PackTwo
<1> QED
  BY <1>2, <1>4 DEF s, IotlbCommand

(* The command that disables protected memory: no bit. *)
LEMMA PmenCommand == Pack(VTD_PMEN_REG, Zeroed) = {}
<1>1. LayoutTyped(VTD_PMEN_REG)
  BY LayoutsTyped
<1>2. \A f \in DOMAIN VTD_PMEN_REG : Zeroed[f] = {}
  BY FieldNamesHave DEF Zeroed
<1> QED
  BY <1>1, <1>2, PackNothing

(* The word written to the fault event control register is a word. *)
LEMMA FectlWord == \A s : Pack(VTD_FECTL_REG, s) \in WordSets
  BY DEF Pack, VTD_FECTL_REG, Place, WordSets

(* The halves of any value are words. *)
LEMMA Halves ==
  ASSUME NEW value
  PROVE  LowWord(value) \in WordSets /\ HighWord(value) \in WordSets
  BY DEF LowWord, HighWord, WordSets

(* The halves of the two invalidation commands. *)
LEMMA CommandWords ==
  /\ HighWord(ContextCommand) = {29, 31} /\ LowWord(ContextCommand) = {}
  /\ HighWord(IotlbCommand) = {28, 31} /\ LowWord(IotlbCommand) = {}
<1>1. HighWord({61, 63}) = {29, 31} /\ LowWord({61, 63}) = {}
  BY DEF HighWord, LowWord
<1>2. HighWord({60, 63}) = {28, 31} /\ LowWord({60, 63}) = {}
  BY DEF HighWord, LowWord
<1> QED
  BY <1>1, <1>2, ContextCommandBits, IotlbCommandBits
-----------------------------------------------------------------------------
(* The functions of the drivers that pass through a label. *)
FnOf(pc) ==
  CASE pc \in {"cap", "fectl", "fectl_check"} -> {"initialize"}
    [] pc \in {"ccmd_idle", "ccmd_lo", "ccmd_hi", "ccmd_done", "iotlb_lo", "iotlb_hi", "iotlb_done"} ->
         {"invalidatecaches"}
    [] pc \in {"rta_lo", "rta_hi", "srtp", "rtps"} -> {"set_root_entry_table"}
    [] pc \in {"gcmd_te", "tes_first", "tes_wait"} -> {"enable_translation", "disable_translation"}
    [] pc \in {"pmen", "prs_wait"} -> {"disable_pmr"}
    [] pc \in {"plmbase", "plmlimit"} -> {"set_plm"}
    [] OTHER -> {"set_phm"}
(* The states of the processor that runs the drivers. *)
Driver ==
  [pc : PcLabels, fn : DOMAIN Entry \cup {"none"}, u : Units \cup {"null"}, arg : SUBSET (0..63),
   limit : SUBSET (0..63), s : [FieldNames -> SUBSET Int], n : 0..20, ret : BOOLEAN]
(* A driver is between its call and its return. *)
Running == vcpu.pc \notin {"idle", "returned"}
(* The program counter fits the driver that runs, its unit and its arguments. *)
Control ==
  /\ vcpu \in Driver
  /\ Running => vcpu.u \in Units /\ vcpu.fn \in FnOf(vcpu.pc)
  /\ vcpu.ret => vcpu.u \in Units
  /\ vcpu.fn \in {"set_plm", "set_phm"} => vcpu.arg \in WordSets /\ vcpu.limit \in WordSets
(* Type correctness with the control state. *)
TypeInv ==
  /\ UnitsTyped
  /\ table \in [Units -> [addr : SUBSET (0..63), pending : BOOLEAN]]
  /\ vcalls \in 0..MaxVtdCalls
  /\ inval \in [Units -> SUBSET {"context", "iotlb"}]
  /\ asked \in [Units -> {"nothing", "on", "off"}]
  /\ Control

(* Translation: while the status is not as it is asked, or may yet change,
   nothing is asked; a status that a driver has found as it wants it stays,
   because the command that the unit follows says the same. *)
Commanding == {"rta_lo", "rta_hi", "srtp", "gcmd_te", "tes_first", "tes_wait"}
(* The program points at which enable_translation polls the status. *)
Waiting == {"tes_first", "tes_wait"}
(* The running driver was asked to enable translation. *)
Wanted == vcpu.fn = "enable_translation"
(* How far the command and the status of a unit are ahead of the caller, at each
   program point. *)
TransInv ==
  /\ TranslationAsAsked
  /\ \A u \in Units : kind = "unit" /\ asked[u] # "nothing" =>
       (31 \in drhd[u].gcmd) = (31 \in drhd[u].gsts)
  /\ vcpu.pc \in Commanding => asked[vcpu.u] = "nothing"
  /\ vcpu.pc \in Waiting => (31 \in drhd[vcpu.u].gcmd) = Wanted
  /\ vcpu.pc = "tes_wait" /\ vcpu.n > 0 /\ Wanted = (vcpu.s.tes # {}) =>
       (31 \in drhd[vcpu.u].gsts) = Wanted

(* Invalidation: once a command is seen to be done, the granularity the unit
   reports is the one at which it carried out this command. *)
ContextWhole(u) == 31 \notin drhd[u].ccmd_hi /\ 27 \in drhd[u].ccmd_hi /\ 28 \notin drhd[u].ccmd_hi
(* The IOTLB command register of a unit says that a global invalidation is done. *)
IotlbWhole(u) == 31 \notin drhd[u].iotlb_hi /\ 25 \in drhd[u].iotlb_hi /\ 26 \notin drhd[u].iotlb_hi
(* At each program point of the context-cache invalidation, what the unit has done
   since the call. *)
ContextInv ==
  vcpu.pc = "ccmd_done" =>
    /\ vcpu.n > 0 /\ vcpu.s.icc = {} => 31 \notin drhd[vcpu.u].ccmd_hi
    /\ ContextWhole(vcpu.u) => "context" \in inval[vcpu.u]
    /\ vcpu.n > 2 /\ vcpu.s.icc = {} /\ vcpu.s.caig = {0} => "context" \in inval[vcpu.u]
(* At each program point of the IOTLB invalidation, what the unit has done since the
   call. *)
IotlbInv ==
  /\ vcpu.pc \in {"iotlb_lo", "iotlb_hi", "iotlb_done"} => "context" \in inval[vcpu.u]
  /\ vcpu.pc = "iotlb_done" =>
       /\ vcpu.n > 0 /\ vcpu.s.ivt = {} => 31 \notin drhd[vcpu.u].iotlb_hi
       /\ IotlbWhole(vcpu.u) => "iotlb" \in inval[vcpu.u]
       /\ vcpu.n > 2 /\ vcpu.s.ivt = {} /\ vcpu.s.iaig = {0} => "iotlb" \in inval[vcpu.u]
(* The inductive invariant. *)
VtdInv == TypeInv /\ TransInv /\ ContextInv /\ IotlbInv /\ InvalidationDone

(* The step of a driver to its next label, or to its return. *)
LEMMA GotoControl ==
  ASSUME Control, Running, NEW next \in PcLabels \ {"idle", "returned"}, vcpu.fn \in FnOf(next), Goto(next)
  PROVE  Control' /\ vcpu' = [vcpu EXCEPT !.pc = next, !.n = 0]
<1>1. vcpu' = [vcpu EXCEPT !.pc = next, !.n = 0]
  BY DEF Goto
<1>2. vcpu \in Driver /\ 0 \in 0..20
  BY DEF Control
<1>3. /\ vcpu'.pc = next /\ vcpu'.fn = vcpu.fn /\ vcpu'.u = vcpu.u
      /\ vcpu'.arg = vcpu.arg /\ vcpu'.limit = vcpu.limit /\ vcpu'.ret = vcpu.ret
  BY <1>1, <1>2 DEF Driver
<1>4. vcpu' \in Driver
  BY <1>1, <1>2, Zenon DEF Driver
<1> QED
  BY <1>1, <1>3, <1>4 DEF Control, Running

(* A zeroed structure has a set of bits in every field. *)
LEMMA ZeroedTyped == Zeroed \in [FieldNames -> SUBSET Int]
  BY DEF Zeroed

(* A return leaves the control state well-formed. *)
LEMMA ReturnControl ==
  ASSUME Control, Running, NEW v \in BOOLEAN, Return(v)
  PROVE  Control' /\ vcpu' = [vcpu EXCEPT !.pc = "returned", !.n = 0, !.ret = v, !.s = Zeroed]
<1>1. vcpu' = [vcpu EXCEPT !.pc = "returned", !.n = 0, !.ret = v, !.s = Zeroed]
  BY DEF Return
<1>2. vcpu \in Driver /\ 0 \in 0..20 /\ "returned" \in PcLabels /\ Zeroed \in [FieldNames -> SUBSET Int]
  BY ZeroedTyped DEF Control, PcLabels
<1>3. /\ vcpu'.pc = "returned" /\ vcpu'.fn = vcpu.fn /\ vcpu'.u = vcpu.u
      /\ vcpu'.arg = vcpu.arg /\ vcpu'.limit = vcpu.limit
  BY <1>1, <1>2 DEF Driver
<1>4. vcpu' \in Driver
  BY <1>1, <1>2, Zenon DEF Driver
<1> QED
  BY <1>1, <1>3, <1>4 DEF Control, Running

(* A step that writes none of the words the invariants are about. *)
Status == {"gcmd", "gsts", "ccmd_hi", "iotlb_hi"}
(* A step leaves those words of every unit as they were. *)
SameStatus == \A x \in Units : \A w \in Status : drhd'[x][w] = drhd[x][w]
(* A step that no property but the type invariant can notice. *)
Quiet == UnitsTyped' /\ SameStatus /\ UNCHANGED <<kind, table, vcalls, inval, asked>>

(* A quiet step to another program point preserves the invariant. *)
LEMMA QuietGoto ==
  ASSUME VtdInv, Running, Quiet, NEW next \in PcLabels \ {"idle", "returned"}, vcpu.fn \in FnOf(next),
         Goto(next),
         next \in Commanding => vcpu.pc \in Commanding,
         next \in Waiting => vcpu.pc \in Waiting,
         next = "ccmd_done" => vcpu.pc = "ccmd_done",
         next \in {"iotlb_lo", "iotlb_hi", "iotlb_done"} => "context" \in inval[vcpu.u],
         next = "iotlb_done" => vcpu.pc = "iotlb_done"
  PROVE  VtdInv'
<1>1. Control' /\ vcpu' = [vcpu EXCEPT !.pc = next, !.n = 0]
  BY GotoControl DEF VtdInv, TypeInv
<1>2. /\ vcpu'.pc = next /\ vcpu'.n = 0 /\ vcpu'.fn = vcpu.fn /\ vcpu'.u = vcpu.u
      /\ vcpu.u \in Units
  BY <1>1 DEF VtdInv, TypeInv, Control, Driver
<1>3. TypeInv'
  BY <1>1 DEF VtdInv, TypeInv, Quiet
<1>4. TransInv'
  BY <1>2 DEF VtdInv, TransInv, Quiet, SameStatus, Status, TranslationAsAsked, Wanted
<1>5. ContextInv' /\ IotlbInv'
  BY <1>2 DEF VtdInv, ContextInv, IotlbInv, Quiet, SameStatus, Status, ContextWhole, IotlbWhole
<1>6. InvalidationDone'
  BY <1>2 DEF InvalidationDone, At
<1> QED
  BY <1>3, <1>4, <1>5, <1>6 DEF VtdInv

(* A quiet return preserves the invariant. *)
LEMMA QuietReturn ==
  ASSUME VtdInv, Running, Quiet, NEW v \in BOOLEAN, Return(v),
         vcpu.fn = "invalidatecaches" /\ v => inval[vcpu.u] = {"context", "iotlb"}
  PROVE  VtdInv'
<1>1. Control' /\ vcpu' = [vcpu EXCEPT !.pc = "returned", !.n = 0, !.ret = v, !.s = Zeroed]
  BY ReturnControl DEF VtdInv, TypeInv
<1>2. /\ vcpu'.pc = "returned" /\ vcpu'.ret = v /\ vcpu'.fn = vcpu.fn /\ vcpu'.u = vcpu.u
  BY <1>1 DEF VtdInv, TypeInv, Control, Driver
<1>3. TypeInv'
  BY <1>1 DEF VtdInv, TypeInv, Quiet
<1>4. TransInv'
  BY <1>2 DEF VtdInv, TransInv, Quiet, SameStatus, Status, TranslationAsAsked, Commanding, Waiting
<1>5. ContextInv' /\ IotlbInv'
  BY <1>2 DEF ContextInv, IotlbInv
<1>6. InvalidationDone'
  BY <1>2 DEF InvalidationDone, At, Quiet
<1> QED
  BY <1>3, <1>4, <1>5, <1>6 DEF VtdInv

(* A write to any other word is quiet. *)
LEMMA QuietWrite ==
  ASSUME VtdInv, Running, NEW w \in Words \ Status, NEW v \in WordSets, Store(WordAddr(vcpu.u, w), v),
         UNCHANGED <<kind, table, vcalls, inval, asked>>
  PROVE  Quiet
<1>1. UnitsTyped /\ vcpu.u \in Units
  BY DEF VtdInv, TypeInv, Control
<1>2. /\ drhd' \in [Units -> [Words -> WordSets]]
      /\ \A x \in Units, y \in Words : x # vcpu.u \/ (y # w /\ (w = "gcmd" => y # "gsts")) => drhd'[x][y] = drhd[x][y]
  BY <1>1, StoreFrame
<1>3. Status \subseteq Words /\ "gcmd" \in Status
  BY SomeWords DEF Status
<1>4. \A x \in Units, y \in Status : drhd'[x][y] = drhd[x][y]
  BY <1>2, <1>3
<1> QED
  BY <1>1, <1>2, <1>4 DEF Quiet, SameStatus, UnitsTyped

(* A step that writes no register is quiet. *)
LEMMA QuietDecision ==
  ASSUME VtdInv, UNCHANGED <<drhd, kind, table, vcalls, inval, asked>>
  PROVE  Quiet
  BY DEF VtdInv, TypeInv, UnitsTyped, Quiet, SameStatus

(* The driver at a label runs, for a unit, and is the one of this label. *)
LEMMA AtLabel ==
  ASSUME VtdInv, vcpu.pc \notin {"idle", "returned"}
  PROVE  Running /\ vcpu.u \in Units /\ vcpu.fn \in FnOf(vcpu.pc)
  BY DEF VtdInv, TypeInv, Control, Running

(* The program points at which a driver decides on what it read. *)
LEMMA Labels == {"cap", "fectl", "fectl_check", "ccmd_idle", "ccmd_done", "iotlb_done", "rtps", "tes_first",
  "tes_wait", "prs_wait", "ccmd_lo", "ccmd_hi", "iotlb_lo", "iotlb_hi", "rta_lo", "rta_hi", "srtp", "gcmd_te",
  "pmen", "plmbase", "plmlimit", "phmbase_lo", "phmbase_hi", "phmlimit_lo", "phmlimit_hi"}
  \subseteq PcLabels \ {"idle", "returned"}
  BY DEF PcLabels, Unpacks

(* Every step of the initialization driver preserves the invariant. *)
LEMMA Initialize ==
  ASSUME VtdInv, drhd_initialize, UNCHANGED <<kind, vcalls>>
  PROVE  VtdInv'
<1> USE DEF At
<1> DEFINE s == vcpu.s
<1>1. CASE /\ Decide("cap") /\ UNCHANGED asked
           /\ IF s.plmr # {} /\ s.phmr # {} /\ s.sagaw \cap {1, 2} # {}
              THEN Goto("fectl") ELSE Return(FALSE)
  <2>1. Quiet /\ vcpu.pc = "cap"
    BY <1>1, QuietDecision DEF Decide, Unpacked
  <2>2. Running /\ vcpu.fn \in {"initialize"}
    BY <2>1, AtLabel DEF FnOf
  <2>3. CASE Goto("fectl")
    BY <2>1, <2>2, <2>3, QuietGoto, Labels DEF FnOf, Commanding, Waiting
  <2>4. CASE Return(FALSE)
    BY <2>1, <2>2, <2>4, QuietReturn
  <2> QED
    BY <1>1, <2>3, <2>4
<1>2. CASE /\ Unpacked("fectl")
           /\ Write("fectl", Reg("fectl"), Pack(VTD_FECTL_REG, [s EXCEPT !.im = {0}]))
           /\ Goto("fectl_check") /\ UNCHANGED table
  <2>1. vcpu.pc = "fectl"
    BY <1>2 DEF Unpacked
  <2>2. Running /\ vcpu.fn \in {"initialize"} /\ vcpu.u \in Units
    BY <2>1, AtLabel DEF FnOf
  <2>3. "fectl" \in Words \ Status /\ Reg("fectl") = WordAddr(vcpu.u, "fectl")
    BY <2>2, SomeWords, RegisterAddresses DEF Reg, Regs32, Status
  <2>4. Quiet
    BY <1>2, <2>2, <2>3, FectlWord, QuietWrite DEF Write
  <2> QED
    BY <1>2, <2>1, <2>2, <2>4, QuietGoto, Labels DEF FnOf, Commanding, Waiting
<1>3. CASE Decide("fectl_check") /\ UNCHANGED asked /\ Return(s.im # {})
  <2>1. Quiet /\ vcpu.pc = "fectl_check"
    BY <1>3, QuietDecision DEF Decide, Unpacked
  <2>2. Running /\ vcpu.fn \in {"initialize"}
    BY <2>1, AtLabel DEF FnOf
  <2> QED
    BY <1>3, <2>1, <2>2, QuietReturn
<1> QED
  BY <1>1, <1>2, <1>3 DEF drhd_initialize

(* The packed empty command is a word. *)
LEMMA NoBits == Pack(VTD_PMEN_REG, Zeroed) \in WordSets
  BY PmenCommand DEF WordSets

(* Every step of the driver that disables protected memory preserves the invariant. *)
LEMMA DisablePmr ==
  ASSUME VtdInv, drhd_disable_pmr, UNCHANGED <<kind, vcalls>>
  PROVE  VtdInv'
<1> USE DEF At
<1>1. CASE /\ Write("pmen", Reg("pmen"), Pack(VTD_PMEN_REG, Zeroed))
           /\ Goto("prs_wait") /\ UNCHANGED table
  <2>1. vcpu.pc = "pmen"
    BY <1>1 DEF Write
  <2>2. Running /\ vcpu.fn \in {"disable_pmr"} /\ vcpu.u \in Units
    BY <2>1, AtLabel DEF FnOf
  <2>3. "pmen" \in Words \ Status /\ Reg("pmen") = WordAddr(vcpu.u, "pmen")
    BY <2>2, SomeWords, RegisterAddresses DEF Reg, Regs32, Status
  <2>4. Quiet
    BY <1>1, <2>2, <2>3, NoBits, QuietWrite DEF Write
  <2> QED
    BY <1>1, <2>1, <2>2, <2>4, QuietGoto, Labels DEF FnOf, Commanding, Waiting
<1>2. CASE /\ Decide("prs_wait") /\ UNCHANGED asked
           /\ IF vcpu.s.prs = {} THEN Return(FALSE) ELSE Goto("prs_wait")
  <2>1. Quiet /\ vcpu.pc = "prs_wait"
    BY <1>2, QuietDecision DEF Decide, Unpacked
  <2>2. Running /\ vcpu.fn \in {"disable_pmr"}
    BY <2>1, AtLabel DEF FnOf
  <2>3. CASE Goto("prs_wait")
    BY <2>1, <2>2, <2>3, QuietGoto, Labels DEF FnOf, Commanding, Waiting
  <2>4. CASE Return(FALSE)
    BY <2>1, <2>2, <2>4, QuietReturn
  <2> QED
    BY <1>2, <2>3, <2>4
<1> QED
  BY <1>1, <1>2 DEF drhd_disable_pmr

(* The bounds of a protected region that a caller passes are words. *)
LEMMA RegionArguments ==
  ASSUME VtdInv, vcpu.fn \in {"set_plm", "set_phm"}
  PROVE  vcpu.arg \in WordSets /\ vcpu.limit \in WordSets
  BY DEF VtdInv, TypeInv, Control

(* Every step of the driver that sets the low protected region preserves the invariant. *)
LEMMA SetPlm ==
  ASSUME VtdInv, drhd_set_plm_base_and_limit, UNCHANGED <<kind, vcalls>>
  PROVE  VtdInv'
<1> USE DEF At
<1>1. CASE /\ Write("plmbase", Reg("plmbase"), vcpu.arg)
           /\ Goto("plmlimit") /\ UNCHANGED table
  <2>1. vcpu.pc = "plmbase"
    BY <1>1 DEF Write
  <2>2. Running /\ vcpu.fn \in {"set_plm"} /\ vcpu.u \in Units
    BY <2>1, AtLabel DEF FnOf
  <2>3. "plmbase" \in Words \ Status /\ Reg("plmbase") = WordAddr(vcpu.u, "plmbase")
    BY <2>2, SomeWords, RegisterAddresses DEF Reg, Regs32, Status
  <2>4. Quiet
    BY <1>1, <2>2, <2>3, RegionArguments, QuietWrite DEF Write
  <2> QED
    BY <1>1, <2>1, <2>2, <2>4, QuietGoto, Labels DEF FnOf, Commanding, Waiting
<1>2. CASE /\ Write("plmlimit", Reg("plmlimit"), vcpu.limit)
           /\ Return(FALSE) /\ UNCHANGED table
  <2>1. vcpu.pc = "plmlimit"
    BY <1>2 DEF Write
  <2>2. Running /\ vcpu.fn \in {"set_plm"} /\ vcpu.u \in Units
    BY <2>1, AtLabel DEF FnOf
  <2>3. "plmlimit" \in Words \ Status /\ Reg("plmlimit") = WordAddr(vcpu.u, "plmlimit")
    BY <2>2, SomeWords, RegisterAddresses DEF Reg, Regs32, Status
  <2>4. Quiet
    BY <1>2, <2>2, <2>3, RegionArguments, QuietWrite DEF Write
  <2> QED
    BY <1>2, <2>2, <2>4, QuietReturn
<1> QED
  BY <1>1, <1>2 DEF drhd_set_plm_base_and_limit

(* Every step of the driver that sets the high protected region preserves the
   invariant. *)
LEMMA SetPhm ==
  ASSUME VtdInv, drhd_set_phm_base_and_limit, UNCHANGED <<kind, vcalls>>
  PROVE  VtdInv'
<1> USE DEF At
<1>1. CASE /\ Write("phmbase_lo", Reg("phmbase"), LowWord(vcpu.arg))
           /\ Goto("phmbase_hi") /\ UNCHANGED table
  <2>1. vcpu.pc = "phmbase_lo"
    BY <1>1 DEF Write
  <2>2. Running /\ vcpu.fn \in {"set_phm"} /\ vcpu.u \in Units
    BY <2>1, AtLabel DEF FnOf
  <2>3. "phmbase_lo" \in Words \ Status /\ Reg("phmbase") = WordAddr(vcpu.u, "phmbase_lo")
    BY <2>2, SomeWords, RegisterAddresses DEF Reg, Regs32, Status
  <2>4. Quiet
    BY <1>1, <2>2, <2>3, Halves, QuietWrite DEF Write
  <2> QED
    BY <1>1, <2>1, <2>2, <2>4, QuietGoto, Labels DEF FnOf, Commanding, Waiting
<1>2. CASE /\ Write("phmbase_hi", Reg("phmbase") + 4, HighWord(vcpu.arg))
           /\ Goto("phmlimit_lo") /\ UNCHANGED table
  <2>1. vcpu.pc = "phmbase_hi"
    BY <1>2 DEF Write
  <2>2. Running /\ vcpu.fn \in {"set_phm"} /\ vcpu.u \in Units
    BY <2>1, AtLabel DEF FnOf
  <2>3. "phmbase_hi" \in Words \ Status /\ Reg("phmbase") + 4 = WordAddr(vcpu.u, "phmbase_hi")
    BY <2>2, SomeWords, RegisterAddresses DEF Reg, Regs32, Status
  <2>4. Quiet
    BY <1>2, <2>2, <2>3, Halves, QuietWrite DEF Write
  <2> QED
    BY <1>2, <2>1, <2>2, <2>4, QuietGoto, Labels DEF FnOf, Commanding, Waiting
<1>3. CASE /\ Write("phmlimit_lo", Reg("phmlimit"), LowWord(vcpu.limit))
           /\ Goto("phmlimit_hi") /\ UNCHANGED table
  <2>1. vcpu.pc = "phmlimit_lo"
    BY <1>3 DEF Write
  <2>2. Running /\ vcpu.fn \in {"set_phm"} /\ vcpu.u \in Units
    BY <2>1, AtLabel DEF FnOf
  <2>3. "phmlimit_lo" \in Words \ Status /\ Reg("phmlimit") = WordAddr(vcpu.u, "phmlimit_lo")
    BY <2>2, SomeWords, RegisterAddresses DEF Reg, Regs32, Status
  <2>4. Quiet
    BY <1>3, <2>2, <2>3, Halves, QuietWrite DEF Write
  <2> QED
    BY <1>3, <2>1, <2>2, <2>4, QuietGoto, Labels DEF FnOf, Commanding, Waiting
<1>4. CASE /\ Write("phmlimit_hi", Reg("phmlimit") + 4, HighWord(vcpu.limit))
           /\ Return(FALSE) /\ UNCHANGED table
  <2>1. vcpu.pc = "phmlimit_hi"
    BY <1>4 DEF Write
  <2>2. Running /\ vcpu.fn \in {"set_phm"} /\ vcpu.u \in Units
    BY <2>1, AtLabel DEF FnOf
  <2>3. "phmlimit_hi" \in Words \ Status /\ Reg("phmlimit") + 4 = WordAddr(vcpu.u, "phmlimit_hi")
    BY <2>2, SomeWords, RegisterAddresses DEF Reg, Regs32, Status
  <2>4. Quiet
    BY <1>4, <2>2, <2>3, Halves, QuietWrite DEF Write
  <2> QED
    BY <1>4, <2>2, <2>4, QuietReturn
<1> QED
  BY <1>1, <1>2, <1>3, <1>4 DEF drhd_set_phm_base_and_limit

(* A step that writes the high word of a command of invalidation. *)
CommandWritten(w, v) ==
  /\ drhd' \in [Units -> [Words -> WordSets]]
  /\ \A x \in Units, y \in Words : x # vcpu.u \/ y # w => drhd'[x][y] = drhd[x][y]
  /\ drhd'[vcpu.u][w] = IF kind = "hwm" THEN WriteWord(drhd[vcpu.u], w, v)[w]
                        ELSE UnitStore(drhd[vcpu.u], w, v)[w]

(* The store of a command half does so. *)
LEMMA WriteToCommand ==
  ASSUME VtdInv, vcpu.u \in Units, NEW w \in Words \ {"gcmd", "gsts"}, NEW v \in WordSets,
         Store(WordAddr(vcpu.u, w), v)
  PROVE  CommandWritten(w, v)
<1>1. UnitsTyped
  BY DEF VtdInv, TypeInv
<1>2. /\ drhd' \in [Units -> [Words -> WordSets]]
      /\ \A x \in Units, y \in Words :
           x # vcpu.u \/ (y # w /\ (w = "gcmd" => y # "gsts")) => drhd'[x][y] = drhd[x][y]
  BY <1>1, StoreFrame
<1>3. drhd' = [drhd EXCEPT ![vcpu.u] = IF kind = "hwm" THEN WriteWord(drhd[vcpu.u], w, v)
                                                        ELSE UnitStore(drhd[vcpu.u], w, v)]
  BY <1>1, StoredAt
<1>4. drhd'[vcpu.u] = IF kind = "hwm" THEN WriteWord(drhd[vcpu.u], w, v) ELSE UnitStore(drhd[vcpu.u], w, v)
  BY <1>1, <1>3 DEF UnitsTyped
<1> QED
  BY <1>2, <1>4 DEF CommandWritten
(* What becomes of a command that is written. *)
LEMMA CarriedOut ==
  ASSUME NEW regs \in [Words -> WordSets]
  PROVE  /\ WriteWord(regs, "ccmd_hi", {29, 31})["ccmd_hi"] = {27, 29}
         /\ UnitStore(regs, "ccmd_hi", {29, 31})["ccmd_hi"] = {29, 31}
         /\ WriteWord(regs, "iotlb_hi", {28, 31})["iotlb_hi"] = {25, 28}
         /\ UnitStore(regs, "iotlb_hi", {28, 31})["iotlb_hi"] = {28, 31}
<1>1. "ccmd_hi" \in Words /\ "iotlb_hi" \in Words
  BY SomeWords
<1>2. WriteWord(regs, "ccmd_hi", {29, 31})["ccmd_hi"] = {27, 29}
  <2>1. WriteWord(regs, "ccmd_hi", {29, 31}) = WriteCcmd(regs, {29, 31})
    BY DEF WriteWord
  <2>2. WriteCcmd(regs, {29, 31})["ccmd_hi"] = ({29, 31} \ {31, 28, 27}) \cup {b - 2 : b \in {29, 31} \cap {30, 29}}
    BY <1>1 DEF WriteCcmd
  <2> QED
    BY <2>1, <2>2
<1>3. WriteWord(regs, "iotlb_hi", {28, 31})["iotlb_hi"] = {25, 28}
  <2>1. WriteWord(regs, "iotlb_hi", {28, 31}) = WriteIotlb(regs, {28, 31})
    BY DEF WriteWord
  <2>2. WriteIotlb(regs, {28, 31})["iotlb_hi"] = ({28, 31} \ {31, 26, 25}) \cup {b - 3 : b \in {28, 31} \cap {29, 28}}
    BY <1>1 DEF WriteIotlb
  <2> QED
    BY <2>1, <2>2
<1>4. UnitStore(regs, "ccmd_hi", {29, 31})["ccmd_hi"] = {29, 31} /\ UnitStore(regs, "iotlb_hi", {28, 31})["iotlb_hi"] = {28, 31}
  BY <1>1 DEF UnitStore
<1> QED
  BY <1>2, <1>3, <1>4
(* The caches that were invalidated stay so. *)
LEMMA InvalidatedTyped ==
  ASSUME inval \in [Units -> SUBSET {"context", "iotlb"}], NEW u \in Units,
         NEW cache \in {"context", "iotlb"}
  PROVE  /\ Invalidated(u, cache) \in [Units -> SUBSET {"context", "iotlb"}]
         /\ \A x \in Units : inval[x] \subseteq Invalidated(u, cache)[x]
         /\ \A x \in Units : x # u => Invalidated(u, cache)[x] = inval[x]
         /\ cache = "context" \/ "context" \in inval[u] => cache \in Invalidated(u, cache)[u]
  BY DEF Invalidated

(* How many fields are unpacked at the labels where invalidation and translation are
   decided. *)
LEMMA UnpackLengths ==
  /\ Len(Fields("ccmd_idle")) = 7 /\ Len(Fields("ccmd_done")) = 7 /\ Len(Fields("iotlb_done")) = 8
  /\ Len(Fields("tes_first")) = 10 /\ Len(Fields("tes_wait")) = 10
  BY FieldLengths DEF Fields, Unpacks

(* Every step of the driver that invalidates the caches preserves the invariant. *)
LEMMA InvalidateCaches ==
  ASSUME VtdInv, drhd_invalidatecaches, UNCHANGED <<kind, vcalls>>
  PROVE  VtdInv'
<1> USE DEF At
<1> DEFINE s == vcpu.s
<1>1. CASE /\ Decide("ccmd_idle") /\ UNCHANGED asked
           /\ IF s.icc = {} THEN Goto("ccmd_lo") ELSE Goto("ccmd_idle")
  <2>1. Quiet /\ vcpu.pc = "ccmd_idle"
    BY <1>1, QuietDecision DEF Decide, Unpacked
  <2>2. Running /\ vcpu.fn \in {"invalidatecaches"}
    BY <2>1, AtLabel DEF FnOf
  <2>3. CASE Goto("ccmd_lo")
    BY <2>1, <2>2, <2>3, QuietGoto, Labels DEF FnOf, Commanding, Waiting
  <2>4. CASE Goto("ccmd_idle")
    BY <2>1, <2>2, <2>4, QuietGoto, Labels DEF FnOf, Commanding, Waiting
  <2> QED
    BY <1>1, <2>3, <2>4
<1>2. CASE /\ Write("ccmd_lo", Reg("ccmd"), LowWord(ContextCommand))
           /\ Goto("ccmd_hi") /\ UNCHANGED table
  <2>1. vcpu.pc = "ccmd_lo"
    BY <1>2 DEF Write
  <2>2. Running /\ vcpu.fn \in {"invalidatecaches"} /\ vcpu.u \in Units
    BY <2>1, AtLabel DEF FnOf
  <2>3. "ccmd_lo" \in Words \ Status /\ Reg("ccmd") = WordAddr(vcpu.u, "ccmd_lo")
    BY <2>2, SomeWords, RegisterAddresses DEF Reg, Status
  <2>4. Quiet
    BY <1>2, <2>2, <2>3, Halves, QuietWrite DEF Write
  <2>5. "ccmd_hi" \in {"iotlb_lo", "iotlb_hi", "iotlb_done"} => "context" \in inval[vcpu.u]
    BY <2>1 DEF VtdInv, IotlbInv
  <2> QED
    BY <1>2, <2>1, <2>2, <2>4, <2>5, QuietGoto, Labels DEF FnOf, Commanding, Waiting
<1>3. CASE /\ WriteCommand("ccmd_hi", Reg("ccmd") + 4, ContextCommand, "context")
           /\ Goto("ccmd_done")
  <2>1. vcpu.pc = "ccmd_hi"
    BY <1>3 DEF WriteCommand
  <2>2. Running /\ vcpu.fn \in {"invalidatecaches"} /\ vcpu.u \in Units
    BY <2>1, AtLabel DEF FnOf
  <2>3. CommandWritten("ccmd_hi", {29, 31})
    <3>1. "ccmd_hi" \in Words /\ "ccmd_hi" \notin {"gcmd", "gsts"} /\ Reg("ccmd") + 4 = WordAddr(vcpu.u, "ccmd_hi")
      BY <2>2, SomeWords, RegisterAddresses DEF Reg
    <3>2. Store(WordAddr(vcpu.u, "ccmd_hi"), {29, 31})
      BY <1>3, <3>1, CommandWords DEF WriteCommand
    <3>3. {29, 31} \in WordSets
      BY DEF WordSets
    <3> QED
      BY <2>2, <3>1, <3>2, <3>3, WriteToCommand
  <2>4. /\ inval' = IF kind = "hwm" THEN Invalidated(vcpu.u, "context") ELSE inval
        /\ UNCHANGED <<table, asked>>
    BY <1>3 DEF WriteCommand
  <2>5. kind = "hwm" => drhd'[vcpu.u].ccmd_hi = {27, 29}
    BY <2>2, <2>3, CarriedOut DEF CommandWritten, VtdInv, TypeInv, UnitsTyped
  <2>6. kind # "hwm" => 31 \in drhd'[vcpu.u].ccmd_hi
    BY <2>2, <2>3, CarriedOut DEF CommandWritten, VtdInv, TypeInv, UnitsTyped
  <2>7. inval \in [Units -> SUBSET {"context", "iotlb"}] /\ Control
    BY DEF VtdInv, TypeInv
  <2>8. kind = "hwm" => "context" \in inval'[vcpu.u]
    BY <2>2, <2>4, <2>7, InvalidatedTyped
  <2>9. Control' /\ vcpu' = [vcpu EXCEPT !.pc = "ccmd_done", !.n = 0]
    BY <1>3, <2>2, <2>7, GotoControl, Labels DEF FnOf
  <2>10. vcpu'.pc = "ccmd_done" /\ vcpu'.n = 0 /\ vcpu'.u = vcpu.u
    BY <2>7, <2>9 DEF Control, Driver
  <2>11. TypeInv'
    <3>1. inval' \in [Units -> SUBSET {"context", "iotlb"}]
      BY <2>2, <2>4, <2>7, InvalidatedTyped
    <3> QED
      BY <2>3, <2>4, <2>9, <3>1 DEF VtdInv, TypeInv, UnitsTyped, CommandWritten
  <2>12. TransInv'
    <3>1. {"gcmd", "gsts", "ccmd_hi"} \subseteq Words
      BY SomeWords
    <3>2. \A x \in Units : drhd'[x].gcmd = drhd[x].gcmd /\ drhd'[x].gsts = drhd[x].gsts
      BY <2>3, <3>1 DEF CommandWritten
    <3> QED
      BY <2>4, <2>10, <3>2 DEF VtdInv, TransInv, TranslationAsAsked, Commanding, Waiting
  <2>13. ContextInv'
    BY <2>5, <2>6, <2>8, <2>10 DEF VtdInv, TypeInv, UnitsTyped, ContextInv, ContextWhole
  <2>14. IotlbInv' /\ InvalidationDone'
    BY <2>10 DEF IotlbInv, InvalidationDone, At
  <2> QED
    BY <2>11, <2>12, <2>13, <2>14 DEF VtdInv
<1>4. CASE /\ Decide("ccmd_done") /\ UNCHANGED asked
           /\ CASE s.icc # {} -> Goto("ccmd_done")
                [] s.icc = {} /\ ~WholeContext(s) -> Return(FALSE)
                [] s.icc = {} /\ WholeContext(s) -> Goto("iotlb_lo")
  <2>1. Quiet /\ vcpu.pc = "ccmd_done" /\ vcpu.n = 7
    BY <1>4, QuietDecision, UnpackLengths DEF Decide, Unpacked
  <2>2. Running /\ vcpu.fn \in {"invalidatecaches"}
    BY <2>1, AtLabel DEF FnOf
  <2>3. CASE s.icc # {} /\ Goto("ccmd_done")
    BY <2>1, <2>2, <2>3, QuietGoto, Labels DEF FnOf, Commanding, Waiting
  <2>4. CASE Return(FALSE)
    BY <2>1, <2>2, <2>4, QuietReturn
  <2>5. CASE s.icc = {} /\ s.caig = {0} /\ Goto("iotlb_lo")
    <3>1. "context" \in inval[vcpu.u]
      BY <2>1, <2>5 DEF VtdInv, ContextInv
    <3> QED
      BY <2>1, <2>2, <2>5, <3>1, QuietGoto, Labels DEF FnOf, Commanding, Waiting
  <2> QED
    BY <1>4, <2>3, <2>4, <2>5 DEF WholeContext
<1>5. CASE /\ Write("iotlb_lo", Reg("iotlb"), LowWord(IotlbCommand))
           /\ Goto("iotlb_hi") /\ UNCHANGED table
  <2>1. vcpu.pc = "iotlb_lo"
    BY <1>5 DEF Write
  <2>2. Running /\ vcpu.fn \in {"invalidatecaches"} /\ vcpu.u \in Units
    BY <2>1, AtLabel DEF FnOf
  <2>3. "iotlb_lo" \in Words \ Status /\ Reg("iotlb") = WordAddr(vcpu.u, "iotlb_lo")
    BY <2>2, SomeWords, RegisterAddresses DEF Reg, Status
  <2>4. Quiet
    BY <1>5, <2>2, <2>3, Halves, QuietWrite DEF Write
  <2>5. "iotlb_hi" \in {"iotlb_lo", "iotlb_hi", "iotlb_done"} => "context" \in inval[vcpu.u]
    BY <2>1 DEF VtdInv, IotlbInv
  <2> QED
    BY <1>5, <2>1, <2>2, <2>4, <2>5, QuietGoto, Labels DEF FnOf, Commanding, Waiting
<1>6. CASE /\ WriteCommand("iotlb_hi", Reg("iotlb") + 4, IotlbCommand, "iotlb")
           /\ Goto("iotlb_done")
  <2>1. vcpu.pc = "iotlb_hi"
    BY <1>6 DEF WriteCommand
  <2>2. Running /\ vcpu.fn \in {"invalidatecaches"} /\ vcpu.u \in Units
    BY <2>1, AtLabel DEF FnOf
  <2>3. CommandWritten("iotlb_hi", {28, 31})
    <3>1. "iotlb_hi" \in Words /\ "iotlb_hi" \notin {"gcmd", "gsts"} /\ Reg("iotlb") + 4 = WordAddr(vcpu.u, "iotlb_hi")
      BY <2>2, SomeWords, RegisterAddresses DEF Reg
    <3>2. Store(WordAddr(vcpu.u, "iotlb_hi"), {28, 31})
      BY <1>6, <3>1, CommandWords DEF WriteCommand
    <3>3. {28, 31} \in WordSets
      BY DEF WordSets
    <3> QED
      BY <2>2, <3>1, <3>2, <3>3, WriteToCommand
  <2>4. /\ inval' = IF kind = "hwm" THEN Invalidated(vcpu.u, "iotlb") ELSE inval
        /\ UNCHANGED <<table, asked>>
    BY <1>6 DEF WriteCommand
  <2>5. kind = "hwm" => drhd'[vcpu.u].iotlb_hi = {25, 28}
    BY <2>2, <2>3, CarriedOut DEF CommandWritten, VtdInv, TypeInv, UnitsTyped
  <2>6. kind # "hwm" => 31 \in drhd'[vcpu.u].iotlb_hi
    BY <2>2, <2>3, CarriedOut DEF CommandWritten, VtdInv, TypeInv, UnitsTyped
  <2>0. "context" \in inval[vcpu.u]
    BY <2>1 DEF VtdInv, IotlbInv
  <2>7. inval \in [Units -> SUBSET {"context", "iotlb"}] /\ Control
    BY DEF VtdInv, TypeInv
  <2>8. kind = "hwm" => "iotlb" \in inval'[vcpu.u]
    BY <2>0, <2>2, <2>4, <2>7, InvalidatedTyped
  <2>9. Control' /\ vcpu' = [vcpu EXCEPT !.pc = "iotlb_done", !.n = 0]
    BY <1>6, <2>2, <2>7, GotoControl, Labels DEF FnOf
  <2>10. vcpu'.pc = "iotlb_done" /\ vcpu'.n = 0 /\ vcpu'.u = vcpu.u
    BY <2>7, <2>9 DEF Control, Driver
  <2>11. TypeInv'
    <3>1. inval' \in [Units -> SUBSET {"context", "iotlb"}]
      BY <2>2, <2>4, <2>7, InvalidatedTyped
    <3> QED
      BY <2>3, <2>4, <2>9, <3>1 DEF VtdInv, TypeInv, UnitsTyped, CommandWritten
  <2>12. TransInv'
    <3>1. {"gcmd", "gsts", "iotlb_hi"} \subseteq Words
      BY SomeWords
    <3>2. \A x \in Units : drhd'[x].gcmd = drhd[x].gcmd /\ drhd'[x].gsts = drhd[x].gsts
      BY <2>3, <3>1 DEF CommandWritten
    <3> QED
      BY <2>4, <2>10, <3>2 DEF VtdInv, TransInv, TranslationAsAsked, Commanding, Waiting
  <2>13. "context" \in inval'[vcpu.u]
    BY <2>0, <2>2, <2>4, <2>7, InvalidatedTyped
  <2>14. ContextInv' /\ InvalidationDone' /\ IotlbInv'
    <3>1. ContextInv' /\ InvalidationDone'
      BY <2>10 DEF ContextInv, InvalidationDone, At
    <3>2. IotlbInv'
      BY <2>5, <2>6, <2>8, <2>10, <2>13 DEF VtdInv, TypeInv, UnitsTyped, IotlbInv, IotlbWhole
    <3> QED
      BY <3>1, <3>2
  <2> QED
    BY <2>11, <2>12, <2>13, <2>14 DEF VtdInv
<1>7. CASE /\ Decide("iotlb_done") /\ UNCHANGED asked
           /\ IF s.ivt # {} THEN Goto("iotlb_done") ELSE Return(WholeIotlb(s))
  <2>1. Quiet /\ vcpu.pc = "iotlb_done" /\ vcpu.n = 8
    BY <1>7, QuietDecision, UnpackLengths DEF Decide, Unpacked
  <2>2. Running /\ vcpu.fn \in {"invalidatecaches"} /\ vcpu.u \in Units
    BY <2>1, AtLabel DEF FnOf
  <2>3. "context" \in inval[vcpu.u] /\ inval[vcpu.u] \subseteq {"context", "iotlb"}
    BY <2>1, <2>2 DEF VtdInv, TypeInv, IotlbInv
  <2>4. CASE Goto("iotlb_done")
    BY <2>1, <2>2, <2>3, <2>4, QuietGoto, Labels DEF FnOf, Commanding, Waiting
  <2>5. CASE s.ivt = {} /\ Return(WholeIotlb(s))
    <3>1. WholeIotlb(s) => inval[vcpu.u] = {"context", "iotlb"}
      BY <2>1, <2>3, <2>5 DEF VtdInv, IotlbInv, WholeIotlb
    <3>2. WholeIotlb(s) \in BOOLEAN
      BY DEF WholeIotlb
    <3> QED
      BY <2>1, <2>2, <2>5, <3>1, <3>2, QuietReturn
  <2> QED
    BY <1>7, <2>4, <2>5
<1> QED
  BY <1>1, <1>2, <1>3, <1>4, <1>5, <1>6, <1>7 DEF drhd_invalidatecaches

(* A command to a unit: the command word is the one written; translation is
   reported at once by a unit of the hardware model, for the other status
   bits nothing is said. *)
GcmdWritten(v) ==
  /\ drhd' \in [Units -> [Words -> WordSets]]
  /\ \A x \in Units, y \in Words : x # vcpu.u \/ y \notin {"gcmd", "gsts"} => drhd'[x][y] = drhd[x][y]
  /\ drhd'[vcpu.u].gcmd = v
  /\ kind # "hwm" => (31 \in drhd'[vcpu.u].gsts) = (31 \in drhd[vcpu.u].gsts)

(* What the two kinds of unit do with a global command at the store. *)
LEMMA GcmdStored ==
  ASSUME NEW regs \in [Words -> WordSets], NEW v
  PROVE  /\ WriteWord(regs, "gcmd", v).gcmd = v /\ UnitStore(regs, "gcmd", v).gcmd = v
         /\ (31 \in UnitStore(regs, "gcmd", v).gsts) = (31 \in regs.gsts)
<1>1. "gcmd" \in Words /\ "gsts" \in Words
  BY SomeWords
<1>2. WriteWord(regs, "gcmd", v).gcmd = v
  BY <1>1 DEF WriteWord, WriteGcmd
<1>3. UnitStore(regs, "gcmd", v).gcmd = v /\ (31 \in UnitStore(regs, "gcmd", v).gsts) = (31 \in regs.gsts)
  <2>1. CASE 30 \in v
    <3>1. UnitStore(regs, "gcmd", v) = [regs EXCEPT !.gcmd = v, !.gsts = regs.gsts \ {30}]
      BY <2>1, Zenon DEF UnitStore
    <3>2. UnitStore(regs, "gcmd", v)["gcmd"] = v
      BY <1>1, <3>1
    <3>3. UnitStore(regs, "gcmd", v)["gsts"] = regs["gsts"] \ {30}
      BY <1>1, <3>1
    <3>4. (31 \in regs["gsts"] \ {30}) = (31 \in regs["gsts"])
      OBVIOUS
    <3> QED
      BY <3>2, <3>3, <3>4
  <2>2. CASE 30 \notin v
    BY <1>1, <2>2 DEF UnitStore
  <2> QED
    BY <2>1, <2>2
<1> QED
  BY <1>2, <1>3

(* The store of a global command has that effect. *)
LEMMA WriteToGcmd ==
  ASSUME VtdInv, vcpu.u \in Units, NEW v \in WordSets, Store(Reg("gcmd"), v)
  PROVE  GcmdWritten(v)
<1>1. UnitsTyped /\ "gcmd" \in Words /\ "gsts" \in Words
  BY SomeWords DEF VtdInv, TypeInv
<1>2. Store(WordAddr(vcpu.u, "gcmd"), v)
  BY RegisterAddresses DEF Reg, Regs32
<1>3. /\ drhd' \in [Units -> [Words -> WordSets]]
      /\ \A x \in Units, y \in Words :
           x # vcpu.u \/ (y # "gcmd" /\ ("gcmd" = "gcmd" => y # "gsts")) => drhd'[x][y] = drhd[x][y]
  BY <1>1, <1>2, StoreFrame
<1>4. drhd' = [drhd EXCEPT ![vcpu.u] = IF kind = "hwm" THEN WriteWord(drhd[vcpu.u], "gcmd", v)
                                                        ELSE UnitStore(drhd[vcpu.u], "gcmd", v)]
  BY <1>1, <1>2, StoredAt
<1>5. drhd'[vcpu.u] = IF kind = "hwm" THEN WriteWord(drhd[vcpu.u], "gcmd", v)
                      ELSE UnitStore(drhd[vcpu.u], "gcmd", v)
  BY <1>1, <1>4 DEF UnitsTyped
<1>6. drhd[vcpu.u] \in [Words -> WordSets]
  BY <1>1 DEF UnitsTyped
<1> QED
  BY <1>3, <1>5, <1>6, GcmdStored DEF GcmdWritten
(* Such a command is given while nothing is asked of the unit. *)
LEMMA CommandGiven ==
  ASSUME VtdInv, Running, NEW v \in WordSets, GcmdWritten(v), UNCHANGED <<kind, vcalls, inval, asked>>,
         table' \in [Units -> [addr : SUBSET (0..63), pending : BOOLEAN]],
         vcpu.pc \in Commanding, NEW next \in {"rtps", "tes_first"}, vcpu.fn \in FnOf(next), Goto(next),
         next = "tes_first" => (31 \in v) = Wanted
  PROVE  VtdInv'
<1>1. Control /\ vcpu.u \in Units /\ next \in PcLabels \ {"idle", "returned"}
  BY Labels DEF VtdInv, TypeInv, Control
<1>2. Control' /\ vcpu' = [vcpu EXCEPT !.pc = next, !.n = 0]
  BY <1>1, GotoControl
<1>3. vcpu'.pc = next /\ vcpu'.n = 0 /\ vcpu'.u = vcpu.u /\ vcpu'.fn = vcpu.fn
  BY <1>1, <1>2 DEF Control, Driver
<1>4. TypeInv'
  BY <1>2 DEF VtdInv, TypeInv, UnitsTyped, GcmdWritten
<1>5. TransInv'
  <2>1. asked[vcpu.u] = "nothing"
    BY DEF VtdInv, TransInv
  <2>2. \A x \in Units : x # vcpu.u => drhd'[x].gcmd = drhd[x].gcmd /\ drhd'[x].gsts = drhd[x].gsts
    BY SomeWords DEF GcmdWritten
  <2>3. drhd'[vcpu.u].gcmd = v
    BY DEF GcmdWritten
  <2> QED
    BY <1>3, <2>1, <2>2, <2>3 DEF VtdInv, TransInv, TranslationAsAsked, Waiting, Wanted
<1>6. ContextInv' /\ IotlbInv' /\ InvalidationDone'
  BY <1>3 DEF ContextInv, IotlbInv, InvalidationDone, At
<1> QED
  BY <1>4, <1>5, <1>6 DEF VtdInv

(* Every step of the driver that sets the root table preserves the invariant. *)
LEMMA SetRootEntryTable ==
  ASSUME VtdInv, drhd_set_root_entry_table, UNCHANGED <<kind, vcalls>>
  PROVE  VtdInv'
<1> USE DEF At
<1> DEFINE rtaddr == Pack(VTD_RTADDR_REG, Unpack(VTD_RTADDR_REG, LowWord(vcpu.arg)))
           gcmd == Pack(VTD_GCMD_REG, [Zeroed EXCEPT !.srtp = {0}])
<1> HIDE DEF rtaddr
<1>1. CASE /\ Write("rta_lo", Reg("rtaddr"), LowWord(rtaddr))
           /\ Goto("rta_hi") /\ UNCHANGED table
  <2>1. vcpu.pc = "rta_lo"
    BY <1>1 DEF Write
  <2>2. Running /\ vcpu.fn \in {"set_root_entry_table"} /\ vcpu.u \in Units
    BY <2>1, AtLabel DEF FnOf
  <2>3. "rtaddr_lo" \in Words \ Status /\ Reg("rtaddr") = WordAddr(vcpu.u, "rtaddr_lo")
    BY <2>2, SomeWords, RegisterAddresses DEF Reg, Status
  <2>4. Quiet
    BY <1>1, <2>2, <2>3, Halves, QuietWrite DEF Write
  <2> QED
    BY <1>1, <2>1, <2>2, <2>4, QuietGoto, Labels DEF FnOf, Commanding, Waiting
<1>2. CASE /\ Write("rta_hi", Reg("rtaddr") + 4, HighWord(rtaddr))
           /\ Goto("srtp") /\ UNCHANGED table
  <2>1. vcpu.pc = "rta_hi"
    BY <1>2 DEF Write
  <2>2. Running /\ vcpu.fn \in {"set_root_entry_table"} /\ vcpu.u \in Units
    BY <2>1, AtLabel DEF FnOf
  <2>3. "rtaddr_hi" \in Words \ Status /\ Reg("rtaddr") + 4 = WordAddr(vcpu.u, "rtaddr_hi")
    BY <2>2, SomeWords, RegisterAddresses DEF Reg, Status
  <2>4. Quiet
    BY <1>2, <2>2, <2>3, Halves, QuietWrite DEF Write
  <2> QED
    BY <1>2, <2>1, <2>2, <2>4, QuietGoto, Labels DEF FnOf, Commanding, Waiting
<1>3. CASE /\ Write("srtp", Reg("gcmd"), gcmd)
           /\ table' = [table EXCEPT ![vcpu.u].pending = (kind = "unit")]
           /\ Goto("rtps")
  <2>1. vcpu.pc = "srtp"
    BY <1>3 DEF Write
  <2>2. Running /\ vcpu.fn \in {"set_root_entry_table"} /\ vcpu.u \in Units
    BY <2>1, AtLabel DEF FnOf
  <2>3. gcmd = {30} /\ {30} \in WordSets
    BY SrtpCommand DEF WordSets
  <2>4. GcmdWritten({30})
    BY <1>3, <2>2, <2>3, WriteToGcmd DEF Write
  <2>5. table' \in [Units -> [addr : SUBSET (0..63), pending : BOOLEAN]]
    <3>1. table \in [Units -> [addr : SUBSET (0..63), pending : BOOLEAN]]
      BY DEF VtdInv, TypeInv
    <3>2. table' = [table EXCEPT ![vcpu.u] = [table[vcpu.u] EXCEPT !.pending = (kind = "unit")]]
      BY <1>3
    <3>3. [table[vcpu.u] EXCEPT !.pending = (kind = "unit")] \in [addr : SUBSET (0..63), pending : BOOLEAN]
      BY <2>2, <3>1, Zenon
    <3> QED
      BY <3>1, <3>2, <3>3
  <2>6. UNCHANGED <<inval, asked>>
    BY <1>3 DEF Write
  <2> QED
    BY <1>3, <2>1, <2>2, <2>3, <2>4, <2>5, <2>6, CommandGiven DEF Commanding, FnOf
<1>4. CASE Decide("rtps") /\ UNCHANGED asked /\ Return(vcpu.s.rtps # {})
  <2>1. Quiet /\ vcpu.pc = "rtps"
    BY <1>4, QuietDecision DEF Decide, Unpacked
  <2>2. Running /\ vcpu.fn \in {"set_root_entry_table"}
    BY <2>1, AtLabel DEF FnOf
  <2> QED
    BY <1>4, <2>1, <2>2, QuietReturn
<1> QED
  BY <1>1, <1>2, <1>3, <1>4 DEF drhd_set_root_entry_table, rtaddr

(* Every step of the drivers that enable and disable translation preserves the
   invariant. *)
LEMMA Translation ==
  ASSUME VtdInv, drhd_translation, UNCHANGED <<kind, vcalls>>
  PROVE  VtdInv'
<1> USE DEF At
<1> DEFINE on == vcpu.fn = "enable_translation"
<1>1. CASE /\ Write("gcmd_te", Reg("gcmd"), Pack(VTD_GCMD_REG, [Zeroed EXCEPT !.te = IF on THEN {0} ELSE {}]))
           /\ Goto("tes_first") /\ UNCHANGED table
  <2> DEFINE v == IF on THEN {31} ELSE {}
  <2>1. vcpu.pc = "gcmd_te"
    BY <1>1 DEF Write
  <2>2. Running /\ vcpu.fn \in FnOf("gcmd_te") /\ vcpu.u \in Units
    BY <2>1, AtLabel
  <2>3. Pack(VTD_GCMD_REG, [Zeroed EXCEPT !.te = IF on THEN {0} ELSE {}]) = v /\ v \in WordSets
    <3>1. on \in BOOLEAN /\ v \in WordSets
      BY DEF WordSets
    <3> HIDE DEF on
    <3>2. Pack(VTD_GCMD_REG, [Zeroed EXCEPT !.te = IF on THEN {0} ELSE {}]) = IF on THEN {31} ELSE {}
      BY <3>1, TeCommand, Zenon
    <3> QED
      BY <3>1, <3>2
  <2>4. GcmdWritten(v)
    BY <1>1, <2>2, <2>3, WriteToGcmd DEF Write
  <2>5. table' \in [Units -> [addr : SUBSET (0..63), pending : BOOLEAN]]
    BY <1>1 DEF VtdInv, TypeInv
  <2>6. UNCHANGED <<inval, asked>>
    BY <1>1 DEF Write
  <2>7. (31 \in v) = Wanted /\ vcpu.fn \in FnOf("tes_first")
    BY <2>2 DEF Wanted, FnOf
  <2> HIDE DEF v
  <2> QED
    BY <1>1, <2>1, <2>2, <2>3, <2>4, <2>5, <2>6, <2>7, CommandGiven DEF Commanding
<1>2. CASE Decide("tes_first") /\ UNCHANGED asked /\ Goto("tes_wait")
  <2>1. Quiet /\ vcpu.pc = "tes_first"
    BY <1>2, QuietDecision DEF Decide, Unpacked
  <2>2. Running /\ vcpu.fn \in FnOf("tes_first")
    BY <2>1, AtLabel
  <2> QED
    BY <1>2, <2>1, <2>2, QuietGoto, Labels DEF FnOf, Commanding, Waiting
<1>3. CASE /\ Decide("tes_wait") /\ on # (vcpu.s.tes # {})
           /\ Goto("tes_wait") /\ UNCHANGED asked
  <2>1. Quiet /\ vcpu.pc = "tes_wait"
    BY <1>3, QuietDecision DEF Decide, Unpacked
  <2>2. Running /\ vcpu.fn \in FnOf("tes_wait")
    BY <2>1, AtLabel
  <2> QED
    BY <1>3, <2>1, <2>2, QuietGoto, Labels DEF FnOf, Commanding, Waiting
<1>4. CASE /\ Decide("tes_wait") /\ on = (vcpu.s.tes # {}) /\ Return(FALSE)
           /\ asked' = [asked EXCEPT ![vcpu.u] = IF on THEN "on" ELSE "off"]
  <2>1. vcpu.pc = "tes_wait" /\ vcpu.n = 10 /\ UNCHANGED <<drhd, table, inval, kind, vcalls>>
    BY <1>4, UnpackLengths DEF Decide, Unpacked
  <2>2. Running /\ vcpu.u \in Units /\ vcpu.fn \in {"enable_translation", "disable_translation"}
    BY <2>1, AtLabel DEF FnOf
  <2>3. Control' /\ vcpu' = [vcpu EXCEPT !.pc = "returned", !.n = 0, !.ret = FALSE, !.s = Zeroed]
    BY <1>4, <2>2, ReturnControl DEF VtdInv, TypeInv
  <2>4. vcpu'.pc = "returned" /\ vcpu'.fn = vcpu.fn
    BY <2>3 DEF VtdInv, TypeInv, Control, Driver
  <2>5. (31 \in drhd[vcpu.u].gcmd) = on /\ (31 \in drhd[vcpu.u].gsts) = on
    BY <1>4, <2>1 DEF VtdInv, TransInv, Waiting, Wanted
  <2>6. TypeInv'
    BY <1>4, <2>1, <2>3 DEF VtdInv, TypeInv, UnitsTyped
  <2>7. TransInv'
    <3>1. \A x \in Units : asked'[x] = IF x = vcpu.u THEN (IF on THEN "on" ELSE "off") ELSE asked[x]
      BY <1>4 DEF VtdInv, TypeInv
    <3> QED
      BY <2>1, <2>4, <2>5, <3>1 DEF VtdInv, TransInv, TranslationAsAsked, Commanding, Waiting
  <2>8. ContextInv' /\ IotlbInv' /\ InvalidationDone'
    BY <2>2, <2>4 DEF ContextInv, IotlbInv, InvalidationDone, At
  <2> QED
    BY <2>6, <2>7, <2>8 DEF VtdInv
<1> QED
  BY <1>1, <1>2, <1>3, <1>4 DEF drhd_translation

(* What is read for the fields on which the drivers decide. *)
LEMMA RegisterRead ==
  ASSUME UnitsTyped, NEW u \in Units
  PROVE  /\ vtd_reg_read(u, "gsts") = drhd[u].gsts
         /\ vtd_reg_read(u, "ccmd") = Join(drhd[u].ccmd_lo, drhd[u].ccmd_hi)
         /\ vtd_reg_read(u, "iotlb") = Join(drhd[u].iotlb_lo, drhd[u].iotlb_hi)
<1>1. \A w \in Words : VtdRead(drhd, WordAddr(u, w)) = drhd[u][w]
  BY DecodeWord DEF VtdRead
<1>2. "gsts" \in Regs32 /\ "ccmd" \notin Regs32 /\ "iotlb" \notin Regs32
  BY DEF Regs32
<1> QED
  BY <1>1, <1>2, SomeWords, RegisterAddresses DEF vtd_reg_read

(* The fields by which a driver decides, and the bits of the words they come from. *)
LEMMA FieldBits ==
  ASSUME NEW gsts \in WordSets, NEW lo \in WordSets, NEW hi \in WordSets
  PROVE  /\ (Field(gsts, VTD_GSTS_REG.tes) # {}) = (31 \in gsts)
         /\ (Field(Join(lo, hi), VTD_CCMD_REG.icc) = {}) = (31 \notin hi)
         /\ Field(Join(lo, hi), VTD_CCMD_REG.caig) = {0} => 27 \in hi /\ 28 \notin hi
         /\ (Field(Join(lo, hi), VTD_IOTLB_REG.ivt) = {}) = (31 \notin hi)
         /\ Field(Join(lo, hi), VTD_IOTLB_REG.iaig) = {0} => 25 \in hi /\ 26 \notin hi
<1>1. /\ VTD_GSTS_REG.tes = Place(31, 1) /\ VTD_CCMD_REG.icc = Place(63, 1)
      /\ VTD_CCMD_REG.caig = Place(59, 2) /\ VTD_IOTLB_REG.ivt = Place(63, 1)
      /\ VTD_IOTLB_REG.iaig = Place(57, 3)
  BY DEF VTD_GSTS_REG, VTD_CCMD_REG, VTD_IOTLB_REG
<1>2. Field(gsts, Place(31, 1)) = {b - 31 : b \in gsts \cap (31..31)}
  BY DEF Field, Place
<1>3. Field(Join(lo, hi), Place(63, 1)) = {b - 63 : b \in Join(lo, hi) \cap (63..63)}
  BY DEF Field, Place
<1>4. Field(Join(lo, hi), Place(59, 2)) = {b - 59 : b \in Join(lo, hi) \cap (59..60)}
  BY DEF Field, Place
<1>5. Field(Join(lo, hi), Place(57, 3)) = {b - 57 : b \in Join(lo, hi) \cap (57..59)}
  BY DEF Field, Place
<1>6. \A b \in 32..63 : b \in Join(lo, hi) <=> b - 32 \in hi
  BY DEF Join, WordSets
<1>7. (Field(gsts, VTD_GSTS_REG.tes) # {}) = (31 \in gsts)
  <2>1. CASE 31 \in gsts
    BY <1>1, <1>2, <2>1
  <2>2. CASE 31 \notin gsts
    BY <1>1, <1>2, <2>2
  <2> QED
    BY <2>1, <2>2
<1>8. (Field(Join(lo, hi), Place(63, 1)) = {}) = (31 \notin hi)
  <2>1. 63 \in Join(lo, hi) <=> 31 \in hi
    BY <1>6
  <2> QED
    BY <1>3, <2>1
<1>9. Field(Join(lo, hi), Place(59, 2)) = {0} => 27 \in hi /\ 28 \notin hi
  <2>1. (59 \in Join(lo, hi) <=> 27 \in hi) /\ (60 \in Join(lo, hi) <=> 28 \in hi)
    BY <1>6
  <2> QED
    BY <1>4, <2>1
<1>10. Field(Join(lo, hi), Place(57, 3)) = {0} => 25 \in hi /\ 26 \notin hi
  <2>1. (57 \in Join(lo, hi) <=> 25 \in hi) /\ (58 \in Join(lo, hi) <=> 26 \in hi)
    BY <1>6
  <2> QED
    BY <1>5, <2>1
<1> QED
  BY <1>1, <1>7, <1>8, <1>9, <1>10

(* Where in the order of unpacking the fields by which a driver decides come, once
   each. *)
LEMMA DecisiveFields ==
  /\ Fields("tes_wait")[1] = "tes" /\ \A k \in 2..10 : Fields("tes_wait")[k] # "tes"
  /\ Fields("ccmd_done")[1] = "icc" /\ Fields("ccmd_done")[3] = "caig"
  /\ \A k \in 2..7 : Fields("ccmd_done")[k] # "icc" /\ (k > 3 => Fields("ccmd_done")[k] # "caig")
  /\ Fields("iotlb_done")[1] = "ivt" /\ Fields("iotlb_done")[3] = "iaig"
  /\ \A k \in 2..8 : Fields("iotlb_done")[k] # "ivt" /\ (k > 3 => Fields("iotlb_done")[k] # "iaig")
  BY DEF Fields, FieldOrder, Unpacks

(* Those fields are field names. *)
LEMMA DecisiveNames == {"tes", "icc", "caig", "ivt", "iaig"} \subseteq FieldNames
<1>1. /\ "tes" \in DOMAIN VTD_GSTS_REG /\ {"icc", "caig"} \subseteq DOMAIN VTD_CCMD_REG
      /\ {"ivt", "iaig"} \subseteq DOMAIN VTD_IOTLB_REG
  BY DEF VTD_GSTS_REG, VTD_CCMD_REG, VTD_IOTLB_REG
<1> QED
  BY <1>1, FieldNamesHave

(* A structure into which a field is unpacked stays typed. *)
LEMMA FieldStored ==
  ASSUME NEW s \in [FieldNames -> SUBSET Int], NEW f, NEW value \in SUBSET Int
  PROVE  [s EXCEPT ![f] = value] \in [FieldNames -> SUBSET Int]
  OBVIOUS
(* A field that is unpacked: what a driver has seen of the unit is true when
   it sees it, and stays true as long as the invariants say so. *)
LEMMA Unpacking ==
  ASSUME VtdInv, ReadField, UNCHANGED <<kind, vcalls>>
  PROVE  VtdInv'
<1> DEFINE pc == vcpu.pc
           u == vcpu.u
           f == Fields(vcpu.pc)[vcpu.n + 1]
           reg == Unpacks[vcpu.pc]
           value == Field(vtd_reg_read(vcpu.u, reg), Layout[reg][f])
<1>1. /\ vcpu.pc \in DOMAIN Unpacks /\ vcpu.n < Len(Fields(vcpu.pc))
      /\ vcpu' = [vcpu EXCEPT !.n = @ + 1, !.s[f] = value]
      /\ UNCHANGED <<drhd, table, inval, asked>>
  BY DEF ReadField
<1>2. vcpu.pc \notin {"idle", "returned"}
  BY <1>1 DEF Unpacks
<1> QED
  <2>1. Running /\ u \in Units /\ vcpu.fn \in FnOf(pc)
    BY <1>2, AtLabel
  <2>2. vcpu \in Driver /\ Control
    BY DEF VtdInv, TypeInv, Control
  <2>3. /\ vcpu.n \in 0..20 /\ Len(Fields(pc)) \in 1..20 /\ vcpu.n + 1 \in 1..Len(Fields(pc))
        /\ vcpu.s \in [FieldNames -> SUBSET Int] /\ u \in Units
    BY <1>1, <2>1, <2>2, UnpackedFields DEF Driver
  <2>4. value \in SUBSET Int
    BY <1>1, <2>3, UnpackedFields, FieldTyped
  <2>5. /\ vcpu'.pc = pc /\ vcpu'.n = vcpu.n + 1 /\ vcpu'.u = u /\ vcpu'.fn = vcpu.fn
        /\ vcpu'.arg = vcpu.arg /\ vcpu'.limit = vcpu.limit /\ vcpu'.ret = vcpu.ret
        /\ vcpu'.s = [vcpu.s EXCEPT ![f] = value]
    BY <1>1, <2>2 DEF Driver
  <2>6. \A g \in {"tes", "icc", "caig", "ivt", "iaig"} : vcpu'.s[g] = IF g = f THEN value ELSE vcpu.s[g]
    BY <2>3, <2>5, DecisiveNames
  <2>7. vcpu' \in Driver
    <3> HIDE DEF f, value
    <3>0. vcpu'.s \in [FieldNames -> SUBSET Int]
      <4>1. vcpu.s \in [FieldNames -> SUBSET Int] /\ value \in SUBSET Int
        BY <2>3, <2>4
      <4>2. [vcpu.s EXCEPT ![f] = value] \in [FieldNames -> SUBSET Int]
        BY <4>1, FieldStored
      <4> QED
        BY <2>5, <4>2
    <3>1. vcpu'.n \in 0..20
      <4>1. vcpu'.n = vcpu.n + 1
        BY <2>5
      <4> DEFINE len == Len(Fields(pc))
      <4>2. vcpu.n \in 0..20 /\ len \in 1..20 /\ vcpu.n + 1 \in 1..len
        BY <2>3
      <4> HIDE DEF len
      <4> QED
        BY <4>1, <4>2
    <3>2. vcpu' = [vcpu EXCEPT !.n = vcpu'.n, !.s = vcpu'.s]
      BY <1>1, <2>2, <2>5 DEF Driver
    <3> QED
      BY <2>2, <3>0, <3>1, <3>2, Zenon DEF Driver
  <2> HIDE DEF f, value, reg
  <2>8. TypeInv'
    BY <1>1, <2>2, <2>5, <2>7 DEF VtdInv, TypeInv, UnitsTyped, Control, Running
  <2>9. TransInv'
    <3>1. CASE pc # "tes_wait"
      BY <1>1, <2>5, <3>1 DEF VtdInv, TransInv, TranslationAsAsked, Wanted
    <3>2. CASE pc = "tes_wait"
      <4>1. f = Fields("tes_wait")[vcpu.n + 1] /\ value = Field(drhd[u].gsts, VTD_GSTS_REG[f])
        BY <2>3, <3>2, RegisterRead DEF VtdInv, TypeInv, Unpacks, Layout, f, value, reg
      <4>2. (vcpu.n = 0 => f = "tes") /\ (vcpu.n > 0 => f # "tes")
        <5>1. vcpu.n + 1 \in 1..10 /\ vcpu.n \in Int
          <6>1. Len(Fields(vcpu.pc)) = 10
            BY <3>2, UnpackLengths, Zenon
          <6> QED
            BY <2>3, <6>1
        <5>2. CASE vcpu.n = 0
          BY <4>1, <5>2, DecisiveFields
        <5>3. CASE vcpu.n > 0
          <6>1. vcpu.n + 1 \in 2..10
            BY <5>1, <5>3
          <6> QED
            BY <4>1, <5>3, <6>1, DecisiveFields
        <5> QED
          BY <5>1, <5>2, <5>3
      <4>3. drhd[u].gsts \in WordSets
        BY <2>3, SomeWords DEF VtdInv, TypeInv, UnitsTyped
      <4>4. f = "tes" => (value # {}) = (31 \in drhd[u].gsts)
        BY <4>1, <4>3, FieldBits
      <4>5. vcpu.n > 0 /\ Wanted = (vcpu.s.tes # {}) => (31 \in drhd[u].gsts) = Wanted
        BY <3>2 DEF VtdInv, TransInv
      <4>6. vcpu'.n > 0 /\ Wanted = (vcpu'.s.tes # {}) => (31 \in drhd[u].gsts) = Wanted
        <5>1. vcpu'.s.tes = IF f = "tes" THEN value ELSE vcpu.s.tes
          BY <2>6
        <5>2. CASE vcpu.n = 0
          <6>1. (vcpu'.s.tes # {}) = (31 \in drhd[u].gsts)
            BY <4>2, <4>4, <5>1, <5>2
          <6> QED
            BY <6>1
        <5>3. CASE vcpu.n > 0
          <6>1. vcpu'.s.tes = vcpu.s.tes
            BY <4>2, <5>1, <5>3
          <6>2. Wanted = (vcpu.s.tes # {}) => (31 \in drhd[u].gsts) = Wanted
            BY <4>5, <5>3
          <6>3. Wanted = (vcpu'.s.tes # {}) => (31 \in drhd[u].gsts) = Wanted
            BY <6>1, <6>2, Zenon
          <6> QED
            BY <6>3, Zenon
        <5>4. vcpu.n = 0 \/ vcpu.n > 0
          <6>1. vcpu.n \in 0..20
            BY <2>3
          <6> QED
            BY <6>1
        <5> QED
          BY <5>2, <5>3, <5>4, Zenon
      <4> QED
        BY <1>1, <2>5, <3>2, <4>6 DEF VtdInv, TransInv, TranslationAsAsked, Wanted
    <3> QED
      BY <3>1, <3>2
  <2>10. ContextInv'
    <3>1. CASE vcpu.pc = "ccmd_done"
      <4>1. f = Fields("ccmd_done")[vcpu.n + 1] /\ value = Field(Join(drhd[u].ccmd_lo, drhd[u].ccmd_hi), VTD_CCMD_REG[f])
        BY <2>3, <3>1, RegisterRead DEF VtdInv, TypeInv, Unpacks, Layout, f, value, reg
      <4>2. /\ vcpu.n = 0 => f = "icc"
            /\ vcpu.n > 0 => f # "icc"
            /\ vcpu.n = 2 => f = "caig"
            /\ vcpu.n > 2 => f # "caig"
        <5>1. vcpu.n + 1 \in 1..7 /\ vcpu.n \in Int
          <6>1. Len(Fields(vcpu.pc)) = 7
            BY <3>1, UnpackLengths, Zenon
          <6> QED
            BY <2>3, <6>1
        <5>2. CASE vcpu.n = 0
          BY <4>1, <5>2, DecisiveFields
        <5>3. CASE vcpu.n > 0
          <6>1. vcpu.n + 1 \in 2..7 /\ (vcpu.n > 2 => vcpu.n + 1 > 3)
            BY <5>1, <5>3
          <6> QED
            BY <4>1, <5>3, <6>1, DecisiveFields
        <5> QED
          BY <5>1, <5>2, <5>3
      <4>3. /\ f = "icc" => (value = {}) = (31 \notin drhd[u].ccmd_hi)
            /\ f = "caig" => (value = {0} => 27 \in drhd[u].ccmd_hi /\ 28 \notin drhd[u].ccmd_hi)
        <5>1. drhd[u].gsts \in WordSets /\ drhd[u].ccmd_lo \in WordSets /\ drhd[u].ccmd_hi \in WordSets
          BY <2>3, SomeWords DEF VtdInv, TypeInv, UnitsTyped
        <5> QED
          BY <4>1, <5>1, FieldBits
      <4>4. vcpu.n > 0 /\ vcpu.s.icc = {} => 31 \notin drhd[u].ccmd_hi
        BY <3>1 DEF VtdInv, ContextInv
      <4>5. ContextWhole(u) => "context" \in inval[u]
        BY <3>1 DEF VtdInv, ContextInv
      <4>6. vcpu.n > 2 /\ vcpu.s.icc = {} /\ vcpu.s.caig = {0} => "context" \in inval[u]
        BY <3>1 DEF VtdInv, ContextInv
      <4> DEFINE n == vcpu.n
                 done == vcpu'.s.icc
                 gran == vcpu'.s.caig
      <4>a. /\ vcpu'.n = n + 1 /\ n \in 0..20
            /\ done = IF f = "icc" THEN value ELSE vcpu.s.icc
            /\ gran = IF f = "caig" THEN value ELSE vcpu.s.caig
        BY <2>3, <2>5, <2>6
      <4>7. vcpu'.n > 0 /\ done = {} => 31 \notin drhd[u].ccmd_hi
        <5>1. CASE n = 0
          BY <4>2, <4>3, <4>a, <5>1
        <5>2. CASE n > 0
          BY <4>2, <4>4, <4>a, <5>2
        <5> QED
          BY <4>a, <5>1, <5>2
      <4>8. vcpu'.n > 2 /\ done = {} /\ gran = {0} => "context" \in inval[u]
        <5>1. CASE n = 2
          <6>1. f = "caig" /\ f # "icc"
            BY <4>2, <5>1
          <6>2. done = vcpu.s.icc /\ gran = value
            BY <4>a, <6>1
          <6>3. done = {} => 31 \notin drhd[u].ccmd_hi
            BY <4>4, <5>1, <6>2
          <6>4. done = {} /\ gran = {0} => ContextWhole(u)
            BY <4>3, <6>1, <6>2, <6>3 DEF ContextWhole
          <6> QED
            BY <4>5, <6>4
        <5>2. CASE n > 2
          <6>1. f # "caig" /\ f # "icc"
            <7>1. n > 0
              BY <4>a, <5>2
            <7> QED
              BY <4>2, <5>2, <7>1
          <6>2. done = vcpu.s.icc /\ gran = vcpu.s.caig
            BY <4>a, <6>1
          <6> QED
            BY <4>6, <5>2, <6>2
        <5>3. vcpu'.n > 2 => n = 2 \/ n > 2
          BY <4>a
        <5> QED
          BY <5>1, <5>2, <5>3
      <4> QED
        BY <1>1, <2>5, <3>1, <4>5, <4>7, <4>8 DEF ContextInv, ContextWhole
    <3>2. CASE vcpu.pc # "ccmd_done"
      BY <2>5, <3>2 DEF ContextInv
    <3> QED
      BY <3>1, <3>2
  <2>11. IotlbInv'
    <3>1. CASE vcpu.pc = "iotlb_done"
      <4>1. f = Fields("iotlb_done")[vcpu.n + 1] /\ value = Field(Join(drhd[u].iotlb_lo, drhd[u].iotlb_hi), VTD_IOTLB_REG[f])
        BY <2>3, <3>1, RegisterRead DEF VtdInv, TypeInv, Unpacks, Layout, f, value, reg
      <4>2. /\ vcpu.n = 0 => f = "ivt"
            /\ vcpu.n > 0 => f # "ivt"
            /\ vcpu.n = 2 => f = "iaig"
            /\ vcpu.n > 2 => f # "iaig"
        <5>1. vcpu.n + 1 \in 1..8 /\ vcpu.n \in Int
          <6>1. Len(Fields(vcpu.pc)) = 8
            BY <3>1, UnpackLengths, Zenon
          <6> QED
            BY <2>3, <6>1
        <5>2. CASE vcpu.n = 0
          BY <4>1, <5>2, DecisiveFields
        <5>3. CASE vcpu.n > 0
          <6>1. vcpu.n + 1 \in 2..8 /\ (vcpu.n > 2 => vcpu.n + 1 > 3)
            BY <5>1, <5>3
          <6> QED
            BY <4>1, <5>3, <6>1, DecisiveFields
        <5> QED
          BY <5>1, <5>2, <5>3
      <4>3. /\ f = "ivt" => (value = {}) = (31 \notin drhd[u].iotlb_hi)
            /\ f = "iaig" => (value = {0} => 25 \in drhd[u].iotlb_hi /\ 26 \notin drhd[u].iotlb_hi)
        <5>1. drhd[u].gsts \in WordSets /\ drhd[u].iotlb_lo \in WordSets /\ drhd[u].iotlb_hi \in WordSets
          BY <2>3, SomeWords DEF VtdInv, TypeInv, UnitsTyped
        <5> QED
          BY <4>1, <5>1, FieldBits
      <4>4. vcpu.n > 0 /\ vcpu.s.ivt = {} => 31 \notin drhd[u].iotlb_hi
        BY <3>1 DEF VtdInv, IotlbInv
      <4>5. IotlbWhole(u) => "iotlb" \in inval[u]
        BY <3>1 DEF VtdInv, IotlbInv
      <4>6. vcpu.n > 2 /\ vcpu.s.ivt = {} /\ vcpu.s.iaig = {0} => "iotlb" \in inval[u]
        BY <3>1 DEF VtdInv, IotlbInv
      <4> DEFINE n == vcpu.n
                 done == vcpu'.s.ivt
                 gran == vcpu'.s.iaig
      <4>a. /\ vcpu'.n = n + 1 /\ n \in 0..20
            /\ done = IF f = "ivt" THEN value ELSE vcpu.s.ivt
            /\ gran = IF f = "iaig" THEN value ELSE vcpu.s.iaig
        BY <2>3, <2>5, <2>6
      <4>7. vcpu'.n > 0 /\ done = {} => 31 \notin drhd[u].iotlb_hi
        <5>1. CASE n = 0
          BY <4>2, <4>3, <4>a, <5>1
        <5>2. CASE n > 0
          BY <4>2, <4>4, <4>a, <5>2
        <5> QED
          BY <4>a, <5>1, <5>2
      <4>8. vcpu'.n > 2 /\ done = {} /\ gran = {0} => "iotlb" \in inval[u]
        <5>1. CASE n = 2
          <6>1. f = "iaig" /\ f # "ivt"
            BY <4>2, <5>1
          <6>2. done = vcpu.s.ivt /\ gran = value
            BY <4>a, <6>1
          <6>3. done = {} => 31 \notin drhd[u].iotlb_hi
            BY <4>4, <5>1, <6>2
          <6>4. done = {} /\ gran = {0} => IotlbWhole(u)
            BY <4>3, <6>1, <6>2, <6>3 DEF IotlbWhole
          <6> QED
            BY <4>5, <6>4
        <5>2. CASE n > 2
          <6>1. f # "iaig" /\ f # "ivt"
            <7>1. n > 0
              BY <4>a, <5>2
            <7> QED
              BY <4>2, <5>2, <7>1
          <6>2. done = vcpu.s.ivt /\ gran = vcpu.s.iaig
            BY <4>a, <6>1
          <6> QED
            BY <4>6, <5>2, <6>2
        <5>3. vcpu'.n > 2 => n = 2 \/ n > 2
          BY <4>a
        <5> QED
          BY <5>1, <5>2, <5>3
      <4> QED
        BY <1>1, <2>5, <3>1, <4>5, <4>7, <4>8 DEF VtdInv, IotlbInv, IotlbWhole
    <3>2. CASE vcpu.pc # "iotlb_done"
      BY <1>1, <2>5, <3>2 DEF VtdInv, IotlbInv
    <3> QED
      BY <3>1, <3>2
  <2>12. InvalidationDone'
    BY <1>2, <2>5 DEF InvalidationDone, At
  <2> QED
    BY <2>8, <2>9, <2>10, <2>11, <2>12 DEF VtdInv

(* The idle processor is well-typed. *)
LEMMA NoDriverTyped == NoDriver \in Driver /\ NoDriver.pc = "idle" /\ NoDriver.fn = "none"
<1>1. "idle" \in PcLabels /\ 0 \in 0..20 /\ {} \in SUBSET (0..63) /\ FALSE \in BOOLEAN
  BY DEF PcLabels
<1>2. Zeroed \in [FieldNames -> SUBSET Int]
  BY ZeroedTyped
<1> QED
  BY <1>1, <1>2, Zenon DEF NoDriver, Driver

(* The first program point of each driver. *)
LEMMA Entries ==
  \A fn \in DOMAIN Entry :
    /\ Entry[fn] \in PcLabels \ {"idle", "returned"} /\ fn \in FnOf(Entry[fn])
    /\ Entry[fn] \notin {"ccmd_done", "iotlb_lo", "iotlb_hi", "iotlb_done", "tes_first", "tes_wait"}
    /\ Entry[fn] \in Commanding =>
         fn \in {"set_root_entry_table", "enable_translation", "disable_translation"}
<1>1. \A fn \in DOMAIN Entry : Entry[fn] \in {"cap", "ccmd_idle", "rta_lo", "gcmd_te", "pmen", "plmbase", "phmbase_lo"}
  BY DEF Entry
<1>2. \A fn \in DOMAIN Entry : fn \in FnOf(Entry[fn])
  BY DEF Entry, FnOf
<1>3. \A fn \in DOMAIN Entry : Entry[fn] \in Commanding =>
         fn \in {"set_root_entry_table", "enable_translation", "disable_translation"}
  BY DEF Entry, Commanding
<1> QED
  BY <1>1, <1>2, <1>3, Labels

(* The arguments of a call are well-typed. *)
LEMMA ArgsTyped ==
  ASSUME NEW fn \in DOMAIN Entry, NEW args \in Args(fn)
  PROVE  /\ args[1] \in SUBSET (0..63) /\ args[2] \in SUBSET (0..63)
         /\ fn \in {"set_plm", "set_phm"} => args[1] \in WordSets /\ args[2] \in WordSets
<1>1. RootTables \subseteq SUBSET (0..63) /\ Regions \subseteq SUBSET (0..31)
  BY VtdConstants
<1>2. CASE fn = "set_root_entry_table"
  BY <1>1, <1>2 DEF Args
<1>3. CASE fn \in {"set_plm", "set_phm"}
  <2>1. args \in Regions \X Regions
    BY <1>3 DEF Args
  <2>2. args[1] \in SUBSET (0..31) /\ args[2] \in SUBSET (0..31)
    BY <1>1, <2>1
  <2> QED
    BY <2>2 DEF WordSets
<1>4. CASE fn \notin {"set_root_entry_table", "set_plm", "set_phm"}
  BY <1>4 DEF Args
<1> QED
  BY <1>2, <1>3, <1>4

(* A call of a driver preserves the invariant. *)
LEMMA Call ==
  ASSUME VtdInv, VtdCall
  PROVE  VtdInv'
<1>0. PICK fn \in DOMAIN Entry, u \in Units \cup {"null"} : \E args \in Args(fn) :
        /\ vcpu' = [NoDriver EXCEPT !.pc = IF u = "null" THEN "returned" ELSE Entry[fn],
                                    !.fn = fn, !.u = u, !.arg = args[1], !.limit = args[2]]
        /\ inval' = IF fn = "invalidatecaches" /\ u \in Units THEN [inval EXCEPT ![u] = {}] ELSE inval
        /\ asked' = IF fn \in {"set_root_entry_table", "enable_translation", "disable_translation"}
                       /\ u \in Units
                    THEN [asked EXCEPT ![u] = "nothing"] ELSE asked
  BY DEF VtdCall
<1>1. PICK args \in Args(fn) :
        /\ vcpu' = [NoDriver EXCEPT !.pc = IF u = "null" THEN "returned" ELSE Entry[fn],
                                    !.fn = fn, !.u = u, !.arg = args[1], !.limit = args[2]]
        /\ inval' = IF fn = "invalidatecaches" /\ u \in Units THEN [inval EXCEPT ![u] = {}] ELSE inval
        /\ asked' = IF fn \in {"set_root_entry_table", "enable_translation", "disable_translation"}
                       /\ u \in Units
                    THEN [asked EXCEPT ![u] = "nothing"] ELSE asked
  BY <1>0
<1>2. /\ vcalls' = vcalls + 1 /\ vcalls < MaxVtdCalls /\ UNCHANGED <<drhd, kind, table>>
  BY DEF VtdCall
<1> DEFINE pc == IF u = "null" THEN "returned" ELSE Entry[fn]
<1>3. /\ pc \in PcLabels /\ (pc = "returned" \/ (u \in Units /\ pc = Entry[fn]))
  <2>1. "returned" \in PcLabels
    BY DEF PcLabels
  <2>2. CASE u = "null"
    BY <2>1, <2>2
  <2>3. CASE u # "null"
    BY <2>3, Entries
  <2> QED
    BY <2>2, <2>3
<1>4. NoDriver \in Driver
  BY NoDriverTyped
<1>5. /\ vcpu'.pc = pc /\ vcpu'.fn = fn /\ vcpu'.u = u /\ vcpu'.arg = args[1] /\ vcpu'.limit = args[2]
      /\ vcpu'.s = NoDriver.s /\ vcpu'.n = NoDriver.n /\ vcpu'.ret = NoDriver.ret
  BY <1>1, <1>4 DEF Driver
<1>6. NoDriver.ret = FALSE /\ NoDriver.n = 0
  BY DEF NoDriver
<1>7. vcpu' \in Driver
  <2>1. args[1] \in SUBSET (0..63) /\ args[2] \in SUBSET (0..63) /\ fn \in DOMAIN Entry \cup {"none"}
    BY ArgsTyped
  <2>2. pc \in PcLabels
    BY <1>3
  <2> HIDE DEF pc
  <2>3. vcpu' = [NoDriver EXCEPT !.pc = pc, !.fn = fn, !.u = u, !.arg = args[1], !.limit = args[2]]
    BY <1>1 DEF pc
  <2> QED
    BY <1>4, <2>1, <2>2, <2>3, Zenon DEF Driver
<1>8. Control'
  <2>1. Running' => vcpu'.u \in Units /\ vcpu'.fn \in FnOf(vcpu'.pc)
    BY <1>3, <1>5, Entries DEF Running
  <2>2. vcpu'.fn \in {"set_plm", "set_phm"} => vcpu'.arg \in WordSets /\ vcpu'.limit \in WordSets
    BY <1>5, ArgsTyped
  <2>3. ~vcpu'.ret
    BY <1>5, <1>6
  <2> QED
    BY <1>7, <2>1, <2>2, <2>3 DEF Control
<1>9. TypeInv'
  <2>1. vcalls' \in 0..MaxVtdCalls
    BY <1>2, VtdConstants DEF VtdInv, TypeInv
  <2>2. /\ inval' \in [Units -> SUBSET {"context", "iotlb"}]
        /\ asked' \in [Units -> {"nothing", "on", "off"}]
    BY <1>1 DEF VtdInv, TypeInv
  <2> QED
    BY <1>2, <1>8, <2>1, <2>2 DEF VtdInv, TypeInv, UnitsTyped
<1>10. TransInv'
  <2>1. \A x \in Units : asked'[x] # "nothing" => asked'[x] = asked[x]
    BY <1>1 DEF VtdInv, TypeInv
  <2>2. vcpu'.pc \in Commanding => asked'[vcpu'.u] = "nothing"
    BY <1>1, <1>3, <1>5, Entries DEF VtdInv, TypeInv, Commanding
  <2>3. vcpu'.pc \notin Waiting /\ vcpu'.pc # "tes_wait"
    BY <1>3, <1>5, Entries DEF Waiting
  <2> QED
    BY <1>2, <2>1, <2>2, <2>3 DEF VtdInv, TransInv, TranslationAsAsked
<1>11. ContextInv' /\ IotlbInv'
  BY <1>3, <1>5, Entries DEF ContextInv, IotlbInv
<1>12. InvalidationDone'
  BY <1>5, <1>6 DEF InvalidationDone
<1> QED
  BY <1>9, <1>10, <1>11, <1>12 DEF VtdInv

(* The end of a call preserves the invariant. *)
LEMMA Returning ==
  ASSUME VtdInv, VtdReturn, UNCHANGED <<kind, vcalls>>
  PROVE  VtdInv'
<1>1. vcpu' = NoDriver /\ UNCHANGED <<drhd, table, inval, asked>>
  BY DEF VtdReturn
<1>2. vcpu' \in Driver /\ vcpu'.pc = "idle" /\ vcpu'.fn = "none" /\ ~vcpu'.ret
  BY <1>1, NoDriverTyped DEF NoDriver
<1>3. TypeInv'
  BY <1>1, <1>2 DEF VtdInv, TypeInv, UnitsTyped, Control, Running
<1>4. TransInv'
  BY <1>1, <1>2 DEF VtdInv, TransInv, TranslationAsAsked, Commanding, Waiting
<1>5. ContextInv' /\ IotlbInv' /\ InvalidationDone'
  BY <1>2 DEF ContextInv, IotlbInv, InvalidationDone, At
<1> QED
  BY <1>3, <1>4, <1>5 DEF VtdInv

-----------------------------------------------------------------------------
(* A step of a unit that works on its own changes one word. *)
UnitChange(u, w, v) ==
  /\ drhd' \in [Units -> [Words -> WordSets]]
  /\ \A x \in Units, y \in Words : x # u \/ y # w => drhd'[x][y] = drhd[x][y]
  /\ drhd'[u][w] = v

(* Such a change keeps the words typed. *)
LEMMA UnitChanged ==
  ASSUME VtdInv, NEW u \in Units, NEW w \in Words, NEW v \in WordSets,
         drhd' = [drhd EXCEPT ![u] = [drhd[u] EXCEPT ![w] = v]]
  PROVE  UnitChange(u, w, v)
  BY DEF VtdInv, TypeInv, UnitsTyped, UnitChange

(* The completion of a context-cache invalidation preserves the invariant. *)
LEMMA UnitContextStep ==
  ASSUME VtdInv, kind = "unit", UNCHANGED <<kind, vcpu, vcalls, asked>>, NEW u \in Units, UnitContext(u)
  PROVE  VtdInv'
<1>1. PICK done \in {27, 28} :
        /\ drhd' = [drhd EXCEPT ![u].ccmd_hi = (@ \ {31, 28, 27}) \cup {done}]
        /\ inval' = IF done = 27 THEN Invalidated(u, "context") ELSE inval
  BY DEF UnitContext
<1>2. UNCHANGED table /\ 31 \in drhd[u].ccmd_hi
  BY DEF UnitContext
<1> DEFINE v == (drhd[u].ccmd_hi \ {31, 28, 27}) \cup {done}
<1>3. v \in WordSets /\ drhd' = [drhd EXCEPT ![u] = [drhd[u] EXCEPT !["ccmd_hi"] = v]]
  <2>1. drhd[u].ccmd_hi \in WordSets
    BY SomeWords DEF VtdInv, TypeInv, UnitsTyped
  <2>2. v \in WordSets
    BY <2>1 DEF WordSets
  <2> QED
    BY <1>1, <2>2
<1>4. 31 \notin v /\ (done = 27 => 27 \in v /\ 28 \notin v) /\ (done = 28 => 28 \in v)
  BY <1>1
<1> HIDE DEF v
<1>5. UnitChange(u, "ccmd_hi", v)
  BY <1>3, SomeWords, UnitChanged
<1>6. /\ inval' \in [Units -> SUBSET {"context", "iotlb"}]
      /\ \A x \in Units : inval[x] \subseteq inval'[x] /\ (x # u => inval'[x] = inval[x])
      /\ done = 27 => "context" \in inval'[u]
  BY <1>1, InvalidatedTyped DEF VtdInv, TypeInv
<1>7. TypeInv'
  BY <1>2, <1>5, <1>6 DEF VtdInv, TypeInv, UnitsTyped, UnitChange, Control, Running
<1>8. TransInv'
  <2>1. \A x \in Units : drhd'[x].gcmd = drhd[x].gcmd /\ drhd'[x].gsts = drhd[x].gsts
    BY <1>5, SomeWords DEF UnitChange
  <2>2. vcpu.pc \in Commanding => vcpu.u \in Units
    BY DEF Commanding, VtdInv, TypeInv, Control, Running
  <2> QED
    BY <2>1, <2>2 DEF VtdInv, TransInv, TranslationAsAsked, Commanding, Waiting, Wanted
<1>9. vcpu.pc \in {"ccmd_done", "iotlb_lo", "iotlb_hi", "iotlb_done"} => vcpu.u \in Units
  BY DEF VtdInv, TypeInv, Control, Running
<1>10. IotlbInv'
  <2>1. \A x \in Units : drhd'[x].iotlb_hi = drhd[x].iotlb_hi
    BY <1>5, SomeWords DEF UnitChange
  <2> QED
    BY <1>6, <1>9, <2>1 DEF VtdInv, IotlbInv, IotlbWhole
<1>11. ContextInv'
  <2>1. \A x \in Units : x # u => drhd'[x].ccmd_hi = drhd[x].ccmd_hi
    BY <1>5, SomeWords DEF UnitChange
  <2>2. drhd'[u].ccmd_hi = v
    BY <1>5 DEF UnitChange
  <2> QED
    BY <1>4, <1>6, <1>9, <2>1, <2>2 DEF VtdInv, ContextInv, ContextWhole
<1>12. InvalidationDone'
  <2>1. \A x \in Units : inval[x] = {"context", "iotlb"} => inval'[x] = {"context", "iotlb"}
    BY <1>6
  <2>2. CASE vcpu.u \in Units
    BY <2>1, <2>2 DEF VtdInv, InvalidationDone, At
  <2>3. CASE vcpu.u \notin Units
    BY <2>3 DEF VtdInv, TypeInv, Control, InvalidationDone, At
  <2> QED
    BY <2>2, <2>3
<1> QED
  BY <1>7, <1>8, <1>10, <1>11, <1>12 DEF VtdInv

(* The completion of an IOTLB invalidation preserves the invariant. *)
LEMMA UnitIotlbStep ==
  ASSUME VtdInv, kind = "unit", UNCHANGED <<kind, vcpu, vcalls, asked>>, NEW u \in Units, UnitIotlb(u)
  PROVE  VtdInv'
<1>1. PICK done \in {25, 26} :
        /\ drhd' = [drhd EXCEPT ![u].iotlb_hi = (@ \ {31, 27, 26, 25}) \cup {done}]
        /\ inval' = IF done = 25 THEN Invalidated(u, "iotlb") ELSE inval
  BY DEF UnitIotlb
<1>2. UNCHANGED table /\ 31 \in drhd[u].iotlb_hi
  BY DEF UnitIotlb
<1> DEFINE v == (drhd[u].iotlb_hi \ {31, 27, 26, 25}) \cup {done}
<1>3. v \in WordSets /\ drhd' = [drhd EXCEPT ![u] = [drhd[u] EXCEPT !["iotlb_hi"] = v]]
  <2>1. drhd[u].iotlb_hi \in WordSets
    BY SomeWords DEF VtdInv, TypeInv, UnitsTyped
  <2>2. v \in WordSets
    BY <2>1 DEF WordSets
  <2> QED
    BY <1>1, <2>2
<1>4. 31 \notin v /\ (done = 25 => 25 \in v /\ 26 \notin v) /\ (done = 26 => 26 \in v)
  BY <1>1
<1> HIDE DEF v
<1>5. UnitChange(u, "iotlb_hi", v)
  BY <1>3, SomeWords, UnitChanged
<1>6. /\ inval' \in [Units -> SUBSET {"context", "iotlb"}]
      /\ \A x \in Units : inval[x] \subseteq inval'[x] /\ (x # u => inval'[x] = inval[x])
      /\ done = 25 /\ "context" \in inval[u] => "iotlb" \in inval'[u]
  BY <1>1, InvalidatedTyped DEF VtdInv, TypeInv
<1>7. TypeInv'
  BY <1>2, <1>5, <1>6 DEF VtdInv, TypeInv, UnitsTyped, UnitChange, Control, Running
<1>8. TransInv'
  <2>1. \A x \in Units : drhd'[x].gcmd = drhd[x].gcmd /\ drhd'[x].gsts = drhd[x].gsts
    BY <1>5, SomeWords DEF UnitChange
  <2>2. vcpu.pc \in Commanding => vcpu.u \in Units
    BY DEF Commanding, VtdInv, TypeInv, Control, Running
  <2> QED
    BY <2>1, <2>2 DEF VtdInv, TransInv, TranslationAsAsked, Commanding, Waiting, Wanted
<1>9. vcpu.pc \in {"ccmd_done", "iotlb_lo", "iotlb_hi", "iotlb_done"} => vcpu.u \in Units
  BY DEF VtdInv, TypeInv, Control, Running
<1>10. ContextInv'
  <2>1. \A x \in Units : drhd'[x].ccmd_hi = drhd[x].ccmd_hi
    BY <1>5, SomeWords DEF UnitChange
  <2> QED
    BY <1>6, <1>9, <2>1 DEF VtdInv, ContextInv, ContextWhole
<1>11. IotlbInv'
  <2>1. \A x \in Units : x # u => drhd'[x].iotlb_hi = drhd[x].iotlb_hi
    BY <1>5, SomeWords DEF UnitChange
  <2>2. drhd'[u].iotlb_hi = v
    BY <1>5 DEF UnitChange
  <2> QED
    BY <1>4, <1>6, <1>9, <2>1, <2>2 DEF VtdInv, IotlbInv, IotlbWhole
<1>12. InvalidationDone'
  <2>1. \A x \in Units : inval[x] = {"context", "iotlb"} => inval'[x] = {"context", "iotlb"}
    BY <1>6
  <2>2. CASE vcpu.u \in Units
    BY <2>1, <2>2 DEF VtdInv, InvalidationDone, At
  <2>3. CASE vcpu.u \notin Units
    BY <2>3 DEF VtdInv, TypeInv, Control, InvalidationDone, At
  <2> QED
    BY <2>2, <2>3
<1> QED
  BY <1>7, <1>8, <1>10, <1>11, <1>12 DEF VtdInv

(* A step of a unit on another word leaves what is known of invalidation. *)
LEMMA OtherWord ==
  ASSUME VtdInv, UNCHANGED <<vcpu, inval>>, NEW u \in Units, NEW w \in Words \ {"ccmd_hi", "iotlb_hi"}, NEW v,
         UnitChange(u, w, v)
  PROVE  ContextInv' /\ IotlbInv' /\ InvalidationDone'
<1>1. \A x \in Units : drhd'[x].ccmd_hi = drhd[x].ccmd_hi /\ drhd'[x].iotlb_hi = drhd[x].iotlb_hi
  BY SomeWords DEF UnitChange
<1>2. vcpu.pc \in {"ccmd_done", "iotlb_done"} => vcpu.u \in Units
  BY DEF VtdInv, TypeInv, Control, Running
<1> QED
  BY <1>1, <1>2 DEF VtdInv, ContextInv, IotlbInv, InvalidationDone, ContextWhole, IotlbWhole, At

(* A driver that gives a command has a unit. *)
LEMMA CommandingUnit ==
  ASSUME VtdInv
  PROVE  vcpu.pc \in Commanding \cup Waiting => vcpu.u \in Units
  BY DEF VtdInv, TypeInv, Control, Running, Commanding, Waiting

(* The unit taking its root table preserves the invariant. *)
LEMMA UnitRootTableStep ==
  ASSUME VtdInv, kind = "unit", UNCHANGED <<kind, vcpu, vcalls, asked>>, NEW u \in Units, UnitRootTable(u)
  PROVE  VtdInv'
<1> DEFINE v == drhd[u].gsts \cup {30}
<1>1. v \in WordSets /\ drhd' = [drhd EXCEPT ![u] = [drhd[u] EXCEPT !["gsts"] = v]]
  <2>1. drhd[u].gsts \in WordSets
    BY SomeWords DEF VtdInv, TypeInv, UnitsTyped
  <2>2. v \in WordSets
    BY <2>1 DEF WordSets
  <2> QED
    BY <2>2 DEF UnitRootTable
<1>2. UnitChange(u, "gsts", v) /\ UNCHANGED inval
  BY <1>1, SomeWords, UnitChanged DEF UnitRootTable
<1>3. (31 \in v) = (31 \in drhd[u].gsts)
  OBVIOUS
<1> HIDE DEF v
<1>4. table' \in [Units -> [addr : SUBSET (0..63), pending : BOOLEAN]]
  <2>1. drhd[u].rtaddr_lo \in WordSets /\ drhd[u].rtaddr_hi \in WordSets
    BY SomeWords DEF VtdInv, TypeInv, UnitsTyped
  <2>2. Join(drhd[u].rtaddr_lo, drhd[u].rtaddr_hi) \in SUBSET (0..63)
    BY <2>1 DEF Join, WordSets
  <2> QED
    BY <2>2 DEF UnitRootTable, VtdInv, TypeInv
<1>5. TypeInv'
  BY <1>2, <1>4 DEF VtdInv, TypeInv, UnitsTyped, UnitChange, Control, Running
<1>6. TransInv'
  <2>1. \A x \in Units : drhd'[x].gcmd = drhd[x].gcmd /\ (31 \in drhd'[x].gsts) = (31 \in drhd[x].gsts)
    BY <1>2, <1>3, SomeWords DEF UnitChange
  <2> QED
    BY <2>1, CommandingUnit DEF VtdInv, TransInv, TranslationAsAsked, Commanding, Waiting, Wanted
<1> QED
  BY <1>2, <1>5, <1>6, OtherWord, SomeWords DEF VtdInv

(* The unit carrying out a translation command preserves the invariant. *)
LEMMA UnitTranslationStep ==
  ASSUME VtdInv, kind = "unit", UNCHANGED <<kind, vcpu, vcalls, asked>>, NEW u \in Units, UnitTranslation(u)
  PROVE  VtdInv'
<1> DEFINE v == IF 31 \in drhd[u].gsts THEN drhd[u].gsts \ {31} ELSE drhd[u].gsts \cup {31}
<1>1. v \in WordSets /\ drhd' = [drhd EXCEPT ![u] = [drhd[u] EXCEPT !["gsts"] = v]]
  <2>1. drhd[u].gsts \in WordSets
    BY SomeWords DEF VtdInv, TypeInv, UnitsTyped
  <2>2. v \in WordSets
    BY <2>1 DEF WordSets
  <2> QED
    BY <2>2 DEF UnitTranslation
<1>2. UnitChange(u, "gsts", v) /\ UNCHANGED inval
  BY <1>1, SomeWords, UnitChanged DEF UnitTranslation
<1>3. (31 \in drhd[u].gcmd) # (31 \in drhd[u].gsts) /\ (31 \in v) = (31 \in drhd[u].gcmd) /\ UNCHANGED table
  BY DEF UnitTranslation
<1> HIDE DEF v
<1>4. TypeInv'
  BY <1>2, <1>3 DEF VtdInv, TypeInv, UnitsTyped, UnitChange, Control, Running
<1>5. TransInv'
  <2>1. \A x \in Units : drhd'[x].gcmd = drhd[x].gcmd /\ (x # u => drhd'[x].gsts = drhd[x].gsts)
    BY <1>2, SomeWords DEF UnitChange
  <2>2. (31 \in drhd'[u].gsts) = (31 \in drhd[u].gcmd)
    BY <1>2, <1>3 DEF UnitChange
  <2>3. asked[u] = "nothing"
    BY <1>3 DEF VtdInv, TransInv
  <2> QED
    BY <1>3, <2>1, <2>2, <2>3, CommandingUnit DEF VtdInv, TransInv, TranslationAsAsked, Commanding,
       Waiting, Wanted
<1> QED
  BY <1>2, <1>4, <1>5, OtherWord, SomeWords DEF VtdInv

(* The unit changing its protected memory status preserves the invariant. *)
LEMMA UnitProtectionStep ==
  ASSUME VtdInv, kind = "unit", UNCHANGED <<kind, vcpu, vcalls, asked>>, NEW u \in Units, UnitProtection(u)
  PROVE  VtdInv'
<1> DEFINE v == IF 0 \in drhd[u].pmen THEN drhd[u].pmen \ {0} ELSE drhd[u].pmen \cup {0}
<1>1. v \in WordSets /\ drhd' = [drhd EXCEPT ![u] = [drhd[u] EXCEPT !["pmen"] = v]]
  <2>1. drhd[u].pmen \in WordSets
    BY SomeWords DEF VtdInv, TypeInv, UnitsTyped
  <2>2. v \in WordSets
    BY <2>1 DEF WordSets
  <2> QED
    BY <2>2 DEF UnitProtection
<1>2. UnitChange(u, "pmen", v) /\ UNCHANGED inval
  BY <1>1, SomeWords, UnitChanged DEF UnitProtection
<1>3. UNCHANGED table
  BY DEF UnitProtection
<1> HIDE DEF v
<1>4. TypeInv'
  BY <1>2, <1>3 DEF VtdInv, TypeInv, UnitsTyped, UnitChange, Control, Running
<1>5. TransInv'
  <2>1. \A x \in Units : drhd'[x].gcmd = drhd[x].gcmd /\ drhd'[x].gsts = drhd[x].gsts
    BY <1>2, SomeWords DEF UnitChange
  <2> QED
    BY <2>1, CommandingUnit DEF VtdInv, TransInv, TranslationAsAsked, Commanding, Waiting, Wanted
<1> QED
  BY <1>2, <1>4, <1>5, OtherWord, SomeWords DEF VtdInv
-----------------------------------------------------------------------------

(* The invariant holds initially. *)
LEMMA Initially == VtdInit => VtdInv
<1> SUFFICES ASSUME VtdInit PROVE VtdInv
  OBVIOUS
<1>1. PICK pmen \in IF kind = "unit" THEN {{}, {0, 31}} ELSE {{}} :
        drhd = [u \in Units |-> [xmhfhwm_vtd_drhd_state[u] EXCEPT !.pmen = pmen]]
  BY DEF VtdInit
<1>2. xmhfhwm_vtd_drhd_state \in [Units -> [Words -> WordSets]]
  BY DrhdTypes DEF xmhfhwm_vtd_drhd_state, WordSets
<1>3. pmen \in WordSets
  BY DEF WordSets
<1>4. UnitsTyped
  BY <1>1, <1>2, <1>3 DEF VtdInit, UnitsTyped
<1>5. Control
  BY NoDriverTyped DEF VtdInit, Control, Running, NoDriver
<1>6. TypeInv
  BY <1>4, <1>5, VtdConstants DEF VtdInit, TypeInv
<1>7. vcpu.pc = "idle" /\ \A u \in Units : asked[u] = "nothing"
  BY DEF VtdInit, NoDriver
<1> QED
  BY <1>6, <1>7 DEF VtdInv, TransInv, TranslationAsAsked, ContextInv, IotlbInv, InvalidationDone,
                    Commanding, Waiting, At

(* Every step of the drivers and of the units preserves the invariant. *)
LEMMA Preserved == VtdInv /\ [VtdNext]_vtdVars => VtdInv'
<1> SUFFICES ASSUME VtdInv, [VtdNext]_vtdVars PROVE VtdInv'
  OBVIOUS
<1>1. CASE VtdCall
  BY <1>1, Call
<1>2. CASE VtdStep
  <2>1. UNCHANGED <<kind, vcalls>>
    BY <1>2 DEF VtdStep
  <2> QED
    BY <1>2, <2>1, Unpacking, Initialize, InvalidateCaches, SetRootEntryTable, Translation, DisablePmr,
       SetPlm, SetPhm, Returning DEF VtdStep
<1>3. CASE UnitStep
  <2>1. kind = "unit" /\ UNCHANGED <<kind, vcpu, vcalls, asked>>
    BY <1>3 DEF UnitStep
  <2>2. PICK u \in Units : UnitContext(u) \/ UnitIotlb(u) \/ UnitRootTable(u) \/ UnitTranslation(u) \/ UnitProtection(u)
    BY <1>3 DEF UnitStep
  <2> QED
    BY <2>1, <2>2, UnitContextStep, UnitIotlbStep, UnitRootTableStep, UnitTranslationStep, UnitProtectionStep
<1>4. CASE UNCHANGED vtdVars
  <2>1. UNCHANGED <<drhd, kind, table, vcpu, vcalls, inval, asked>>
    BY <1>4 DEF vtdVars
  <2>2. TypeInv'
    BY <2>1 DEF VtdInv, TypeInv, UnitsTyped, Control, Running
  <2>3. TransInv'
    BY <2>1 DEF VtdInv, TransInv, TranslationAsAsked, Wanted
  <2>4. ContextInv' /\ IotlbInv' /\ InvalidationDone'
    BY <2>1 DEF VtdInv, ContextInv, IotlbInv, InvalidationDone, ContextWhole, IotlbWhole, At
  <2> QED
    BY <2>2, <2>3, <2>4 DEF VtdInv
<1> QED
  BY <1>1, <1>2, <1>3, <1>4 DEF VtdNext

(* The inductive invariant holds in every reachable state of the VT-d drivers
   (xmhfhw_vtd_*.c) over any set of units, whether the hardware model or a real unit
   answers. *)
THEOREM Invariance == VtdSpec => []VtdInv
  BY Initially, Preserved, PTL DEF VtdSpec

(* Whatever units there are, whatever a driver is asked and however the
   units are interleaved with it, every register keeps 32 bits and every
   driver its own labels. *)
THEOREM TypesHold == VtdSpec => []VtdTypeOK
<1>1. VtdInv => VtdTypeOK
  BY DEF VtdInv, TypeInv, UnitsTyped, Control, Driver, VtdTypeOK, WordSets
<1> QED
  BY <1>1, Invariance, PTL

(* Translation is as drhd_enable_translation or drhd_disable_translation
   found it, until the next command. *)
THEOREM TranslationHolds == VtdSpec => []TranslationAsAsked
<1>1. VtdInv => TranslationAsAsked
  BY DEF VtdInv, TransInv
<1> QED
  BY <1>1, Invariance, PTL

(* drhd_invalidatecaches says that the caches are invalidated only of a unit
   that invalidated them since the call, all of them and in this order. *)
THEOREM InvalidationHolds == VtdSpec => []InvalidationDone
<1>1. VtdInv => InvalidationDone
  BY DEF VtdInv
<1> QED
  BY <1>1, Invariance, PTL

-----------------------------------------------------------------------------
(***************************************************************************)
(* A VT-d driver which returns has delivered what it was asked for: the    *)
(* table that the unit walks, the bounds of the protected regions,         *)
(* protected memory switched off, and fault events masked.                 *)
(***************************************************************************)

(* The driver fn was called for a unit and has come to its return. *)
ReturnedCall(fn) == vcpu.pc = "returned" /\ vcpu.fn = fn /\ vcpu.u # "null"

(* What the initialization driver knows of the capability and fault event registers at
   each program point. *)
InitializePart ==
  LET regs == drhd[vcpu.u]
  IN  /\ \A x \in Units : drhd[x].fectl \in {{}, {31}}
      /\ vcpu.pc = "cap" => (vcpu.s.plmr # {} => 5 \in regs.cap_lo) /\ (vcpu.s.phmr # {} => 6 \in regs.cap_lo)
      /\ vcpu.pc \in {"cap", "fectl"} => vcpu.s.ip = {} /\ vcpu.s.rsvdp0 = {}
      /\ vcpu.pc \in {"fectl", "fectl_check"} => {5, 6} \subseteq regs.cap_lo
      /\ vcpu.pc = "fectl_check" => regs.fectl = {31}
      /\ ReturnedCall("initialize") /\ vcpu.ret => regs.fectl = {31} /\ {5, 6} \subseteq regs.cap_lo
(* How far the root table registers and the status of the unit are at each program
   point. *)
RootPart ==
  LET regs == drhd[vcpu.u]
  IN  /\ \A x \in Units : 30 \in drhd[x].gsts => kind = "unit" /\ ~table[x].pending
      /\ vcpu.pc \in {"rta_lo", "rta_hi", "srtp"} => vcpu.s.rtps = {}
      /\ vcpu.pc \in {"rta_hi", "srtp", "rtps"} => regs.rtaddr_lo = LowWord(vcpu.arg)
      /\ vcpu.pc \in {"srtp", "rtps"} => regs.rtaddr_hi = {}
      /\ vcpu.pc = "rtps" /\ kind = "unit" /\ ~table[vcpu.u].pending => table[vcpu.u].addr = LowWord(vcpu.arg)
      /\ vcpu.pc = "rtps" /\ vcpu.s.rtps # {} => 30 \in regs.gsts
      /\ ReturnedCall("set_root_entry_table") /\ vcpu.ret =>
           table[vcpu.u] = [addr |-> LowWord(vcpu.arg), pending |-> FALSE]
(* What is left of the protected memory enable register while its driver polls, and
   when it returns. *)
PmrPart ==
  LET regs == drhd[vcpu.u]
  IN  /\ vcpu.pc = "prs_wait" => 31 \notin regs.pmen /\ (vcpu.n = 3 /\ vcpu.s.prs = {} => 0 \notin regs.pmen)
      /\ ReturnedCall("disable_pmr") => 31 \notin regs.pmen /\ 0 \notin regs.pmen
(* The words of the protected regions that their drivers have written so far. *)
RegionPart ==
  LET regs == drhd[vcpu.u]
  IN  /\ vcpu.pc = "plmlimit" => regs.plmbase = vcpu.arg
      /\ ReturnedCall("set_plm") => regs.plmbase = vcpu.arg /\ regs.plmlimit = vcpu.limit
      /\ vcpu.pc \in {"phmbase_hi", "phmlimit_lo", "phmlimit_hi"} => regs.phmbase_lo = vcpu.arg
      /\ vcpu.pc \in {"phmlimit_lo", "phmlimit_hi"} => regs.phmbase_hi = {}
      /\ vcpu.pc = "phmlimit_hi" => regs.phmlimit_lo = vcpu.limit
      /\ ReturnedCall("set_phm") => /\ regs.phmbase_lo = vcpu.arg /\ regs.phmbase_hi = {}
                                /\ regs.phmlimit_lo = vcpu.limit /\ regs.phmlimit_hi = {}
(* What each driver has delivered so far: with VtdInv, inductive. *)
DeliverInv == InitializePart /\ RootPart /\ PmrPart /\ RegionPart

(* A field taken out of a register and put back. *)
LEMMA TakenAndPut ==
  ASSUME NEW v \in WordSets, NEW lo \in Nat, NEW hi \in Nat
  PROVE  {b + lo : b \in {b - lo : b \in v \cap (lo..hi)} \cap (0..(hi - lo))} = v \cap (lo..hi)
<1> DEFINE low == {b - lo : b \in v \cap (lo..hi)}
           back == {b + lo : b \in low \cap (0..(hi - lo))}
<1>1. v \subseteq Int
  BY DEF WordSets
<1>2. ASSUME NEW x \in v \cap (lo..hi) PROVE x \in back
  <2>1. x \in Int /\ x - lo \in 0..(hi - lo) /\ (x - lo) + lo = x
    BY <1>1, <1>2
  <2>2. x - lo \in low
    BY <1>2
  <2> QED
    BY <2>1, <2>2
<1>3. ASSUME NEW x \in back PROVE x \in v \cap (lo..hi)
  <2>1. PICK c \in low : x = c + lo
    OBVIOUS
  <2>2. PICK b \in v \cap (lo..hi) : c = b - lo
    BY <2>1
  <2>3. x = b
    BY <1>1, <2>1, <2>2
  <2> QED
    BY <2>2, <2>3
<1> QED
  BY <1>2, <1>3
(* The address of a root table passes the fields of its register unchanged. *)
LEMMA RootAddress ==
  ASSUME NEW v \in WordSets
  PROVE  Pack(VTD_RTADDR_REG, Unpack(VTD_RTADDR_REG, v)) = v
<1> DEFINE L == VTD_RTADDR_REG
           s == Unpack(L, v)
<1>1. /\ DOMAIN L = {"rsvdz0", "rta", "rta_high"}
      /\ L["rsvdz0"].lo = 0 /\ L["rsvdz0"].width = 12
      /\ L["rta"].lo = 12 /\ L["rta"].width = 32
      /\ L["rta_high"].lo = 44 /\ L["rta_high"].width = 22
  BY DEF VTD_RTADDR_REG, Place
<1> HIDE DEF L
<1>2. \A f \in DOMAIN L : s[f] = {b - L[f].lo : b \in v \cap (L[f].lo..(L[f].lo + L[f].width - 1))}
  BY DEF Unpack, Field
<1>3. /\ s["rsvdz0"] = {b - 0 : b \in v \cap (0..11)}
      /\ s["rta"] = {b - 12 : b \in v \cap (12..43)}
      /\ s["rta_high"] = {b - 44 : b \in v \cap (44..65)}
  BY <1>1, <1>2
<1> HIDE DEF s
<1>4. {b + 0 : b \in s["rsvdz0"] \cap (0..11)} = v \cap (0..11)
  <2>1. {b + 0 : b \in {b - 0 : b \in v \cap (0..11)} \cap (0..(11 - 0))} = v \cap (0..11)
    BY TakenAndPut
  <2>2. 11 - 0 = 11
    OBVIOUS
  <2> QED
    BY <1>3, <2>1, <2>2
<1>5. {b + 12 : b \in s["rta"] \cap (0..31)} = v \cap (12..43)
  <2>1. {b + 12 : b \in {b - 12 : b \in v \cap (12..43)} \cap (0..(43 - 12))} = v \cap (12..43)
    BY TakenAndPut
  <2>2. 43 - 12 = 31
    OBVIOUS
  <2> QED
    BY <1>3, <2>1, <2>2
<1>6. {b + 44 : b \in s["rta_high"] \cap (0..21)} = v \cap (44..65)
  BY <1>3 DEF WordSets
<1>7. Pack(L, s) = (0..63) \cap UNION {{b + L[f].lo : b \in s[f] \cap (0..(L[f].width - 1))} : f \in DOMAIN L}
  BY DEF Pack
<1>8. {{b + L[f].lo : b \in s[f] \cap (0..(L[f].width - 1))} : f \in DOMAIN L}
        = {v \cap (0..11), v \cap (12..43), v \cap (44..65)}
  <2>1. /\ {b + L["rsvdz0"].lo : b \in s["rsvdz0"] \cap (0..(L["rsvdz0"].width - 1))} = v \cap (0..11)
        /\ {b + L["rta"].lo : b \in s["rta"] \cap (0..(L["rta"].width - 1))} = v \cap (12..43)
        /\ {b + L["rta_high"].lo : b \in s["rta_high"] \cap (0..(L["rta_high"].width - 1))} = v \cap (44..65)
    BY <1>1, <1>4, <1>5, <1>6
  <2> QED
    BY <1>1, <2>1
<1>9. (0..63) \cap UNION {v \cap (0..11), v \cap (12..43), v \cap (44..65)} = v
  <2>1. \A b \in v : b \in 0..31
    BY DEF WordSets
  <2>2. \A b \in v : b \in 0..11 \/ b \in 12..43
    BY <2>1
  <2> QED
    BY <2>1, <2>2
<1> QED
  BY <1>7, <1>8, <1>9 DEF L, s

(* The halves of a 64-bit value that fits a word. *)
LEMMA WordHalves ==
  ASSUME NEW v \in WordSets
  PROVE  LowWord(v) = v /\ HighWord(v) = {} /\ Join(v, {}) = v
<1>1. \A b \in v : b \in 0..31 /\ b \notin 32..63
  BY DEF WordSets
<1> QED
  BY <1>1 DEF LowWord, HighWord, Join
-----------------------------------------------------------------------------
(* What a driver is after a step: at another label, or returned. *)
Moved(next) ==
  /\ vcpu'.pc = next /\ vcpu'.n = 0 /\ vcpu'.fn = vcpu.fn /\ vcpu'.u = vcpu.u
  /\ vcpu'.arg = vcpu.arg /\ vcpu'.limit = vcpu.limit /\ vcpu'.s = vcpu.s
(* The processor has come to a return with this value. *)
Stays(v) ==
  /\ vcpu'.pc = "returned" /\ vcpu'.fn = vcpu.fn /\ vcpu'.u = vcpu.u
  /\ vcpu'.arg = vcpu.arg /\ vcpu'.limit = vcpu.limit /\ vcpu'.ret = v

(* What is kept by a step to another program point. *)
LEMMA AfterGoto ==
  ASSUME VtdInv, NEW next, Goto(next)
  PROVE  Moved(next)
<1>1. vcpu \in Driver
  BY DEF VtdInv, TypeInv, Control
<1> QED
  BY <1>1 DEF Goto, Moved, Driver

(* What is kept by a return. *)
LEMMA AfterReturn ==
  ASSUME VtdInv, NEW v, Return(v)
  PROVE  Stays(v)
<1>1. vcpu \in Driver
  BY DEF VtdInv, TypeInv, Control
<1> QED
  BY <1>1 DEF Return, Stays, Driver

(* A step that writes one word of the unit of the driver.  What the command
   word does to the status is left open. *)
Wrote(w) ==
  /\ drhd' \in [Units -> [Words -> WordSets]]
  /\ \A x \in Units, y \in Words : x # vcpu.u \/ (y # w /\ (w = "gcmd" => y # "gsts")) => drhd'[x][y] = drhd[x][y]

(* A store of a driver does so. *)
LEMMA WroteFrame ==
  ASSUME VtdInv, vcpu.u \in Units, NEW w \in Words, NEW v \in WordSets, Store(WordAddr(vcpu.u, w), v)
  PROVE  Wrote(w)
<1>1. UnitsTyped
  BY DEF VtdInv, TypeInv
<1> QED
  BY <1>1, StoreFrame DEF Wrote

(* The word of the unit holds what was stored. *)
LEMMA WroteValue ==
  ASSUME VtdInv, vcpu.u \in Units, NEW w \in Words \ {"gcmd", "pmen", "ccmd_hi", "iotlb_hi"},
         NEW v \in WordSets,
         Store(WordAddr(vcpu.u, w), v)
  PROVE  drhd'[vcpu.u][w] = v
<1>1. UnitsTyped
  BY DEF VtdInv, TypeInv
<1>2. drhd' = [drhd EXCEPT ![vcpu.u] = IF kind = "hwm" THEN WriteWord(drhd[vcpu.u], w, v)
                                                        ELSE UnitStore(drhd[vcpu.u], w, v)]
  BY <1>1, StoredAt
<1>3. WriteWord(drhd[vcpu.u], w, v) = [drhd[vcpu.u] EXCEPT ![w] = v]
  BY DEF WriteWord
<1>4. UnitStore(drhd[vcpu.u], w, v) = [drhd[vcpu.u] EXCEPT ![w] = v]
  BY DEF UnitStore
<1> QED
  BY <1>1, <1>2, <1>3, <1>4 DEF UnitsTyped

(* A step of another driver, which writes none of the words, leaves what is
   said of these drivers. *)
Same(W) == \A x \in Units, w \in W : drhd'[x][w] = drhd[x][w]

(* A step of another driver that leaves the fault event words alone. *)
LEMMA InitializeFrame ==
  ASSUME VtdInv', InitializePart, Same({"fectl"}), vcpu'.fn # "initialize"
  PROVE  InitializePart'
<1>1. vcpu'.pc \notin {"cap", "fectl", "fectl_check"}
  BY DEF VtdInv, TypeInv, Control, Running, FnOf
<1> QED
  BY <1>1 DEF InitializePart, Same, ReturnedCall

(* A step of another driver that leaves the tables alone and reports none as set. *)
LEMMA RootFrame ==
  ASSUME VtdInv', RootPart, \A x \in Units : 30 \in drhd'[x].gsts => 30 \in drhd[x].gsts,
         UNCHANGED <<kind, table>>, vcpu'.fn # "set_root_entry_table"
  PROVE  RootPart'
<1>1. vcpu'.pc \notin {"rta_lo", "rta_hi", "srtp", "rtps"}
  BY DEF VtdInv, TypeInv, Control, Running, FnOf
<1> QED
  BY <1>1 DEF RootPart, ReturnedCall

(* Any step of another driver. *)
LEMMA PmrFrame ==
  ASSUME VtdInv', vcpu'.fn # "disable_pmr"
  PROVE  PmrPart'
<1>1. vcpu'.pc # "prs_wait"
  BY DEF VtdInv, TypeInv, Control, Running, FnOf
<1> QED
  BY <1>1 DEF PmrPart, ReturnedCall

(* Any step of the other drivers. *)
LEMMA RegionFrame ==
  ASSUME VtdInv', vcpu'.fn \notin {"set_plm", "set_phm"}
  PROVE  RegionPart'
<1>1. vcpu'.pc \notin {"plmlimit", "phmbase_hi", "phmlimit_lo", "phmlimit_hi"}
  BY DEF VtdInv, TypeInv, Control, Running, FnOf
<1> QED
  BY <1>1 DEF RegionPart, ReturnedCall

-----------------------------------------------------------------------------
(* Invalidation and translation touch none of these words. *)
Quietly == /\ Same({"fectl"}) /\ \A x \in Units : 30 \in drhd'[x].gsts => 30 \in drhd[x].gsts
           /\ UNCHANGED <<kind, table>> /\ vcpu'.fn = vcpu.fn

(* The invalidation driver takes such steps. *)
LEMMA InvalidateQuietly ==
  ASSUME VtdInv, drhd_invalidatecaches, UNCHANGED <<kind, vcalls>>
  PROVE  Quietly /\ vcpu.fn = "invalidatecaches"
<1> USE DEF At
<1> DEFINE s == vcpu.s
<1>1. CASE /\ Decide("ccmd_idle") /\ UNCHANGED asked
           /\ IF s.icc = {} THEN Goto("ccmd_lo") ELSE Goto("ccmd_idle")
  <2>1. vcpu.pc = "ccmd_idle" /\ UNCHANGED <<drhd, table>>
    BY <1>1 DEF Decide, Unpacked
  <2>2. Running /\ vcpu.fn \in {"invalidatecaches"} /\ vcpu.u \in Units
    BY <2>1, AtLabel DEF FnOf
  <2>3. vcpu'.fn = vcpu.fn
    BY <1>1, AfterGoto, AfterReturn DEF Moved, Stays
  <2> QED
    BY <2>1, <2>2, <2>3 DEF Quietly, Same
<1>2. CASE /\ Write("ccmd_lo", Reg("ccmd"), LowWord(ContextCommand))
           /\ Goto("ccmd_hi") /\ UNCHANGED table
  <2>1. vcpu.pc = "ccmd_lo"
    BY <1>2 DEF Write, WriteCommand
  <2>2. Running /\ vcpu.fn \in {"invalidatecaches"} /\ vcpu.u \in Units
    BY <2>1, AtLabel DEF FnOf
  <2>3. "ccmd_lo" \in Words \ {"gcmd", "gsts"} /\ Reg("ccmd") = WordAddr(vcpu.u, "ccmd_lo")
    BY <2>2, SomeWords, RegisterAddresses DEF Reg, Regs32
  <2>4. Store(WordAddr(vcpu.u, "ccmd_lo"), LowWord(ContextCommand)) /\ LowWord(ContextCommand) \in WordSets
    BY <1>2, <2>2, <2>3, Halves DEF Write, WriteCommand
  <2>5. Wrote("ccmd_lo") /\ Moved("ccmd_hi")
    BY <1>2, <2>2, <2>3, <2>4, WroteFrame, AfterGoto
  <2> QED
    BY <1>2, <2>2, <2>5, SomeWords DEF Wrote, Moved, Quietly, Same, Write, WriteCommand
<1>3. CASE /\ WriteCommand("ccmd_hi", Reg("ccmd") + 4, ContextCommand, "context")
           /\ Goto("ccmd_done")
  <2>1. vcpu.pc = "ccmd_hi"
    BY <1>3 DEF Write, WriteCommand
  <2>2. Running /\ vcpu.fn \in {"invalidatecaches"} /\ vcpu.u \in Units
    BY <2>1, AtLabel DEF FnOf
  <2>3. "ccmd_hi" \in Words \ {"gcmd", "gsts"} /\ Reg("ccmd") + 4 = WordAddr(vcpu.u, "ccmd_hi")
    BY <2>2, SomeWords, RegisterAddresses DEF Reg, Regs32
  <2>4. Store(WordAddr(vcpu.u, "ccmd_hi"), HighWord(ContextCommand)) /\ HighWord(ContextCommand) \in WordSets
    BY <1>3, <2>2, <2>3, Halves DEF Write, WriteCommand
  <2>5. Wrote("ccmd_hi") /\ Moved("ccmd_done")
    BY <1>3, <2>2, <2>3, <2>4, WroteFrame, AfterGoto
  <2> QED
    BY <1>3, <2>2, <2>5, SomeWords DEF Wrote, Moved, Quietly, Same, Write, WriteCommand
<1>4. CASE /\ Decide("ccmd_done") /\ UNCHANGED asked
           /\ CASE s.icc # {} -> Goto("ccmd_done")
                [] s.icc = {} /\ ~WholeContext(s) -> Return(FALSE)
                [] s.icc = {} /\ WholeContext(s) -> Goto("iotlb_lo")
  <2>1. vcpu.pc = "ccmd_done" /\ UNCHANGED <<drhd, table>>
    BY <1>4 DEF Decide, Unpacked
  <2>2. Running /\ vcpu.fn \in {"invalidatecaches"} /\ vcpu.u \in Units
    BY <2>1, AtLabel DEF FnOf
  <2>3. vcpu'.fn = vcpu.fn
    <3>1. Goto("ccmd_done") \/ Return(FALSE) \/ Goto("iotlb_lo")
      BY <1>4
    <3> QED
      BY <3>1, AfterGoto, AfterReturn DEF Moved, Stays
  <2> QED
    BY <2>1, <2>2, <2>3 DEF Quietly, Same
<1>5. CASE /\ Write("iotlb_lo", Reg("iotlb"), LowWord(IotlbCommand))
           /\ Goto("iotlb_hi") /\ UNCHANGED table
  <2>1. vcpu.pc = "iotlb_lo"
    BY <1>5 DEF Write, WriteCommand
  <2>2. Running /\ vcpu.fn \in {"invalidatecaches"} /\ vcpu.u \in Units
    BY <2>1, AtLabel DEF FnOf
  <2>3. "iotlb_lo" \in Words \ {"gcmd", "gsts"} /\ Reg("iotlb") = WordAddr(vcpu.u, "iotlb_lo")
    BY <2>2, SomeWords, RegisterAddresses DEF Reg, Regs32
  <2>4. Store(WordAddr(vcpu.u, "iotlb_lo"), LowWord(IotlbCommand)) /\ LowWord(IotlbCommand) \in WordSets
    BY <1>5, <2>2, <2>3, Halves DEF Write, WriteCommand
  <2>5. Wrote("iotlb_lo") /\ Moved("iotlb_hi")
    BY <1>5, <2>2, <2>3, <2>4, WroteFrame, AfterGoto
  <2> QED
    BY <1>5, <2>2, <2>5, SomeWords DEF Wrote, Moved, Quietly, Same, Write, WriteCommand
<1>6. CASE /\ WriteCommand("iotlb_hi", Reg("iotlb") + 4, IotlbCommand, "iotlb")
           /\ Goto("iotlb_done")
  <2>1. vcpu.pc = "iotlb_hi"
    BY <1>6 DEF Write, WriteCommand
  <2>2. Running /\ vcpu.fn \in {"invalidatecaches"} /\ vcpu.u \in Units
    BY <2>1, AtLabel DEF FnOf
  <2>3. "iotlb_hi" \in Words \ {"gcmd", "gsts"} /\ Reg("iotlb") + 4 = WordAddr(vcpu.u, "iotlb_hi")
    BY <2>2, SomeWords, RegisterAddresses DEF Reg, Regs32
  <2>4. Store(WordAddr(vcpu.u, "iotlb_hi"), HighWord(IotlbCommand)) /\ HighWord(IotlbCommand) \in WordSets
    BY <1>6, <2>2, <2>3, Halves DEF Write, WriteCommand
  <2>5. Wrote("iotlb_hi") /\ Moved("iotlb_done")
    BY <1>6, <2>2, <2>3, <2>4, WroteFrame, AfterGoto
  <2> QED
    BY <1>6, <2>2, <2>5, SomeWords DEF Wrote, Moved, Quietly, Same, Write, WriteCommand
<1>7. CASE /\ Decide("iotlb_done") /\ UNCHANGED asked
           /\ IF s.ivt # {} THEN Goto("iotlb_done") ELSE Return(WholeIotlb(s))
  <2>1. vcpu.pc = "iotlb_done" /\ UNCHANGED <<drhd, table>>
    BY <1>7 DEF Decide, Unpacked
  <2>2. Running /\ vcpu.fn \in {"invalidatecaches"} /\ vcpu.u \in Units
    BY <2>1, AtLabel DEF FnOf
  <2>3. vcpu'.fn = vcpu.fn
    BY <1>7, AfterGoto, AfterReturn DEF Moved, Stays
  <2> QED
    BY <2>1, <2>2, <2>3 DEF Quietly, Same
<1> QED
  BY <1>1, <1>2, <1>3, <1>4, <1>5, <1>6, <1>7 DEF drhd_invalidatecaches

(* A command to a unit: only a unit that works on its own, told to take a
   root table, changes the status of the root table, and clears it. *)
LEMMA RootStatus ==
  ASSUME VtdInv, vcpu.u \in Units, NEW v \in WordSets, Store(Reg("gcmd"), v)
  PROVE  /\ Wrote("gcmd")
         /\ 30 \in drhd'[vcpu.u].gsts => 30 \in drhd[vcpu.u].gsts
         /\ kind # "hwm" /\ 30 \in v => 30 \notin drhd'[vcpu.u].gsts
<1>1. UnitsTyped /\ "gcmd" \in Words /\ "gsts" \in Words
  BY SomeWords DEF VtdInv, TypeInv
<1>2. Store(WordAddr(vcpu.u, "gcmd"), v)
  BY RegisterAddresses DEF Reg, Regs32
<1>3. drhd' = [drhd EXCEPT ![vcpu.u] = IF kind = "hwm" THEN WriteWord(drhd[vcpu.u], "gcmd", v)
                                                        ELSE UnitStore(drhd[vcpu.u], "gcmd", v)]
  BY <1>1, <1>2, StoredAt
<1>4. drhd'[vcpu.u] = IF kind = "hwm" THEN WriteWord(drhd[vcpu.u], "gcmd", v)
                      ELSE UnitStore(drhd[vcpu.u], "gcmd", v)
  BY <1>1, <1>3 DEF UnitsTyped
<1> DEFINE regs == drhd[vcpu.u]
<1>5. regs \in [Words -> WordSets]
  BY <1>1 DEF UnitsTyped
<1>6. WriteWord(regs, "gcmd", v)["gsts"] = IF 31 \in v THEN regs["gsts"] \cup {31} ELSE regs["gsts"]
  <2>1. WriteWord(regs, "gcmd", v) = WriteGcmd(regs, v)
    BY DEF WriteWord
  <2> QED
    BY <1>1, <1>5, <2>1 DEF WriteGcmd
<1>7. CASE 30 \in v
  <2>1. UnitStore(regs, "gcmd", v) = [regs EXCEPT !.gcmd = v, !.gsts = regs.gsts \ {30}]
    BY <1>7, Zenon DEF UnitStore
  <2>2. UnitStore(regs, "gcmd", v)["gsts"] = regs["gsts"] \ {30}
    BY <1>1, <1>5, <2>1
  <2> QED
    BY <1>1, <1>2, <1>4, <1>6, <2>2, WroteFrame
<1>8. CASE 30 \notin v
  <2>1. UnitStore(regs, "gcmd", v)["gsts"] = regs["gsts"]
    BY <1>1, <1>5, <1>8 DEF UnitStore
  <2> QED
    BY <1>1, <1>2, <1>4, <1>6, <1>8, <2>1, WroteFrame
<1> QED
  BY <1>7, <1>8

(* So do the drivers that enable and disable translation. *)
LEMMA TranslationQuietly ==
  ASSUME VtdInv, drhd_translation, UNCHANGED <<kind, vcalls>>
  PROVE  Quietly /\ vcpu.fn \in {"enable_translation", "disable_translation"}
<1> USE DEF At
<1> DEFINE on == vcpu.fn = "enable_translation"
           te == Pack(VTD_GCMD_REG, [Zeroed EXCEPT !.te = IF on THEN {0} ELSE {}])
<1>1. CASE Write("gcmd_te", Reg("gcmd"), te) /\ Goto("tes_first") /\ UNCHANGED table
  <2>1. vcpu.pc = "gcmd_te"
    BY <1>1 DEF Write
  <2>2. Running /\ vcpu.fn \in {"enable_translation", "disable_translation"} /\ vcpu.u \in Units
    BY <2>1, AtLabel DEF FnOf
  <2>3. te \in WordSets
    <3>1. on \in BOOLEAN
      OBVIOUS
    <3> HIDE DEF on
    <3>2. te = IF on THEN {31} ELSE {}
      BY <3>1, TeCommand, Zenon
    <3> QED
      BY <3>2 DEF WordSets
  <2> HIDE DEF te
  <2>4. Wrote("gcmd") /\ (30 \in drhd'[vcpu.u].gsts => 30 \in drhd[vcpu.u].gsts)
    BY <1>1, <2>2, <2>3, RootStatus DEF Write
  <2>5. Moved("tes_first")
    BY <1>1, AfterGoto
  <2> QED
    BY <1>1, <2>2, <2>4, <2>5, SomeWords DEF Wrote, Moved, Quietly, Same
<1>2. CASE /\ Decide("tes_first") \/ Decide("tes_wait")
           /\ Goto("tes_first") \/ Goto("tes_wait") \/ Return(FALSE)
  <2>1. vcpu.pc \in {"tes_first", "tes_wait"} /\ UNCHANGED <<drhd, table>>
    BY <1>2 DEF Decide, Unpacked
  <2>2. vcpu.fn \in {"enable_translation", "disable_translation"}
    BY <2>1, AtLabel DEF FnOf
  <2>3. vcpu'.fn = vcpu.fn
    BY <1>2, AfterGoto, AfterReturn DEF Moved, Stays
  <2> QED
    BY <2>1, <2>2, <2>3 DEF Quietly, Same
<1> HIDE DEF te
<1>3. \/ Write("gcmd_te", Reg("gcmd"), te) /\ Goto("tes_first") /\ UNCHANGED table
      \/ /\ Decide("tes_first") \/ Decide("tes_wait")
         /\ Goto("tes_first") \/ Goto("tes_wait") \/ Return(FALSE)
  BY DEF drhd_translation, te
<1> QED
  BY <1>1, <1>2, <1>3

(* Such a step of another driver preserves every part. *)
LEMMA QuietlyDelivered ==
  ASSUME VtdInv', DeliverInv, Quietly,
         vcpu.fn \in {"invalidatecaches", "enable_translation", "disable_translation"}
  PROVE  DeliverInv'
<1>1. InitializePart'
  BY InitializeFrame DEF DeliverInv, Quietly
<1>2. RootPart'
  BY RootFrame DEF DeliverInv, Quietly
<1>3. PmrPart' /\ RegionPart'
  BY PmrFrame, RegionFrame DEF Quietly
<1> QED
  BY <1>1, <1>2, <1>3 DEF DeliverInv

(* The words that the drivers deliver. *)
DeliveredWords == {"cap_lo", "fectl", "gsts", "pmen", "plmbase", "plmlimit", "phmbase_lo", "phmbase_hi",
  "phmlimit_lo", "phmlimit_hi", "rtaddr_lo", "rtaddr_hi"}
(* A step that changes none of the given words and no table. *)
Quietest(W) == Same(W) /\ UNCHANGED <<kind, table>>
(* The protection of memory that is told to end. *)
LEMMA ProtectionOff ==
  ASSUME VtdInv, vcpu.u \in Units, Store(WordAddr(vcpu.u, "pmen"), {})
  PROVE  31 \notin drhd'[vcpu.u].pmen
<1> DEFINE regs == drhd[vcpu.u]
<1>1. UnitsTyped /\ "pmen" \in Words /\ regs \in [Words -> WordSets]
  BY SomeWords DEF VtdInv, TypeInv, UnitsTyped
<1>2. drhd' = [drhd EXCEPT ![vcpu.u] = IF kind = "hwm" THEN WriteWord(regs, "pmen", {})
                                                        ELSE UnitStore(regs, "pmen", {})]
  BY <1>1, StoredAt
<1>3. drhd'[vcpu.u] = IF kind = "hwm" THEN WriteWord(regs, "pmen", {}) ELSE UnitStore(regs, "pmen", {})
  BY <1>1, <1>2 DEF UnitsTyped
<1>4. WriteWord(regs, "pmen", {})["pmen"] = {}
  BY <1>1 DEF WriteWord, WritePmen
<1>5. UnitStore(regs, "pmen", {})["pmen"] = regs["pmen"] \cap {0}
  BY <1>1 DEF UnitStore
<1> QED
  BY <1>3, <1>4, <1>5

-----------------------------------------------------------------------------

(* What the initialization driver writes back: the mask, bit 31, alone. *)
LEMMA MaskCommand ==
  ASSUME NEW s \in [FieldNames -> SUBSET Int], s.ip = {}, s.rsvdp0 = {}
  PROVE  Pack(VTD_FECTL_REG, [s EXCEPT !.im = {0}]) = {31}
<1> DEFINE m == [s EXCEPT !.im = {0}]
<1>1. LayoutTyped(VTD_FECTL_REG)
  BY LayoutsTyped
<1>2. DOMAIN VTD_FECTL_REG = {"im", "ip", "rsvdp0"} /\ VTD_FECTL_REG["im"].lo = 31
  BY DEF VTD_FECTL_REG, Place
<1>3. "im" \in FieldNames
  BY <1>2, FieldNamesHave
<1>4. \A f \in DOMAIN VTD_FECTL_REG : m[f] = IF f = "im" THEN {0} ELSE {}
  <2>1. m["im"] = {0} /\ m["ip"] = s["ip"] /\ m["rsvdp0"] = s["rsvdp0"]
    BY <1>3
  <2> HIDE DEF m
  <2>2. m["im"] = {0} /\ m["ip"] = {} /\ m["rsvdp0"] = {}
    BY <2>1
  <2> QED
    BY <1>2, <2>2
<1> HIDE DEF m
<1>5. Pack(VTD_FECTL_REG, m) = {VTD_FECTL_REG["im"].lo}
  <2>1. "im" \in DOMAIN VTD_FECTL_REG
    BY <1>2
  <2> QED
    BY <1>1, <1>4, <2>1, PackOne
<1> QED
  BY <1>2, <1>5 DEF m

(* Every step of the initialization driver preserves what is delivered. *)
LEMMA InitializeDelivers ==
  ASSUME VtdInv, VtdInv', DeliverInv, drhd_initialize, UNCHANGED <<kind, vcalls>>
  PROVE  DeliverInv'
<1> USE DEF At
<1> DEFINE s == vcpu.s
<1> SUFFICES InitializePart' /\ Quietest(DeliveredWords \ {"fectl"})
             /\ vcpu'.fn \notin {"set_root_entry_table", "disable_pmr", "set_plm", "set_phm"}
  BY RootFrame, PmrFrame, RegionFrame DEF DeliverInv, Quietest, DeliveredWords, Same
<1>1. CASE /\ Decide("cap") /\ UNCHANGED asked
           /\ IF s.plmr # {} /\ s.phmr # {} /\ s.sagaw \cap {1, 2} # {}
              THEN Goto("fectl") ELSE Return(FALSE)
  <2>1. vcpu.pc = "cap" /\ UNCHANGED <<drhd, table>>
    BY <1>1 DEF Decide, Unpacked
  <2>2. Running /\ vcpu.fn \in {"initialize"} /\ vcpu.u \in Units
    BY <2>1, AtLabel DEF FnOf
  <2>3. CASE s.plmr # {} /\ s.phmr # {} /\ Goto("fectl")
    <3>1. Moved("fectl")
      BY <2>3, AfterGoto
    <3> QED
      BY <2>1, <2>2, <2>3, <3>1 DEF Moved, DeliverInv, InitializePart, ReturnedCall, Quietest, Same
  <2>4. CASE Return(FALSE)
    <3>1. Stays(FALSE)
      BY <2>4, AfterReturn
    <3> QED
      BY <2>1, <2>2, <3>1 DEF Stays, DeliverInv, InitializePart, ReturnedCall, Quietest, Same
  <2> QED
    BY <1>1, <2>3, <2>4
<1>2. CASE /\ Write("fectl", Reg("fectl"), Pack(VTD_FECTL_REG, [s EXCEPT !.im = {0}]))
           /\ Goto("fectl_check") /\ UNCHANGED table
  <2>1. vcpu.pc = "fectl"
    BY <1>2 DEF Write, WriteCommand
  <2>2. Running /\ vcpu.fn \in {"initialize"} /\ vcpu.u \in Units
    BY <2>1, AtLabel DEF FnOf
  <2>3. "fectl" \in Words \ {"gcmd", "gsts"} /\ Reg("fectl") = WordAddr(vcpu.u, "fectl")
    BY <2>2, SomeWords, RegisterAddresses DEF Reg, Regs32
  <2>4. Store(WordAddr(vcpu.u, "fectl"), Pack(VTD_FECTL_REG, [s EXCEPT !.im = {0}])) /\ Pack(VTD_FECTL_REG, [s EXCEPT !.im = {0}]) \in WordSets
    BY <1>2, <2>2, <2>3, FectlWord DEF Write, WriteCommand
  <2>5. Wrote("fectl") /\ Moved("fectl_check")
    BY <1>2, <2>2, <2>3, <2>4, WroteFrame, AfterGoto
  <2>6. drhd'[vcpu.u].fectl = Pack(VTD_FECTL_REG, [s EXCEPT !.im = {0}])
    BY <2>2, <2>3, <2>4, WroteValue
  <2>7. drhd'[vcpu.u].fectl = {31}
    BY <2>1, <2>6, MaskCommand DEF VtdInv, TypeInv, Control, Driver, DeliverInv, InitializePart
  <2>8. \A x \in Units : drhd'[x].cap_lo = drhd[x].cap_lo /\ (x # vcpu.u => drhd'[x].fectl = drhd[x].fectl)
    BY <2>5, SomeWords DEF Wrote
  <2>9. InitializePart'
    BY <2>1, <2>2, <2>5, <2>7, <2>8 DEF Moved, DeliverInv, InitializePart, ReturnedCall
  <2>10. Quietest(DeliveredWords \ {"fectl"})
    BY <1>2, <2>5, SomeWords DEF Wrote, Quietest, DeliveredWords, Same
  <2> QED
    BY <2>2, <2>5, <2>9, <2>10 DEF Moved
<1>3. CASE Decide("fectl_check") /\ UNCHANGED asked /\ Return(s.im # {})
  <2>1. vcpu.pc = "fectl_check" /\ UNCHANGED <<drhd, table>>
    BY <1>3 DEF Decide, Unpacked
  <2>2. Running /\ vcpu.fn \in {"initialize"} /\ vcpu.u \in Units
    BY <2>1, AtLabel DEF FnOf
  <2>3. Stays(s.im # {})
    BY <1>3, AfterReturn
  <2> QED
    BY <2>1, <2>2, <2>3 DEF Stays, DeliverInv, InitializePart, ReturnedCall, Quietest, Same
<1> QED
  BY <1>1, <1>2, <1>3 DEF drhd_initialize

(* So does every step of the driver that disables protected memory. *)
LEMMA PmrDelivers ==
  ASSUME VtdInv, VtdInv', DeliverInv, drhd_disable_pmr, UNCHANGED <<kind, vcalls>>
  PROVE  DeliverInv'
<1> USE DEF At
<1> SUFFICES PmrPart' /\ Quietest(DeliveredWords \ {"pmen"})
             /\ vcpu'.fn \notin {"initialize", "set_root_entry_table", "set_plm", "set_phm"}
  BY InitializeFrame, RootFrame, RegionFrame DEF DeliverInv, Quietest, DeliveredWords, Same
<1>1. CASE /\ Write("pmen", Reg("pmen"), Pack(VTD_PMEN_REG, Zeroed))
           /\ Goto("prs_wait") /\ UNCHANGED table
  <2>1. vcpu.pc = "pmen"
    BY <1>1 DEF Write, WriteCommand
  <2>2. Running /\ vcpu.fn \in {"disable_pmr"} /\ vcpu.u \in Units
    BY <2>1, AtLabel DEF FnOf
  <2>3. "pmen" \in Words \ {"gcmd", "gsts"} /\ Reg("pmen") = WordAddr(vcpu.u, "pmen")
    BY <2>2, SomeWords, RegisterAddresses DEF Reg, Regs32
  <2>4. Store(WordAddr(vcpu.u, "pmen"), Pack(VTD_PMEN_REG, Zeroed)) /\ Pack(VTD_PMEN_REG, Zeroed) \in WordSets
    BY <1>1, <2>2, <2>3, NoBits DEF Write, WriteCommand
  <2>5. Wrote("pmen") /\ Moved("prs_wait")
    BY <1>1, <2>2, <2>3, <2>4, WroteFrame, AfterGoto
  <2>7. 31 \notin drhd'[vcpu.u].pmen
    <3>1. Store(WordAddr(vcpu.u, "pmen"), {})
      BY <2>4, PmenCommand
    <3> QED
      BY <2>2, <3>1, ProtectionOff
  <2>8. PmrPart'
    BY <2>2, <2>5, <2>7 DEF Moved, PmrPart, ReturnedCall
  <2>9. Quietest(DeliveredWords \ {"pmen"})
    BY <1>1, <2>5, SomeWords DEF Wrote, Quietest, DeliveredWords, Same
  <2> QED
    BY <2>2, <2>5, <2>8, <2>9 DEF Moved
<1>2. CASE /\ Decide("prs_wait") /\ UNCHANGED asked
           /\ IF vcpu.s.prs = {} THEN Return(FALSE) ELSE Goto("prs_wait")
  <2>1. vcpu.pc = "prs_wait" /\ UNCHANGED <<drhd, table>>
    BY <1>2 DEF Decide, Unpacked
  <2>2. Running /\ vcpu.fn \in {"disable_pmr"} /\ vcpu.u \in Units
    BY <2>1, AtLabel DEF FnOf
  <2>3. vcpu.n = 3
    BY <1>2, FieldLengths DEF Decide, Unpacked, Fields, Unpacks
  <2>4. CASE Goto("prs_wait")
    <3>1. Moved("prs_wait")
      BY <2>4, AfterGoto
    <3> QED
      BY <2>1, <2>2, <3>1 DEF Moved, DeliverInv, PmrPart, ReturnedCall, Quietest, Same
  <2>5. CASE vcpu.s.prs = {} /\ Return(FALSE)
    <3>1. Stays(FALSE)
      BY <2>5, AfterReturn
    <3> QED
      BY <2>1, <2>2, <2>3, <2>5, <3>1 DEF Stays, DeliverInv, PmrPart, ReturnedCall, Quietest, Same
  <2> QED
    BY <1>2, <2>4, <2>5
<1> QED
  BY <1>1, <1>2 DEF drhd_disable_pmr

(* The words of the two protected regions. *)
RegionWords == {"plmbase", "plmlimit", "phmbase_lo", "phmbase_hi", "phmlimit_lo", "phmlimit_hi"}

(* None of them is a command or a status. *)
LEMMA RegionWordsAre == RegionWords \subseteq Words \ {"gcmd", "gsts"}
  BY SomeWords DEF RegionWords

(* Every step of the driver that sets the low region preserves what is delivered. *)
LEMMA PlmDelivers ==
  ASSUME VtdInv, VtdInv', DeliverInv, drhd_set_plm_base_and_limit, UNCHANGED <<kind, vcalls>>
  PROVE  DeliverInv'
<1> USE DEF At
<1> SUFFICES RegionPart' /\ Quietest(DeliveredWords \ RegionWords)
             /\ vcpu'.fn \notin {"initialize", "set_root_entry_table", "disable_pmr"}
  BY InitializeFrame, RootFrame, PmrFrame DEF DeliverInv, Quietest, DeliveredWords, RegionWords, Same
<1>1. CASE /\ Write("plmbase", Reg("plmbase"), vcpu.arg)
           /\ Goto("plmlimit") /\ UNCHANGED table
  <2>1. vcpu.pc = "plmbase"
    BY <1>1 DEF Write, WriteCommand
  <2>2. Running /\ vcpu.fn \in {"set_plm"} /\ vcpu.u \in Units
    BY <2>1, AtLabel DEF FnOf
  <2>3. "plmbase" \in Words \ {"gcmd", "gsts"} /\ Reg("plmbase") = WordAddr(vcpu.u, "plmbase")
    BY <2>2, SomeWords, RegisterAddresses DEF Reg, Regs32
  <2>4. Store(WordAddr(vcpu.u, "plmbase"), vcpu.arg) /\ vcpu.arg \in WordSets
    BY <1>1, <2>2, <2>3, RegionArguments DEF Write, WriteCommand
  <2>5. Wrote("plmbase") /\ Moved("plmlimit")
    BY <1>1, <2>2, <2>3, <2>4, WroteFrame, AfterGoto
  <2>6. drhd'[vcpu.u].plmbase = vcpu.arg
    BY <2>2, <2>3, <2>4, WroteValue
  <2>7. drhd'[vcpu.u].plmbase = vcpu.arg
    BY <2>6
  <2>8. \A x \in Units, y \in RegionWords : y # "plmbase" => drhd'[x][y] = drhd[x][y]
    BY <2>5, RegionWordsAre DEF Wrote
  <2>9. RegionPart'
    BY <2>1, <2>2, <2>5, <2>7, <2>8 DEF Moved, DeliverInv, RegionPart, ReturnedCall, RegionWords
  <2>10. Quietest(DeliveredWords \ RegionWords)
    BY <1>1, <2>3, <2>5, SomeWords DEF Wrote, Quietest, DeliveredWords, Same, RegionWords
  <2> QED
    BY <2>2, <2>5, <2>9, <2>10 DEF Moved
<1>2. CASE /\ Write("plmlimit", Reg("plmlimit"), vcpu.limit)
           /\ Return(FALSE) /\ UNCHANGED table
  <2>1. vcpu.pc = "plmlimit"
    BY <1>2 DEF Write, WriteCommand
  <2>2. Running /\ vcpu.fn \in {"set_plm"} /\ vcpu.u \in Units
    BY <2>1, AtLabel DEF FnOf
  <2>3. "plmlimit" \in Words \ {"gcmd", "gsts"} /\ Reg("plmlimit") = WordAddr(vcpu.u, "plmlimit")
    BY <2>2, SomeWords, RegisterAddresses DEF Reg, Regs32
  <2>4. Store(WordAddr(vcpu.u, "plmlimit"), vcpu.limit) /\ vcpu.limit \in WordSets
    BY <1>2, <2>2, <2>3, RegionArguments DEF Write, WriteCommand
  <2>5. Wrote("plmlimit") /\ Stays(FALSE)
    BY <1>2, <2>2, <2>3, <2>4, WroteFrame, AfterReturn
  <2>6. drhd'[vcpu.u].plmlimit = vcpu.limit
    BY <2>2, <2>3, <2>4, WroteValue
  <2>7. drhd'[vcpu.u].plmlimit = vcpu.limit
    BY <2>6
  <2>8. \A x \in Units, y \in RegionWords : y # "plmlimit" => drhd'[x][y] = drhd[x][y]
    BY <2>5, RegionWordsAre DEF Wrote
  <2>9. RegionPart'
    BY <2>1, <2>2, <2>5, <2>7, <2>8 DEF Stays, DeliverInv, RegionPart, ReturnedCall, RegionWords
  <2>10. Quietest(DeliveredWords \ RegionWords)
    BY <1>2, <2>3, <2>5, SomeWords DEF Wrote, Quietest, DeliveredWords, Same, RegionWords
  <2> QED
    BY <2>2, <2>5, <2>9, <2>10 DEF Stays
<1> QED
  BY <1>1, <1>2 DEF drhd_set_plm_base_and_limit

(* Every step of the driver that sets the high region preserves what is delivered. *)
LEMMA PhmDelivers ==
  ASSUME VtdInv, VtdInv', DeliverInv, drhd_set_phm_base_and_limit, UNCHANGED <<kind, vcalls>>
  PROVE  DeliverInv'
<1> USE DEF At
<1> SUFFICES RegionPart' /\ Quietest(DeliveredWords \ RegionWords)
             /\ vcpu'.fn \notin {"initialize", "set_root_entry_table", "disable_pmr"}
  BY InitializeFrame, RootFrame, PmrFrame DEF DeliverInv, Quietest, DeliveredWords, RegionWords, Same
<1>1. CASE /\ Write("phmbase_lo", Reg("phmbase"), LowWord(vcpu.arg))
           /\ Goto("phmbase_hi") /\ UNCHANGED table
  <2>1. vcpu.pc = "phmbase_lo"
    BY <1>1 DEF Write, WriteCommand
  <2>2. Running /\ vcpu.fn \in {"set_phm"} /\ vcpu.u \in Units
    BY <2>1, AtLabel DEF FnOf
  <2>3. "phmbase_lo" \in Words \ {"gcmd", "gsts"} /\ Reg("phmbase") = WordAddr(vcpu.u, "phmbase_lo")
    BY <2>2, SomeWords, RegisterAddresses DEF Reg, Regs32
  <2>4. Store(WordAddr(vcpu.u, "phmbase_lo"), LowWord(vcpu.arg)) /\ LowWord(vcpu.arg) \in WordSets
    BY <1>1, <2>2, <2>3, Halves DEF Write, WriteCommand
  <2>5. Wrote("phmbase_lo") /\ Moved("phmbase_hi")
    BY <1>1, <2>2, <2>3, <2>4, WroteFrame, AfterGoto
  <2>6. drhd'[vcpu.u].phmbase_lo = LowWord(vcpu.arg)
    BY <2>2, <2>3, <2>4, WroteValue
  <2>7. drhd'[vcpu.u].phmbase_lo = vcpu.arg
    BY <2>2, <2>6, RegionArguments, WordHalves
  <2>8. \A x \in Units, y \in RegionWords : y # "phmbase_lo" => drhd'[x][y] = drhd[x][y]
    BY <2>5, RegionWordsAre DEF Wrote
  <2>9. RegionPart'
    BY <2>1, <2>2, <2>5, <2>7, <2>8 DEF Moved, DeliverInv, RegionPart, ReturnedCall, RegionWords
  <2>10. Quietest(DeliveredWords \ RegionWords)
    BY <1>1, <2>3, <2>5, SomeWords DEF Wrote, Quietest, DeliveredWords, Same, RegionWords
  <2> QED
    BY <2>2, <2>5, <2>9, <2>10 DEF Moved
<1>2. CASE /\ Write("phmbase_hi", Reg("phmbase") + 4, HighWord(vcpu.arg))
           /\ Goto("phmlimit_lo") /\ UNCHANGED table
  <2>1. vcpu.pc = "phmbase_hi"
    BY <1>2 DEF Write, WriteCommand
  <2>2. Running /\ vcpu.fn \in {"set_phm"} /\ vcpu.u \in Units
    BY <2>1, AtLabel DEF FnOf
  <2>3. "phmbase_hi" \in Words \ {"gcmd", "gsts"} /\ Reg("phmbase") + 4 = WordAddr(vcpu.u, "phmbase_hi")
    BY <2>2, SomeWords, RegisterAddresses DEF Reg, Regs32
  <2>4. Store(WordAddr(vcpu.u, "phmbase_hi"), HighWord(vcpu.arg)) /\ HighWord(vcpu.arg) \in WordSets
    BY <1>2, <2>2, <2>3, Halves DEF Write, WriteCommand
  <2>5. Wrote("phmbase_hi") /\ Moved("phmlimit_lo")
    BY <1>2, <2>2, <2>3, <2>4, WroteFrame, AfterGoto
  <2>6. drhd'[vcpu.u].phmbase_hi = HighWord(vcpu.arg)
    BY <2>2, <2>3, <2>4, WroteValue
  <2>7. drhd'[vcpu.u].phmbase_hi = {}
    BY <2>2, <2>6, RegionArguments, WordHalves
  <2>8. \A x \in Units, y \in RegionWords : y # "phmbase_hi" => drhd'[x][y] = drhd[x][y]
    BY <2>5, RegionWordsAre DEF Wrote
  <2>9. RegionPart'
    BY <2>1, <2>2, <2>5, <2>7, <2>8 DEF Moved, DeliverInv, RegionPart, ReturnedCall, RegionWords
  <2>10. Quietest(DeliveredWords \ RegionWords)
    BY <1>2, <2>3, <2>5, SomeWords DEF Wrote, Quietest, DeliveredWords, Same, RegionWords
  <2> QED
    BY <2>2, <2>5, <2>9, <2>10 DEF Moved
<1>3. CASE /\ Write("phmlimit_lo", Reg("phmlimit"), LowWord(vcpu.limit))
           /\ Goto("phmlimit_hi") /\ UNCHANGED table
  <2>1. vcpu.pc = "phmlimit_lo"
    BY <1>3 DEF Write, WriteCommand
  <2>2. Running /\ vcpu.fn \in {"set_phm"} /\ vcpu.u \in Units
    BY <2>1, AtLabel DEF FnOf
  <2>3. "phmlimit_lo" \in Words \ {"gcmd", "gsts"} /\ Reg("phmlimit") = WordAddr(vcpu.u, "phmlimit_lo")
    BY <2>2, SomeWords, RegisterAddresses DEF Reg, Regs32
  <2>4. Store(WordAddr(vcpu.u, "phmlimit_lo"), LowWord(vcpu.limit)) /\ LowWord(vcpu.limit) \in WordSets
    BY <1>3, <2>2, <2>3, Halves DEF Write, WriteCommand
  <2>5. Wrote("phmlimit_lo") /\ Moved("phmlimit_hi")
    BY <1>3, <2>2, <2>3, <2>4, WroteFrame, AfterGoto
  <2>6. drhd'[vcpu.u].phmlimit_lo = LowWord(vcpu.limit)
    BY <2>2, <2>3, <2>4, WroteValue
  <2>7. drhd'[vcpu.u].phmlimit_lo = vcpu.limit
    BY <2>2, <2>6, RegionArguments, WordHalves
  <2>8. \A x \in Units, y \in RegionWords : y # "phmlimit_lo" => drhd'[x][y] = drhd[x][y]
    BY <2>5, RegionWordsAre DEF Wrote
  <2>9. RegionPart'
    BY <2>1, <2>2, <2>5, <2>7, <2>8 DEF Moved, DeliverInv, RegionPart, ReturnedCall, RegionWords
  <2>10. Quietest(DeliveredWords \ RegionWords)
    BY <1>3, <2>3, <2>5, SomeWords DEF Wrote, Quietest, DeliveredWords, Same, RegionWords
  <2> QED
    BY <2>2, <2>5, <2>9, <2>10 DEF Moved
<1>4. CASE /\ Write("phmlimit_hi", Reg("phmlimit") + 4, HighWord(vcpu.limit))
           /\ Return(FALSE) /\ UNCHANGED table
  <2>1. vcpu.pc = "phmlimit_hi"
    BY <1>4 DEF Write, WriteCommand
  <2>2. Running /\ vcpu.fn \in {"set_phm"} /\ vcpu.u \in Units
    BY <2>1, AtLabel DEF FnOf
  <2>3. "phmlimit_hi" \in Words \ {"gcmd", "gsts"} /\ Reg("phmlimit") + 4 = WordAddr(vcpu.u, "phmlimit_hi")
    BY <2>2, SomeWords, RegisterAddresses DEF Reg, Regs32
  <2>4. Store(WordAddr(vcpu.u, "phmlimit_hi"), HighWord(vcpu.limit)) /\ HighWord(vcpu.limit) \in WordSets
    BY <1>4, <2>2, <2>3, Halves DEF Write, WriteCommand
  <2>5. Wrote("phmlimit_hi") /\ Stays(FALSE)
    BY <1>4, <2>2, <2>3, <2>4, WroteFrame, AfterReturn
  <2>6. drhd'[vcpu.u].phmlimit_hi = HighWord(vcpu.limit)
    BY <2>2, <2>3, <2>4, WroteValue
  <2>7. drhd'[vcpu.u].phmlimit_hi = {}
    BY <2>2, <2>6, RegionArguments, WordHalves
  <2>8. \A x \in Units, y \in RegionWords : y # "phmlimit_hi" => drhd'[x][y] = drhd[x][y]
    BY <2>5, RegionWordsAre DEF Wrote
  <2>9. RegionPart'
    BY <2>1, <2>2, <2>5, <2>7, <2>8 DEF Stays, DeliverInv, RegionPart, ReturnedCall, RegionWords
  <2>10. Quietest(DeliveredWords \ RegionWords)
    BY <1>4, <2>3, <2>5, SomeWords DEF Wrote, Quietest, DeliveredWords, Same, RegionWords
  <2> QED
    BY <2>2, <2>5, <2>9, <2>10 DEF Stays
<1> QED
  BY <1>1, <1>2, <1>3, <1>4 DEF drhd_set_phm_base_and_limit

(* Every step of the driver that sets the root table preserves what is delivered. *)
LEMMA RootDelivers ==
  ASSUME VtdInv, VtdInv', DeliverInv, drhd_set_root_entry_table, UNCHANGED <<kind, vcalls>>
  PROVE  DeliverInv'
<1> USE DEF At
<1> SUFFICES RootPart' /\ Same(DeliveredWords \ {"rtaddr_lo", "rtaddr_hi", "gsts"})
             /\ vcpu'.fn \notin {"initialize", "disable_pmr", "set_plm", "set_phm"}
  BY InitializeFrame, PmrFrame, RegionFrame DEF DeliverInv, DeliveredWords, Same
<1> DEFINE rtaddr == Pack(VTD_RTADDR_REG, Unpack(VTD_RTADDR_REG, LowWord(vcpu.arg)))
           gcmd == Pack(VTD_GCMD_REG, [Zeroed EXCEPT !.srtp = {0}])
<1>0. LowWord(rtaddr) = LowWord(vcpu.arg) /\ HighWord(rtaddr) = {}
  BY RootAddress, Halves, WordHalves
<1> HIDE DEF rtaddr
<1>1. CASE /\ Write("rta_lo", Reg("rtaddr"), LowWord(rtaddr))
           /\ Goto("rta_hi") /\ UNCHANGED table
  <2>1. vcpu.pc = "rta_lo"
    BY <1>1 DEF Write, WriteCommand
  <2>2. Running /\ vcpu.fn \in {"set_root_entry_table"} /\ vcpu.u \in Units
    BY <2>1, AtLabel DEF FnOf
  <2>3. "rtaddr_lo" \in Words \ {"gcmd", "gsts"} /\ Reg("rtaddr") = WordAddr(vcpu.u, "rtaddr_lo")
    BY <2>2, SomeWords, RegisterAddresses DEF Reg, Regs32
  <2>4. Store(WordAddr(vcpu.u, "rtaddr_lo"), LowWord(rtaddr)) /\ LowWord(rtaddr) \in WordSets
    BY <1>1, <2>2, <2>3, Halves DEF Write, WriteCommand
  <2>5. Wrote("rtaddr_lo") /\ Moved("rta_hi")
    BY <1>1, <2>2, <2>3, <2>4, WroteFrame, AfterGoto
  <2>6. drhd'[vcpu.u].rtaddr_lo = LowWord(rtaddr)
    BY <2>2, <2>3, <2>4, WroteValue
  <2>7. drhd'[vcpu.u].rtaddr_lo = LowWord(vcpu.arg)
    BY <2>6, <1>0
  <2>8. \A x \in Units, y \in {"rtaddr_lo", "rtaddr_hi", "gsts"} : y # "rtaddr_lo" => drhd'[x][y] = drhd[x][y]
    BY <2>5, SomeWords DEF Wrote
  <2>9. RootPart'
    BY <1>1, <2>1, <2>2, <2>5, <2>7, <2>8 DEF Moved, DeliverInv, RootPart, ReturnedCall
  <2>10. Same(DeliveredWords \ {"rtaddr_lo", "rtaddr_hi", "gsts"})
    BY <2>5, SomeWords DEF Wrote, DeliveredWords, Same
  <2> QED
    BY <2>2, <2>5, <2>9, <2>10 DEF Moved
<1>2. CASE /\ Write("rta_hi", Reg("rtaddr") + 4, HighWord(rtaddr))
           /\ Goto("srtp") /\ UNCHANGED table
  <2>1. vcpu.pc = "rta_hi"
    BY <1>2 DEF Write, WriteCommand
  <2>2. Running /\ vcpu.fn \in {"set_root_entry_table"} /\ vcpu.u \in Units
    BY <2>1, AtLabel DEF FnOf
  <2>3. "rtaddr_hi" \in Words \ {"gcmd", "gsts"} /\ Reg("rtaddr") + 4 = WordAddr(vcpu.u, "rtaddr_hi")
    BY <2>2, SomeWords, RegisterAddresses DEF Reg, Regs32
  <2>4. Store(WordAddr(vcpu.u, "rtaddr_hi"), HighWord(rtaddr)) /\ HighWord(rtaddr) \in WordSets
    BY <1>2, <2>2, <2>3, Halves DEF Write, WriteCommand
  <2>5. Wrote("rtaddr_hi") /\ Moved("srtp")
    BY <1>2, <2>2, <2>3, <2>4, WroteFrame, AfterGoto
  <2>6. drhd'[vcpu.u].rtaddr_hi = HighWord(rtaddr)
    BY <2>2, <2>3, <2>4, WroteValue
  <2>7. drhd'[vcpu.u].rtaddr_hi = {}
    BY <2>6, <1>0
  <2>8. \A x \in Units, y \in {"rtaddr_lo", "rtaddr_hi", "gsts"} : y # "rtaddr_hi" => drhd'[x][y] = drhd[x][y]
    BY <2>5, SomeWords DEF Wrote
  <2>9. RootPart'
    BY <1>2, <2>1, <2>2, <2>5, <2>7, <2>8 DEF Moved, DeliverInv, RootPart, ReturnedCall
  <2>10. Same(DeliveredWords \ {"rtaddr_lo", "rtaddr_hi", "gsts"})
    BY <2>5, SomeWords DEF Wrote, DeliveredWords, Same
  <2> QED
    BY <2>2, <2>5, <2>9, <2>10 DEF Moved
<1>3. CASE /\ Write("srtp", Reg("gcmd"), gcmd)
           /\ table' = [table EXCEPT ![vcpu.u].pending = (kind = "unit")]
           /\ Goto("rtps")
  <2>1. vcpu.pc = "srtp"
    BY <1>3 DEF Write
  <2>2. Running /\ vcpu.fn \in {"set_root_entry_table"} /\ vcpu.u \in Units
    BY <2>1, AtLabel DEF FnOf
  <2>3. gcmd = {30} /\ {30} \in WordSets
    BY SrtpCommand DEF WordSets
  <2>4. /\ Wrote("gcmd") /\ (30 \in drhd'[vcpu.u].gsts => 30 \in drhd[vcpu.u].gsts)
        /\ (kind # "hwm" => 30 \notin drhd'[vcpu.u].gsts)
    BY <1>3, <2>2, <2>3, RootStatus DEF Write
  <2>5. Moved("rtps")
    BY <1>3, AfterGoto
  <2>6. /\ \A x \in Units : x # vcpu.u => table'[x] = table[x] /\ drhd'[x].gsts = drhd[x].gsts
        /\ table'[vcpu.u].pending = (kind = "unit")
    BY <1>3, <2>4, SomeWords DEF VtdInv, TypeInv, Wrote
  <2>7. \A x \in Units : drhd'[x].rtaddr_lo = drhd[x].rtaddr_lo /\ drhd'[x].rtaddr_hi = drhd[x].rtaddr_hi
    BY <2>4, SomeWords DEF Wrote
  <2>8. kind \in {"hwm", "unit"}
    BY DEF VtdInv, TypeInv, UnitsTyped
  <2>9. \A x \in Units : 30 \in drhd'[x].gsts => kind = "unit" /\ ~table'[x].pending
    BY <2>4, <2>6, <2>8 DEF DeliverInv, RootPart
  <2>10. RootPart'
    <3> DEFINE u == vcpu.u
    <3>1. vcpu.s.rtps = {} /\ drhd[u].rtaddr_lo = LowWord(vcpu.arg) /\ drhd[u].rtaddr_hi = {}
      BY <2>1 DEF DeliverInv, RootPart
    <3>2. /\ vcpu'.pc = "rtps" /\ vcpu'.u = u /\ vcpu'.s.rtps = {}
          /\ drhd'[u].rtaddr_lo = LowWord(vcpu'.arg) /\ drhd'[u].rtaddr_hi = {}
      BY <2>2, <2>5, <2>7, <3>1 DEF Moved
    <3>3. kind' = kind /\ (kind = "unit" => table'[u].pending)
      BY <2>6, <1>3
    <3> QED
      BY <2>9, <3>2, <3>3 DEF RootPart, ReturnedCall
  <2>11. Same(DeliveredWords \ {"rtaddr_lo", "rtaddr_hi", "gsts"})
    BY <2>4, SomeWords DEF Wrote, DeliveredWords, Same
  <2> QED
    BY <2>2, <2>5, <2>10, <2>11 DEF Moved
<1>4. CASE Decide("rtps") /\ UNCHANGED asked /\ Return(vcpu.s.rtps # {})
  <2>1. vcpu.pc = "rtps" /\ UNCHANGED <<drhd, table>>
    BY <1>4 DEF Decide, Unpacked
  <2>2. Running /\ vcpu.fn \in {"set_root_entry_table"} /\ vcpu.u \in Units
    BY <2>1, AtLabel DEF FnOf
  <2>3. Stays(vcpu.s.rtps # {})
    BY <1>4, AfterReturn
  <2>4. vcpu.s.rtps # {} => table[vcpu.u] = [addr |-> LowWord(vcpu.arg), pending |-> FALSE]
    <3>1. table[vcpu.u] \in [addr : SUBSET (0..63), pending : BOOLEAN]
      BY <2>2 DEF VtdInv, TypeInv
    <3>2. vcpu.s.rtps # {} => table[vcpu.u].addr = LowWord(vcpu.arg) /\ table[vcpu.u].pending = FALSE
      BY <2>1, <2>2, <3>1 DEF DeliverInv, RootPart
    <3> QED
      BY <3>1, <3>2
  <2>5. RootPart'
    BY <1>4, <2>1, <2>2, <2>3, <2>4 DEF Stays, DeliverInv, RootPart, ReturnedCall
  <2> QED
    BY <2>1, <2>2, <2>3, <2>5 DEF Stays, Same
<1> QED
  BY <1>1, <1>2, <1>3, <1>4 DEF drhd_set_root_entry_table, rtaddr

-----------------------------------------------------------------------------
(* The order of the fields on which these drivers decide. *)
LEMMA NamesRead ==
  /\ \A k \in 1..20 : Fields("cap")[k] \notin {"ip", "rsvdp0"}
  /\ Fields("prs_wait")[3] = "prs" /\ Len(Fields("prs_wait")) = 3 /\ Len(Fields("cap")) = 20
  BY DEF Fields, FieldOrder, Unpacks

(* The fields by which these drivers decide are field names. *)
LEMMA DecidingNames == {"plmr", "phmr", "ip", "rsvdp0", "rtps", "prs"} \subseteq FieldNames
<1>1. /\ {"plmr", "phmr"} \subseteq DOMAIN VTD_CAP_REG /\ {"ip", "rsvdp0"} \subseteq DOMAIN VTD_FECTL_REG
      /\ "rtps" \in DOMAIN VTD_GSTS_REG /\ "prs" \in DOMAIN VTD_PMEN_REG
  BY DEF VTD_CAP_REG, VTD_FECTL_REG, VTD_GSTS_REG, VTD_PMEN_REG
<1>2. DOMAIN VTD_CAP_REG \subseteq FieldNames
  BY DEF FieldNames, Layout
<1> QED
  BY <1>1, <1>2, FieldNamesHave

(* What the fields by which these drivers decide say of the words they come from. *)
LEMMA BitsRead ==
  ASSUME NEW lo \in WordSets, NEW hi \in WordSets, NEW gsts \in WordSets, NEW pmen \in WordSets
  PROVE  /\ Field(Join(lo, hi), VTD_CAP_REG["plmr"]) # {} => 5 \in lo
         /\ Field(Join(lo, hi), VTD_CAP_REG["phmr"]) # {} => 6 \in lo
         /\ Field(gsts, VTD_GSTS_REG["rtps"]) # {} => 30 \in gsts
         /\ Field(pmen, VTD_PMEN_REG["prs"]) = {} => 0 \notin pmen
<1>1. /\ VTD_CAP_REG["plmr"] = Place(5, 1) /\ VTD_CAP_REG["phmr"] = Place(6, 1)
      /\ VTD_GSTS_REG["rtps"] = Place(30, 1) /\ VTD_PMEN_REG["prs"] = Place(0, 1)
  BY DEF VTD_CAP_REG, VTD_GSTS_REG, VTD_PMEN_REG
<1>2. \A b \in 0..31 : b \in Join(lo, hi) => b \in lo
  BY DEF Join, WordSets
<1>3. Field(Join(lo, hi), Place(5, 1)) = {b - 5 : b \in Join(lo, hi) \cap (5..5)}
  BY DEF Field, Place
<1>4. Field(Join(lo, hi), Place(6, 1)) = {b - 6 : b \in Join(lo, hi) \cap (6..6)}
  BY DEF Field, Place
<1>7. Field(gsts, Place(30, 1)) = {b - 30 : b \in gsts \cap (30..30)}
  BY DEF Field, Place
<1>8. Field(pmen, Place(0, 1)) = {b - 0 : b \in pmen \cap (0..0)}
  BY DEF Field, Place
<1>9. Field(Join(lo, hi), Place(5, 1)) # {} => 5 \in lo
  BY <1>2, <1>3
<1>10. Field(Join(lo, hi), Place(6, 1)) # {} => 6 \in lo
  BY <1>2, <1>4
<1>12. Field(gsts, Place(30, 1)) # {} => 30 \in gsts
  BY <1>7
<1>13. Field(pmen, Place(0, 1)) = {} => 0 \notin pmen
  BY <1>8
<1> QED
  BY <1>1, <1>9, <1>10, <1>12, <1>13

(* Of a fault event register that holds at most its mask, the other fields are read as
   zero. *)
LEMMA MaskRead ==
  ASSUME NEW fectl \in {{}, {31}}
  PROVE  Field(fectl, VTD_FECTL_REG["ip"]) = {} /\ Field(fectl, VTD_FECTL_REG["rsvdp0"]) = {}
<1>1. VTD_FECTL_REG["ip"] = Place(30, 1) /\ VTD_FECTL_REG["rsvdp0"] = Place(0, 30)
  BY DEF VTD_FECTL_REG
<1>2. Field(fectl, Place(30, 1)) = {b - 30 : b \in fectl \cap (30..30)}
  BY DEF Field, Place
<1>3. Field(fectl, Place(0, 30)) = {b - 0 : b \in fectl \cap (0..29)}
  BY DEF Field, Place
<1> QED
  BY <1>1, <1>2, <1>3

(* What these drivers read from the registers of a unit. *)
LEMMA WordsRead ==
  ASSUME UnitsTyped, NEW u \in Units
  PROVE  /\ vtd_reg_read(u, "cap") = Join(drhd[u].cap_lo, drhd[u].cap_hi)
         /\ vtd_reg_read(u, "fectl") = drhd[u].fectl /\ vtd_reg_read(u, "gsts") = drhd[u].gsts
         /\ vtd_reg_read(u, "pmen") = drhd[u].pmen
<1>1. \A w \in Words : VtdRead(drhd, WordAddr(u, w)) = drhd[u][w]
  BY DecodeWord DEF VtdRead
<1>2. "gsts" \in Regs32 /\ "fectl" \in Regs32 /\ "pmen" \in Regs32 /\ "cap" \notin Regs32
  BY DEF Regs32
<1> QED
  BY <1>1, <1>2, SomeWords, RegisterAddresses DEF vtd_reg_read

(* Every read of a register preserves what is delivered. *)
LEMMA ReadingDelivers ==
  ASSUME VtdInv, VtdInv', DeliverInv, ReadField, UNCHANGED <<kind, vcalls>>
  PROVE  DeliverInv'
<1> DEFINE u == vcpu.u
           f == Fields(vcpu.pc)[vcpu.n + 1]
           value == Field(vtd_reg_read(vcpu.u, Unpacks[vcpu.pc]), Layout[Unpacks[vcpu.pc]][f])
<1>1. /\ vcpu.pc \in DOMAIN Unpacks /\ vcpu.n < Len(Fields(vcpu.pc))
      /\ vcpu' = [vcpu EXCEPT !.n = @ + 1, !.s[f] = value]
      /\ UNCHANGED <<drhd, table, kind>>
  BY DEF ReadField
<1>2. vcpu.pc \notin {"idle", "returned", "rta_lo", "rta_hi", "srtp", "plmlimit", "phmbase_hi", "phmlimit_lo",
                     "phmlimit_hi"}
  BY <1>1 DEF Unpacks
<1>3. Running /\ u \in Units
  BY <1>2, AtLabel
<1>4. vcpu \in Driver /\ UnitsTyped
  BY DEF VtdInv, TypeInv, Control
<1>5. vcpu.n \in 0..20 /\ vcpu.s \in [FieldNames -> SUBSET Int]
  BY <1>4 DEF Driver
<1>6. /\ vcpu'.pc = vcpu.pc /\ vcpu'.n = vcpu.n + 1 /\ vcpu'.u = u /\ vcpu'.fn = vcpu.fn
      /\ vcpu'.arg = vcpu.arg /\ vcpu'.limit = vcpu.limit /\ vcpu'.s = [vcpu.s EXCEPT ![f] = value]
  BY <1>1, <1>4 DEF Driver
<1>7. \A g \in {"plmr", "phmr", "ip", "rsvdp0", "rtps", "prs"} :
        vcpu'.s[g] = IF g = f THEN value ELSE vcpu.s[g]
  BY <1>5, <1>6, DecidingNames
<1>8. /\ drhd[u].cap_lo \in WordSets /\ drhd[u].cap_hi \in WordSets /\ drhd[u].gsts \in WordSets
      /\ drhd[u].pmen \in WordSets /\ drhd[u].fectl \in {{}, {31}}
  BY <1>3, <1>4, SomeWords DEF UnitsTyped, DeliverInv, InitializePart
<1>9. CASE vcpu.pc = "cap"
  <2>1. value = Field(Join(drhd[u].cap_lo, drhd[u].cap_hi), VTD_CAP_REG[f])
    BY <1>3, <1>4, <1>9, WordsRead DEF Unpacks, Layout
  <2>2. f \notin {"ip", "rsvdp0"}
    <3>1. Len(Fields(vcpu.pc)) = 20 /\ f = Fields("cap")[vcpu.n + 1]
      BY <1>9, NamesRead, Zenon
    <3> HIDE DEF f
    <3>2. vcpu.n + 1 \in 1..20
      BY <1>1, <1>5, <3>1
    <3> QED
      BY <3>1, <3>2, NamesRead
  <2> HIDE DEF f, value
  <2>3. (f = "plmr" => (value # {} => 5 \in drhd[u].cap_lo)) /\ (f = "phmr" => (value # {} => 6 \in drhd[u].cap_lo))
    BY <1>8, <2>1, BitsRead
  <2> QED
    BY <1>1, <1>3, <1>6, <1>7, <1>9, <2>2, <2>3
       DEF DeliverInv, InitializePart, RootPart, PmrPart, RegionPart, ReturnedCall
<1>10. CASE vcpu.pc = "fectl"
  <2>1. value = Field(drhd[u].fectl, VTD_FECTL_REG[f])
    BY <1>3, <1>4, <1>10, WordsRead DEF Unpacks, Layout
  <2> HIDE DEF f, value
  <2>2. (f = "ip" => value = {}) /\ (f = "rsvdp0" => value = {})
    BY <1>8, <2>1, MaskRead
  <2> QED
    BY <1>1, <1>3, <1>6, <1>7, <1>10, <2>2
       DEF DeliverInv, InitializePart, RootPart, PmrPart, RegionPart, ReturnedCall
<1>11. CASE vcpu.pc = "rtps"
  <2>1. value = Field(drhd[u].gsts, VTD_GSTS_REG[f])
    BY <1>3, <1>4, <1>11, WordsRead DEF Unpacks, Layout
  <2> HIDE DEF f, value
  <2>2. f = "rtps" => (value # {} => 30 \in drhd[u].gsts)
    BY <1>8, <2>1, BitsRead
  <2> QED
    BY <1>1, <1>3, <1>6, <1>7, <1>11, <2>2
       DEF DeliverInv, InitializePart, RootPart, PmrPart, RegionPart, ReturnedCall
<1>12. CASE vcpu.pc = "prs_wait"
  <2>1. value = Field(drhd[u].pmen, VTD_PMEN_REG[f])
    BY <1>3, <1>4, <1>12, WordsRead DEF Unpacks, Layout
  <2>2. vcpu.n + 1 = 3 => f = "prs"
    BY <1>12, NamesRead
  <2> HIDE DEF f, value
  <2>3. f = "prs" => (value = {} => 0 \notin drhd[u].pmen)
    BY <1>8, <2>1, BitsRead
  <2> QED
    BY <1>1, <1>3, <1>6, <1>7, <1>12, <2>2, <2>3
       DEF DeliverInv, InitializePart, RootPart, PmrPart, RegionPart, ReturnedCall
<1>13. CASE vcpu.pc \notin {"cap", "fectl", "rtps", "prs_wait"}
  <2> HIDE DEF f, value
  <2> QED
    BY <1>1, <1>2, <1>3, <1>6, <1>13
       DEF DeliverInv, InitializePart, RootPart, PmrPart, RegionPart, ReturnedCall
<1> QED
  BY <1>9, <1>10, <1>11, <1>12, <1>13

(* A call preserves what is delivered. *)
LEMMA CallDelivers ==
  ASSUME VtdInv, VtdInv', DeliverInv, VtdCall
  PROVE  DeliverInv'
<1>1. PICK fn \in DOMAIN Entry, u \in Units \cup {"null"} : \E args \in Args(fn) :
        vcpu' = [NoDriver EXCEPT !.pc = IF u = "null" THEN "returned" ELSE Entry[fn],
                                 !.fn = fn, !.u = u, !.arg = args[1], !.limit = args[2]]
  BY DEF VtdCall
<1>2. UNCHANGED <<drhd, kind, table>>
  BY DEF VtdCall
<1>3. NoDriver \in Driver
  BY NoDriverTyped
<1>4. /\ vcpu'.pc = IF u = "null" THEN "returned" ELSE Entry[fn]
      /\ vcpu'.u = u /\ vcpu'.s = NoDriver.s
  BY <1>1, <1>3 DEF Driver
<1>5. Entry[fn] \in {"cap", "ccmd_idle", "rta_lo", "gcmd_te", "pmen", "plmbase", "phmbase_lo"}
  BY DEF Entry
<1>6. /\ vcpu'.s.ip = {} /\ vcpu'.s.rsvdp0 = {} /\ vcpu'.s.plmr = {} /\ vcpu'.s.phmr = {} /\ vcpu'.s.rtps = {}
  BY <1>4, DecidingNames DEF NoDriver, Zeroed
<1> QED
  BY <1>2, <1>4, <1>5, <1>6 DEF DeliverInv, InitializePart, RootPart, PmrPart, RegionPart, ReturnedCall

(* So does the end of a call. *)
LEMMA ReturningDelivers ==
  ASSUME DeliverInv, VtdReturn, UNCHANGED <<kind, vcalls>>
  PROVE  DeliverInv'
<1>1. vcpu'.pc = "idle" /\ UNCHANGED <<drhd, table, kind>>
  BY NoDriverTyped DEF VtdReturn
<1> QED
  BY <1>1 DEF DeliverInv, InitializePart, RootPart, PmrPart, RegionPart, ReturnedCall

(* A driver that was called for a unit at all was called for one of the units. *)
LEMMA UnitReturned ==
  ASSUME VtdInv, vcpu.u # "null"
  PROVE  vcpu.u \in Units
  BY DEF VtdInv, TypeInv, Control, Driver

(* A step that leaves the delivered words and the processor alone preserves what is
   delivered. *)
LEMMA SameDelivers ==
  ASSUME VtdInv, DeliverInv, \A x \in Units, y \in DeliveredWords : drhd'[x][y] = drhd[x][y],
         UNCHANGED <<kind, vcpu, table>>
  PROVE  DeliverInv'
<1>1. Running => vcpu.u \in Units
  BY DEF VtdInv, TypeInv, Control
<1>2. InitializePart' /\ PmrPart' /\ RegionPart'
  BY <1>1, UnitReturned DEF DeliverInv, InitializePart, PmrPart, RegionPart, ReturnedCall, DeliveredWords, Running
<1>3. RootPart'
  BY <1>1 DEF DeliverInv, RootPart, ReturnedCall, DeliveredWords, Running
<1> QED
  BY <1>2, <1>3 DEF DeliverInv

(* What the units do on their own: they set the status of the root table
   when they take it, and they do not turn protection on again. *)
LEMMA UnitOfDriver ==
  ASSUME VtdInv
  PROVE  Running => vcpu.u \in Units
  BY DEF VtdInv, TypeInv, Control

(* The unit completing an invalidation preserves what is delivered. *)
LEMMA UnitInvalidates ==
  ASSUME VtdInv, DeliverInv, UNCHANGED <<kind, vcpu>>, NEW u \in Units, UnitContext(u) \/ UnitIotlb(u)
  PROVE  DeliverInv'
<1>1. PICK w \in {"ccmd_hi", "iotlb_hi"} : \E v : drhd' = [drhd EXCEPT ![u] = [drhd[u] EXCEPT ![w] = v]]
  <2>1. CASE UnitContext(u)
    <3>1. PICK caig \in {27, 28} : drhd' = [drhd EXCEPT ![u].ccmd_hi = (@ \ {31, 28, 27}) \cup {caig}]
      BY <2>1 DEF UnitContext
    <3>2. drhd' = [drhd EXCEPT ![u] = [drhd[u] EXCEPT !["ccmd_hi"] = (drhd[u].ccmd_hi \ {31, 28, 27}) \cup {caig}]]
      BY <3>1
    <3> QED
      BY <3>2
  <2>2. CASE UnitIotlb(u)
    <3>1. PICK iaig \in {25, 26} : drhd' = [drhd EXCEPT ![u].iotlb_hi = (@ \ {31, 27, 26, 25}) \cup {iaig}]
      BY <2>2 DEF UnitIotlb
    <3>2. drhd' = [drhd EXCEPT ![u] = [drhd[u] EXCEPT !["iotlb_hi"] = (drhd[u].iotlb_hi \ {31, 27, 26, 25}) \cup {iaig}]]
      BY <3>1
    <3> QED
      BY <3>2
  <2> QED
    BY <2>1, <2>2
<1>2. PICK v : drhd' = [drhd EXCEPT ![u] = [drhd[u] EXCEPT ![w] = v]]
  BY <1>1
<1>3. \A x \in Units, y \in DeliveredWords : drhd'[x][y] = drhd[x][y]
  <2>1. DeliveredWords \subseteq Words /\ w \notin DeliveredWords
    BY SomeWords DEF DeliveredWords
  <2>2. drhd \in [Units -> [Words -> WordSets]]
    BY DEF VtdInv, TypeInv, UnitsTyped
  <2> QED
    BY <1>2, <2>1, <2>2
<1>4. UNCHANGED table
  BY DEF UnitContext, UnitIotlb
<1> QED
  BY <1>3, <1>4, SameDelivers

(* The unit taking its root table preserves what is delivered. *)
LEMMA UnitTakesTable ==
  ASSUME VtdInv, VtdInv', DeliverInv, kind = "unit", UNCHANGED <<kind, vcpu>>, NEW u \in Units, UnitRootTable(u)
  PROVE  DeliverInv'
<1>1. UnitChange(u, "gsts", drhd[u].gsts \cup {30})
  <2>1. drhd[u].gsts \in WordSets
    BY SomeWords DEF VtdInv, TypeInv, UnitsTyped
  <2>2. drhd[u].gsts \cup {30} \in WordSets
    BY <2>1 DEF WordSets
  <2>3. drhd' = [drhd EXCEPT ![u] = [drhd[u] EXCEPT !["gsts"] = drhd[u].gsts \cup {30}]]
    BY DEF UnitRootTable
  <2> QED
    BY <2>2, <2>3, SomeWords, UnitChanged
<1>2. /\ table[u].pending
      /\ table' = [table EXCEPT ![u] = [addr |-> Join(drhd[u].rtaddr_lo, drhd[u].rtaddr_hi), pending |-> FALSE]]
  BY DEF UnitRootTable
<1>3. /\ table'[u] = [addr |-> Join(drhd[u].rtaddr_lo, drhd[u].rtaddr_hi), pending |-> FALSE]
      /\ \A x \in Units : x # u => table'[x] = table[x]
  BY <1>2 DEF VtdInv, TypeInv
<1>4. \A x \in Units, y \in DeliveredWords \ {"gsts"} : drhd'[x][y] = drhd[x][y]
  BY <1>1, SomeWords DEF UnitChange, DeliveredWords
<1>5. \A x \in Units : (x # u => drhd'[x].gsts = drhd[x].gsts) /\ (30 \in drhd[x].gsts => 30 \in drhd'[x].gsts)
  BY <1>1, SomeWords DEF UnitChange
<1>6. InitializePart' /\ PmrPart' /\ RegionPart'
  BY <1>4, UnitOfDriver, UnitReturned DEF DeliverInv, InitializePart, PmrPart, RegionPart, ReturnedCall,
     DeliveredWords, Running
<1>7. \A x \in Units : 30 \in drhd'[x].gsts => kind = "unit" /\ ~table'[x].pending
  BY <1>3, <1>5 DEF DeliverInv, RootPart
<1>8. vcpu.pc \in {"rta_lo", "rta_hi", "srtp", "rtps"} => vcpu.u \in Units
  BY UnitOfDriver DEF Running
<1>9. vcpu.pc = "rtps" /\ ~table'[vcpu.u].pending => table'[vcpu.u].addr = LowWord(vcpu.arg)
  <2>1. CASE vcpu.pc = "rtps" /\ vcpu.u = u
    <3>1. drhd[u].rtaddr_lo = LowWord(vcpu.arg) /\ drhd[u].rtaddr_hi = {}
      BY <2>1 DEF DeliverInv, RootPart
    <3>2. Join(LowWord(vcpu.arg), {}) = LowWord(vcpu.arg)
      BY Halves, WordHalves
    <3> QED
      BY <1>3, <2>1, <3>1, <3>2
  <2>2. CASE vcpu.pc = "rtps" /\ vcpu.u # u
    BY <1>3, <1>8, <2>2 DEF DeliverInv, RootPart
  <2> QED
    BY <2>1, <2>2
<1>10. ReturnedCall("set_root_entry_table") /\ vcpu.ret
        => table'[vcpu.u] = [addr |-> LowWord(vcpu.arg), pending |-> FALSE]
  <2>1. SUFFICES ASSUME ReturnedCall("set_root_entry_table"), vcpu.ret
                 PROVE table'[vcpu.u] = [addr |-> LowWord(vcpu.arg), pending |-> FALSE]
    OBVIOUS
  <2>2. vcpu.u \in Units /\ table[vcpu.u] = [addr |-> LowWord(vcpu.arg), pending |-> FALSE]
    BY <2>1, UnitReturned DEF DeliverInv, RootPart, ReturnedCall
  <2>3. vcpu.u # u
    BY <1>2, <2>2
  <2> QED
    BY <1>3, <2>2, <2>3
<1>11. RootPart'
  <2>1. vcpu.pc \in {"rta_hi", "srtp", "rtps"} => drhd'[vcpu.u].rtaddr_lo = drhd[vcpu.u].rtaddr_lo
    BY <1>4, <1>8 DEF DeliveredWords
  <2>2. vcpu.pc \in {"srtp", "rtps"} => drhd'[vcpu.u].rtaddr_hi = drhd[vcpu.u].rtaddr_hi
    BY <1>4, <1>8 DEF DeliveredWords
  <2>3. vcpu.pc = "rtps" /\ 30 \in drhd[vcpu.u].gsts => 30 \in drhd'[vcpu.u].gsts
    BY <1>5, <1>8
  <2> QED
    BY <1>7, <1>9, <1>10, <2>1, <2>2, <2>3 DEF DeliverInv, RootPart, ReturnedCall
<1> QED
  BY <1>6, <1>11 DEF DeliverInv

(* The unit carrying out a translation command preserves what is delivered. *)
LEMMA UnitTranslates ==
  ASSUME VtdInv, VtdInv', DeliverInv, kind = "unit", UNCHANGED <<kind, vcpu>>, NEW u \in Units,
         UnitTranslation(u)
  PROVE  DeliverInv'
<1>1. UnitChange(u, "gsts", (IF 31 \in drhd[u].gsts THEN drhd[u].gsts \ {31} ELSE drhd[u].gsts \cup {31}))
  <2>1. drhd[u].gsts \in WordSets
    BY SomeWords DEF VtdInv, TypeInv, UnitsTyped
  <2>2. (IF 31 \in drhd[u].gsts THEN drhd[u].gsts \ {31} ELSE drhd[u].gsts \cup {31}) \in WordSets
    BY <2>1 DEF WordSets
  <2>3. drhd' = [drhd EXCEPT ![u] = [drhd[u] EXCEPT !["gsts"] =
            (IF 31 \in drhd[u].gsts THEN drhd[u].gsts \ {31} ELSE drhd[u].gsts \cup {31})]]
    BY DEF UnitTranslation
  <2> QED
    BY <2>2, <2>3, SomeWords, UnitChanged
<1>2. UNCHANGED table
  BY DEF UnitTranslation
<1>3. \A x \in Units, y \in DeliveredWords \ {"gsts"} : drhd'[x][y] = drhd[x][y]
  BY <1>1, SomeWords DEF UnitChange, DeliveredWords
<1>4. \A x \in Units : (30 \in drhd'[x].gsts) = (30 \in drhd[x].gsts)
  BY <1>1, SomeWords DEF UnitChange
<1>5. InitializePart' /\ PmrPart' /\ RegionPart'
  BY <1>3, UnitOfDriver, UnitReturned DEF DeliverInv, InitializePart, PmrPart, RegionPart, ReturnedCall,
     DeliveredWords, Running
<1>6. RootPart'
  <2>1. vcpu.pc \in {"rta_lo", "rta_hi", "srtp", "rtps"} => vcpu.u \in Units
    BY UnitOfDriver DEF Running
  <2> QED
    BY <1>2, <1>3, <1>4, <2>1 DEF DeliverInv, RootPart, ReturnedCall, DeliveredWords
<1> QED
  BY <1>5, <1>6 DEF DeliverInv

(* The unit changing its protected memory status preserves what is delivered. *)
LEMMA UnitProtects ==
  ASSUME VtdInv, VtdInv', DeliverInv, kind = "unit", UNCHANGED <<kind, vcpu>>, NEW u \in Units,
         UnitProtection(u)
  PROVE  DeliverInv'
<1>1. UnitChange(u, "pmen", (IF 0 \in drhd[u].pmen THEN drhd[u].pmen \ {0} ELSE drhd[u].pmen \cup {0}))
  <2>1. drhd[u].pmen \in WordSets
    BY SomeWords DEF VtdInv, TypeInv, UnitsTyped
  <2>2. (IF 0 \in drhd[u].pmen THEN drhd[u].pmen \ {0} ELSE drhd[u].pmen \cup {0}) \in WordSets
    BY <2>1 DEF WordSets
  <2>3. drhd' = [drhd EXCEPT ![u] = [drhd[u] EXCEPT !["pmen"] =
            (IF 0 \in drhd[u].pmen THEN drhd[u].pmen \ {0} ELSE drhd[u].pmen \cup {0})]]
    BY DEF UnitProtection
  <2> QED
    BY <2>2, <2>3, SomeWords, UnitChanged
<1>2. UNCHANGED table /\ (31 \in drhd[u].pmen) # (0 \in drhd[u].pmen)
  BY DEF UnitProtection
<1>3. \A x \in Units, y \in DeliveredWords \ {"pmen"} : drhd'[x][y] = drhd[x][y]
  BY <1>1, SomeWords DEF UnitChange, DeliveredWords
<1>4. /\ \A x \in Units : x # u => drhd'[x].pmen = drhd[x].pmen
      /\ 31 \notin drhd[u].pmen => 31 \notin drhd'[u].pmen /\ 0 \notin drhd'[u].pmen
  BY <1>1, <1>2, SomeWords DEF UnitChange
<1>5. InitializePart' /\ RegionPart'
  BY <1>3, UnitOfDriver, UnitReturned DEF DeliverInv, InitializePart, RegionPart, ReturnedCall,
     DeliveredWords, Running
<1>6. RootPart'
  <2>1. vcpu.pc \in {"rta_lo", "rta_hi", "srtp", "rtps"} => vcpu.u \in Units
    BY UnitOfDriver DEF Running
  <2> QED
    BY <1>2, <1>3, <2>1 DEF DeliverInv, RootPart, ReturnedCall, DeliveredWords
<1>7. PmrPart'
  BY <1>4, UnitOfDriver, UnitReturned DEF DeliverInv, PmrPart, ReturnedCall, Running
<1> QED
  BY <1>5, <1>6, <1>7 DEF DeliverInv

-----------------------------------------------------------------------------

(* Nothing is owed initially. *)
LEMMA DeliverInitially == VtdInit => DeliverInv
<1> SUFFICES ASSUME VtdInit PROVE DeliverInv
  OBVIOUS
<1>1. PICK pmen \in IF kind = "unit" THEN {{}, {0, 31}} ELSE {{}} :
        drhd = [u \in Units |-> [xmhfhwm_vtd_drhd_state[u] EXCEPT !.pmen = pmen]]
  BY DEF VtdInit
<1>2. \A u \in Units : drhd[u].fectl = {} /\ drhd[u].gsts = {}
  BY <1>1, SomeWords DEF xmhfhwm_vtd_drhd_state
<1>3. vcpu.pc = "idle"
  BY DEF VtdInit, NoDriver
<1> QED
  BY <1>2, <1>3 DEF DeliverInv, InitializePart, RootPart, PmrPart, RegionPart, ReturnedCall

(* Every step preserves what is delivered. *)
LEMMA DeliverPreserved == VtdInv /\ VtdInv' /\ DeliverInv /\ [VtdNext]_vtdVars => DeliverInv'
<1> SUFFICES ASSUME VtdInv, VtdInv', DeliverInv, [VtdNext]_vtdVars PROVE DeliverInv'
  OBVIOUS
<1>1. CASE VtdCall
  BY <1>1, CallDelivers
<1>2. CASE VtdStep
  <2>1. UNCHANGED <<kind, vcalls>>
    BY <1>2 DEF VtdStep
  <2>2. CASE drhd_invalidatecaches \/ drhd_translation
    BY <2>1, <2>2, InvalidateQuietly, TranslationQuietly, QuietlyDelivered
  <2> QED
    BY <1>2, <2>1, <2>2, ReadingDelivers, InitializeDelivers, RootDelivers, PmrDelivers, PlmDelivers,
       PhmDelivers,
       ReturningDelivers DEF VtdStep
<1>3. CASE UnitStep
  <2>1. kind = "unit" /\ UNCHANGED <<kind, vcpu>>
    BY <1>3 DEF UnitStep
  <2>2. PICK u \in Units : UnitContext(u) \/ UnitIotlb(u) \/ UnitRootTable(u) \/ UnitTranslation(u) \/ UnitProtection(u)
    BY <1>3 DEF UnitStep
  <2> QED
    BY <2>1, <2>2, UnitInvalidates, UnitTakesTable, UnitTranslates, UnitProtects
<1>4. CASE UNCHANGED vtdVars
  <2>1. UNCHANGED <<drhd, kind, table, vcpu>>
    BY <1>4 DEF vtdVars
  <2> QED
    BY <2>1 DEF DeliverInv, InitializePart, RootPart, PmrPart, RegionPart, ReturnedCall
<1> QED
  BY <1>1, <1>2, <1>3, <1>4 DEF VtdNext

(* The drivers leave in the unit what they were called for, and
   drhd_set_root_entry_table says that the unit uses the table of this call
   only when it does. *)
THEOREM DeliveryHolds == VtdSpec => []DriversDeliver
<1>1. VtdInv /\ DeliverInv => DriversDeliver
  <2> SUFFICES ASSUME VtdInv, DeliverInv, vcpu.pc = "returned", vcpu.u # "null" PROVE DriversDeliver
    BY DEF DriversDeliver, At
  <2>1. vcpu.fn \in {"set_plm", "set_phm"} => Join(vcpu.arg, {}) = vcpu.arg /\ Join(vcpu.limit, {}) = vcpu.limit
    BY RegionArguments, WordHalves
  <2>2. CASE vcpu.fn = "initialize"
    BY <2>2 DEF DriversDeliver, DeliverInv, InitializePart, ReturnedCall
  <2>3. CASE vcpu.fn = "set_root_entry_table"
    BY <2>3 DEF DriversDeliver, DeliverInv, RootPart, ReturnedCall
  <2>4. CASE vcpu.fn = "disable_pmr"
    BY <2>4 DEF DriversDeliver, DeliverInv, PmrPart, ReturnedCall
  <2>5. CASE vcpu.fn = "set_plm"
    BY <2>5 DEF DriversDeliver, DeliverInv, RegionPart, ReturnedCall
  <2>6. CASE vcpu.fn = "set_phm"
    BY <2>1, <2>6 DEF DriversDeliver, DeliverInv, RegionPart, ReturnedCall
  <2>7. CASE vcpu.fn \notin {"initialize", "set_root_entry_table", "disable_pmr", "set_plm", "set_phm"}
    BY <2>7 DEF DriversDeliver
  <2> QED
    BY <2>2, <2>3, <2>4, <2>5, <2>6, <2>7
<1>2. VtdSpec => [](VtdInv /\ DeliverInv)
  <2>1. VtdInit => DeliverInv
    BY DeliverInitially
  <2>2. VtdInv /\ VtdInv' /\ DeliverInv /\ [VtdNext]_vtdVars => DeliverInv'
    BY DeliverPreserved
  <2> QED
    BY <2>1, <2>2, Invariance, PTL DEF VtdSpec
<1> QED
  BY <1>1, <1>2, PTL
=============================================================================
