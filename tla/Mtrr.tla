-------------------------------- MODULE Mtrr --------------------------------
(***************************************************************************)
(* The memory type range registers and the functions of libxmhfhw that     *)
(* save, replace, restore and validate them around a measured launch       *)
(* (xmhfhw_cpu_mtrr*.c).  A step is the write of one register, or the      *)
(* reads of one register: only this code writes them, so that reading a    *)
(* register once or once for each field gives the same.                    *)
(***************************************************************************)
EXTENDS RegisterLayouts, Sequences, FiniteSets, FiniteSetsExt

CONSTANTS MAX_VARIABLE_MTRRS,
          Firmwares,   \* what the variable registers hold at first, a sequence of [base, mask],
                       \* and the number of calls made then: [pairs, calls]
          DefTypes,    \* what the default type register holds at first
          MtrrRanges,  \* [base, size] in bytes, below 2^31 together
          MtrrTypes    \* memory types asked for
ASSUME MtrrConstants ==
  /\ MAX_VARIABLE_MTRRS \in Nat
  /\ Firmwares \subseteq [pairs : Seq([base : SUBSET (0..63), mask : SUBSET (0..63)]), calls : Nat]
  /\ \A f \in Firmwares : Len(f.pairs) \in 1..255  \* the number has eight bits
  /\ DefTypes \subseteq SUBSET (0..63)
  /\ MtrrRanges \subseteq [base : Nat, size : Nat]
  /\ \A r \in MtrrRanges : (r.base + r.size) \div 65536 < 32768
  /\ MtrrTypes \subseteq SUBSET (0..7)

MTRR_TYPE_UNCACHABLE == {}
MTRR_TYPE_WRTHROUGH  == {2}
MTRR_TYPE_WRBACK     == {1, 2}
PAGE_SIZE_4K == 4096

VARIABLES msr,    \* [cap, def_type, base, mask]
          saved,  \* the mtrr_state_t of the caller
          mtrr,   \* the call that is running
          mcalls, \* calls still to be made
          kept    \* history: the registers when they were saved, <<>> before that
mtrrVars == <<msr, saved, mtrr, mcalls, kept>>

(* The number of variable registers that the processor reports. *)
vcnt ==
  LET Weight(b) == IF b \in Unpack(mtrr_cap_t, msr.cap).vcnt THEN 2^b ELSE 0
  IN  Weight(0) + Weight(1) + Weight(2) + Weight(3) + Weight(4) + Weight(5) + Weight(6) + Weight(7)
Pairs == 0..(vcnt - 1)
-----------------------------------------------------------------------------
NothingSaved ==
  [num_var_mtrrs |-> 0, def_type |-> Unpack(mtrr_def_type_t, {}),
   physbases |-> [i \in 0..(MAX_VARIABLE_MTRRS - 1) |-> Unpack(mtrr_physbase_t, {})],
   physmasks |-> [i \in 0..(MAX_VARIABLE_MTRRS - 1) |-> Unpack(mtrr_physmask_t, {})]]
NoMtrrCall == [pc |-> "idle", fn |-> "none", ndx |-> 0, base |-> 0, num_pages |-> 0,
               range |-> [base |-> 0, size |-> 0], mem_type |-> {}, enable |-> FALSE,
               result |-> FALSE]

(* What the firmware leaves. *)
MtrrInit ==
  /\ \E f \in Firmwares, def_type \in DefTypes :
       LET n == Len(f.pairs)
       IN  /\ msr = [cap |-> Bits(n) \cup {8, 10}, def_type |-> def_type,
                     base |-> [i \in 0..(n - 1) |-> f.pairs[i + 1].base],
                     mask |-> [i \in 0..(n - 1) |-> f.pairs[i + 1].mask]]
           /\ mcalls = f.calls
  /\ saved = NothingSaved /\ mtrr = NoMtrrCall
  /\ kept = <<>>

Calling(fn, pc) == [NoMtrrCall EXCEPT !.pc = pc, !.fn = fn]
MtrrCall ==
  /\ mtrr.pc = "idle" /\ mcalls > 0 /\ mcalls' = mcalls - 1
  /\ \/ /\ mtrr' = Calling("save", "save") /\ kept' = <<msr>>
     \/ /\ mtrr' = Calling("restore", "disable") /\ UNCHANGED kept
     \/ /\ mtrr' = Calling("restore", "returned")  \* a null pointer
        /\ UNCHANGED kept
     \/ /\ mtrr' = Calling("validate", "validate") /\ UNCHANGED kept
     \/ /\ \E enable \in BOOLEAN : mtrr' = [Calling("set_all", "all") EXCEPT !.enable = enable]
        /\ UNCHANGED kept
     \/ /\ \E range \in MtrrRanges, type \in MtrrTypes :
             mtrr' = [Calling("set_mem_type", "default") EXCEPT
                        !.range = range, !.base = range.base, !.mem_type = type]
        /\ UNCHANGED kept
  /\ UNCHANGED <<msr, saved>>

MtrrAt(pc) == mtrr.pc = pc
MtrrGoto(pc, ndx) == mtrr' = [mtrr EXCEPT !.pc = pc, !.ndx = ndx]
MtrrReturn(result) == mtrr' = [mtrr EXCEPT !.pc = "returned", !.result = result]

(* A member of a register is assigned; the register is packed and written. *)
WithMember(layout, bits, f, value) == Pack(layout, [Unpack(layout, bits) EXCEPT ![f] = value])
(* Mutant: the fixed ranges are disabled instead. *)
EnabledFixed(def_type, enable) ==
  WithMember(mtrr_def_type_t, def_type, "fe", IF enable THEN {0} ELSE {})
Enabled(def_type, enable) ==
  WithMember(mtrr_def_type_t, def_type, "e", IF enable THEN {0} ELSE {})
set_all_mtrrs ==
  /\ MtrrAt("all")
  /\ msr' = [msr EXCEPT !.def_type = Enabled(@, mtrr.enable)]
  /\ MtrrReturn(TRUE) /\ UNCHANGED saved

(* The whole of save is reads; the last of the variable registers are left
   out when the CPU has more than the structure holds. *)
save_mtrrs ==
  /\ MtrrAt("save")
  /\ LET n == IF vcnt > MAX_VARIABLE_MTRRS THEN MAX_VARIABLE_MTRRS ELSE vcnt
         all == DOMAIN saved.physmasks
     IN  saved' = [num_var_mtrrs |-> n, def_type |-> Unpack(mtrr_def_type_t, msr.def_type),
           physmasks |-> [i \in all |-> IF i < n THEN Unpack(mtrr_physmask_t, msr.mask[i])
                                        ELSE saved.physmasks[i]],
           physbases |-> [i \in all |-> IF i < n THEN Unpack(mtrr_physbase_t, msr.base[i])
                                        ELSE saved.physbases[i]]]
  /\ MtrrReturn(TRUE) /\ UNCHANGED msr

(* All are disabled first; the default type, which enables them again if
   they were enabled, is restored last. *)
restore_mtrrs ==
  LET ndx == mtrr.ndx
      next == IF ndx < saved.num_var_mtrrs THEN "mask" ELSE "def_type"
  IN  /\ \/ /\ MtrrAt("disable")
            /\ msr' = [msr EXCEPT !.def_type = Enabled(@, FALSE)]
            /\ MtrrGoto("next", 0)
         \/ /\ MtrrAt("next") /\ next = "mask"
            /\ msr' = [msr EXCEPT !.mask[ndx] = Pack(mtrr_physmask_t, saved.physmasks[ndx])]
            /\ MtrrGoto("base", ndx)
         \/ /\ MtrrAt("base")
            /\ msr' = [msr EXCEPT !.base[ndx] = Pack(mtrr_physbase_t, saved.physbases[ndx])]
            /\ MtrrGoto("next", ndx + 1)
         \/ /\ MtrrAt("next") /\ next = "def_type"
            /\ msr' = [msr EXCEPT !.def_type = Pack(mtrr_def_type_t, saved.def_type)]
            /\ MtrrReturn(TRUE)
      /\ UNCHANGED saved

(* The type of a range of memory.  The pages are given to the registers in
   powers of two, the largest first; when the last register is used the
   answer is FALSE, also when no page is left. *)
fls(mask) == IF mask = 0 THEN 0 ELSE Max(Bits(mask)) + 1
(* Mutant: the type of the other pages is left as it was. *)
UncachedFixed(def_type) == WithMember(mtrr_def_type_t, def_type, "fe", {})
Uncached(def_type) ==
  WithMember(mtrr_def_type_t, WithMember(mtrr_def_type_t, def_type, "fe", {}),
             "type", MTRR_TYPE_UNCACHABLE)
PageCount(size) == (size + PAGE_SIZE_4K - 1) \div PAGE_SIZE_4K
set_mem_type ==
  LET ndx == mtrr.ndx
      exponent == fls(mtrr.num_pages) - 1
      left == mtrr.num_pages - 2^exponent
  IN  /\ \/ /\ MtrrAt("default")
            /\ msr' = [msr EXCEPT !.def_type = Uncached(@)]
            /\ IF vcnt > MAX_VARIABLE_MTRRS THEN MtrrReturn(FALSE) ELSE MtrrGoto("clear", 0)
         \/ /\ MtrrAt("clear") /\ ndx < vcnt
            /\ msr' = [msr EXCEPT !.mask[ndx] = WithMember(mtrr_physmask_t, @, "v", {})]
            /\ MtrrGoto("clear", ndx + 1)
         \/ /\ MtrrAt("clear") /\ ndx = vcnt
            /\ mtrr' = [mtrr EXCEPT !.pc = "range_base", !.ndx = 0,
                                    !.num_pages = PageCount(mtrr.range.size)]
            /\ UNCHANGED msr
         \/ /\ MtrrAt("range_base") /\ mtrr.num_pages = 0
            /\ MtrrReturn(TRUE) /\ UNCHANGED msr
         \/ /\ MtrrAt("range_base") /\ mtrr.num_pages > 0
            /\ msr' = [msr EXCEPT !.base[ndx] =
                 Pack(mtrr_physbase_t, [type |-> mtrr.mem_type, reserved1 |-> {}, reserved2 |-> {},
                                        base |-> Bits(mtrr.base \div PAGE_SIZE_4K)])]
            /\ MtrrGoto("range_mask", ndx)
         \/ /\ MtrrAt("range_mask")
            /\ msr' = [msr EXCEPT !.mask[ndx] =
                 Pack(mtrr_physmask_t, [v |-> {0}, reserved1 |-> {}, reserved2 |-> {},
                                        mask |-> exponent..31])]
            /\ mtrr' = [mtrr EXCEPT !.ndx = ndx + 1, !.num_pages = left,
                                    !.base = @ + 2^exponent * PAGE_SIZE_4K,
                                    !.pc = IF ndx + 1 = vcnt THEN "returned" ELSE "range_base"]
      /\ UNCHANGED saved
-----------------------------------------------------------------------------
(* validate_mtrrs.  A mask is contiguous when its bits are one from the
   lowest one up; regions with contiguous masks overlap when one contains
   the other. *)
ValidPairs == {i \in 0..(saved.num_var_mtrrs - 1) : saved.physmasks[i].v # {}}
MaskOf(i) == saved.physmasks[i].mask
BaseOf(i) == saved.physbases[i].base
TypeOf(i) == saved.physbases[i].type
Contiguous(mask) == mask = {} \/ mask = (Min(mask)..23)
(* Region j, or a part of the address space that looks the same to it, holds
   the base of region i. *)
Meets(i, j) == BaseOf(i) \cap MaskOf(i) \cap MaskOf(j) = BaseOf(j) \cap MaskOf(j)
Compatible(s, t) ==
  \/ s = t
  \/ MTRR_TYPE_UNCACHABLE \in {s, t}
  \/ {s, t} = {MTRR_TYPE_WRTHROUGH, MTRR_TYPE_WRBACK}
CoveredUncachable(i) ==
  \E j \in ValidPairs : TypeOf(j) = MTRR_TYPE_UNCACHABLE /\ Meets(i, j) /\ MaskOf(j) \subseteq MaskOf(i)
ValidMtrrs ==
  \/ saved.def_type.e = {}
  \/ /\ vcnt >= saved.num_var_mtrrs
     /\ \A i \in ValidPairs : Contiguous(MaskOf(i))
     /\ \A n, i \in ValidPairs :
          n < i /\ (Meets(n, i) \/ Meets(i, n)) =>
            Compatible(TypeOf(n), TypeOf(i)) \/ CoveredUncachable(n) \/ CoveredUncachable(i)
validate_mtrrs ==
  /\ MtrrAt("validate")
  /\ MtrrReturn(ValidMtrrs) /\ UNCHANGED <<msr, saved>>

MtrrDone == MtrrAt("returned") /\ mtrr' = NoMtrrCall /\ UNCHANGED <<msr, saved>>
MtrrStep ==
  /\ set_all_mtrrs \/ save_mtrrs \/ restore_mtrrs \/ set_mem_type \/ validate_mtrrs \/ MtrrDone
  /\ UNCHANGED <<mcalls, kept>>
MtrrNext == MtrrCall \/ MtrrStep
MtrrSpec == MtrrInit /\ [][MtrrNext]_mtrrVars
-----------------------------------------------------------------------------
MtrrTypeOK ==
  /\ msr.cap \subseteq 0..63 /\ msr.def_type \subseteq 0..63
  /\ msr.base \in [Pairs -> SUBSET (0..63)] /\ msr.mask \in [Pairs -> SUBSET (0..63)]
  /\ saved.num_var_mtrrs \in 0..MAX_VARIABLE_MTRRS
  /\ mtrr.ndx \in 0..vcnt
  /\ mtrr.num_pages \in Nat /\ mtrr.result \in BOOLEAN
  /\ mcalls \in Nat

(* Whatever has changed the registers since they were saved, restoring
   gives them back, reserved bits included, as many as the structure
   holds; and while they are being replaced no range has a mixture of old
   and new: all of them are disabled. *)
MtrrRestored ==
  /\ mtrr.fn = "restore" /\ mtrr.pc \in {"next", "base"} => 11 \notin msr.def_type
  /\ mtrr.fn = "restore" /\ MtrrAt("returned") /\ mtrr.result /\ kept # <<>> =>
       /\ msr.def_type = kept[1].def_type
       /\ \A i \in Pairs : i < MAX_VARIABLE_MTRRS =>
            msr.base[i] = kept[1].base[i] /\ msr.mask[i] = kept[1].mask[i]

(* The type the processor gives a page: of the regions that hold it, or the
   default. *)
Holds(i, page) ==
  LET mask == Field(msr.mask[i], mtrr_physmask_t.mask)
  IN  11 \in msr.mask[i] /\ page \cap mask = Field(msr.base[i], mtrr_physbase_t.base) \cap mask
TypesOf(page) ==
  LET regions == {i \in Pairs : Holds(i, page)}
  IN  IF regions = {} THEN {Field(msr.def_type, mtrr_def_type_t.type)}
      ELSE {Field(msr.base[i], mtrr_physbase_t.type) : i \in regions}

(* set_mem_type answers TRUE exactly when a register is left over, and then
   the pages of the range have the type and all others are uncachable,
   provided that the range starts at a multiple of the largest power of two
   that fits into it. *)
SamplePages == 0..31 \cup {2^22 + 1, 2^23}
MtrrTypeCovered ==
  mtrr.fn = "set_mem_type" /\ MtrrAt("returned") =>
    LET first == mtrr.range.base \div PAGE_SIZE_4K
        pages == PageCount(mtrr.range.size)
        aligned == pages = 0 \/ first % 2^(fls(pages) - 1) = 0
    IN  /\ mtrr.result = (vcnt <= MAX_VARIABLE_MTRRS /\ Cardinality(Bits(pages)) < vcnt)
        /\ mtrr.result /\ aligned =>
             \A page \in SamplePages :
               TypesOf(Bits(page)) = IF page \in first..(first + pages - 1)
                                     THEN {mtrr.mem_type} ELSE {MTRR_TYPE_UNCACHABLE}

(* When the saved registers are found valid, every page has a type that the
   processor defines: one type, or one that uncachable overrides, or write
   through over write back.  When they are not, two regions do conflict or a
   mask has a hole. *)
SavedTypes(page) ==
  {TypeOf(i) : i \in {i \in ValidPairs : page \cap MaskOf(i) = BaseOf(i) \cap MaskOf(i)}}
Defined(types) ==
  \/ Cardinality(types) <= 1
  \/ MTRR_TYPE_UNCACHABLE \in types
  \/ types = {MTRR_TYPE_WRTHROUGH, MTRR_TYPE_WRBACK}
RegionPages == SUBSET (21..23)
MtrrValidated ==
  mtrr.fn = "validate" /\ MtrrAt("returned") /\ saved.def_type.e # {} =>
    LET holes == \E i \in ValidPairs : ~Contiguous(MaskOf(i))
    IN  mtrr.result = (~holes /\ \A page \in RegionPages : Defined(SavedTypes(page)))
=============================================================================
