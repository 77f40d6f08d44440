----------------------------- MODULE VtdDrivers -----------------------------
(***************************************************************************)
(* The VT-d drivers of libxmhfhw (xmhfhw_vtd_*.c) running on a CPU, and    *)
(* the units they program.                                                 *)
(*                                                                         *)
(* A step of the CPU is one access to a register.  The unpack_ macros name *)
(* their argument once for each field, so that unpacking a register that   *)
(* is read reads it once for each field, the highest first.  A field lies  *)
(* in one half of its register: the two loads of a 64-bit read are one     *)
(* step.  The two stores of a 64-bit write are two, low word first.        *)
(*                                                                         *)
(* The units are those of the hardware model, which carry out a command    *)
(* while it is written ("hwm"), or units as the drivers expect them, with  *)
(* polling loops and checks of the granularity: they carry out a command   *)
(* some time later ("unit", external to the repository).                   *)
(***************************************************************************)
EXTENDS VtdHwm, Sequences

CONSTANTS MaxVtdCalls,  \* calls made in one behaviour
          RootTables,   \* addresses of root tables, of 64 bits
          Regions       \* bases and limits of protected memory
ASSUME VtdConstants ==
  /\ MaxVtdCalls \in Nat
  /\ RootTables \subseteq SUBSET (0..63) /\ Regions \subseteq SUBSET (0..31)

VARIABLES drhd,    \* the registers of the units
          kind,    \* of the units: "hwm" or "unit"
          table,   \* unit |-> the root table it uses, whether it is to take another
          vcpu,    \* the driver that is running
          vcalls,  \* calls made so far
          inval,   \* history: caches of a unit invalidated since the call
          asked    \* history: translation of a unit as it was last asked for

vtdVars == <<drhd, kind, table, vcpu, vcalls, inval, asked>>
-----------------------------------------------------------------------------
(* Mutant: the limit is written over the base. *)
LowOfBaseTwice ==
  [cap |-> "cap_lo", ecap |-> "ecap_lo", rtaddr |-> "rtaddr_lo", ccmd |-> "ccmd_lo",
   phmbase |-> "phmbase_lo", phmlimit |-> "phmbase_lo", iotlb |-> "iotlb_lo", iva |-> "iva_lo"]

(* _vtd_reg_read and _vtd_reg_write. *)
Regs32 == {"ver", "gcmd", "gsts", "fsts", "fectl", "pmen", "plmbase", "plmlimit"}
LowOf ==
  [cap |-> "cap_lo", ecap |-> "ecap_lo", rtaddr |-> "rtaddr_lo", ccmd |-> "ccmd_lo",
   phmbase |-> "phmbase_lo", phmlimit |-> "phmlimit_lo", iotlb |-> "iotlb_lo", iva |-> "iva_lo"]
RegAddr(u, reg) == WordAddr(u, IF reg \in Regs32 THEN reg ELSE LowOf[reg])
vtd_reg_read(u, reg) ==
  IF reg \in Regs32 THEN VtdRead(drhd, RegAddr(u, reg))
  ELSE Join(VtdRead(drhd, RegAddr(u, reg)), VtdRead(drhd, RegAddr(u, reg) + 4))

(* A unit that works on its own stores what is written, except the status
   of the protected memory, which is its own, and forgets that a root table
   was set when it is told to set one. *)
UnitStore(regs, word, value) ==
  CASE word = "gcmd" /\ 30 \in value -> [regs EXCEPT !.gcmd = value, !.gsts = @ \ {30}]
    [] word = "pmen" -> [regs EXCEPT !.pmen = (value \ {0}) \cup (@ \cap {0})]
    [] OTHER -> [regs EXCEPT ![word] = value]
StoreAt(addr, value) ==
  IF kind = "hwm" THEN VtdWrite(drhd, addr, value)
  ELSE [drhd EXCEPT ![Decode[addr][1]] = UnitStore(@, Decode[addr][2], value)]
Store(addr, value) == drhd' = StoreAt(addr, value)

Layout ==
  [cap |-> VTD_CAP_REG, fectl |-> VTD_FECTL_REG, ccmd |-> VTD_CCMD_REG, iotlb |-> VTD_IOTLB_REG,
   gsts |-> VTD_GSTS_REG, pmen |-> VTD_PMEN_REG]
FieldOrder ==
  [cap |-> <<"rsvdz2", "drd", "dwd", "mamv", "nfr", "psi", "rsvdz1", "sps", "fro", "isoch", "zlr",
             "mgaw", "rsvdz0", "sagaw", "cm", "phmr", "plmr", "rwbf", "afl", "nd">>,
   fectl |-> <<"im", "ip", "rsvdp0">>,
   ccmd |-> <<"icc", "cirg", "caig", "rsvdz0", "fm", "sid", "did">>,
   iotlb |-> <<"ivt", "iirg", "iaig", "rsvdz1", "dr", "dw", "did", "rsvdz0">>,
   gsts |-> <<"tes", "rtps", "fls", "afls", "wbfs", "qies", "ires", "irtps", "cfis", "rsvdz0">>,
   pmen |-> <<"epm", "rsvdp", "prs">>]
FieldNames ==
  (UNION {DOMAIN Layout[r] : r \in DOMAIN Layout}) \cup DOMAIN VTD_GCMD_REG \cup DOMAIN VTD_RTADDR_REG

(* The places where a driver unpacks a register, and which. *)
Unpacks ==
  [cap |-> "cap", fectl |-> "fectl", fectl_check |-> "fectl", ccmd_idle |-> "ccmd",
   ccmd_done |-> "ccmd", iotlb_done |-> "iotlb", rtps |-> "gsts", tes_first |-> "gsts",
   tes_wait |-> "gsts", prs_wait |-> "pmen"]
Fields(pc) == FieldOrder[Unpacks[pc]]
-----------------------------------------------------------------------------
Zeroed == [f \in FieldNames |-> {}]
NoDriver == [pc |-> "idle", fn |-> "none", u |-> "null", arg |-> {}, limit |-> {}, s |-> Zeroed,
             n |-> 0, ret |-> FALSE]
(* Firmware may have left the protected regions of a unit enabled. *)
VtdInit ==
  /\ kind \in {"hwm", "unit"}
  /\ \E pmen \in IF kind = "unit" THEN {{}, {0, 31}} ELSE {{}} :
       drhd = [u \in Units |-> [xmhfhwm_vtd_drhd_state[u] EXCEPT !.pmen = pmen]]
  /\ table = [u \in Units |-> [addr |-> {}, pending |-> FALSE]]
  /\ vcpu = NoDriver
  /\ vcalls = 0
  /\ inval = [u \in Units |-> {}]
  /\ asked = [u \in Units |-> "nothing"]

(* The first access of each driver, by its function. *)
Entry ==
  [initialize |-> "cap", invalidatecaches |-> "ccmd_idle", set_root_entry_table |-> "rta_lo",
   enable_translation |-> "gcmd_te", disable_translation |-> "gcmd_te", disable_pmr |-> "pmen",
   set_plm |-> "plmbase", set_phm |-> "phmbase_lo"]
Args(fn) ==
  CASE fn = "set_root_entry_table" -> RootTables \X {{}}
    [] fn \in {"set_plm", "set_phm"} -> Regions \X Regions
    [] OTHER -> {<<{}, {}>>}

(* A call of a driver for a unit, or for a null pointer, for which every
   driver returns at once. *)
VtdCall ==
  /\ vcpu.pc = "idle" /\ vcalls < MaxVtdCalls
  /\ \E fn \in DOMAIN Entry, u \in Units \cup {"null"} : \E args \in Args(fn) :
       /\ vcpu' = [NoDriver EXCEPT !.pc = IF u = "null" THEN "returned" ELSE Entry[fn],
                                   !.fn = fn, !.u = u, !.arg = args[1], !.limit = args[2]]
       /\ inval' = IF fn = "invalidatecaches" /\ u \in Units THEN [inval EXCEPT ![u] = {}] ELSE inval
       /\ asked' = IF fn \in {"set_root_entry_table", "enable_translation", "disable_translation"}
                      /\ u \in Units
                   THEN [asked EXCEPT ![u] = "nothing"] ELSE asked
  /\ vcalls' = vcalls + 1
  /\ UNCHANGED <<drhd, kind, table>>

At(pc) == vcpu.pc = pc
Goto(pc) == vcpu' = [vcpu EXCEPT !.pc = pc, !.n = 0]
Return(v) == vcpu' = [vcpu EXCEPT !.pc = "returned", !.n = 0, !.ret = v, !.s = Zeroed]
Unpacked(pc) == At(pc) /\ vcpu.n = Len(Fields(pc))

ReadField ==
  /\ vcpu.pc \in DOMAIN Unpacks /\ vcpu.n < Len(Fields(vcpu.pc))
  /\ LET f == Fields(vcpu.pc)[vcpu.n + 1]
         reg == Unpacks[vcpu.pc]
     IN  vcpu' = [vcpu EXCEPT !.n = @ + 1,
                              !.s[f] = Field(vtd_reg_read(vcpu.u, reg), Layout[reg][f])]
  /\ UNCHANGED <<drhd, table, inval, asked>>

(* Steps of a driver: one word written, a decision on what was unpacked. *)
Write(pc, addr, value) == At(pc) /\ Store(addr, value) /\ UNCHANGED <<inval, asked>>
Decide(pc) == Unpacked(pc) /\ UNCHANGED <<drhd, table, inval>>
Reg(reg) == RegAddr(vcpu.u, reg)
-----------------------------------------------------------------------------
drhd_initialize ==
  LET s == vcpu.s
  IN  \/ /\ Decide("cap") /\ UNCHANGED asked
         /\ IF s.plmr # {} /\ s.phmr # {} /\ s.sagaw \cap {1, 2} # {}
            THEN Goto("fectl") ELSE Return(FALSE)
      \/ /\ Unpacked("fectl")
         /\ Write("fectl", Reg("fectl"), Pack(VTD_FECTL_REG, [s EXCEPT !.im = {0}]))
         /\ Goto("fectl_check") /\ UNCHANGED table
      \/ /\ Decide("fectl_check") /\ UNCHANGED asked
         /\ Return(s.im # {})

(* Global invalidation of the context cache, then of the IOTLB.  A unit of
   the hardware model invalidates while the command word is written. *)
ContextCommand == Pack(VTD_CCMD_REG, [Zeroed EXCEPT !.cirg = {0}, !.icc = {0}])
IotlbCommand == Pack(VTD_IOTLB_REG, [Zeroed EXCEPT !.iirg = {0}, !.ivt = {0}])
Invalidated(u, cache) ==
  [inval EXCEPT ![u] = IF cache = "context" \/ "context" \in @ THEN @ \cup {cache} ELSE @]
WriteCommand(pc, addr, value, cache) ==
  /\ At(pc) /\ Store(addr, HighWord(value))
  /\ inval' = IF kind = "hwm" THEN Invalidated(vcpu.u, cache) ELSE inval
  /\ UNCHANGED <<table, asked>>
(* The granularity that was performed is compared, not the one requested
   (the mutant). *)
ContextRequested(s) == s.cirg = {0}
WholeContext(s) == s.caig = {0}
WholeIotlb(s) == s.iaig = {0}
drhd_invalidatecaches ==
  LET s == vcpu.s
  IN  \/ /\ Decide("ccmd_idle") /\ UNCHANGED asked
         /\ IF s.icc = {} THEN Goto("ccmd_lo") ELSE Goto("ccmd_idle")
      \/ /\ Write("ccmd_lo", Reg("ccmd"), LowWord(ContextCommand))
         /\ Goto("ccmd_hi") /\ UNCHANGED table
      \/ /\ WriteCommand("ccmd_hi", Reg("ccmd") + 4, ContextCommand, "context")
         /\ Goto("ccmd_done")
      \/ /\ Decide("ccmd_done") /\ UNCHANGED asked
         /\ CASE s.icc # {} -> Goto("ccmd_done")
              [] s.icc = {} /\ ~WholeContext(s) -> Return(FALSE)
              [] s.icc = {} /\ WholeContext(s) -> Goto("iotlb_lo")
      \/ /\ Write("iotlb_lo", Reg("iotlb"), LowWord(IotlbCommand))
         /\ Goto("iotlb_hi") /\ UNCHANGED table
      \/ /\ WriteCommand("iotlb_hi", Reg("iotlb") + 4, IotlbCommand, "iotlb")
         /\ Goto("iotlb_done")
      \/ /\ Decide("iotlb_done") /\ UNCHANGED asked
         /\ IF s.ivt # {} THEN Goto("iotlb_done") ELSE Return(WholeIotlb(s))

(* The address is cut to 32 bits; the status is read once. *)
drhd_set_root_entry_table ==
  LET rtaddr == Pack(VTD_RTADDR_REG, Unpack(VTD_RTADDR_REG, LowWord(vcpu.arg)))
      gcmd == Pack(VTD_GCMD_REG, [Zeroed EXCEPT !.srtp = {0}])
  IN  \/ /\ Write("rta_lo", Reg("rtaddr"), LowWord(rtaddr))
         /\ Goto("rta_hi") /\ UNCHANGED table
      \/ /\ Write("rta_hi", Reg("rtaddr") + 4, HighWord(rtaddr))
         /\ Goto("srtp") /\ UNCHANGED table
      \/ /\ Write("srtp", Reg("gcmd"), gcmd)
         /\ table' = [table EXCEPT ![vcpu.u].pending = (kind = "unit")]
         /\ Goto("rtps")
      \/ /\ Decide("rtps") /\ UNCHANGED asked
         /\ Return(vcpu.s.rtps # {})

(* The status is read once for nothing and then until it is as asked. *)
drhd_translation ==
  LET on == vcpu.fn = "enable_translation"
  IN  \/ /\ Write("gcmd_te", Reg("gcmd"),
                  Pack(VTD_GCMD_REG, [Zeroed EXCEPT !.te = IF on THEN {0} ELSE {}]))
         /\ Goto("tes_first") /\ UNCHANGED table
      \/ /\ Decide("tes_first") /\ UNCHANGED asked
         /\ Goto("tes_wait")
      \/ /\ Decide("tes_wait")
         /\ IF on = (vcpu.s.tes # {})
            THEN /\ Return(FALSE)
                 /\ asked' = [asked EXCEPT ![vcpu.u] = IF on THEN "on" ELSE "off"]
            ELSE Goto("tes_wait") /\ UNCHANGED asked

drhd_disable_pmr ==
  \/ /\ Write("pmen", Reg("pmen"), Pack(VTD_PMEN_REG, Zeroed))
     /\ Goto("prs_wait") /\ UNCHANGED table
  \/ /\ Decide("prs_wait") /\ UNCHANGED asked
     /\ IF vcpu.s.prs = {} THEN Return(FALSE) ELSE Goto("prs_wait")

drhd_set_plm_base_and_limit ==
  \/ /\ Write("plmbase", Reg("plmbase"), vcpu.arg)
     /\ Goto("plmlimit") /\ UNCHANGED table
  \/ /\ Write("plmlimit", Reg("plmlimit"), vcpu.limit)
     /\ Return(FALSE) /\ UNCHANGED table

drhd_set_phm_base_and_limit ==
  \/ /\ Write("phmbase_lo", Reg("phmbase"), LowWord(vcpu.arg))
     /\ Goto("phmbase_hi") /\ UNCHANGED table
  \/ /\ Write("phmbase_hi", Reg("phmbase") + 4, HighWord(vcpu.arg))
     /\ Goto("phmlimit_lo") /\ UNCHANGED table
  \/ /\ Write("phmlimit_lo", Reg("phmlimit"), LowWord(vcpu.limit))
     /\ Goto("phmlimit_hi") /\ UNCHANGED table
  \/ /\ Write("phmlimit_hi", Reg("phmlimit") + 4, HighWord(vcpu.limit))
     /\ Return(FALSE) /\ UNCHANGED table

VtdReturn ==
  /\ At("returned") /\ vcpu' = NoDriver
  /\ UNCHANGED <<drhd, table, inval, asked>>

VtdStep ==
  /\ \/ ReadField \/ drhd_initialize \/ drhd_invalidatecaches \/ drhd_set_root_entry_table
     \/ drhd_translation \/ drhd_disable_pmr \/ drhd_set_plm_base_and_limit
     \/ drhd_set_phm_base_and_limit \/ VtdReturn
  /\ UNCHANGED <<kind, vcalls>>
-----------------------------------------------------------------------------
(* The unit that works on its own carries out what it was told: it
   invalidates a cache at the granularity it is able to, takes the root
   table, and makes its status follow the bits that enable it. *)
UnitContext(u) ==
  /\ 31 \in drhd[u].ccmd_hi
  /\ \E caig \in {27, 28} :
       /\ drhd' = [drhd EXCEPT ![u].ccmd_hi = (@ \ {31, 28, 27}) \cup {caig}]
       /\ inval' = IF caig = 27 THEN Invalidated(u, "context") ELSE inval
  /\ UNCHANGED table
UnitIotlb(u) ==
  /\ 31 \in drhd[u].iotlb_hi
  /\ \E iaig \in {25, 26} :
       /\ drhd' = [drhd EXCEPT ![u].iotlb_hi = (@ \ {31, 27, 26, 25}) \cup {iaig}]
       /\ inval' = IF iaig = 25 THEN Invalidated(u, "iotlb") ELSE inval
  /\ UNCHANGED table
UnitRootTable(u) ==
  /\ table[u].pending
  /\ table' = [table EXCEPT ![u] = [addr |-> Join(drhd[u].rtaddr_lo, drhd[u].rtaddr_hi),
                                    pending |-> FALSE]]
  /\ drhd' = [drhd EXCEPT ![u].gsts = @ \cup {30}]
  /\ UNCHANGED inval
UnitTranslation(u) ==
  /\ (31 \in drhd[u].gcmd) # (31 \in drhd[u].gsts)
  /\ drhd' = [drhd EXCEPT ![u].gsts = IF 31 \in @ THEN @ \ {31} ELSE @ \cup {31}]
  /\ UNCHANGED <<table, inval>>
UnitProtection(u) ==
  /\ (31 \in drhd[u].pmen) # (0 \in drhd[u].pmen)
  /\ drhd' = [drhd EXCEPT ![u].pmen = IF 0 \in @ THEN @ \ {0} ELSE @ \cup {0}]
  /\ UNCHANGED <<table, inval>>
UnitStep ==
  /\ kind = "unit"
  /\ \E u \in Units : UnitContext(u) \/ UnitIotlb(u) \/ UnitRootTable(u) \/ UnitTranslation(u)
                      \/ UnitProtection(u)
  /\ UNCHANGED <<kind, vcpu, vcalls, asked>>

VtdNext == VtdCall \/ VtdStep \/ UnitStep
(* The processor runs the driver, and a unit eventually does what it was
   told: without it the loops of the drivers would not end. *)
VtdSpec == VtdInit /\ [][VtdNext]_vtdVars /\ WF_vtdVars(VtdStep) /\ WF_vtdVars(UnitStep)
-----------------------------------------------------------------------------
PcLabels == DOMAIN Unpacks \cup {"idle", "returned", "ccmd_lo", "ccmd_hi", "iotlb_lo", "iotlb_hi",
  "rta_lo", "rta_hi", "srtp", "gcmd_te", "pmen", "plmbase", "plmlimit", "phmbase_lo", "phmbase_hi",
  "phmlimit_lo", "phmlimit_hi"}

(* Every word of a unit holds 32 bits, every field of a driver bits of a
   64-bit register. *)
VtdTypeOK ==
  /\ drhd \in [Units -> [Words -> SUBSET (0..31)]]
  /\ kind \in {"hwm", "unit"}
  /\ table \in [Units -> [addr : SUBSET (0..63), pending : BOOLEAN]]
  /\ vcpu.pc \in PcLabels
  /\ vcpu.fn \in DOMAIN Entry \cup {"none"}
  /\ vcpu.u \in Units \cup {"null"}
  /\ vcpu.n \in 0..20
  /\ vcalls \in 0..MaxVtdCalls
  /\ inval \in [Units -> SUBSET {"context", "iotlb"}]
  /\ asked \in [Units -> {"nothing", "on", "off"}]

(* A driver that says the caches are invalidated (the last return of
   drhd_invalidatecaches) says so of a unit that has invalidated, since the
   call, the whole context cache and after it the whole IOTLB: the
   granularity that is compared is the one of this command. *)
InvalidationDone ==
  At("returned") /\ vcpu.fn = "invalidatecaches" /\ vcpu.ret =>
    inval[vcpu.u] = {"context", "iotlb"}

(* Once drhd_enable_translation or drhd_disable_translation has returned,
   the unit translates, or does not, as it was asked, until the next
   command is given to it: the status the driver has seen does not go back. *)
TranslationAsAsked ==
  \A u \in Units : asked[u] # "nothing" => (31 \in drhd[u].gsts) = (asked[u] = "on")

(* What the other drivers leave in the unit when they return.  When
   drhd_set_root_entry_table says that the unit has the table, the unit uses
   the table of this call, at the address cut to 32 bits, and no earlier
   one; fault interrupts are masked and the rest of their register is kept,
   protection is off, the protected regions are as asked. *)
DriversDeliver ==
  At("returned") /\ vcpu.u # "null" =>
    LET regs == drhd[vcpu.u]
    IN  CASE vcpu.fn = "initialize" /\ vcpu.ret -> regs.fectl = {31} /\ {5, 6} \subseteq regs.cap_lo
          [] vcpu.fn = "set_root_entry_table" /\ vcpu.ret ->
               table[vcpu.u] = [addr |-> LowWord(vcpu.arg), pending |-> FALSE]
          [] vcpu.fn = "disable_pmr" -> 0 \notin regs.pmen
          [] vcpu.fn = "set_plm" -> regs.plmbase = vcpu.arg /\ regs.plmlimit = vcpu.limit
          [] vcpu.fn = "set_phm" -> Join(regs.phmbase_lo, regs.phmbase_hi) = vcpu.arg
                                    /\ Join(regs.phmlimit_lo, regs.phmlimit_hi) = vcpu.limit
          [] OTHER -> TRUE

(* Every driver returns, except that translation, once enabled on a unit of
   the hardware model, is never seen disabled (xmhfhwm_vtd.c does not clear
   the status). *)
NeverDisabled ==
  kind = "hwm" /\ vcpu.fn = "disable_translation" /\ vcpu.u \in Units /\ 31 \in drhd[vcpu.u].gsts
VtdDriversReturn == (vcpu.pc # "idle" /\ ~NeverDisabled) ~> (vcpu.pc = "idle")
=============================================================================
