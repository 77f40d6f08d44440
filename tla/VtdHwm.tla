------------------------------- MODULE VtdHwm -------------------------------
(***************************************************************************)
(* The VT-d remapping units (DRHD) of the hardware model: their registers, *)
(* the address each is found at, and what a 32-bit read or write of an     *)
(* address does (_impl_xmhfhwm_vtd_read, _impl_xmhfhwm_vtd_write).  The    *)
(* state is a function from the units to the contents of their registers;  *)
(* a 64-bit register is two registers, _lo and _hi.                        *)
(***************************************************************************)
EXTENDS RegisterLayouts

CONSTANT
  Drhd  \* unit |-> [regbaseaddr, iotlbaddr, ivaaddr, cap_lo, cap_hi, ecap_lo]

Units == DOMAIN Drhd
ASSUME DrhdTypes ==
  /\ "null" \notin Units
  /\ Drhd \in [Units -> [regbaseaddr : Int, iotlbaddr : Int, ivaaddr : Int, cap_lo : SUBSET (0..31),
                         cap_hi : SUBSET (0..31), ecap_lo : SUBSET (0..31)]]
-----------------------------------------------------------------------------
(* The words at an offset from the base of the unit; those of the IOTLB
   registers have addresses of their own. *)
Offset ==
  [ver |-> 0, cap_lo |-> 8, cap_hi |-> 12, ecap_lo |-> 16, ecap_hi |-> 20, gcmd |-> 24,
   gsts |-> 28, rtaddr_lo |-> 32, rtaddr_hi |-> 36, ccmd_lo |-> 40, ccmd_hi |-> 44, fsts |-> 52,
   fectl |-> 56, pmen |-> 100, plmbase |-> 104, plmlimit |-> 108, phmbase_lo |-> 112,
   phmbase_hi |-> 116, phmlimit_lo |-> 120, phmlimit_hi |-> 124]
Words == DOMAIN Offset \cup {"iotlb_lo", "iotlb_hi", "iva_lo", "iva_hi"}
WordAddr(u, word) ==
  CASE word = "iotlb_lo" -> Drhd[u].iotlbaddr
    [] word = "iotlb_hi" -> Drhd[u].iotlbaddr + 4
    [] word = "iva_lo"   -> Drhd[u].ivaaddr
    [] word = "iva_hi"   -> Drhd[u].ivaaddr + 4
    [] OTHER -> Drhd[u].regbaseaddr + Offset[word]

(* No address belongs to two words: the order in which the hardware model
   compares an address with those of its units and registers is no matter. *)
ASSUME DrhdAddresses ==
  \A d, e \in Units \X Words : WordAddr(d[1], d[2]) = WordAddr(e[1], e[2]) => d = e
Decode ==
  [addr \in {WordAddr(d[1], d[2]) : d \in Units \X Words} |->
     CHOOSE d \in Units \X Words : WordAddr(d[1], d[2]) = addr]

xmhfhwm_vtd_drhd_state ==
  [u \in Units |-> [w \in Words |-> CASE w = "cap_lo" -> Drhd[u].cap_lo
                                      [] w = "cap_hi" -> Drhd[u].cap_hi
                                      [] w = "ecap_lo" -> Drhd[u].ecap_lo
                                      [] OTHER -> {}]]
-----------------------------------------------------------------------------
(* Whether a unit answers, and what. *)
VtdAnswers(addr) == addr \in DOMAIN Decode
VtdRead(units, addr) == units[Decode[addr][1]][Decode[addr][2]]

(* Mutant: the status does not follow the command. *)
WriteGcmdNoStatus(regs, value) == [regs EXCEPT !.gcmd = value]

(* What the unit does with a written word.  A command is carried out at
   once: the status bit is set, the actual granularity becomes the
   requested one and the command bit is cleared.  Translation is never
   reported as disabled again. *)
WriteGcmd(regs, value) ==
  [regs EXCEPT !.gcmd = value, !.gsts = IF 31 \in value THEN @ \cup {31} ELSE @]
WritePmen(regs, value) ==
  [regs EXCEPT !.pmen = IF 31 \in value THEN value \cup {0} ELSE value \ {0}]
WriteCcmd(regs, value) ==
  [regs EXCEPT !.ccmd_hi =
     IF 31 \notin value THEN value
     ELSE (value \ {31, 28, 27}) \cup {b - 2 : b \in value \cap {30, 29}}]
WriteIotlb(regs, value) ==
  [regs EXCEPT !.iotlb_hi =
     IF 31 \notin value THEN value
     ELSE (value \ {31, 26, 25}) \cup {b - 3 : b \in value \cap {29, 28}}]
WriteWord(regs, word, value) ==
  CASE word = "gcmd" -> WriteGcmd(regs, value)
    [] word = "pmen" -> WritePmen(regs, value)
    [] word = "ccmd_hi" -> WriteCcmd(regs, value)
    [] word = "iotlb_hi" -> WriteIotlb(regs, value)
    [] OTHER -> [regs EXCEPT ![word] = value]
VtdWrite(units, addr, value) ==
  [units EXCEPT ![Decode[addr][1]] = WriteWord(@, Decode[addr][2], value)]
=============================================================================
