------------------------------- MODULE Devices -------------------------------
(***************************************************************************)
(* The devices of the hardware model that answer accesses to system        *)
(* memory, besides the VT-d units (VtdHwm): the network card, the TXT      *)
(* registers and heap, the BIOS, low memory and the local APIC             *)
(* (hwm/xmhfhwm_{e1000,txt,bios,mem,lapic}.c), and the order in which      *)
(* xmhfhwm_cpu.c asks them.  Callbacks into a verification driver change   *)
(* no device and are left out.                                             *)
(*                                                                         *)
(* An address is written less 2^31, Addr(high half, low half); a word that *)
(* holds an address is written the same way.                               *)
(***************************************************************************)
EXTENDS RegisterFields, Sequences

Addr(high, low) == (high - 32768) * 65536 + low
In(addr, base, size) == addr \in base..(base + size - 1)
Unanswered == <<>>
Answer(v) == <<v>>
-----------------------------------------------------------------------------
(* The network card.  Every address in its range is answered; reading the
   head of the transmit queue ends a transmission. *)
E1000_HWADDR_BASE == Addr(63428, 0)
E1000_HWADDR_SIZE == 36864
E1000_EECD_REQ == 6
E1000_EECD_GNT == 7
E1000_TCTL_EN  == 1
E1000Offset ==
  [eecd |-> 16, tctl |-> 1024, tdbal |-> 14336, tdbah |-> 14340, tdlen |-> 14344, tdh |-> 14352,
   tdt |-> 14360, swsm |-> 23376]
E1000Regs(addr) == {r \in DOMAIN E1000Offset : addr = E1000_HWADDR_BASE + E1000Offset[r]}

e1000_settle(e, addr) ==
  IF E1000Regs(addr) = {"tdh"} /\ e.transmitting
  THEN [e EXCEPT !.tdh = e.tdt, !.transmitting = FALSE] ELSE e
e1000_read(e, addr) ==
  IF ~In(addr, E1000_HWADDR_BASE, E1000_HWADDR_SIZE) THEN Unanswered
  ELSE IF E1000Regs(addr) = {} THEN Answer(0)
  ELSE Answer(e1000_settle(e, addr)[CHOOSE r \in E1000Regs(addr) : TRUE])
e1000_write(e, addr, v) ==
  CASE "tdt" \in E1000Regs(addr) ->
         [e EXCEPT !.tdt = v, !.transmitting = @ \/ E1000_TCTL_EN \in Bits(e.tctl)]
    [] "eecd" \in E1000Regs(addr) ->
         [e EXCEPT !.eecd = IF E1000_EECD_REQ \in Bits(v) /\ E1000_EECD_GNT \notin Bits(v)
                            THEN v + 2^E1000_EECD_GNT ELSE v]
    [] OTHER -> [r \in DOMAIN e |-> IF r \in E1000Regs(addr) THEN v ELSE e[r]]
-----------------------------------------------------------------------------
(* TXT: the join register of the private space, the heap and where it is.
   The heap is four blocks, each headed by its size, which counts the
   eight bytes of the size itself; two words in it are initialized. *)
TXT_PUB_CONFIG_REGS_BASE  == Addr(65235, 0)
TXT_PRIV_CONFIG_REGS_BASE == Addr(65234, 0)
TXTCR_MLE_JOIN  == 656
TXTCR_HEAP_BASE == 768
TXTCR_HEAP_SIZE == 776
HEAPBASE        == Addr(60928, 0)
RLPWAKEUPADDR   == Addr(56304, 6928)
TXT_CAPS_T_RLP_WAKE_MONITOR == 2

Blocks == <<"biosdata", "osmledata", "ossinitdata", "sinitmledata">>
BlockSize == [biosdata |-> 36 + 8, osmledata |-> 4096 + 8, ossinitdata |-> 92 + 8,
              sinitmledata |-> 148 + 8]
BlockOffset ==
  [biosdata |-> 0, osmledata |-> 44, ossinitdata |-> 44 + 4104, sinitmledata |-> 44 + 4104 + 100]
HeapSize == 44 + 4104 + 100 + 156
xmhfhwm_txt_heap(offset) ==
  CASE \E b \in DOMAIN BlockSize : offset = BlockOffset[b] ->
         BlockSize[CHOOSE b \in DOMAIN BlockSize : offset = BlockOffset[b]]
    [] offset = BlockOffset.ossinitdata + 8 + 80 -> TXT_CAPS_T_RLP_WAKE_MONITOR
    [] offset = BlockOffset.sinitmledata + 8 + 120 -> RLPWAKEUPADDR
    [] OTHER -> 0

MleJoin(addr) ==
  {w \in {1, 2} : addr = TXT_PRIV_CONFIG_REGS_BASE + TXTCR_MLE_JOIN + 4 * (w - 1)}
txt_read(t, addr) ==
  CASE addr = TXT_PUB_CONFIG_REGS_BASE + TXTCR_HEAP_BASE -> Answer(HEAPBASE)
    [] addr = TXT_PUB_CONFIG_REGS_BASE + TXTCR_HEAP_SIZE -> Answer(HeapSize)
    [] addr \in {TXT_PUB_CONFIG_REGS_BASE + r + 4 : r \in {TXTCR_HEAP_BASE, TXTCR_HEAP_SIZE}} -> Answer(0)
    [] MleJoin(addr) # {} -> Answer(t.mle_join[CHOOSE w \in MleJoin(addr) : TRUE])
    [] In(addr, HEAPBASE, HeapSize) -> Answer(xmhfhwm_txt_heap(addr - HEAPBASE))
    [] OTHER -> Unanswered
TxtWritten(addr) == addr = RLPWAKEUPADDR \/ MleJoin(addr) # {}
txt_write(t, addr, v) ==
  [mle_join |-> [w \in {1, 2} |-> IF w \in MleJoin(addr) THEN v ELSE t.mle_join[w]],
   rlp_wakeup |-> IF addr = RLPWAKEUPADDR THEN v ELSE t.rlp_wakeup]
-----------------------------------------------------------------------------
(* The BIOS.  It has the segment of its extended data area and a few
   tables; what is written to it has no effect, and copies from the
   extended data area and from the ROM, but for the root pointer, leave the
   destination as it is. *)
BIOS_BDA_BASE == Addr(0, 1024)
BIOS_EBDA_SEG == 40640
BIOS_EBDA_BASE == Addr(9, 60416)
BIOS_EBDA_SIZE == 1100
BIOS_ROMBASE == Addr(14, 0)
BIOS_ROMSIZE == 131104
ACPIRSDTBASE == Addr(55422, 61480)
ACPIRSDTENTRIESBASE == ACPIRSDTBASE + 36
VTDDMARTABLEBASE == Addr(55423, 61096)

bios_read(addr) == IF addr = BIOS_BDA_BASE + 14 THEN Answer(BIOS_EBDA_SEG) ELSE Unanswered
BiosWritten(addr) == addr = VTDDMARTABLEBASE \/ In(addr, BIOS_BDA_BASE, 256)
Within(addr, size, base, length) == addr >= base /\ addr + size <= base + length
bios_copied(addr, size) ==
  CASE addr >= BIOS_EBDA_BASE /\ addr + size < BIOS_EBDA_BASE + BIOS_EBDA_SIZE -> Answer("nothing")
    [] addr >= BIOS_ROMBASE /\ addr + size < BIOS_ROMBASE + BIOS_ROMSIZE ->
         Answer(IF addr = BIOS_ROMBASE THEN "rsdp" ELSE "nothing")
    [] addr = ACPIRSDTBASE -> Answer("rsdt")
    [] Within(addr, size, ACPIRSDTENTRIESBASE, 4) -> Answer("rsdt entries")
    [] Within(addr, size, VTDDMARTABLEBASE, 48) -> Answer("dmar")
    [] Within(addr, size, VTDDMARTABLEBASE + 48, 32) -> Answer("remapping structures")
    [] OTHER -> Unanswered
-----------------------------------------------------------------------------
(* Low memory: the interrupt vectors, and the segments that the other
   processors start from, which copies write. *)
IvtEnd == 1020
DATASEG_BASE == Addr(1, 4096)
CODESEG_BASE == Addr(1, 0)
mem_read(d, addr) ==
  CASE \E w \in DOMAIN d : addr = DATASEG_BASE + w -> Answer(d[addr - DATASEG_BASE])
    [] In(addr, Addr(0, 0), IvtEnd) -> Answer(0)
    [] OTHER -> Unanswered
MemWritten(addr) == In(addr, Addr(0, 0), IvtEnd)
mem_obj2sys(d, addr, size, words) ==
  CASE Within(addr, size, DATASEG_BASE, 256) ->
         Answer([w \in DOMAIN d |-> IF In(DATASEG_BASE + w, addr, size) THEN words[w] ELSE d[w]])
    [] Within(addr, size, CODESEG_BASE, 4096) -> Answer(d)
    [] OTHER -> Unanswered

(* The local APIC has an identifier, which cannot be written. *)
LAPIC_REG_ID == Addr(65248, 32)
lapic_read(addr) == IF addr = LAPIC_REG_ID THEN Answer(0) ELSE Unanswered
-----------------------------------------------------------------------------
xmhfhwm_devices ==
  [e1000 |-> [r \in DOMAIN E1000Offset \cup {"transmitting"} |->
                IF r = "transmitting" THEN FALSE ELSE 0],
   txt |-> [mle_join |-> [w \in {1, 2} |-> 0], rlp_wakeup |-> 0],
   dataseg |-> [w \in {0, 8, 32} |-> 0]]

(* The answers of the devices, in the order they are asked (VT-d, which is
   asked before the local APIC, is left to VtdHwm); the access is answered
   by the first that knows the address. *)
Answers(dev, addr) ==
  <<e1000_read(dev.e1000, addr), txt_read(dev.txt, addr), bios_read(addr),
    mem_read(dev.dataseg, addr), lapic_read(addr)>>
Answering(answers) == {i \in DOMAIN answers : answers[i] # Unanswered}
First(S) == CHOOSE i \in S : \A j \in S : i <= j
cpu_sysmemread(dev, addr) ==
  LET answers == Answers(dev, addr)
  IN  IF Answering(answers) = {} THEN Unanswered ELSE answers[First(Answering(answers))]
AfterRead(dev, addr) == [dev EXCEPT !.e1000 = e1000_settle(@, addr)]

SysmemWritten(addr) ==
  In(addr, E1000_HWADDR_BASE, E1000_HWADDR_SIZE) \/ TxtWritten(addr) \/ BiosWritten(addr) \/ MemWritten(addr)
cpu_sysmemwrite(dev, addr, v) ==
  IF In(addr, E1000_HWADDR_BASE, E1000_HWADDR_SIZE)
  THEN [dev EXCEPT !.e1000 = e1000_write(@, addr, v)]
  ELSE [dev EXCEPT !.txt = txt_write(@, addr, v)]

cpu_sysmemcopy(addr, size) ==
  IF addr >= HEAPBASE /\ addr + size <= HEAPBASE + HeapSize THEN Answer("heap")
  ELSE bios_copied(addr, size)
=============================================================================
