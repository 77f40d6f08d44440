---------------------------- MODULE PlatformCalls ----------------------------
(***************************************************************************)
(* The functions of libxmhfhw about the platform, called one after the     *)
(* other: accesses to system memory (xmhfhw_sysmem_...), the TXT registers *)
(* and the walk through the TXT heap (xmhfhw_cpu_txt...), the search for   *)
(* the ACPI root pointer (xmhfhw_sysmem_getacpirsdp.c), the delay and the  *)
(* reboot through legacy ports, the local APIC and the kind of the CPU.    *)
(*                                                                         *)
(* A step is one access to a device or a port; what only reads memory that *)
(* nothing writes is one step.  The timer and the keyboard controller,     *)
(* which the hardware model does not have, are external.                   *)
(***************************************************************************)
EXTENDS Devices, FiniteSets

CONSTANTS MaxPlatformCalls,
          WrittenWords, \* words written to devices
          Delays,       \* microseconds
          Machines      \* [bios: address |-> whether the table there has the right checksum,
                        \*  vendor: what cpuid answers, [ebx, ecx, edx]]
ASSUME PlatformConstants ==
  /\ MaxPlatformCalls \in Nat /\ WrittenWords \subseteq 0..255
  /\ Delays \subseteq Nat

VARIABLES dev,      \* the devices
          machine,  \* what the BIOS and the CPU tell
          ports,    \* the timer and the keyboard controller
          plat,     \* the call that is running
          platcalls,\* calls made so far
          stored    \* history: address |-> the word last written there
platVars == <<dev, machine, ports, plat, platcalls, stored>>
-----------------------------------------------------------------------------
NoPlatCall == [pc |-> "idle", fn |-> "none", addr |-> 0, value |-> <<0, 0>>, answer |-> <<>>]
(* The timer counts once a second byte of its latch is written and the gate
   is open; out is bit 5 of port 0x61. *)
IdlePorts == [p61 |-> {}, latch |-> <<>>, out |-> FALSE, busy |-> TRUE, reset |-> FALSE]
PlatInit ==
  /\ dev = xmhfhwm_devices /\ machine \in Machines
  /\ ports = IdlePorts /\ plat = NoPlatCall /\ platcalls = 0
  /\ stored = [a \in {} |-> 0]

(* Addresses of words that hold what is written, of one that the device
   changes, of one that reads and writes as nothing. *)
KeptRegs == {E1000_HWADDR_BASE + E1000Offset[r] : r \in {"tctl", "tdbal", "tdlen"}}
TDH == E1000_HWADDR_BASE + E1000Offset.tdh
TCTL == E1000_HWADDR_BASE + E1000Offset.tctl
TDT == E1000_HWADDR_BASE + E1000Offset.tdt
Kept64 == {TXT_PRIV_CONFIG_REGS_BASE + TXTCR_MLE_JOIN}
KeptAddrs == KeptRegs \cup Kept64 \cup {a + 4 : a \in Kept64}
WriteAddrs == KeptRegs \cup {TDT, E1000_HWADDR_BASE + 4, VTDDMARTABLEBASE, BIOS_BDA_BASE + 255,
                             Addr(0, 1019), RLPWAKEUPADDR, E1000_HWADDR_BASE + E1000Offset.eecd}
ReadAddrs == {TCTL, TDH, TDT, BIOS_BDA_BASE + 14, Addr(0, 1019), LAPIC_REG_ID, DATASEG_BASE + 8,
              E1000_HWADDR_BASE + E1000_HWADDR_SIZE - 1}

CallOf(fn, pc, addr, value) ==
  [NoPlatCall EXCEPT !.fn = fn, !.pc = pc, !.addr = addr, !.value = value]
PlatCallSet ==
  {CallOf("readu32", "read", a, <<0, 0>>) : a \in ReadAddrs}
  \cup {CallOf("writeu32", "write", a, <<w, 0>>) : a \in WriteAddrs, w \in WrittenWords}
  \cup {CallOf("read_config_reg", "read", a, <<0, 0>>) : a \in Kept64}
  \cup {CallOf("write_config_reg", "write", a, <<w, w + 1>>) : a \in Kept64, w \in WrittenWords}
  \cup {CallOf("copy_obj2sys", "obj2sys", DATASEG_BASE, <<w, 0>>) : w \in WrittenWords}
  \cup {CallOf("udelay", "gate", 0, <<d, 0>>) : d \in Delays}
  \cup {CallOf(f[1], f[2], 0, <<0, 0>>) :
          f \in {<<"txt_heap", "heap">>, <<"getRSDP", "ebda">>, <<"cpu_queries", "cpu">>, <<"reboot", "flush">>}}
PlatCall ==
  /\ plat.pc = "idle" /\ platcalls < MaxPlatformCalls
  /\ plat' \in PlatCallSet
  /\ platcalls' = platcalls + 1
  /\ UNCHANGED <<dev, ports, stored>>

PlatAt(pc) == plat.pc = pc
PlatGoto(pc) == plat' = [plat EXCEPT !.pc = pc]
PlatReturn(answer) == plat' = [plat EXCEPT !.pc = "returned", !.answer = answer]
-----------------------------------------------------------------------------
(* Reads and writes of 32 and of 64 bits; the low word first. *)
Wide == plat.fn \in {"read_config_reg", "write_config_reg"}
ReadSysmem ==
  /\ \/ PlatAt("read") /\ (IF Wide THEN PlatGoto("read_high") ELSE PlatReturn(cpu_sysmemread(dev, plat.addr)))
        /\ dev' = AfterRead(dev, plat.addr)
     \/ PlatAt("read_high") /\ PlatReturn(cpu_sysmemread(dev, plat.addr) \o cpu_sysmemread(dev, plat.addr + 4))
        /\ UNCHANGED dev
  /\ UNCHANGED <<ports, stored>>
StoreWord(addr, v) ==
  /\ dev' = cpu_sysmemwrite(dev, addr, v)
  /\ stored' = [a \in DOMAIN stored \cup {addr} |-> IF a = addr THEN v ELSE stored[a]]
WriteSysmem ==
  /\ \/ PlatAt("write") /\ StoreWord(plat.addr, plat.value[1])
        /\ (IF Wide THEN PlatGoto("write_high") ELSE PlatReturn(<<>>))
     \/ PlatAt("write_high") /\ StoreWord(plat.addr + 4, plat.value[2]) /\ PlatReturn(<<>>)
  /\ UNCHANGED ports

(* A copy into low memory: twelve bytes, of which the model looks at two words. *)
CopyToSysmem ==
  /\ PlatAt("obj2sys")
  /\ LET d == mem_obj2sys(dev.dataseg, plat.addr, 12, [w \in {0, 8, 32} |-> plat.value[1]])
     IN  /\ dev' = [dev EXCEPT !.dataseg = d[1]]
         /\ stored' = [a \in DOMAIN stored \cup {DATASEG_BASE + 8} |->
                         IF a = DATASEG_BASE + 8 THEN plat.value[1] ELSE stored[a]]
  /\ PlatReturn(<<>>) /\ UNCHANGED ports

(* The sizes and the starts of the blocks of the heap: each is found by the
   sizes of those before it. *)
SizeAt[addr \in Int] == cpu_sysmemread(dev, addr)[1]
get_txt_heap == cpu_sysmemread(dev, TXT_PUB_CONFIG_REGS_BASE + TXTCR_HEAP_BASE)[1]
get_bios_data_size(heap)   == SizeAt[heap]
get_bios_data_start(heap)  == heap + 8
get_os_mle_data_size(heap) == SizeAt[heap + get_bios_data_size(heap)]
get_os_mle_data_start(heap) == heap + get_bios_data_size(heap) + 8
get_os_sinit_data_size(heap) ==
  SizeAt[heap + get_bios_data_size(heap) + get_os_mle_data_size(heap)]
(* Mutant: a block is not skipped. *)
OsSinitStartTooEarly(heap) == heap + get_bios_data_size(heap) + 8
get_os_sinit_data_start(heap) ==
  heap + get_bios_data_size(heap) + get_os_mle_data_size(heap) + 8
get_sinit_mle_data_size(heap) ==
  SizeAt[heap + get_bios_data_size(heap) + get_os_mle_data_size(heap) + get_os_sinit_data_size(heap)]
get_sinit_mle_data_start(heap) ==
  heap + get_bios_data_size(heap) + get_os_mle_data_size(heap) + get_os_sinit_data_size(heap) + 8
WalkHeap ==
  /\ PlatAt("heap")
  /\ LET h == get_txt_heap
     IN  PlatReturn(<<
           [start |-> get_bios_data_start(h), size |-> get_bios_data_size(h)],
           [start |-> get_os_mle_data_start(h), size |-> get_os_mle_data_size(h)],
           [start |-> get_os_sinit_data_start(h), size |-> get_os_sinit_data_size(h)],
           [start |-> get_sinit_mle_data_start(h), size |-> get_sinit_mle_data_size(h)]>>)
  /\ UNCHANGED <<dev, ports, stored>>

(* The search for the root pointer: sixteen bytes at a time, first in the
   extended data area of the BIOS and then in its ROM. *)
RootPointers(base, end) ==
  {a \in DOMAIN machine.bios : machine.bios[a] /\ a \in base..(end - 1) /\ (a - base) % 16 = 0}
getRSDP ==
  LET ebdaphys == Addr(0, 0) + 16 * cpu_sysmemread(dev, BIOS_BDA_BASE + 14)[1]
      Search(found, otherwise) == IF found # {} THEN PlatReturn(<<First(found)>>) ELSE otherwise
  IN  /\ \/ PlatAt("ebda") /\ Search(RootPointers(ebdaphys, ebdaphys + 1016), PlatGoto("rom"))
         \/ PlatAt("rom") /\ Search(RootPointers(Addr(14, 0), Addr(15, 65527)), PlatReturn(<<Addr(0, 0)>>))
      /\ UNCHANGED <<dev, ports, stored>>

(* The delay.  The latch is the number of microseconds, for the ticks of
   the timer in a microsecond are divided as integers; its two bytes are
   written low byte first.  (The cap of the argument is far above what the
   latch holds.) *)
latchregval(usecs) == usecs * (1193182 \div 1000000)
OutP61(bits) == ports' = [ports EXCEPT !.p61 = bits]
OutLatch(byte) == ports' = [ports EXCEPT !.latch = Append(@, byte)]
udelay ==
  LET latch == latchregval(plat.value[1])
  IN  /\ \/ PlatAt("gate") /\ OutP61((ports.p61 \cap {0, 2, 3}) \cup {0}) /\ PlatGoto("mode")
         \/ PlatAt("mode") /\ ports' = [ports EXCEPT !.latch = <<>>, !.out = FALSE] /\ PlatGoto("latch_low")
         \/ PlatAt("latch_low") /\ OutLatch(latch % 256) /\ PlatGoto("latch_high")
         \/ PlatAt("latch_high") /\ OutLatch((latch \div 256) % 256) /\ PlatGoto("count")
         \/ PlatAt("count") /\ ports.out /\ PlatGoto("close") /\ UNCHANGED ports
         \/ PlatAt("close") /\ OutP61(ports.p61 \cap {2, 3}) /\ PlatReturn(ports.latch)
      /\ UNCHANGED <<dev, stored>>
TimerFires ==
  /\ 0 \in ports.p61 /\ Len(ports.latch) = 2 /\ ~ports.out
  /\ ports' = [ports EXCEPT !.out = TRUE]
  /\ UNCHANGED plat

(* The reboot waits for the input buffer of the keyboard controller. *)
reboot ==
  /\ \/ PlatAt("flush") /\ ~ports.busy /\ PlatGoto("pulse") /\ UNCHANGED ports
     \/ PlatAt("pulse") /\ ports' = [ports EXCEPT !.reset = TRUE] /\ PlatGoto("halted")
  /\ UNCHANGED <<dev, stored>>
KeyboardFlushes ==
  /\ PlatAt("flush") /\ ports.busy
  /\ ports' = [ports EXCEPT !.busy = FALSE]
  /\ UNCHANGED plat

(* Questions about the CPU.  The second and the third word of the vendor
   are in edx and ecx; the local APIC is where its base register says, and
   its identifier is in the highest byte of the register (which the hardware
   model keeps at zero, so that nothing can be said of it). *)
MSR_APIC_BASE == [page |-> Addr(65248, 0), flags |-> {8}]
INTEL_STRING == <<"Genu", "ineI", "ntel">>
AMD_STRING   == <<"Auth", "enti", "cAMD">>
getcpuvendor ==
  LET words == <<machine.vendor.ebx, machine.vendor.edx, machine.vendor.ecx>>
  IN  CASE words = AMD_STRING -> "AMD" [] words = INTEL_STRING -> "INTEL" [] OTHER -> "UNKNOWN"
getcpulapicid == cpu_sysmemread(dev, MSR_APIC_BASE.page + 32)[1] \div 2^24
lapic_isbsp == 8 \in MSR_APIC_BASE.flags
cpu_queries ==
  /\ PlatAt("cpu")
  /\ PlatReturn(<<getcpuvendor, getcpulapicid, lapic_isbsp>>)
  /\ UNCHANGED <<dev, ports, stored>>

PlatDone == PlatAt("returned") /\ plat' = NoPlatCall /\ UNCHANGED <<dev, ports, stored>>
PlatStep ==
  /\ ReadSysmem \/ WriteSysmem \/ CopyToSysmem \/ WalkHeap \/ getRSDP \/ udelay \/ reboot
     \/ cpu_queries \/ PlatDone
  /\ UNCHANGED <<machine, platcalls>>
PortStep ==
  /\ TimerFires \/ KeyboardFlushes
  /\ UNCHANGED <<dev, machine, platcalls, stored>>
PlatNext == (PlatCall /\ UNCHANGED machine) \/ PlatStep \/ PortStep
(* The processor runs the call; the timer counts down and the keyboard
   controller takes its input. *)
PlatSpec == PlatInit /\ [][PlatNext]_platVars /\ WF_platVars(PlatStep) /\ WF_platVars(PortStep)
-----------------------------------------------------------------------------
PlatTypeOK ==
  /\ \A r \in DOMAIN E1000Offset : dev.e1000[r] \in 0..255
  /\ dev.e1000.transmitting \in BOOLEAN
  /\ \A w \in {1, 2} : dev.txt.mle_join[w] \in 0..256
  /\ \A w \in {0, 8, 32} : dev.dataseg[w] \in 0..255
  /\ ports.p61 \subseteq 0..7 /\ Len(ports.latch) \in 0..2
  /\ platcalls \in 0..MaxPlatformCalls

(* No two devices answer the same address, so that the order in which they
   are asked does not matter; a word that was written is read back,
   wherever it was, and no write to another address has changed it; and a
   transmission is over once the head was read. *)
DevicesApart ==
  plat.pc = "returned" =>
    /\ \A a \in ReadAddrs \cup WriteAddrs \cup KeptAddrs : Cardinality(Answering(Answers(dev, a))) <= 1
    /\ \A a \in DOMAIN stored \cap (KeptAddrs \cup {TDT, DATASEG_BASE + 8}) :
         cpu_sysmemread(dev, a) = Answer(stored[a])
HeadRead ==
  plat.pc = "returned" /\ plat.fn = "readu32" /\ plat.addr = TDH =>
    /\ ~dev.e1000.transmitting
    /\ plat.answer[1] # 0 => {TCTL, TDT} \subseteq DOMAIN stored

(* The walk through the heap meets the blocks where the hardware model has
   put them, inside the heap; the word through which the other processors
   are woken is found there and can be written. *)
HeapWalked ==
  plat.pc = "returned" /\ plat.fn = "txt_heap" =>
    /\ \A i \in DOMAIN Blocks :
         /\ plat.answer[i].start = HEAPBASE + BlockOffset[Blocks[i]] + 8
         /\ plat.answer[i].size = BlockSize[Blocks[i]]
    /\ plat.answer[4].start - 8 + plat.answer[4].size = HEAPBASE + HeapSize
    /\ SysmemWritten(cpu_sysmemread(dev, plat.answer[4].start + 120)[1])

(* The root pointer is one with the right signature and checksum in the
   first kilobyte of the extended data area or, if there is none, in the
   ROM from 0xE0000 to 0xFFFFF, at the lowest multiple of sixteen; zero
   says that there is none.  The copies of 36 bytes at the ends of the two
   windows are answered by the BIOS. *)
Windows == <<Addr(9, 60416)..Addr(9, 61439), Addr(14, 0)..Addr(15, 65535)>>
RsdpFound ==
  plat.pc = "returned" /\ plat.fn = "getRSDP" =>
    /\ \A a \in {Addr(9, 60416), Addr(9, 60416 + 1008), Addr(14, 0), Addr(15, 65520)} :
         cpu_sysmemcopy(a, 36) # Unanswered
    /\ LET valid(w) == {a \in DOMAIN machine.bios : machine.bios[a] /\ a \in Windows[w] /\ a % 16 = 0}
       IN  plat.answer[1] = IF valid(1) # {} THEN First(valid(1))
                            ELSE IF valid(2) # {} THEN First(valid(2)) ELSE Addr(0, 0)

(* A delay that fits the latch waits for as many ticks as microseconds and
   closes the gate; the reset is pulsed only into an empty buffer. *)
DelayCounted ==
  plat.pc = "returned" /\ plat.fn = "udelay" =>
    /\ 0 \notin ports.p61 /\ ports.out
    /\ plat.value[1] < 65536 => plat.answer[1] + 256 * plat.answer[2] = plat.value[1]
ResetIntoEmptyBuffer == ports.reset => ~ports.busy

CpuKnown ==
  plat.pc = "returned" /\ plat.fn = "cpu_queries" =>
    (plat.answer[1] = "INTEL" <=> <<machine.vendor.ebx, machine.vendor.edx, machine.vendor.ecx>> = <<"Genu", "ineI", "ntel">>)

(* What the calls answer and leave behind. *)
PlatformCallsRight ==
  DevicesApart /\ HeadRead /\ HeapWalked /\ RsdpFound /\ DelayCounted /\ ResetIntoEmptyBuffer /\ CpuKnown
PlatformCallsReturn == (plat.pc \notin {"idle", "halted"}) ~> (plat.pc \in {"idle", "halted"})
=============================================================================
