------------------------------ MODULE PciConfig ------------------------------
(***************************************************************************)
(* Access to the PCI configuration space with type-1 cycles                *)
(* (xmhfhw_pci_read.c, xmhfhw_pci_write.c, xmhfhw_pci_initbus.c).  An      *)
(* access is two port accesses, the address and then the data; the ports   *)
(* are shared by the CPUs and no lock is taken.  The configuration space   *)
(* itself is external: what an access does is which bytes of which         *)
(* register it reaches.                                                    *)
(***************************************************************************)
EXTENDS RegisterFields, FiniteSets

CONSTANTS PciCpus, MaxPciCalls,
          PciRequests  \* the accesses: [op, bus, device, function, index, len]
ASSUME PciConstants ==
  /\ MaxPciCalls \in Nat
  /\ PciRequests \subseteq [op : {"read", "write"}, bus : Nat, device : Nat, function : Nat,
                            index : Nat, len : Nat]

VARIABLES addr_port,  \* the register behind PCI_CONFIG_ADDR_PORT
          pci,        \* cpu |-> its call
          pcalls,     \* cpu |-> calls made
          met         \* history: cpu |-> the calls that were in progress during its own
pciVars == <<addr_port, pci, pcalls, met>>
-----------------------------------------------------------------------------
(* PCI_DEVICE_FN and PCI_TYPE1_ADDRESS: the device and function are masked,
   bits 8 to 11 of the index go to bits 24 to 27. *)
PCI_DEVICE_FN(device, function) ==
  {b + 3 : b \in Bits(device) \cap (0..4)} \cup (Bits(function) \cap (0..2))
(* Mutant: no bits of the extended register number. *)
Type1AddressShort(bus, device, function, index) ==
  {31} \cup {b + 16 : b \in Bits(bus)} \cup {b + 8 : b \in PCI_DEVICE_FN(device, function)}
       \cup (Bits(index) \cap (2..7))
PCI_TYPE1_ADDRESS(bus, device, function, index) ==
  {31} \cup {b + 16 : b \in Bits(index) \cap (8..11)} \cup {b + 16 : b \in Bits(bus)}
       \cup {b + 8 : b \in PCI_DEVICE_FN(device, function)} \cup (Bits(index) \cap (2..7))

InitBus == [op |-> "initbus", bus |-> 0, device |-> 0, function |-> 0, index |-> 0, len |-> 0]
NoAccess == [address |-> {}, lane |-> 0, len |-> 0]
NoPciCall == [pc |-> "idle", req |-> InitBus, tmp |-> {}, hit |-> NoAccess, result |-> TRUE]

PciInit ==
  /\ addr_port = {}
  /\ pci = [c \in PciCpus |-> NoPciCall]
  /\ pcalls = [c \in PciCpus |-> 0]
  /\ met = [c \in PciCpus |-> {}]

InProgress == {c \in PciCpus : pci[c].pc # "idle"}

(* The sanity checks of read and write; that of the device and function
   never fails, for they are masked before. *)
Sane(req) == req.bus <= 255 /\ req.index <= 4095
PciCall(c) ==
  /\ pci[c].pc = "idle" /\ pcalls[c] < MaxPciCalls
  /\ pcalls' = [pcalls EXCEPT ![c] = @ + 1]
  /\ \E req \in PciRequests \cup {InitBus} :
       /\ pci' = [pci EXCEPT ![c] =
            [NoPciCall EXCEPT !.req = req,
                              !.pc = IF req = InitBus THEN "save"
                                     ELSE IF Sane(req) THEN "address" ELSE "returned"]]
       /\ met' = [d \in PciCpus |->
            IF d = c THEN {<<e, pci[e].req>> : e \in InProgress} \cup {<<c, req>>}
            ELSE IF d \in InProgress THEN met[d] \cup {<<c, req>>} ELSE met[d]]
  /\ UNCHANGED addr_port

PciAddress(c) ==
  LET req == pci[c].req
  IN  /\ pci[c].pc = "address"
      /\ addr_port' = PCI_TYPE1_ADDRESS(req.bus, req.device, req.function, req.index)
      /\ pci' = [pci EXCEPT ![c].pc = "data"]
      /\ UNCHANGED <<pcalls, met>>

(* The data port, by the length; another length than 1, 2 or 4 reaches
   nothing. *)
PciData(c) ==
  LET req == pci[c].req
      lane == CASE req.len = 1 -> req.index % 4
                [] req.len = 2 -> (req.index % 4) - (req.index % 2)
                [] OTHER -> 0
  IN  /\ pci[c].pc = "data"
      /\ pci' = [pci EXCEPT ![c].pc = "returned",
                            ![c].hit = IF req.len \in {1, 2, 4}
                                       THEN [address |-> addr_port, lane |-> lane, len |-> req.len]
                                       ELSE NoAccess]
      /\ UNCHANGED <<addr_port, pcalls, met>>

(* xmhfhw_platform_bus_init: the port is saved, written and read back, and
   restored. *)
PciBusInit(c) ==
  /\ \/ /\ pci[c].pc = "save"
        /\ pci' = [pci EXCEPT ![c].tmp = addr_port, ![c].pc = "select"]
        /\ UNCHANGED addr_port
     \/ /\ pci[c].pc = "select"
        /\ addr_port' = {31} /\ pci' = [pci EXCEPT ![c].pc = "check"]
     \/ /\ pci[c].pc = "check"
        /\ pci' = [pci EXCEPT ![c].result = (addr_port = {31}), ![c].pc = "restore"]
        /\ UNCHANGED addr_port
     \/ /\ pci[c].pc = "restore"
        /\ addr_port' = pci[c].tmp /\ pci' = [pci EXCEPT ![c].pc = "returned"]
  /\ UNCHANGED <<pcalls, met>>

PciReturn(c) ==
  /\ pci[c].pc = "returned"
  /\ pci' = [pci EXCEPT ![c] = NoPciCall]
  /\ met' = [met EXCEPT ![c] = {}]
  /\ UNCHANGED <<addr_port, pcalls>>

PciNext ==
  \E c \in PciCpus : PciCall(c) \/ PciAddress(c) \/ PciData(c) \/ PciBusInit(c) \/ PciReturn(c)
PciSpec == PciInit /\ [][PciNext]_pciVars
-----------------------------------------------------------------------------
PciTypeOK ==
  /\ addr_port \subseteq 0..31
  /\ \A c \in PciCpus :
       /\ pci[c].pc \in {"idle", "address", "data", "save", "select", "check", "restore", "returned"}
       /\ pci[c].req \in PciRequests \cup {InitBus}
       /\ pci[c].tmp \subseteq 0..31
       /\ pcalls[c] \in 0..MaxPciCalls
       /\ met[c] \subseteq PciCpus \X (PciRequests \cup {InitBus})

(* The register a type-1 address selects: [bus, device, function, register]. *)
Selected(address) ==
  [bus |-> Field(address, Place(16, 8)), device |-> Field(address, Place(11, 5)),
   function |-> Field(address, Place(8, 3)),
   register |-> Field(address, Place(2, 6)) \cup {b + 6 : b \in Field(address, Place(24, 4))}]
AskedRegister(req) ==
  [bus |-> Bits(req.bus), device |-> Bits(req.device), function |-> Bits(req.function),
   register |-> Bits(req.index \div 4)]

(* A read or write with arguments in their ranges reaches, of the length
   asked, the bytes asked of the register asked when no other call overlaps
   it; when other accesses overlap it, the register is one that it or one
   of them asked for; a sanity check that fails reaches nothing.  The
   initialisation, when nothing overlaps it, finds the bus and leaves the
   address port as it was. *)
InRange(req) == req.device <= 31 /\ req.function <= 7
PciReachesAsked ==
  \A c \in PciCpus : pci[c].pc = "returned" =>
    LET req == pci[c].req
        hit == pci[c].hit
        calls == {m[2] : m \in met[c]}
        asked == {AskedRegister(r) : r \in {r \in calls : r.op # "initbus" /\ Sane(r)}}
    IN  /\ req.op = "initbus" /\ met[c] = {<<c, InitBus>>} =>
             pci[c].result /\ addr_port = pci[c].tmp
        /\ req.op # "initbus" /\ (~Sane(req) \/ req.len \notin {1, 2, 4}) => hit = NoAccess
        /\ req.op # "initbus" /\ hit # NoAccess /\ (\A r \in calls : r.op # "initbus" /\ InRange(r)) =>
             /\ Selected(hit.address) \in asked
             /\ hit.len = req.len
             /\ hit.lane = (req.index % 4) - (req.index % req.len)
=============================================================================
