--------------------------- MODULE PlatformProofs ---------------------------
(***************************************************************************)
(* Proofs about the components of Platform other than VT-d: the accesses   *)
(* to the configuration space of PCI, the layouts of the registers and     *)
(* what the drivers change of them, the memory type range registers, and   *)
(* the calls about the platform, what they answer and what they leave in   *)
(* the devices; and that Platform, in which one component is active at a   *)
(* time, is a behaviour of each of them, so that what is proved of a       *)
(* component holds of the whole.                                           *)
(***************************************************************************)
EXTENDS Platform, VtdProofs, FiniteSetTheorems, WellFoundedInduction

(* The powers of two by which the bits of a number are found. *)
LEMMA PowersOfTwo ==
  /\ 2^0 = 1 /\ 2^1 = 2 /\ 2^2 = 4 /\ 2^3 = 8 /\ 2^4 = 16 /\ 2^5 = 32 /\ 2^6 = 64
  /\ 2^7 = 128 /\ 2^8 = 256 /\ 2^9 = 512 /\ 2^10 = 1024 /\ 2^11 = 2048 /\ 2^12 = 1024 * 4
  /\ 2^13 = 1024 * 8 /\ 2^14 = 1024 * 16 /\ 2^15 = 1024 * 32 /\ 2^16 = 1024 * 64
  /\ 2^17 = 1024 * 128 /\ 2^18 = 1024 * 256 /\ 2^19 = 1024 * 512 /\ 2^20 = 1024 * 1024
  /\ 2^21 = 1024 * 1024 * 2 /\ 2^22 = 1024 * 1024 * 4 /\ 2^23 = 1024 * 1024 * 8
  /\ 2^24 = 1024 * 1024 * 16 /\ 2^25 = 1024 * 1024 * 32 /\ 2^26 = 1024 * 1024 * 64
  /\ 2^27 = 1024 * 1024 * 128 /\ 2^28 = 1024 * 1024 * 256 /\ 2^29 = 1024 * 1024 * 512
  /\ 2^30 = 1024 * 1024 * 1024
<1>1. 2^0 = 1 /\ 2^1 = 2 /\ 2^2 = 4 /\ 2^3 = 8 /\ 2^4 = 16 /\ 2^5 = 32
  BY SMT
<1>2. 2^6 = 64 /\ 2^7 = 128 /\ 2^8 = 256 /\ 2^9 = 512 /\ 2^10 = 1024 /\ 2^11 = 2048
  BY SMT
<1>3. 2^12 = 1024 * 4 /\ 2^13 = 1024 * 8 /\ 2^14 = 1024 * 16 /\ 2^15 = 1024 * 32 /\ 2^16 = 1024 * 64
  BY SMT
<1>4. /\ 2^17 = 1024 * 128 /\ 2^18 = 1024 * 256 /\ 2^19 = 1024 * 512 /\ 2^20 = 1024 * 1024
      /\ 2^21 = 1024 * 1024 * 2
  BY SMT
<1>5. /\ 2^22 = 1024 * 1024 * 4 /\ 2^23 = 1024 * 1024 * 8 /\ 2^24 = 1024 * 1024 * 16
      /\ 2^25 = 1024 * 1024 * 32 /\ 2^26 = 1024 * 1024 * 64
  BY SMT
<1>6. /\ 2^27 = 1024 * 1024 * 128 /\ 2^28 = 1024 * 1024 * 256 /\ 2^29 = 1024 * 1024 * 512
      /\ 2^30 = 1024 * 1024 * 1024
  BY SMT
<1> QED
  BY <1>1, <1>2, <1>3, <1>4, <1>5, <1>6

(* The bits of a number by a table of the powers of two. *)
LEMMA TableOfPowers ==
  \E pow \in [0..30 -> Nat] :
    /\ pow[0] = 1 /\ pow[1] = 2 /\ pow[2] = 4 /\ pow[3] = 8 /\ pow[4] = 16 /\ pow[5] = 32
    /\ pow[6] = 64 /\ pow[7] = 128 /\ pow[8] = 256 /\ pow[9] = 512 /\ pow[10] = 1024
    /\ pow[11] = 2048 /\ pow[12] = 1024 * 4 /\ pow[13] = 1024 * 8 /\ pow[14] = 1024 * 16
    /\ pow[15] = 1024 * 32 /\ pow[16] = 1024 * 64 /\ pow[17] = 1024 * 128
    /\ pow[18] = 1024 * 256 /\ pow[19] = 1024 * 512 /\ pow[20] = 1024 * 1024
    /\ \A b \in 12..30 : pow[b] >= 4096
    /\ \A n : Bits(n) = {b \in 0..30 : (n \div pow[b]) % 2 = 1}
<1> DEFINE p(b) == 2^b
<1>1. /\ p(0) = 1 /\ p(1) = 2 /\ p(2) = 4 /\ p(3) = 8 /\ p(4) = 16 /\ p(5) = 32 /\ p(6) = 64
      /\ p(7) = 128 /\ p(8) = 256 /\ p(9) = 512 /\ p(10) = 1024 /\ p(11) = 2048
  BY PowersOfTwo
<1>2. /\ p(12) = 1024 * 4 /\ p(13) = 1024 * 8 /\ p(14) = 1024 * 16 /\ p(15) = 1024 * 32
      /\ p(16) = 1024 * 64 /\ p(17) = 1024 * 128 /\ p(18) = 1024 * 256 /\ p(19) = 1024 * 512
      /\ p(20) = 1024 * 1024 /\ p(21) = 1024 * 1024 * 2 /\ p(22) = 1024 * 1024 * 4
      /\ p(23) = 1024 * 1024 * 8 /\ p(24) = 1024 * 1024 * 16 /\ p(25) = 1024 * 1024 * 32
      /\ p(26) = 1024 * 1024 * 64 /\ p(27) = 1024 * 1024 * 128 /\ p(28) = 1024 * 1024 * 256
      /\ p(29) = 1024 * 1024 * 512 /\ p(30) = 1024 * 1024 * 1024
  BY PowersOfTwo
<1>3. \A n : Bits(n) = {b \in 0..30 : (n \div p(b)) % 2 = 1}
  BY DEF Bits
<1> HIDE DEF p
<1>4. \A b \in 12..30 : p(b) \in Nat /\ p(b) >= 4096
  BY <1>2
<1>5. \A b \in 0..11 : p(b) \in Nat
  BY <1>1
<1> DEFINE pow == [b \in 0..30 |-> p(b)]
<1>6. \A b \in 0..30 : p(b) \in Nat
  BY <1>4, <1>5
<1>7. pow \in [0..30 -> Nat] /\ \A b \in 0..30 : pow[b] = p(b)
  BY <1>6
<1> HIDE DEF pow
<1>8. \A n : Bits(n) = {b \in 0..30 : (n \div pow[b]) % 2 = 1}
  BY <1>3, <1>7
<1>9. /\ /\ pow[0] = 1 /\ pow[1] = 2 /\ pow[2] = 4 /\ pow[3] = 8 /\ pow[4] = 16 /\ pow[5] = 32
         /\ pow[6] = 64 /\ pow[7] = 128 /\ pow[8] = 256 /\ pow[9] = 512 /\ pow[10] = 1024
         /\ pow[11] = 2048
      /\ \A b \in 12..30 : pow[b] >= 4096
  BY <1>1, <1>4, <1>7
<1>10. /\ pow[12] = 1024 * 4 /\ pow[13] = 1024 * 8 /\ pow[14] = 1024 * 16
       /\ pow[15] = 1024 * 32 /\ pow[16] = 1024 * 64 /\ pow[17] = 1024 * 128
       /\ pow[18] = 1024 * 256 /\ pow[19] = 1024 * 512 /\ pow[20] = 1024 * 1024
  BY <1>2, <1>7
<1> QED
  BY <1>7, <1>8, <1>9, <1>10

(* A number below a power of two has no bit from that power on. *)
LEMMA NoHighBits ==
  /\ \A n \in Nat : n <= 4095 => Bits(n) \subseteq 0..11
  /\ \A n \in Nat : n <= 255 => Bits(n) \subseteq 0..7
  /\ \A n \in Nat : n <= 31 => Bits(n) \subseteq 0..4
  /\ \A n \in Nat : n <= 7 => Bits(n) \subseteq 0..2
<1>1. PICK pow \in [0..30 -> Nat] :
        /\ pow[3] = 8 /\ pow[4] = 16 /\ pow[5] = 32 /\ pow[6] = 64 /\ pow[7] = 128
        /\ pow[8] = 256 /\ pow[9] = 512 /\ pow[10] = 1024 /\ pow[11] = 2048
        /\ \A b \in 12..30 : pow[b] >= 4096
        /\ \A n : Bits(n) = {b \in 0..30 : (n \div pow[b]) % 2 = 1}
  BY TableOfPowers
<1>2. \A n, k \in Nat : n < k => (n \div k) % 2 # 1
  OBVIOUS
<1>3. \A b \in 0..30 : pow[b] \in Nat
  BY <1>1
<1>4. \A n \in Nat : \A b \in Bits(n) : b \in 0..30 /\ pow[b] <= n
  <2> SUFFICES ASSUME NEW n \in Nat, NEW b \in Bits(n)
               PROVE  b \in 0..30 /\ pow[b] <= n
    OBVIOUS
  <2>1. b \in 0..30 /\ (n \div pow[b]) % 2 = 1
    BY <1>1
  <2>2. pow[b] \in Nat
    BY <1>3, <2>1
  <2> QED
    BY <1>2, <2>1, <2>2
<1>5. ASSUME NEW n \in Nat, n <= 4095, NEW b \in Bits(n)
      PROVE  b \in 0..11
  <2>1. n \in Nat /\ n <= 4095
    BY <1>5
  <2>2. b \in 0..30 /\ pow[b] <= n /\ pow[b] \in Nat
    BY <1>3, <1>4, <2>1
  <2>3. b >= 12 => pow[b] > 4095
    BY <1>1, <2>2
  <2> QED
    BY <2>1, <2>2, <2>3
<1>6. ASSUME NEW n \in Nat, n <= 255, NEW b \in Bits(n)
      PROVE  b \in 0..7
  <2>1. n \in Nat /\ n <= 255
    BY <1>6
  <2>2. b \in 0..30 /\ pow[b] <= n /\ pow[b] \in Nat
    BY <1>3, <1>4, <2>1
  <2>3. b >= 8 => pow[b] > 255
    BY <1>1, <2>2
  <2> QED
    BY <2>1, <2>2, <2>3
<1>7. ASSUME NEW n \in Nat, n <= 31, NEW b \in Bits(n)
      PROVE  b \in 0..4
  <2>1. n \in Nat /\ n <= 31
    BY <1>7
  <2>2. b \in 0..30 /\ pow[b] <= n /\ pow[b] \in Nat
    BY <1>3, <1>4, <2>1
  <2>3. b >= 5 => pow[b] > 31
    BY <1>1, <2>2
  <2> QED
    BY <2>1, <2>2, <2>3
<1>8. ASSUME NEW n \in Nat, n <= 7, NEW b \in Bits(n)
      PROVE  b \in 0..2
  <2>1. n \in Nat /\ n <= 7
    BY <1>8
  <2>2. b \in 0..30 /\ pow[b] <= n /\ pow[b] \in Nat
    BY <1>3, <1>4, <2>1
  <2>3. b >= 3 => pow[b] > 7
    BY <1>1, <2>2
  <2> QED
    BY <2>1, <2>2, <2>3
<1>9. \A n \in Nat : n <= 4095 => Bits(n) \subseteq 0..11
  BY <1>5
<1>10. \A n \in Nat : n <= 255 => Bits(n) \subseteq 0..7
  BY <1>6
<1>11. \A n \in Nat : n <= 31 => Bits(n) \subseteq 0..4
  BY <1>7
<1>12. \A n \in Nat : n <= 7 => Bits(n) \subseteq 0..2
  BY <1>8
<1> QED
  BY <1>9, <1>10, <1>11, <1>12

(* The bits of a register number, which counts words, are those of the index in bytes without
   the two lowest. *)
LEMMA BitsOfRegister ==
  ASSUME NEW n \in Nat, n <= 4095
  PROVE  Bits(n \div 4) = {b - 2 : b \in Bits(n) \cap (2..11)}
<1>1. PICK pow \in [0..30 -> Nat] :
        /\ pow[0] = 1 /\ pow[1] = 2 /\ pow[2] = 4 /\ pow[3] = 8 /\ pow[4] = 16 /\ pow[5] = 32
        /\ pow[6] = 64 /\ pow[7] = 128 /\ pow[8] = 256 /\ pow[9] = 512 /\ pow[10] = 1024
        /\ pow[11] = 2048
        /\ \A m : Bits(m) = {b \in 0..30 : (m \div pow[b]) % 2 = 1}
  BY TableOfPowers
<1>3. n \div 4 \in Nat /\ n \div 4 <= 1023
  OBVIOUS
<1>4. /\ (n \div 4) \div 1 = n \div 4 /\ (n \div 4) \div 2 = n \div 8
      /\ (n \div 4) \div 4 = n \div 16 /\ (n \div 4) \div 8 = n \div 32
      /\ (n \div 4) \div 16 = n \div 64
  OBVIOUS
<1>5. /\ (n \div 4) \div 32 = n \div 128 /\ (n \div 4) \div 64 = n \div 256
      /\ (n \div 4) \div 128 = n \div 512 /\ (n \div 4) \div 256 = n \div 1024
      /\ (n \div 4) \div 512 = n \div 2048
  OBVIOUS
<1>6. \A b \in 0..9 : (n \div 4) \div pow[b] = n \div pow[b + 2]
  BY <1>1, <1>4, <1>5
<1>7. \A b \in 0..9 : b \in Bits(n \div 4) <=> b + 2 \in Bits(n)
  BY <1>1, <1>6
<1>8. Bits(n \div 4) \subseteq 0..11 /\ 10 \notin Bits(n \div 4) /\ 11 \notin Bits(n \div 4)
  <2>1. (n \div 4) \div 1024 = 0 /\ (n \div 4) \div 2048 = 0
    BY <1>3
  <2>2. Bits(n \div 4) \subseteq 0..11
    BY <1>3, NoHighBits
  <2> QED
    BY <1>1, <2>1, <2>2
<1> QED
  BY <1>7, <1>8
-----------------------------------------------------------------------------
(* A type-1 address as the calls of read and write make it of their arguments. *)
AddressOf(req) == PCI_TYPE1_ADDRESS(req.bus, req.device, req.function, req.index)

(* An address of sane arguments fits the port. *)
LEMMA AddressFits ==
  ASSUME NEW req, req.bus \in Nat, req.index \in Nat, Sane(req)
  PROVE  AddressOf(req) \subseteq 0..31
<1>1. Bits(req.bus) \subseteq 0..7
  BY NoHighBits DEF Sane
<1>2. PCI_DEVICE_FN(req.device, req.function) \subseteq 0..7
  BY DEF PCI_DEVICE_FN
<1> QED
  BY <1>1, <1>2 DEF AddressOf, PCI_TYPE1_ADDRESS

(* A field has the bits of the value that are in its place, counted from there. *)
LEMMA BitsOfField ==
  ASSUME NEW value, NEW lo \in Int, NEW width \in Int
  PROVE  Field(value, Place(lo, width)) = {b \in 0..(width - 1) : b + lo \in value}
<1>1. Place(lo, width).lo = lo /\ Place(lo, width).width = width
  BY DEF Place
<1>2. Field(value, Place(lo, width)) = {b - lo : b \in value \cap (lo..(lo + width - 1))}
  BY <1>1 DEF Field
<1>3. ASSUME NEW b \in Field(value, Place(lo, width))
      PROVE  b \in 0..(width - 1) /\ b + lo \in value
  <2>1. PICK c \in value \cap (lo..(lo + width - 1)) : b = c - lo
    BY <1>2, <1>3
  <2> QED
    BY <2>1
<1>4. ASSUME NEW b \in 0..(width - 1), b + lo \in value
      PROVE  b \in Field(value, Place(lo, width))
  <2>1. b + lo \in value \cap (lo..(lo + width - 1)) /\ b = (b + lo) - lo
    BY <1>4
  <2> QED
    BY <1>2, <2>1
<1> QED
  BY <1>3, <1>4

(* It selects the register of the arguments, if the device and the function are in their ranges. *)
LEMMA AddressSelects ==
  ASSUME NEW req, req.bus \in Nat, req.index \in Nat, req.device \in Nat, req.function \in Nat,
         Sane(req), InRange(req)
  PROVE  Selected(AddressOf(req)) = AskedRegister(req)
<1>1. PICK address, I, B, D, F :
        /\ address = AddressOf(req) /\ I = Bits(req.index) /\ B = Bits(req.bus)
        /\ D = Bits(req.device) /\ F = Bits(req.function)
  OBVIOUS
<1>2. B \subseteq 0..7 /\ D \subseteq 0..4 /\ F \subseteq 0..2 /\ I \subseteq 0..11
  BY <1>1, NoHighBits DEF Sane, InRange
<1>3. ASSUME NEW x \in Int
      PROVE  x \in address <=> \/ x = 31
                               \/ x - 16 \in I /\ x - 16 \in 8..11
                               \/ x - 16 \in B
                               \/ x - 11 \in D
                               \/ x - 8 \in F
                               \/ x \in I /\ x \in 2..7
  <2>1. address = {31} \cup {b + 16 : b \in I \cap (8..11)} \cup {b + 16 : b \in B}
                       \cup {b + 8 : b \in PCI_DEVICE_FN(req.device, req.function)} \cup (I \cap (2..7))
    BY <1>1 DEF AddressOf, PCI_TYPE1_ADDRESS
  <2>2. PCI_DEVICE_FN(req.device, req.function) = {b + 3 : b \in D \cap (0..4)} \cup (F \cap (0..2))
    BY <1>1 DEF PCI_DEVICE_FN
  <2>3. x \in {b + 16 : b \in I \cap (8..11)} <=> x - 16 \in I /\ x - 16 \in 8..11
    BY <1>2
  <2>4. x \in {b + 16 : b \in B} <=> x - 16 \in B
    BY <1>2
  <2>5. x \in {b + 8 : b \in PCI_DEVICE_FN(req.device, req.function)} <=> x - 11 \in D \/ x - 8 \in F
    <3>1. \A y \in Int : y \in {b + 3 : b \in D \cap (0..4)} <=> y - 3 \in D
      BY <1>2
    <3>2. \A y \in Int : y \in PCI_DEVICE_FN(req.device, req.function) <=> y - 3 \in D \/ y \in F
      BY <1>2, <2>2, <3>1
    <3>3. PCI_DEVICE_FN(req.device, req.function) \subseteq Int
      BY <2>2
    <3>4. x \in {b + 8 : b \in PCI_DEVICE_FN(req.device, req.function)}
             <=> x - 8 \in PCI_DEVICE_FN(req.device, req.function)
      BY <3>3
    <3>5. x - 8 \in Int /\ (x - 8) - 3 = x - 11
      OBVIOUS
    <3> QED
      BY <3>2, <3>4, <3>5
  <2> QED
    BY <2>1, <2>3, <2>4, <2>5
<1>4. /\ \A b \in 0..7 : b + 16 \in address <=> b \in B
      /\ \A b \in 0..4 : b + 11 \in address <=> b \in D
      /\ \A b \in 0..2 : b + 8 \in address <=> b \in F
      /\ \A b \in 0..5 : b + 2 \in address <=> b + 2 \in I
      /\ \A b \in 0..3 : b + 24 \in address <=> b + 8 \in I
  BY <1>2, <1>3
<1>5. Field(address, Place(16, 8)) = B
  <2>1. Field(address, Place(16, 8)) = {b \in 0..7 : b + 16 \in address}
    BY BitsOfField
  <2> QED
    BY <1>2, <1>4, <2>1
<1>6. Field(address, Place(11, 5)) = D
  <2>1. Field(address, Place(11, 5)) = {b \in 0..4 : b + 11 \in address}
    BY BitsOfField
  <2> QED
    BY <1>2, <1>4, <2>1
<1>7. Field(address, Place(8, 3)) = F
  <2>1. Field(address, Place(8, 3)) = {b \in 0..2 : b + 8 \in address}
    BY BitsOfField
  <2> QED
    BY <1>2, <1>4, <2>1
<1>8. Field(address, Place(2, 6)) \cup {b + 6 : b \in Field(address, Place(24, 4))} = Bits(req.index \div 4)
  <2>1. Field(address, Place(2, 6)) = {b \in 0..5 : b + 2 \in I}
    <3>1. Field(address, Place(2, 6)) = {b \in 0..5 : b + 2 \in address}
      BY BitsOfField
    <3> QED
      BY <1>4, <3>1
  <2>2. Field(address, Place(24, 4)) = {b \in 0..3 : b + 8 \in I}
    <3>1. Field(address, Place(24, 4)) = {b \in 0..3 : b + 24 \in address}
      BY BitsOfField
    <3> QED
      BY <1>4, <3>1
  <2>3. {b + 6 : b \in Field(address, Place(24, 4))} = {b \in 6..9 : b + 2 \in I}
    <3>1. ASSUME NEW x \in {b \in 6..9 : b + 2 \in I}
          PROVE  x \in {b + 6 : b \in Field(address, Place(24, 4))}
      <4>1. x - 6 \in Field(address, Place(24, 4)) /\ x = (x - 6) + 6
        BY <2>2, <3>1
      <4> QED
        BY <4>1
    <3> QED
      BY <2>2, <3>1
  <2>4. Bits(req.index \div 4) = {b - 2 : b \in I \cap (2..11)}
    BY <1>1, BitsOfRegister DEF Sane
  <2>5. {b - 2 : b \in I \cap (2..11)} = {b \in 0..9 : b + 2 \in I}
    <3>1. ASSUME NEW x \in {b \in 0..9 : b + 2 \in I}
          PROVE  x \in {b - 2 : b \in I \cap (2..11)}
      <4>1. x + 2 \in I \cap (2..11) /\ x = (x + 2) - 2
        BY <3>1
      <4> QED
        BY <4>1
    <3> QED
      BY <3>1
  <2> QED
    BY <2>1, <2>3, <2>4, <2>5
<1> QED
  BY <1>1, <1>5, <1>6, <1>7, <1>8 DEF Selected, AskedRegister
-----------------------------------------------------------------------------
PciPcs == {"idle", "address", "data", "save", "select", "check", "restore", "returned"}
PciHits == [address : SUBSET (0..31), lane : Int, len : Nat]
PciCallRecords ==
  [pc : PciPcs, req : PciRequests \cup {InitBus}, tmp : SUBSET (0..31), hit : PciHits, result : BOOLEAN]
PciTyped ==
  /\ addr_port \in SUBSET (0..31)
  /\ pci \in [PciCpus -> PciCallRecords]
  /\ pcalls \in [PciCpus -> 0..MaxPciCalls]
  /\ met \in [PciCpus -> SUBSET (PciCpus \X (PciRequests \cup {InitBus}))]

(* The calls in progress know of each other. *)
PciMet ==
  \A c, d \in PciCpus : pci[c].pc # "idle" /\ pci[d].pc # "idle" => <<d, pci[d].req>> \in met[c]

(* Which calls are at which label; what they have reached so far. *)
PciLabels ==
  \A c \in PciCpus :
    /\ pci[c].pc \in {"address", "data"} => pci[c].req # InitBus /\ Sane(pci[c].req)
    /\ pci[c].pc \in {"save", "select", "check", "restore"} => pci[c].req = InitBus
    /\ pci[c].pc # "returned" => pci[c].hit = NoAccess

(* Some access of those in calls asked for the address. *)
AskedIn(calls, address) ==
  \E m \in calls : m[2] # InitBus /\ Sane(m[2]) /\ address = AddressOf(m[2])
NoInitBusIn(calls) == \A m \in calls : m[2] # InitBus

(* Between the two port accesses of a call, the address port has what an overlapping access put
   there. *)
PciAddressPort ==
  \A c \in PciCpus : pci[c].pc = "data" /\ NoInitBusIn(met[c]) => AskedIn(met[c], addr_port)

(* What an access that has returned has reached. *)
HitRight(req, hit) ==
  /\ Sane(req) /\ req.len \in {1, 2, 4} /\ hit.len = req.len
  /\ hit.lane = (req.index % 4) - (req.index % req.len)
PciHit ==
  \A c \in PciCpus : pci[c].pc = "returned" /\ pci[c].req # InitBus /\ pci[c].hit # NoAccess =>
    /\ HitRight(pci[c].req, pci[c].hit)
    /\ NoInitBusIn(met[c]) => AskedIn(met[c], pci[c].hit.address)

(* A bus initialisation that nothing overlaps. *)
PciAlone ==
  \A c \in PciCpus : pci[c].req = InitBus /\ met[c] = {<<c, InitBus>>} =>
    /\ pci[c].pc = "check" => addr_port = {31}
    /\ pci[c].pc = "restore" => pci[c].result
    /\ pci[c].pc = "returned" => pci[c].result /\ addr_port = pci[c].tmp

PciInv == PciTyped /\ PciMet /\ PciLabels /\ PciAddressPort /\ PciHit /\ PciAlone

(* Facts about the records of calls. *)
LEMMA InitBusOp ==
  /\ InitBus.op = "initbus" /\ NoAccess.len = 0
  /\ \A req \in PciRequests \cup {InitBus} :
       /\ (req = InitBus <=> req.op = "initbus")
       /\ req.bus \in Nat /\ req.device \in Nat /\ req.function \in Nat /\ req.index \in Nat /\ req.len \in Nat
  BY PciConstants DEF InitBus, NoAccess

(* A processor that makes no call has a record of the right type, at rest. *)
LEMMA NoCallTyped ==
  /\ NoAccess \in PciHits /\ NoPciCall \in PciCallRecords
  /\ NoPciCall.pc = "idle" /\ NoPciCall.hit = NoAccess /\ NoPciCall.req = InitBus
<1>1. NoAccess \in PciHits
  BY DEF NoAccess, PciHits
<1> QED
  BY <1>1 DEF NoPciCall, PciCallRecords, PciPcs

(* Nothing is in progress at first. *)
LEMMA PciInitially == PciInit => PciInv
<1> SUFFICES ASSUME PciInit
             PROVE  PciInv
  OBVIOUS
<1>1. \A c \in PciCpus : pci[c] = NoPciCall /\ met[c] = {}
  BY DEF PciInit
<1>2. PciTyped
  BY NoCallTyped, PciConstants DEF PciInit, PciTyped
<1>3. PciMet /\ PciLabels /\ PciAddressPort /\ PciHit
  BY <1>1, NoCallTyped DEF PciMet, PciLabels, PciAddressPort, PciHit
<1>4. PciAlone
  BY <1>1 DEF PciAlone
<1> QED
  BY <1>2, <1>3, <1>4 DEF PciInv

(* Calls seen stay seen. *)
LEMMA MoreCalls ==
  ASSUME NEW calls, NEW more, calls \subseteq more, NEW address
  PROVE  /\ NoInitBusIn(more) => NoInitBusIn(calls)
         /\ AskedIn(calls, address) => AskedIn(more, address)
  BY DEF NoInitBusIn, AskedIn

(* The step of a CPU whose call is in progress and goes on. *)
Goes(c) ==
  /\ pci[c].pc # "idle" /\ UNCHANGED <<pcalls, met>>
  /\ pci' \in [PciCpus -> PciCallRecords]
  /\ \A e \in PciCpus : e # c => pci'[e] = pci[e]
  /\ pci'[c].req = pci[c].req /\ pci'[c].pc # "idle"

(* A call that goes on has its program counter changed and nothing else. *)
LEMMA GoesOn ==
  ASSUME PciInv, NEW c \in PciCpus, Goes(c), addr_port' \in SUBSET (0..31)
  PROVE  PciTyped' /\ PciMet'
<1>1. PciTyped'
  BY DEF PciInv, PciTyped, Goes
<1>2. PciMet'
  BY DEF PciInv, PciMet, Goes
<1> QED
  BY <1>1, <1>2

(* Other calls overlap this one. *)
LEMMA NotAlone ==
  ASSUME PciInv, NEW c \in PciCpus, pci[c].pc # "idle",
         NEW e \in PciCpus, e # c, pci[e].pc # "idle"
  PROVE  met[e] # {<<e, InitBus>>}
  BY DEF PciInv, PciMet

(* The address is written. *)
LEMMA PciAddressKeeps ==
  ASSUME PciInv, NEW c \in PciCpus, PciAddress(c)
  PROVE  PciInv'
<1> DEFINE req == pci[c].req
<1>1. pci[c] \in PciCallRecords /\ pci[c].pc = "address" /\ req \in PciRequests \cup {InitBus}
  BY DEF PciInv, PciTyped, PciAddress, PciCallRecords
<1>2. req # InitBus /\ Sane(req) /\ req.bus \in Nat /\ req.index \in Nat
  BY <1>1, InitBusOp DEF PciInv, PciLabels
<1>3. addr_port' = AddressOf(req)
  BY DEF PciAddress, AddressOf
<1>4. /\ pci' = [pci EXCEPT ![c].pc = "data"] /\ pci'[c] = [pci[c] EXCEPT !.pc = "data"]
      /\ UNCHANGED <<pcalls, met>>
  BY DEF PciAddress, PciInv, PciTyped
<1>5. pci'[c] \in PciCallRecords
  BY <1>1, <1>4 DEF PciCallRecords, PciPcs
<1>6. Goes(c)
  BY <1>1, <1>4, <1>5 DEF Goes, PciInv, PciTyped, PciCallRecords
<1>7. addr_port' \in SUBSET (0..31)
  BY <1>2, <1>3, AddressFits
<1>8. PciTyped' /\ PciMet'
  BY <1>6, <1>7, GoesOn
<1>9. PciLabels'
  BY <1>1, <1>2, <1>4, <1>6 DEF PciInv, PciLabels, Goes, PciCallRecords
<1>10. PciAddressPort'
  <2> SUFFICES ASSUME NEW e \in PciCpus, pci'[e].pc = "data", NoInitBusIn(met[e])
               PROVE  AskedIn(met[e], addr_port')
    BY <1>4 DEF PciAddressPort
  <2>1. <<c, req>> \in met[e]
    BY <1>1, <1>4, <1>6 DEF PciInv, PciMet, Goes
  <2> QED
    BY <2>1, <1>2, <1>3 DEF AskedIn
<1>11. PciHit'
  BY <1>1, <1>4, <1>6 DEF PciInv, PciHit, Goes, PciCallRecords
<1>12. PciAlone'
  BY <1>1, <1>2, <1>4, <1>6, NotAlone DEF PciInv, PciAlone, Goes
<1> QED
  BY <1>8, <1>9, <1>10, <1>11, <1>12 DEF PciInv
(* The lane of an access. *)
LEMMA LaneRight ==
  ASSUME NEW index \in Nat
  PROVE  /\ index % 4 \in Int /\ (index % 4) - (index % 2) \in Int
         /\ index % 4 = (index % 4) - (index % 1) /\ 0 = (index % 4) - (index % 4)
  OBVIOUS

(* The data is accessed. *)
LEMMA PciDataKeeps ==
  ASSUME PciInv, NEW c \in PciCpus, PciData(c)
  PROVE  PciInv'
<1> DEFINE req == pci[c].req
           hit == pci'[c].hit
<1>1. pci[c] \in PciCallRecords /\ pci[c].pc = "data" /\ req \in PciRequests \cup {InitBus}
  BY DEF PciInv, PciTyped, PciData, PciCallRecords
<1>2. req # InitBus /\ Sane(req) /\ req.index \in Nat /\ req.len \in Nat
  BY <1>1, InitBusOp DEF PciInv, PciLabels
<1>3. addr_port \in SUBSET (0..31) /\ pci \in [PciCpus -> PciCallRecords]
  BY DEF PciInv, PciTyped
<1>4. PICK lane : /\ lane = CASE req.len = 1 -> req.index % 4
                             [] req.len = 2 -> (req.index % 4) - (req.index % 2)
                             [] OTHER -> 0
                  /\ pci' = [pci EXCEPT ![c].pc = "returned",
                                        ![c].hit = IF req.len \in {1, 2, 4}
                                                   THEN [address |-> addr_port, lane |-> lane, len |-> req.len]
                                                   ELSE NoAccess]
                  /\ UNCHANGED <<addr_port, pcalls, met>>
  BY DEF PciData
<1>5. lane \in Int /\ (req.len \in {1, 2, 4} => lane = (req.index % 4) - (req.index % req.len))
  <2>1. req.len = 1 => lane = req.index % 4
    BY <1>4
  <2>2. req.len = 2 => lane = (req.index % 4) - (req.index % 2)
    BY <1>4
  <2>3. req.len \notin {1, 2} => lane = 0
    BY <1>4
  <2> QED
    BY <1>2, <2>1, <2>2, <2>3, LaneRight
<1>6. hit = IF req.len \in {1, 2, 4} THEN [address |-> addr_port, lane |-> lane, len |-> req.len]
            ELSE NoAccess
  BY <1>3, <1>4
<1>7. hit \in PciHits
  BY <1>2, <1>3, <1>5, <1>6, NoCallTyped DEF PciHits
<1>8. pci'[c] = [pci[c] EXCEPT !.pc = "returned", !.hit = hit] /\ \A e \in PciCpus : e # c => pci'[e] = pci[e]
  BY <1>1, <1>3, <1>4 DEF PciCallRecords
<1> HIDE DEF hit
<1>9. pci'[c] \in PciCallRecords /\ pci'[c].req = req /\ pci'[c].pc = "returned" /\ pci'[c].hit = hit
  BY <1>1, <1>7, <1>8 DEF PciCallRecords, PciPcs
<1>10. Goes(c)
  <2>1. pci' \in [PciCpus -> PciCallRecords]
    <3>1. DOMAIN pci' = PciCpus /\ pci' = [e \in PciCpus |-> pci'[e]]
      BY <1>3, <1>4
    <3> QED
      BY <1>3, <1>8, <1>9, <3>1
  <2> QED
    BY <1>1, <1>4, <1>8, <1>9, <2>1 DEF Goes
<1>11. PciTyped' /\ PciMet'
  BY <1>3, <1>4, <1>10, GoesOn
<1>12. PciLabels'
  BY <1>8, <1>9 DEF PciInv, PciLabels
<1>13. PciAddressPort'
  BY <1>4, <1>8, <1>9 DEF PciInv, PciAddressPort
<1>14. PciHit'
  <2> SUFFICES ASSUME NEW e \in PciCpus, pci'[e].pc = "returned", pci'[e].req # InitBus,
                      pci'[e].hit # NoAccess
               PROVE  /\ HitRight(pci'[e].req, pci'[e].hit)
                      /\ NoInitBusIn(met[e]) => AskedIn(met[e], pci'[e].hit.address)
    BY <1>4 DEF PciHit
  <2>1. CASE e # c
    BY <1>8, <2>1 DEF PciInv, PciHit
  <2>2. CASE e = c
    <3>1. req.len \in {1, 2, 4} /\ hit = [address |-> addr_port, lane |-> lane, len |-> req.len]
      BY <1>6, <1>9, <2>2
    <3>2. HitRight(req, hit)
      BY <1>2, <1>5, <3>1 DEF HitRight
    <3>3. NoInitBusIn(met[c]) => AskedIn(met[c], addr_port)
      BY <1>1 DEF PciInv, PciAddressPort
    <3> QED
      BY <1>9, <2>2, <3>1, <3>2, <3>3
  <2> QED
    BY <2>1, <2>2
<1>15. PciAlone'
  <2> SUFFICES ASSUME NEW e \in PciCpus, pci'[e].req = InitBus, met[e] = {<<e, InitBus>>},
                      pci'[e].pc # "idle"
               PROVE  FALSE
    BY <1>4 DEF PciAlone
  <2>1. e # c
    BY <1>2, <1>9
  <2> QED
    BY <1>1, <1>8, <2>1, NotAlone
<1> QED
  BY <1>11, <1>12, <1>13, <1>14, <1>15 DEF PciInv

(* The steps of the initialisation. *)
LEMMA PciBusInitKeeps ==
  ASSUME PciInv, NEW c \in PciCpus, PciBusInit(c)
  PROVE  PciInv'
<1>1. /\ pci[c] \in PciCallRecords /\ pci[c].pc \in {"save", "select", "check", "restore"}
      /\ addr_port \in SUBSET (0..31) /\ pci \in [PciCpus -> PciCallRecords]
  BY DEF PciInv, PciTyped, PciBusInit
<1>2. pci[c].req = InitBus /\ pci[c].hit = NoAccess
  BY <1>1 DEF PciInv, PciLabels
<1>3. /\ UNCHANGED <<pcalls, met>>
      /\ \E call \in PciCallRecords :
           /\ pci' = [pci EXCEPT ![c] = call]
           /\ call.req = InitBus /\ call.hit = NoAccess
           /\ \/ /\ pci[c].pc = "save" /\ call.pc = "select" /\ addr_port' = addr_port
              \/ /\ pci[c].pc = "select" /\ call.pc = "check" /\ addr_port' = {31}
              \/ /\ pci[c].pc = "check" /\ call.pc = "restore" /\ addr_port' = addr_port
                 /\ call.result = (addr_port = {31})
              \/ /\ pci[c].pc = "restore" /\ call.pc = "returned" /\ addr_port' = pci[c].tmp
                 /\ call.result = pci[c].result /\ call.tmp = pci[c].tmp
  <2>1. UNCHANGED <<pcalls, met>>
    BY DEF PciBusInit
  <2>2. CASE pci[c].pc = "save"
    <3> DEFINE call == [pci[c] EXCEPT !.tmp = addr_port, !.pc = "select"]
    <3>1. pci' = [pci EXCEPT ![c] = call] /\ addr_port' = addr_port
      BY <1>1, <2>2 DEF PciBusInit
    <3>2. call \in PciCallRecords /\ call.req = InitBus /\ call.hit = NoAccess /\ call.pc = "select"
      BY <1>1, <1>2 DEF PciCallRecords, PciPcs
    <3> HIDE DEF call
    <3> QED
      BY <2>1, <2>2, <3>1, <3>2
  <2>3. CASE pci[c].pc = "select"
    <3> DEFINE call == [pci[c] EXCEPT !.pc = "check"]
    <3>1. pci' = [pci EXCEPT ![c] = call] /\ addr_port' = {31}
      BY <1>1, <2>3 DEF PciBusInit
    <3>2. call \in PciCallRecords /\ call.req = InitBus /\ call.hit = NoAccess /\ call.pc = "check"
      BY <1>1, <1>2 DEF PciCallRecords, PciPcs
    <3> HIDE DEF call
    <3> QED
      BY <2>1, <2>3, <3>1, <3>2
  <2>4. CASE pci[c].pc = "check"
    <3> DEFINE call == [pci[c] EXCEPT !.result = (addr_port = {31}), !.pc = "restore"]
    <3>1. pci' = [pci EXCEPT ![c] = call] /\ addr_port' = addr_port
      BY <1>1, <2>4 DEF PciBusInit
    <3>2. call \in PciCallRecords /\ call.req = InitBus /\ call.hit = NoAccess /\ call.pc = "restore"
      BY <1>1, <1>2 DEF PciCallRecords, PciPcs
    <3>3. call.result = (addr_port = {31})
      BY <1>1 DEF PciCallRecords
    <3> HIDE DEF call
    <3> QED
      BY <2>1, <2>4, <3>1, <3>2, <3>3
  <2>5. CASE pci[c].pc = "restore"
    <3> DEFINE call == [pci[c] EXCEPT !.pc = "returned"]
    <3>1. pci' = [pci EXCEPT ![c] = call] /\ addr_port' = pci[c].tmp
      BY <1>1, <2>5 DEF PciBusInit
    <3>2. /\ call \in PciCallRecords /\ call.req = InitBus /\ call.hit = NoAccess /\ call.pc = "returned"
          /\ call.result = pci[c].result /\ call.tmp = pci[c].tmp
      BY <1>1, <1>2 DEF PciCallRecords, PciPcs
    <3> HIDE DEF call
    <3> QED
      BY <2>1, <2>5, <3>1, <3>2
  <2> QED
    BY <1>1, <2>2, <2>3, <2>4, <2>5
<1>4. PICK call \in PciCallRecords :
           /\ pci' = [pci EXCEPT ![c] = call]
           /\ call.req = InitBus /\ call.hit = NoAccess
           /\ \/ /\ pci[c].pc = "save" /\ call.pc = "select" /\ addr_port' = addr_port
              \/ /\ pci[c].pc = "select" /\ call.pc = "check" /\ addr_port' = {31}
              \/ /\ pci[c].pc = "check" /\ call.pc = "restore" /\ addr_port' = addr_port
                 /\ call.result = (addr_port = {31})
              \/ /\ pci[c].pc = "restore" /\ call.pc = "returned" /\ addr_port' = pci[c].tmp
                 /\ call.result = pci[c].result /\ call.tmp = pci[c].tmp
  BY <1>3
<1>5. /\ pci'[c] = call /\ \A e \in PciCpus : e # c => pci'[e] = pci[e]
      /\ pci' \in [PciCpus -> PciCallRecords]
  BY <1>1, <1>4
<1>6. Goes(c) /\ addr_port' \in SUBSET (0..31)
  <2>1. pci[c].pc # "idle" /\ call.pc # "idle" /\ call.req = pci[c].req
    BY <1>1, <1>2, <1>4
  <2>2. Goes(c)
    BY <1>3, <1>5, <2>1 DEF Goes
  <2>3. pci[c].tmp \in SUBSET (0..31)
    BY <1>1 DEF PciCallRecords
  <2>4. addr_port' = addr_port \/ addr_port' = {31} \/ addr_port' = pci[c].tmp
    BY <1>4
  <2>5. addr_port' \in SUBSET (0..31)
    BY <1>1, <2>3, <2>4
  <2> QED
    BY <2>2, <2>5
<1>7. PciTyped' /\ PciMet'
  BY <1>6, GoesOn
<1>8. PciLabels'
  BY <1>4, <1>5 DEF PciInv, PciLabels
<1>9. PciAddressPort'
  <2> SUFFICES ASSUME NEW e \in PciCpus, pci'[e].pc = "data", NoInitBusIn(met[e])
               PROVE  FALSE
    BY <1>3 DEF PciAddressPort
  <2>1. pci[e].pc # "idle"
    BY <1>4, <1>5
  <2>2. <<c, InitBus>> \in met[e]
    BY <1>1, <1>2, <2>1 DEF PciInv, PciMet
  <2> QED
    BY <2>2 DEF NoInitBusIn
<1>10. PciHit'
  BY <1>3, <1>4, <1>5 DEF PciInv, PciHit
<1>11. PciAlone'
  <2> SUFFICES ASSUME NEW e \in PciCpus, pci'[e].req = InitBus, met[e] = {<<e, InitBus>>}
               PROVE  /\ pci'[e].pc = "check" => addr_port' = {31}
                      /\ pci'[e].pc = "restore" => pci'[e].result
                      /\ pci'[e].pc = "returned" => pci'[e].result /\ addr_port' = pci'[e].tmp
    BY <1>3 DEF PciAlone
  <2>1. CASE e = c
    BY <1>2, <1>4, <1>5, <2>1 DEF PciInv, PciAlone
  <2>2. CASE e # c
    BY <1>1, <1>5, <2>2, NotAlone
  <2> QED
    BY <2>1, <2>2
<1> QED
  BY <1>7, <1>8, <1>9, <1>10, <1>11 DEF PciInv
(* A call returns: the others forget nothing. *)
LEMMA PciReturnKeeps ==
  ASSUME PciInv, NEW c \in PciCpus, PciReturn(c)
  PROVE  PciInv'
<1>1. /\ pci[c].pc = "returned" /\ pci' = [pci EXCEPT ![c] = NoPciCall] /\ met' = [met EXCEPT ![c] = {}]
      /\ addr_port' = addr_port /\ pcalls' = pcalls
  BY DEF PciReturn
<1>2. PciTyped
  BY DEF PciInv
<1>3. /\ pci'[c] = NoPciCall /\ met'[c] = {}
      /\ \A e \in PciCpus : e # c => pci'[e] = pci[e] /\ met'[e] = met[e]
  BY <1>1, <1>2 DEF PciTyped
<1>4. PciTyped'
  BY <1>1, <1>2, NoCallTyped DEF PciTyped
<1>5. PciMet'
  <2> SUFFICES ASSUME NEW e \in PciCpus, NEW d \in PciCpus, pci'[e].pc # "idle", pci'[d].pc # "idle"
               PROVE  <<d, pci'[d].req>> \in met'[e]
    BY DEF PciMet
  <2>1. e # c /\ d # c
    BY <1>3, NoCallTyped
  <2> QED
    BY <1>3, <2>1 DEF PciInv, PciMet
<1>6. PciLabels'
  BY <1>3, NoCallTyped DEF PciInv, PciLabels
<1>7. PciAddressPort'
  <2> SUFFICES ASSUME NEW e \in PciCpus, pci'[e].pc = "data", NoInitBusIn(met'[e])
               PROVE  AskedIn(met'[e], addr_port)
    BY <1>1 DEF PciAddressPort
  <2>1. e # c
    BY <1>3, NoCallTyped
  <2> QED
    BY <1>3, <2>1 DEF PciInv, PciAddressPort
<1>8. PciHit'
  <2> SUFFICES ASSUME NEW e \in PciCpus, pci'[e].pc = "returned", pci'[e].req # InitBus,
                      pci'[e].hit # NoAccess
               PROVE  /\ HitRight(pci'[e].req, pci'[e].hit)
                      /\ NoInitBusIn(met'[e]) => AskedIn(met'[e], pci'[e].hit.address)
    BY DEF PciHit
  <2>1. e # c
    BY <1>3, NoCallTyped
  <2> QED
    BY <1>3, <2>1 DEF PciInv, PciHit
<1>9. PciAlone'
  <2> SUFFICES ASSUME NEW e \in PciCpus, pci'[e].req = InitBus, met'[e] = {<<e, InitBus>>}
               PROVE  /\ pci'[e].pc = "check" => addr_port = {31}
                      /\ pci'[e].pc = "restore" => pci'[e].result
                      /\ pci'[e].pc = "returned" => pci'[e].result /\ addr_port = pci'[e].tmp
    BY <1>1 DEF PciAlone
  <2>1. e # c
    BY <1>3
  <2>2. pci'[e] = pci[e] /\ met[e] = {<<e, InitBus>>}
    BY <1>3, <2>1
  <2> QED
    BY <2>2 DEF PciInv, PciAlone
<1> QED
  BY <1>4, <1>5, <1>6, <1>7, <1>8, <1>9 DEF PciInv

(* A call begins and is seen by the calls in progress; it sees them. *)
LEMMA PciCallKeeps ==
  ASSUME PciInv, NEW c \in PciCpus, PciCall(c)
  PROVE  PciInv'
<1>1. PICK req \in PciRequests \cup {InitBus} :
        /\ pci' = [pci EXCEPT ![c] =
             [NoPciCall EXCEPT !.req = req,
                               !.pc = IF req = InitBus THEN "save"
                                      ELSE IF Sane(req) THEN "address" ELSE "returned"]]
        /\ met' = [d \in PciCpus |->
             IF d = c THEN {<<e, pci[e].req>> : e \in InProgress} \cup {<<c, req>>}
             ELSE IF d \in InProgress THEN met[d] \cup {<<c, req>>} ELSE met[d]]
  BY DEF PciCall
<1>2. /\ addr_port' = addr_port /\ pci[c].pc = "idle" /\ pcalls[c] < MaxPciCalls
      /\ pcalls' = [pcalls EXCEPT ![c] = @ + 1]
  BY DEF PciCall
<1>3. PciTyped
  BY DEF PciInv
<1> DEFINE call == [NoPciCall EXCEPT !.req = req,
                                     !.pc = IF req = InitBus THEN "save"
                                            ELSE IF Sane(req) THEN "address" ELSE "returned"]
<1>4. /\ call \in PciCallRecords /\ call.req = req /\ call.hit = NoAccess
      /\ call.pc = IF req = InitBus THEN "save" ELSE IF Sane(req) THEN "address" ELSE "returned"
  BY NoCallTyped DEF PciCallRecords, PciPcs, NoPciCall
<1>5. pci' = [pci EXCEPT ![c] = call]
  BY <1>1
<1> HIDE DEF call
<1>6. pci'[c] = call /\ \A e \in PciCpus : e # c => pci'[e] = pci[e]
  BY <1>3, <1>5 DEF PciTyped
<1>7. /\ met'[c] = {<<e, pci[e].req>> : e \in InProgress} \cup {<<c, req>>}
      /\ \A e \in PciCpus : e # c /\ pci[e].pc # "idle" => met'[e] = met[e] \cup {<<c, req>>}
      /\ \A e \in PciCpus : e # c /\ pci[e].pc = "idle" => met'[e] = met[e]
  BY <1>1 DEF InProgress
<1>8. PciTyped'
  <2>1. pci' \in [PciCpus -> PciCallRecords]
    BY <1>3, <1>4, <1>5 DEF PciTyped
  <2>2. pcalls' \in [PciCpus -> 0..MaxPciCalls]
    BY <1>2, <1>3, PciConstants DEF PciTyped
  <2>3. \A e \in PciCpus : met'[e] \in SUBSET (PciCpus \X (PciRequests \cup {InitBus}))
    <3>1. \A e \in PciCpus : pci[e].req \in PciRequests \cup {InitBus}
      BY <1>3 DEF PciTyped, PciCallRecords
    <3>2. {<<e, pci[e].req>> : e \in InProgress} \in SUBSET (PciCpus \X (PciRequests \cup {InitBus}))
      BY <3>1 DEF InProgress
    <3>3. <<c, req>> \in PciCpus \X (PciRequests \cup {InitBus})
      BY <1>1
    <3>4. met'[c] \in SUBSET (PciCpus \X (PciRequests \cup {InitBus}))
      BY <1>7, <3>2, <3>3
    <3>5. ASSUME NEW e \in PciCpus, e # c
          PROVE  met'[e] \in SUBSET (PciCpus \X (PciRequests \cup {InitBus}))
      <4>1. met'[e] = met[e] \cup {<<c, req>>} \/ met'[e] = met[e]
        BY <1>7, <3>5
      <4>2. met[e] \in SUBSET (PciCpus \X (PciRequests \cup {InitBus}))
        BY <1>3 DEF PciTyped
      <4> QED
        BY <3>3, <4>1, <4>2
    <3> QED
      BY <3>4, <3>5
  <2>4. met' = [e \in PciCpus |-> met'[e]]
    BY <1>1
  <2> QED
    BY <1>2, <1>3, <2>1, <2>2, <2>3, <2>4 DEF PciTyped
<1>9. PciMet'
  <2> SUFFICES ASSUME NEW e \in PciCpus, NEW d \in PciCpus, pci'[e].pc # "idle", pci'[d].pc # "idle"
               PROVE  <<d, pci'[d].req>> \in met'[e]
    BY DEF PciMet
  <2>1. CASE e = c
    <3>1. CASE d = c
      BY <1>4, <1>6, <1>7, <2>1, <3>1
    <3>2. CASE d # c
      <4>1. pci'[d] = pci[d] /\ d \in InProgress
        BY <1>6, <3>2 DEF InProgress
      <4> QED
        BY <1>7, <2>1, <4>1
    <3> QED
      BY <3>1, <3>2
  <2>2. CASE e # c
    <3>1. pci'[e] = pci[e] /\ met'[e] = met[e] \cup {<<c, req>>}
      BY <1>6, <1>7, <2>2
    <3>2. CASE d = c
      BY <1>4, <1>6, <3>1, <3>2
    <3>3. CASE d # c
      BY <1>6, <3>1, <3>3 DEF PciInv, PciMet
    <3> QED
      BY <3>2, <3>3
  <2> QED
    BY <2>1, <2>2
<1>10. PciLabels'
  <2> SUFFICES ASSUME NEW e \in PciCpus
               PROVE  /\ pci'[e].pc \in {"address", "data"} => pci'[e].req # InitBus /\ Sane(pci'[e].req)
                      /\ pci'[e].pc \in {"save", "select", "check", "restore"} => pci'[e].req = InitBus
                      /\ pci'[e].pc # "returned" => pci'[e].hit = NoAccess
    BY DEF PciLabels
  <2>1. CASE e = c
    BY <1>4, <1>6, <2>1
  <2>2. CASE e # c
    BY <1>6, <2>2 DEF PciInv, PciLabels
  <2> QED
    BY <2>1, <2>2
<1>11. \A e \in PciCpus : e # c => met[e] \subseteq met'[e]
  BY <1>7
<1>12. PciAddressPort'
  <2> SUFFICES ASSUME NEW e \in PciCpus, pci'[e].pc = "data", NoInitBusIn(met'[e])
               PROVE  AskedIn(met'[e], addr_port)
    BY <1>2 DEF PciAddressPort
  <2>1. e # c
    BY <1>4, <1>6
  <2>2. pci[e].pc = "data" /\ NoInitBusIn(met[e])
    BY <1>6, <1>11, <2>1, MoreCalls
  <2>3. AskedIn(met[e], addr_port)
    BY <2>2 DEF PciInv, PciAddressPort
  <2> QED
    BY <1>11, <2>1, <2>3, MoreCalls
<1>13. PciHit'
  <2> SUFFICES ASSUME NEW e \in PciCpus, pci'[e].pc = "returned", pci'[e].req # InitBus,
                      pci'[e].hit # NoAccess
               PROVE  /\ HitRight(pci'[e].req, pci'[e].hit)
                      /\ NoInitBusIn(met'[e]) => AskedIn(met'[e], pci'[e].hit.address)
    BY DEF PciHit
  <2>1. e # c
    BY <1>4, <1>6
  <2>2. pci'[e] = pci[e] /\ met[e] \subseteq met'[e]
    BY <1>6, <1>11, <2>1
  <2>3. HitRight(pci[e].req, pci[e].hit) /\ (NoInitBusIn(met[e]) => AskedIn(met[e], pci[e].hit.address))
    BY <2>2 DEF PciInv, PciHit
  <2>4. NoInitBusIn(met'[e]) => AskedIn(met'[e], pci[e].hit.address)
    BY <2>2, <2>3, MoreCalls
  <2> QED
    BY <2>2, <2>3, <2>4
<1>14. PciAlone'
  <2> SUFFICES ASSUME NEW e \in PciCpus, pci'[e].req = InitBus, met'[e] = {<<e, InitBus>>}
               PROVE  /\ pci'[e].pc = "check" => addr_port = {31}
                      /\ pci'[e].pc = "restore" => pci'[e].result
                      /\ pci'[e].pc = "returned" => pci'[e].result /\ addr_port = pci'[e].tmp
    BY <1>2 DEF PciAlone
  <2>1. CASE e = c
    <3>1. pci'[e].pc = "save"
      BY <1>4, <1>6, <2>1
    <3> QED
      BY <3>1
  <2>2. CASE e # c
    <3>1. pci'[e] = pci[e] /\ (pci[e].pc # "idle" => <<c, req>> \in met'[e])
      BY <1>6, <1>7, <2>2
    <3>2. pci[e].pc = "idle"
      BY <2>2, <3>1
    <3> QED
      BY <3>1, <3>2
  <2> QED
    BY <2>1, <2>2
<1> QED
  BY <1>8, <1>9, <1>10, <1>12, <1>13, <1>14 DEF PciInv

(* Every step of a call to configuration space preserves the invariant. *)
LEMMA PciPreserved == PciInv /\ [PciNext]_pciVars => PciInv'
<1> SUFFICES ASSUME PciInv, [PciNext]_pciVars
             PROVE  PciInv'
  OBVIOUS
<1>1. CASE PciNext
  BY <1>1, PciCallKeeps, PciAddressKeeps, PciDataKeeps, PciBusInitKeeps, PciReturnKeeps DEF PciNext
<1>2. CASE UNCHANGED pciVars
  <2>1. PciTyped' /\ PciMet' /\ PciLabels'
    BY <1>2 DEF PciInv, PciTyped, PciMet, PciLabels, pciVars
  <2>2. PciAddressPort' /\ PciHit' /\ PciAlone'
    BY <1>2 DEF PciInv, PciAddressPort, PciHit, PciAlone, pciVars
  <2> QED
    BY <2>1, <2>2 DEF PciInv
<1> QED
  BY <1>1, <1>2

(* The invariant implies the property. *)
LEMMA PciImplied == PciInv => PciTypeOK /\ PciReachesAsked
<1> SUFFICES ASSUME PciInv
             PROVE  PciTypeOK /\ PciReachesAsked
  OBVIOUS
<1>1. PciTypeOK
  BY DEF PciInv, PciTyped, PciTypeOK, PciCallRecords, PciPcs
<1>2. PciReachesAsked
  <2> SUFFICES ASSUME NEW c \in PciCpus, pci[c].pc = "returned"
               PROVE  LET req == pci[c].req
                          hit == pci[c].hit
                          calls == {m[2] : m \in met[c]}
                          those == {AskedRegister(r) : r \in {r \in calls : r.op # "initbus" /\ Sane(r)}}
                      IN  /\ req.op = "initbus" /\ met[c] = {<<c, InitBus>>} =>
                               pci[c].result /\ addr_port = pci[c].tmp
                          /\ req.op # "initbus" /\ (~Sane(req) \/ req.len \notin {1, 2, 4}) => hit = NoAccess
                          /\ req.op # "initbus" /\ hit # NoAccess /\ (\A r \in calls : r.op # "initbus" /\ InRange(r)) =>
                               /\ Selected(hit.address) \in those
                               /\ hit.len = req.len
                               /\ hit.lane = (req.index % 4) - (req.index % req.len)
    BY DEF PciReachesAsked
  <2> DEFINE req == pci[c].req
             hit == pci[c].hit
             calls == {m[2] : m \in met[c]}
             those == {AskedRegister(r) : r \in {r \in calls : r.op # "initbus" /\ Sane(r)}}
  <2>1. /\ req \in PciRequests \cup {InitBus}
        /\ \A m \in met[c] : m[2] \in PciRequests \cup {InitBus}
    BY DEF PciInv, PciTyped, PciCallRecords
  <2>2. req.op = "initbus" <=> req = InitBus
    BY <2>1, InitBusOp
  <2>3. req.op = "initbus" /\ met[c] = {<<c, InitBus>>} => pci[c].result /\ addr_port = pci[c].tmp
    BY <2>2 DEF PciInv, PciAlone
  <2>4. req.op # "initbus" /\ hit # NoAccess =>
          HitRight(req, hit) /\ (NoInitBusIn(met[c]) => AskedIn(met[c], hit.address))
    BY <2>2 DEF PciInv, PciHit
  <2>5. req.op # "initbus" /\ (~Sane(req) \/ req.len \notin {1, 2, 4}) => hit = NoAccess
    BY <2>4 DEF HitRight
  <2>6. ASSUME req.op # "initbus", hit # NoAccess, \A r \in calls : r.op # "initbus" /\ InRange(r)
        PROVE  Selected(hit.address) \in those
    <3>1. NoInitBusIn(met[c])
      BY <2>6, InitBusOp DEF NoInitBusIn
    <3>2. PICK m \in met[c] : Sane(m[2]) /\ hit.address = AddressOf(m[2])
      BY <2>4, <2>6, <3>1 DEF AskedIn
    <3>3. m[2] \in calls /\ m[2].op # "initbus" /\ InRange(m[2])
      BY <2>6
    <3>4. Selected(hit.address) = AskedRegister(m[2])
      BY <2>1, <3>2, <3>3, InitBusOp, AddressSelects
    <3> QED
      BY <3>2, <3>3, <3>4
  <2>7. req.op # "initbus" /\ hit # NoAccess =>
          hit.len = req.len /\ hit.lane = (req.index % 4) - (req.index % req.len)
    BY <2>4 DEF HitRight
  <2> HIDE DEF req, hit, calls, those
  <2>8. req.op # "initbus" /\ hit # NoAccess /\ (\A r \in calls : r.op # "initbus" /\ InRange(r)) =>
          /\ Selected(hit.address) \in those
          /\ hit.len = req.len
          /\ hit.lane = (req.index % 4) - (req.index % req.len)
    BY <2>6, <2>7
  <2> QED
    BY <2>3, <2>5, <2>8 DEF req, hit, calls, those
<1> QED
  BY <1>1, <1>2

(* The port of addresses holds a word of 32 bits and every call in progress has
   the record its type says (xmhfhw_pci_*.c). *)
THEOREM PciTypes == PciSpec => []PciTypeOK
<1>1. PciSpec => []PciInv
  BY PciInitially, PciPreserved, PTL DEF PciSpec
<1> QED
  BY <1>1, PciImplied, PTL

(* A call with arguments in range reaches, of the length asked, the bytes of a register
   that it or a call overlapping it asked for; one that fails its sanity check reaches
   nothing; and initialisation alone finds the bus and leaves the port of addresses as
   it was (xmhfhw_pci_{read,write,initbus}.c). *)
THEOREM AccessReaches == PciSpec => []PciReachesAsked
<1>1. PciSpec => []PciInv
  BY PciInitially, PciPreserved, PTL DEF PciSpec
<1> QED
  BY <1>1, PciImplied, PTL
-----------------------------------------------------------------------------
(* The fields of a layout: inside 64 bits, not empty, apart from each other, and together all the
   bits of the register.  No member is called none. *)
PlacesFit(layout) ==
  \A f \in DOMAIN layout :
    layout[f].lo \in 0..63 /\ layout[f].width \in 1..64 /\ layout[f].lo + layout[f].width <= 64
PlacesApart(layout) ==
  \A f, g \in DOMAIN layout :
    f # g => \/ layout[f].lo + layout[f].width <= layout[g].lo
             \/ layout[g].lo + layout[g].width <= layout[f].lo
PlacesCover(layout, bits) ==
  \A b \in bits : \E f \in DOMAIN layout : layout[f].lo <= b /\ b < layout[f].lo + layout[f].width
Describes(layout, bits) ==
  /\ PlacesFit(layout) /\ PlacesApart(layout) /\ PlacesCover(layout, bits)
  /\ "none" \notin DOMAIN layout

(* The layouts describe their registers, but for the three that are excepted. *)
LEMMA LayoutsDescribe ==
  /\ Describes(VTD_CAP_REG, 0..63)
  /\ Describes(VTD_ECAP_REG, 0..63)
  /\ Describes(VTD_GCMD_REG, 0..31)
  /\ Describes(VTD_GSTS_REG, 0..31)
  /\ Describes(VTD_CCMD_REG, 0..63)
  /\ Describes(VTD_IOTLB_REG, 0..63)
  /\ Describes(VTD_FECTL_REG, 0..31)
  /\ Describes(VTD_PMEN_REG, 0..31)
  /\ Describes(mtrr_cap_t, 0..63)
  /\ Describes(mtrr_def_type_t, 0..63)
  /\ Describes(mtrr_physbase_t, 0..63)
  /\ Describes(mtrr_physmask_t, 0..63)
  /\ Describes(txt_ests_t, 0..7)
  /\ Describes(txt_e2sts_t, 0..3)
  /\ Describes(txt_sts_t, 0..11)
  /\ Describes(txt_didvid_t, 0..63)
  /\ Describes(txt_ver_fsbif_emif_t, 0..31)
  /\ Describes(txt_errorcode_sw_t, 0..29)
  /\ Describes(capabilities_t, 0..31)
<1>1. Describes(VTD_CAP_REG, 0..63)
  <2>1. PlacesFit(VTD_CAP_REG)
    BY DEF PlacesFit, Place, VTD_CAP_REG
  <2>2. PlacesApart(VTD_CAP_REG)
    BY DEF PlacesApart, Place, VTD_CAP_REG
  <2>3. PlacesCover(VTD_CAP_REG, 0..63)
    BY DEF PlacesCover, Place, VTD_CAP_REG
  <2>4. "none" \notin DOMAIN VTD_CAP_REG
    BY DEF VTD_CAP_REG
  <2> QED
    BY <2>1, <2>2, <2>3, <2>4 DEF Describes
<1>2. Describes(VTD_ECAP_REG, 0..63)
  <2>1. PlacesFit(VTD_ECAP_REG)
    BY DEF PlacesFit, Place, VTD_ECAP_REG
  <2>2. PlacesApart(VTD_ECAP_REG)
    BY DEF PlacesApart, Place, VTD_ECAP_REG
  <2>3. PlacesCover(VTD_ECAP_REG, 0..63)
    BY DEF PlacesCover, Place, VTD_ECAP_REG
  <2>4. "none" \notin DOMAIN VTD_ECAP_REG
    BY DEF VTD_ECAP_REG
  <2> QED
    BY <2>1, <2>2, <2>3, <2>4 DEF Describes
<1>3. Describes(VTD_GCMD_REG, 0..31)
  <2>1. PlacesFit(VTD_GCMD_REG)
    BY DEF PlacesFit, Place, VTD_GCMD_REG
  <2>2. PlacesApart(VTD_GCMD_REG)
    BY DEF PlacesApart, Place, VTD_GCMD_REG
  <2>3. PlacesCover(VTD_GCMD_REG, 0..31)
    BY DEF PlacesCover, Place, VTD_GCMD_REG
  <2>4. "none" \notin DOMAIN VTD_GCMD_REG
    BY DEF VTD_GCMD_REG
  <2> QED
    BY <2>1, <2>2, <2>3, <2>4 DEF Describes
<1>4. Describes(VTD_GSTS_REG, 0..31)
  <2>1. PlacesFit(VTD_GSTS_REG)
    BY DEF PlacesFit, Place, VTD_GSTS_REG
  <2>2. PlacesApart(VTD_GSTS_REG)
    BY DEF PlacesApart, Place, VTD_GSTS_REG
  <2>3. PlacesCover(VTD_GSTS_REG, 0..31)
    BY DEF PlacesCover, Place, VTD_GSTS_REG
  <2>4. "none" \notin DOMAIN VTD_GSTS_REG
    BY DEF VTD_GSTS_REG
  <2> QED
    BY <2>1, <2>2, <2>3, <2>4 DEF Describes
<1>5. Describes(VTD_CCMD_REG, 0..63)
  <2>1. PlacesFit(VTD_CCMD_REG)
    BY DEF PlacesFit, Place, VTD_CCMD_REG
  <2>2. PlacesApart(VTD_CCMD_REG)
    BY DEF PlacesApart, Place, VTD_CCMD_REG
  <2>3. PlacesCover(VTD_CCMD_REG, 0..63)
    BY DEF PlacesCover, Place, VTD_CCMD_REG
  <2>4. "none" \notin DOMAIN VTD_CCMD_REG
    BY DEF VTD_CCMD_REG
  <2> QED
    BY <2>1, <2>2, <2>3, <2>4 DEF Describes
<1>6. Describes(VTD_IOTLB_REG, 0..63)
  <2>1. PlacesFit(VTD_IOTLB_REG)
    BY DEF PlacesFit, Place, VTD_IOTLB_REG
  <2>2. PlacesApart(VTD_IOTLB_REG)
    BY DEF PlacesApart, Place, VTD_IOTLB_REG
  <2>3. PlacesCover(VTD_IOTLB_REG, 0..63)
    BY DEF PlacesCover, Place, VTD_IOTLB_REG
  <2>4. "none" \notin DOMAIN VTD_IOTLB_REG
    BY DEF VTD_IOTLB_REG
  <2> QED
    BY <2>1, <2>2, <2>3, <2>4 DEF Describes
<1>7. Describes(VTD_FECTL_REG, 0..31)
  <2>1. PlacesFit(VTD_FECTL_REG)
    BY DEF PlacesFit, Place, VTD_FECTL_REG
  <2>2. PlacesApart(VTD_FECTL_REG)
    BY DEF PlacesApart, Place, VTD_FECTL_REG
  <2>3. PlacesCover(VTD_FECTL_REG, 0..31)
    BY DEF PlacesCover, Place, VTD_FECTL_REG
  <2>4. "none" \notin DOMAIN VTD_FECTL_REG
    BY DEF VTD_FECTL_REG
  <2> QED
    BY <2>1, <2>2, <2>3, <2>4 DEF Describes
<1>8. Describes(VTD_PMEN_REG, 0..31)
  <2>1. PlacesFit(VTD_PMEN_REG)
    BY DEF PlacesFit, Place, VTD_PMEN_REG
  <2>2. PlacesApart(VTD_PMEN_REG)
    BY DEF PlacesApart, Place, VTD_PMEN_REG
  <2>3. PlacesCover(VTD_PMEN_REG, 0..31)
    BY DEF PlacesCover, Place, VTD_PMEN_REG
  <2>4. "none" \notin DOMAIN VTD_PMEN_REG
    BY DEF VTD_PMEN_REG
  <2> QED
    BY <2>1, <2>2, <2>3, <2>4 DEF Describes
<1>9. Describes(mtrr_cap_t, 0..63)
  <2>1. PlacesFit(mtrr_cap_t)
    BY DEF PlacesFit, Place, mtrr_cap_t
  <2>2. PlacesApart(mtrr_cap_t)
    BY DEF PlacesApart, Place, mtrr_cap_t
  <2>3. PlacesCover(mtrr_cap_t, 0..63)
    BY DEF PlacesCover, Place, mtrr_cap_t
  <2>4. "none" \notin DOMAIN mtrr_cap_t
    BY DEF mtrr_cap_t
  <2> QED
    BY <2>1, <2>2, <2>3, <2>4 DEF Describes
<1>10. Describes(mtrr_def_type_t, 0..63)
  <2>1. PlacesFit(mtrr_def_type_t)
    BY DEF PlacesFit, Place, mtrr_def_type_t
  <2>2. PlacesApart(mtrr_def_type_t)
    BY DEF PlacesApart, Place, mtrr_def_type_t
  <2>3. PlacesCover(mtrr_def_type_t, 0..63)
    BY DEF PlacesCover, Place, mtrr_def_type_t
  <2>4. "none" \notin DOMAIN mtrr_def_type_t
    BY DEF mtrr_def_type_t
  <2> QED
    BY <2>1, <2>2, <2>3, <2>4 DEF Describes
<1>11. Describes(mtrr_physbase_t, 0..63)
  <2>1. PlacesFit(mtrr_physbase_t)
    BY DEF PlacesFit, Place, mtrr_physbase_t
  <2>2. PlacesApart(mtrr_physbase_t)
    BY DEF PlacesApart, Place, mtrr_physbase_t
  <2>3. PlacesCover(mtrr_physbase_t, 0..63)
    BY DEF PlacesCover, Place, mtrr_physbase_t
  <2>4. "none" \notin DOMAIN mtrr_physbase_t
    BY DEF mtrr_physbase_t
  <2> QED
    BY <2>1, <2>2, <2>3, <2>4 DEF Describes
<1>12. Describes(mtrr_physmask_t, 0..63)
  <2>1. PlacesFit(mtrr_physmask_t)
    BY DEF PlacesFit, Place, mtrr_physmask_t
  <2>2. PlacesApart(mtrr_physmask_t)
    BY DEF PlacesApart, Place, mtrr_physmask_t
  <2>3. PlacesCover(mtrr_physmask_t, 0..63)
    BY DEF PlacesCover, Place, mtrr_physmask_t
  <2>4. "none" \notin DOMAIN mtrr_physmask_t
    BY DEF mtrr_physmask_t
  <2> QED
    BY <2>1, <2>2, <2>3, <2>4 DEF Describes
<1>13. Describes(txt_ests_t, 0..7)
  <2>1. PlacesFit(txt_ests_t)
    BY DEF PlacesFit, Place, txt_ests_t
  <2>2. PlacesApart(txt_ests_t)
    BY DEF PlacesApart, Place, txt_ests_t
  <2>3. PlacesCover(txt_ests_t, 0..7)
    BY DEF PlacesCover, Place, txt_ests_t
  <2>4. "none" \notin DOMAIN txt_ests_t
    BY DEF txt_ests_t
  <2> QED
    BY <2>1, <2>2, <2>3, <2>4 DEF Describes
<1>14. Describes(txt_e2sts_t, 0..3)
  <2>1. PlacesFit(txt_e2sts_t)
    BY DEF PlacesFit, Place, txt_e2sts_t
  <2>2. PlacesApart(txt_e2sts_t)
    BY DEF PlacesApart, Place, txt_e2sts_t
  <2>3. PlacesCover(txt_e2sts_t, 0..3)
    BY DEF PlacesCover, Place, txt_e2sts_t
  <2>4. "none" \notin DOMAIN txt_e2sts_t
    BY DEF txt_e2sts_t
  <2> QED
    BY <2>1, <2>2, <2>3, <2>4 DEF Describes
<1>15. Describes(txt_sts_t, 0..11)
  <2>1. PlacesFit(txt_sts_t)
    BY DEF PlacesFit, Place, txt_sts_t
  <2>2. PlacesApart(txt_sts_t)
    BY DEF PlacesApart, Place, txt_sts_t
  <2>3. PlacesCover(txt_sts_t, 0..11)
    BY DEF PlacesCover, Place, txt_sts_t
  <2>4. "none" \notin DOMAIN txt_sts_t
    BY DEF txt_sts_t
  <2> QED
    BY <2>1, <2>2, <2>3, <2>4 DEF Describes
<1>16. Describes(txt_didvid_t, 0..63)
  <2>1. PlacesFit(txt_didvid_t)
    BY DEF PlacesFit, Place, txt_didvid_t
  <2>2. PlacesApart(txt_didvid_t)
    BY DEF PlacesApart, Place, txt_didvid_t
  <2>3. PlacesCover(txt_didvid_t, 0..63)
    BY DEF PlacesCover, Place, txt_didvid_t
  <2>4. "none" \notin DOMAIN txt_didvid_t
    BY DEF txt_didvid_t
  <2> QED
    BY <2>1, <2>2, <2>3, <2>4 DEF Describes
<1>17. Describes(txt_ver_fsbif_emif_t, 0..31)
  <2>1. PlacesFit(txt_ver_fsbif_emif_t)
    BY DEF PlacesFit, Place, txt_ver_fsbif_emif_t
  <2>2. PlacesApart(txt_ver_fsbif_emif_t)
    BY DEF PlacesApart, Place, txt_ver_fsbif_emif_t
  <2>3. PlacesCover(txt_ver_fsbif_emif_t, 0..31)
    BY DEF PlacesCover, Place, txt_ver_fsbif_emif_t
  <2>4. "none" \notin DOMAIN txt_ver_fsbif_emif_t
    BY DEF txt_ver_fsbif_emif_t
  <2> QED
    BY <2>1, <2>2, <2>3, <2>4 DEF Describes
<1>18. Describes(txt_errorcode_sw_t, 0..29)
  <2>1. PlacesFit(txt_errorcode_sw_t)
    BY DEF PlacesFit, Place, txt_errorcode_sw_t
  <2>2. PlacesApart(txt_errorcode_sw_t)
    BY DEF PlacesApart, Place, txt_errorcode_sw_t
  <2>3. PlacesCover(txt_errorcode_sw_t, 0..29)
    BY DEF PlacesCover, Place, txt_errorcode_sw_t
  <2>4. "none" \notin DOMAIN txt_errorcode_sw_t
    BY DEF txt_errorcode_sw_t
  <2> QED
    BY <2>1, <2>2, <2>3, <2>4 DEF Describes
<1>19. Describes(capabilities_t, 0..31)
  <2>1. PlacesFit(capabilities_t)
    BY DEF PlacesFit, Place, capabilities_t
  <2>2. PlacesApart(capabilities_t)
    BY DEF PlacesApart, Place, capabilities_t
  <2>3. PlacesCover(capabilities_t, 0..31)
    BY DEF PlacesCover, Place, capabilities_t
  <2>4. "none" \notin DOMAIN capabilities_t
    BY DEF capabilities_t
  <2> QED
    BY <2>1, <2>2, <2>3, <2>4 DEF Describes
<1> QED
  BY <1>1, <1>2, <1>3, <1>4, <1>5, <1>6, <1>7, <1>8, <1>9, <1>10, <1>11, <1>12, <1>13, <1>14, <1>15, <1>16,
     <1>17, <1>18, <1>19

(* The layout of every register describes disjoint fields within 64 bits. *)
LEMMA LayoutDescribes ==
  ASSUME NEW name \in DOMAIN Layouts, name \notin Misdescribed
  PROVE  /\ Describes(Layouts[name], RegisterBits(name))
         /\ \A f : DeclaredWidth(name, f) = Layouts[name][f].width
<1>1. name \notin {"txt_errorcode_t", "acmod_error_t", "VTD_RTADDR_REG"}
  BY DEF Misdescribed
<1>2. \A f : DeclaredWidth(name, f) = Layouts[name][f].width
  BY <1>1 DEF DeclaredWidth
<1>3. CASE name = "VTD_CAP_REG"
  <2>1. Layouts[name] = VTD_CAP_REG /\ RegisterBits(name) = 0..63
    BY <1>3 DEF Layouts, RegisterBits
  <2> QED
    BY <1>2, <2>1, LayoutsDescribe
<1>4. CASE name = "VTD_ECAP_REG"
  <2>1. Layouts[name] = VTD_ECAP_REG /\ RegisterBits(name) = 0..63
    BY <1>4 DEF Layouts, RegisterBits
  <2> QED
    BY <1>2, <2>1, LayoutsDescribe
<1>5. CASE name = "VTD_GCMD_REG"
  <2>1. Layouts[name] = VTD_GCMD_REG /\ RegisterBits(name) = 0..31
    BY <1>5 DEF Layouts, RegisterBits
  <2> QED
    BY <1>2, <2>1, LayoutsDescribe
<1>6. CASE name = "VTD_GSTS_REG"
  <2>1. Layouts[name] = VTD_GSTS_REG /\ RegisterBits(name) = 0..31
    BY <1>6 DEF Layouts, RegisterBits
  <2> QED
    BY <1>2, <2>1, LayoutsDescribe
<1>7. CASE name = "VTD_CCMD_REG"
  <2>1. Layouts[name] = VTD_CCMD_REG /\ RegisterBits(name) = 0..63
    BY <1>7 DEF Layouts, RegisterBits
  <2> QED
    BY <1>2, <2>1, LayoutsDescribe
<1>8. CASE name = "VTD_IOTLB_REG"
  <2>1. Layouts[name] = VTD_IOTLB_REG /\ RegisterBits(name) = 0..63
    BY <1>8 DEF Layouts, RegisterBits
  <2> QED
    BY <1>2, <2>1, LayoutsDescribe
<1>9. CASE name = "VTD_FECTL_REG"
  <2>1. Layouts[name] = VTD_FECTL_REG /\ RegisterBits(name) = 0..31
    BY <1>9 DEF Layouts, RegisterBits
  <2> QED
    BY <1>2, <2>1, LayoutsDescribe
<1>10. CASE name = "VTD_PMEN_REG"
  <2>1. Layouts[name] = VTD_PMEN_REG /\ RegisterBits(name) = 0..31
    BY <1>10 DEF Layouts, RegisterBits
  <2> QED
    BY <1>2, <2>1, LayoutsDescribe
<1>11. CASE name = "mtrr_cap_t"
  <2>1. Layouts[name] = mtrr_cap_t /\ RegisterBits(name) = 0..63
    BY <1>11 DEF Layouts, RegisterBits
  <2> QED
    BY <1>2, <2>1, LayoutsDescribe
<1>12. CASE name = "mtrr_def_type_t"
  <2>1. Layouts[name] = mtrr_def_type_t /\ RegisterBits(name) = 0..63
    BY <1>12 DEF Layouts, RegisterBits
  <2> QED
    BY <1>2, <2>1, LayoutsDescribe
<1>13. CASE name = "mtrr_physbase_t"
  <2>1. Layouts[name] = mtrr_physbase_t /\ RegisterBits(name) = 0..63
    BY <1>13 DEF Layouts, RegisterBits
  <2> QED
    BY <1>2, <2>1, LayoutsDescribe
<1>14. CASE name = "mtrr_physmask_t"
  <2>1. Layouts[name] = mtrr_physmask_t /\ RegisterBits(name) = 0..63
    BY <1>14 DEF Layouts, RegisterBits
  <2> QED
    BY <1>2, <2>1, LayoutsDescribe
<1>15. CASE name = "txt_ests_t"
  <2>1. Layouts[name] = txt_ests_t /\ RegisterBits(name) = 0..7
    BY <1>15 DEF Layouts, RegisterBits
  <2> QED
    BY <1>2, <2>1, LayoutsDescribe
<1>16. CASE name = "txt_e2sts_t"
  <2>1. Layouts[name] = txt_e2sts_t /\ RegisterBits(name) = 0..3
    BY <1>16 DEF Layouts, RegisterBits
  <2> QED
    BY <1>2, <2>1, LayoutsDescribe
<1>17. CASE name = "txt_sts_t"
  <2>1. Layouts[name] = txt_sts_t /\ RegisterBits(name) = 0..11
    BY <1>17 DEF Layouts, RegisterBits
  <2> QED
    BY <1>2, <2>1, LayoutsDescribe
<1>18. CASE name = "txt_didvid_t"
  <2>1. Layouts[name] = txt_didvid_t /\ RegisterBits(name) = 0..63
    BY <1>18 DEF Layouts, RegisterBits
  <2> QED
    BY <1>2, <2>1, LayoutsDescribe
<1>19. CASE name = "txt_ver_fsbif_emif_t"
  <2>1. Layouts[name] = txt_ver_fsbif_emif_t /\ RegisterBits(name) = 0..31
    BY <1>19 DEF Layouts, RegisterBits
  <2> QED
    BY <1>2, <2>1, LayoutsDescribe
<1>20. CASE name = "txt_errorcode_sw_t"
  <2>1. Layouts[name] = txt_errorcode_sw_t /\ RegisterBits(name) = 0..29
    BY <1>20 DEF Layouts, RegisterBits
  <2> QED
    BY <1>2, <2>1, LayoutsDescribe
<1>21. CASE name = "capabilities_t"
  <2>1. Layouts[name] = capabilities_t /\ RegisterBits(name) = 0..31
    BY <1>21 DEF Layouts, RegisterBits
  <2> QED
    BY <1>2, <2>1, LayoutsDescribe
<1>22. name \in {"VTD_CAP_REG", "VTD_ECAP_REG", "VTD_GCMD_REG", "VTD_GSTS_REG", "VTD_CCMD_REG",
                 "VTD_IOTLB_REG", "VTD_FECTL_REG", "VTD_PMEN_REG", "mtrr_cap_t", "mtrr_def_type_t",
                 "mtrr_physbase_t", "mtrr_physmask_t", "txt_ests_t", "txt_e2sts_t", "txt_sts_t",
                 "txt_didvid_t", "txt_ver_fsbif_emif_t", "txt_errorcode_sw_t", "capabilities_t"}
  BY <1>1 DEF Layouts
<1> QED
  BY <1>3, <1>4, <1>5, <1>6, <1>7, <1>8, <1>9, <1>10, <1>11, <1>12, <1>13, <1>14, <1>15, <1>16, <1>17,
     <1>18, <1>19, <1>20, <1>21, <1>22

(* The bits of a packed structure are those of its members, each at its place. *)
LEMMA BitsOfPack ==
  ASSUME NEW layout, PlacesFit(layout), NEW s, NEW b \in Int
  PROVE  b \in Pack(layout, s) <=>
           \E f \in DOMAIN layout :
             /\ layout[f].lo <= b /\ b < layout[f].lo + layout[f].width
             /\ b - layout[f].lo \in s[f]
<1>1. \A f \in DOMAIN layout :
        layout[f].lo \in 0..63 /\ layout[f].width \in 1..64 /\ layout[f].lo + layout[f].width <= 64
  BY DEF PlacesFit
<1>2. ASSUME NEW f \in DOMAIN layout
      PROVE  b \in {c + layout[f].lo : c \in s[f] \cap (0..(layout[f].width - 1))}
               <=> /\ layout[f].lo <= b /\ b < layout[f].lo + layout[f].width
                   /\ b - layout[f].lo \in s[f]
  <2>1. PICK lo \in Int, width \in Int : lo = layout[f].lo /\ width = layout[f].width
    BY <1>1
  <2>2. ASSUME b \in {c + lo : c \in s[f] \cap (0..(width - 1))}
        PROVE  lo <= b /\ b < lo + width /\ b - lo \in s[f]
    <3>1. PICK c \in s[f] \cap (0..(width - 1)) : b = c + lo
      BY <2>2
    <3>2. b - lo = c
      BY <3>1, <2>1
    <3> QED
      BY <3>1, <3>2, <2>1
  <2>3. ASSUME lo <= b, b < lo + width, b - lo \in s[f]
        PROVE  b \in {c + lo : c \in s[f] \cap (0..(width - 1))}
    <3>1. b - lo \in s[f] \cap (0..(width - 1)) /\ b = (b - lo) + lo
      BY <2>1, <2>3
    <3> QED
      BY <3>1
  <2> QED
    BY <2>1, <2>2, <2>3
<1>3. b \in Pack(layout, s) <=>
        b \in 0..63 /\ \E f \in DOMAIN layout : b \in {c + layout[f].lo : c \in s[f] \cap (0..(layout[f].width - 1))}
  BY DEF Pack
<1>4. \A f \in DOMAIN layout : layout[f].lo <= b /\ b < layout[f].lo + layout[f].width => b \in 0..63
  BY <1>1
<1> QED
  BY <1>2, <1>3, <1>4

(* What was unpacked has the bits of the register. *)
LEMMA BitsOfUnpacked ==
  ASSUME NEW layout, PlacesFit(layout), NEW value, NEW f \in DOMAIN layout, NEW b \in Int,
         layout[f].lo <= b, b < layout[f].lo + layout[f].width, value \subseteq Int
  PROVE  b - layout[f].lo \in Unpack(layout, value)[f] <=> b \in value
<1>1. PICK lo \in Int, width \in Int : lo = layout[f].lo /\ width = layout[f].width
  BY DEF PlacesFit
<1>2. Unpack(layout, value)[f] = {c - lo : c \in value \cap (lo..(lo + width - 1))}
  BY <1>1 DEF Unpack, Field
<1>3. ASSUME b - lo \in {c - lo : c \in value \cap (lo..(lo + width - 1))}
      PROVE  b \in value
  <2>1. PICK c \in value \cap (lo..(lo + width - 1)) : b - lo = c - lo
    BY <1>3
  <2>2. c \in Int
    OBVIOUS
  <2> QED
    BY <1>1, <2>1, <2>2
<1>4. b \in value => b \in value \cap (lo..(lo + width - 1))
  BY <1>1
<1> QED
  BY <1>1, <1>2, <1>3, <1>4

(* A register that is unpacked and packed again is the same; so a driver that changes one member
   keeps all other bits. *)
LEMMA PackUnpacked ==
  ASSUME NEW layout, PlacesFit(layout), NEW value \in SUBSET (0..63), PlacesCover(layout, value)
  PROVE  Pack(layout, Unpack(layout, value)) = value
<1> value \subseteq Int
  OBVIOUS
<1>1. ASSUME NEW b \in Int
      PROVE  b \in Pack(layout, Unpack(layout, value)) <=> b \in value
  <2>1. b \in Pack(layout, Unpack(layout, value)) <=>
           \E f \in DOMAIN layout :
             /\ layout[f].lo <= b /\ b < layout[f].lo + layout[f].width
             /\ b - layout[f].lo \in Unpack(layout, value)[f]
    BY BitsOfPack
  <2>2. \A f \in DOMAIN layout : layout[f].lo <= b /\ b < layout[f].lo + layout[f].width =>
          (b - layout[f].lo \in Unpack(layout, value)[f] <=> b \in value)
    BY BitsOfUnpacked
  <2> QED
    BY <2>1, <2>2 DEF PlacesCover
<1>2. Pack(layout, Unpack(layout, value)) \subseteq Int
  BY DEF Pack
<1> QED
  BY <1>1, <1>2

(* Packing after one field was assigned changes the bits of that field only. *)
LEMMA PackChanged ==
  ASSUME NEW layout, PlacesFit(layout), PlacesApart(layout),
         NEW value \in SUBSET (0..63), PlacesCover(layout, value),
         NEW f \in DOMAIN layout, NEW v \in SUBSET (0..(layout[f].width - 1))
  PROVE  Pack(layout, [Unpack(layout, value) EXCEPT ![f] = v])
           = (value \ (layout[f].lo..(layout[f].lo + layout[f].width - 1))) \cup {c + layout[f].lo : c \in v}
<1> value \subseteq Int
  OBVIOUS
<1>1. PICK lo \in Int, width \in Int : lo = layout[f].lo /\ width = layout[f].width
  BY DEF PlacesFit
<1> v \subseteq Int /\ \A c \in v : 0 <= c /\ c < width
  <2>1. v \in SUBSET (0..(width - 1))
    BY <1>1
  <2>2. \A c \in v : c \in 0..(width - 1)
    BY <2>1
  <2> QED
    BY <1>1, <2>2
<1> DEFINE s == [Unpack(layout, value) EXCEPT ![f] = v]
           packed == Pack(layout, s)
           result == (value \ (lo..(lo + width - 1))) \cup {c + lo : c \in v}
<1>2. s[f] = v /\ \A g \in DOMAIN layout : g # f => s[g] = Unpack(layout, value)[g]
  BY DEF Unpack
<1> HIDE DEF s
<1>3. ASSUME NEW b \in Int
      PROVE  b \in packed <=> b \in result
  <2>1. b \in packed <=> \E g \in DOMAIN layout :
                           /\ layout[g].lo <= b /\ b < layout[g].lo + layout[g].width
                           /\ b - layout[g].lo \in s[g]
    BY BitsOfPack
  <2> HIDE DEF packed
  <2>2. \A g \in DOMAIN layout : layout[g].lo <= b /\ b < layout[g].lo + layout[g].width =>
          (b - layout[g].lo \in Unpack(layout, value)[g] <=> b \in value)
    BY BitsOfUnpacked
  <2>3. CASE lo <= b /\ b < lo + width
    <3>1. ASSUME NEW g \in DOMAIN layout, layout[g].lo <= b, b < layout[g].lo + layout[g].width, g # f
          PROVE  FALSE
      <4>1. PICK l \in Int, w \in Int : l = layout[g].lo /\ w = layout[g].width
        BY DEF PlacesFit
      <4>2. lo + width <= l \/ l + w <= lo
        BY <1>1, <3>1, <4>1 DEF PlacesApart
      <4> QED
        BY <2>3, <3>1, <4>1, <4>2
    <3>2. b \in packed <=> b - lo \in v
      BY <1>1, <1>2, <2>1, <2>3, <3>1
    <3>3. b \in {c + lo : c \in v} <=> b - lo \in v
      <4>1. b - lo \in v => b = (b - lo) + lo /\ b - lo \in v
        BY <1>1
      <4>2. ASSUME NEW c \in v, b = c + lo
            PROVE  b - lo = c
        BY <4>2, <1>1
      <4> QED
        BY <4>1, <4>2
    <3>4. b \in result <=> b \in {c + lo : c \in v}
      BY <1>1, <2>3
    <3> QED
      BY <3>2, <3>3, <3>4
  <2>4. CASE ~(lo <= b /\ b < lo + width)
    <3>1. ASSUME NEW c \in v, b = c + lo
          PROVE  FALSE
      BY <2>4, <3>1
    <3>2. b \in result <=> b \in value
      BY <1>1, <2>4, <3>1
    <3>3. \A g \in DOMAIN layout : layout[g].lo <= b /\ b < layout[g].lo + layout[g].width =>
            g # f /\ (b - layout[g].lo \in s[g] <=> b \in value)
      BY <1>1, <1>2, <2>2, <2>4
    <3>4. b \in packed <=> b \in value
      BY <2>1, <3>3 DEF PlacesCover
    <3> QED
      BY <3>2, <3>4
  <2> QED
    BY <2>3, <2>4
<1>4. packed \subseteq Int /\ result \subseteq Int
  <2>1. packed \subseteq Int
    BY DEF Pack
  <2>2. {c + lo : c \in v} \subseteq Int
    BY <1>1
  <2>3. result \subseteq Int
    BY <2>2
  <2> QED
    BY <2>1, <2>3
<1>5. packed = result
  BY <1>3, <1>4
<1> QED
  BY <1>1, <1>5 DEF packed, s
(* The registers are at most 64 bits wide. *)
LEMMA RegisterWidths == \A name : RegisterBits(name) \in SUBSET (0..63)
<1> SUFFICES ASSUME NEW name
             PROVE  RegisterBits(name) \subseteq 0..63
  OBVIOUS
<1>1. RegisterBits(name) \in {0..31, 0..29, 0..7, 0..3, 0..11, 0..63}
  BY DEF RegisterBits
<1> QED
  BY <1>1

(* What a driver has of the register it works on, at each step. *)
Values(name, f) == {{}, {0}, 0..(DeclaredWidth(name, f) - 1)}
RegTyped ==
  /\ regpc \in {"idle", "unpacked", "assigned", "written"}
  /\ register.name \in DOMAIN Layouts \cup {"none"} /\ register.bits \in SUBSET (0..63)
  /\ register = [name |-> register.name, bits |-> register.bits]
  /\ before \in SUBSET (0..63)
  /\ DOMAIN unpacked = IF regpc = "idle" THEN {} ELSE DOMAIN Layouts[register.name]
  /\ regpc # "idle" => register.name \in DOMAIN Layouts /\ before \in SUBSET RegisterBits(register.name)
RegUnpacked ==
  regpc = "unpacked" =>
    /\ unpacked = Unpack(Layouts[register.name], before)
    /\ changed = [field |-> "none", value |-> {}]
RegAssigned ==
  regpc = "assigned" =>
    \E f \in DOMAIN Layouts[register.name] : \E value \in Values(register.name, f) :
      /\ unpacked = [Unpack(Layouts[register.name], before) EXCEPT ![f] = value]
      /\ changed = [field |-> f, value |-> value]
RegInv == RegTyped /\ RegUnpacked /\ RegAssigned /\ FieldChangedAlone

(* The invariant of the register accesses holds in the beginning. *)
LEMMA RegInitially == RegInit => RegInv
  BY DEF RegInit, RegInv, RegTyped, RegUnpacked, RegAssigned, FieldChangedAlone, NothingUnpacked

(* Unpacking a register preserves the invariant. *)
LEMMA UnpackKeeps ==
  ASSUME RegInv, RegUnpack
  PROVE  RegInv'
<1>1. PICK name \in DOMAIN Layouts, bits \in RegContents :
         /\ register' = [name |-> name, bits |-> bits \cap RegisterBits(name)]
         /\ before' = bits \cap RegisterBits(name)
         /\ unpacked' = Unpack(Layouts[name], bits \cap RegisterBits(name))
  BY DEF RegUnpack
<1>2. changed' = [field |-> "none", value |-> {}] /\ regpc' = "unpacked"
  BY DEF RegUnpack
<1>3. register'.name = name /\ register'.bits = before' /\ before' \in SUBSET RegisterBits(name)
  BY <1>1
<1>4. before' \in SUBSET (0..63)
  BY <1>3, RegisterWidths
<1>5. RegTyped'
  BY <1>1, <1>2, <1>3, <1>4 DEF RegTyped, Unpack
<1>6. RegUnpacked'
  BY <1>1, <1>2, <1>3 DEF RegUnpacked
<1>7. RegAssigned' /\ FieldChangedAlone'
  BY <1>2 DEF RegAssigned, FieldChangedAlone
<1> QED
  BY <1>5, <1>6, <1>7 DEF RegInv

(* Assigning a field preserves the invariant. *)
LEMMA AssignKeeps ==
  ASSUME RegInv, RegAssign
  PROVE  RegInv'
<1>1. PICK f \in DOMAIN unpacked : \E value \in {{}, {0}, 0..(DeclaredWidth(register.name, f) - 1)} :
         /\ unpacked' = [unpacked EXCEPT ![f] = value]
         /\ changed' = [field |-> f, value |-> value]
  BY DEF RegAssign
<1>2. regpc = "unpacked" /\ regpc' = "assigned" /\ register' = register /\ before' = before
  BY DEF RegAssign
<1>3. DOMAIN unpacked = DOMAIN Layouts[register.name] /\ DOMAIN unpacked' = DOMAIN unpacked
      /\ unpacked = Unpack(Layouts[register.name], before)
  BY <1>1, <1>2 DEF RegInv, RegTyped, RegUnpacked
<1>4. RegTyped'
  BY <1>2, <1>3 DEF RegInv, RegTyped
<1>5. RegAssigned'
  BY <1>1, <1>2, <1>3 DEF RegAssigned, Values
<1>6. RegUnpacked' /\ FieldChangedAlone'
  BY <1>2 DEF RegUnpacked, FieldChangedAlone
<1> QED
  BY <1>4, <1>5, <1>6 DEF RegInv

(* Packing preserves the invariant. *)
LEMMA PackKeeps ==
  ASSUME RegInv, RegPack
  PROVE  RegInv'
<1> DEFINE layout == Layouts[register.name]
<1>1. /\ regpc \in {"unpacked", "assigned"} /\ regpc' = "written"
      /\ before' = before /\ unpacked' = unpacked /\ changed' = changed
      /\ register' = [register EXCEPT !.bits = Pack(layout, unpacked)]
  BY DEF RegPack
<1>2. RegTyped
  BY DEF RegInv
<1>3. register'.name = register.name /\ register'.bits = Pack(layout, unpacked)
      /\ register' = [name |-> register'.name, bits |-> register'.bits]
  BY <1>1, <1>2 DEF RegTyped
<1>4. Pack(layout, unpacked) \in SUBSET (0..63)
  BY DEF Pack
<1>5. RegTyped'
  BY <1>1, <1>2, <1>3, <1>4 DEF RegTyped
<1>6. RegUnpacked' /\ RegAssigned'
  BY <1>1 DEF RegUnpacked, RegAssigned
<1>7. FieldChangedAlone'
  <2> DEFINE place == IF changed.field = "none" THEN Place(0, 0) ELSE layout[changed.field]
             its == place.lo..(place.lo + place.width - 1)
  <2> SUFFICES ASSUME register.name \notin Misdescribed
               PROVE  Pack(layout, unpacked) = (before \ its) \cup {b + place.lo : b \in changed.value}
    BY <1>1, <1>3 DEF FieldChangedAlone
  <2>1. /\ Describes(layout, RegisterBits(register.name))
        /\ \A f : DeclaredWidth(register.name, f) = layout[f].width
    BY <1>1, <1>2, LayoutDescribes DEF RegTyped
  <2>2. /\ PlacesFit(layout) /\ PlacesApart(layout) /\ before \in SUBSET (0..63)
        /\ PlacesCover(layout, before) /\ "none" \notin DOMAIN layout
    BY <1>1, <1>2, <2>1 DEF RegTyped, Describes, PlacesCover
  <2> HIDE DEF layout
  <2>3. CASE regpc = "unpacked"
    <3>1. unpacked = Unpack(layout, before) /\ changed.field = "none" /\ changed.value = {}
      BY <2>3 DEF RegInv, RegUnpacked, layout
    <3>2. Pack(layout, unpacked) = before
      BY <2>2, <3>1, PackUnpacked
    <3>3. its = {}
      BY <3>1 DEF Place
    <3> QED
      BY <3>1, <3>2, <3>3
  <2>4. CASE regpc = "assigned"
    <3>1. PICK f \in DOMAIN layout : \E v \in Values(register.name, f) :
             /\ unpacked = [Unpack(layout, before) EXCEPT ![f] = v]
             /\ changed = [field |-> f, value |-> v]
      BY <2>4 DEF RegInv, RegAssigned, layout
    <3>2. PICK v \in Values(register.name, f) :
             /\ unpacked = [Unpack(layout, before) EXCEPT ![f] = v]
             /\ changed = [field |-> f, value |-> v]
      BY <3>1
    <3>3. v \in SUBSET (0..(layout[f].width - 1))
      <4>1. layout[f].width \in 1..64 /\ DeclaredWidth(register.name, f) = layout[f].width
        BY <2>1, <2>2 DEF PlacesFit
      <4>2. v \in {{}, {0}, 0..(layout[f].width - 1)}
        BY <4>1 DEF Values
      <4>3. PICK w \in Int : w = layout[f].width /\ 0 \in 0..(w - 1)
        BY <4>1
      <4> QED
        BY <4>2, <4>3
    <3>4. changed.field = f /\ changed.value = v /\ f # "none"
      BY <2>2, <3>2
    <3>5. place = layout[f]
      BY <3>4
    <3>6. Pack(layout, unpacked)
            = (before \ (layout[f].lo..(layout[f].lo + layout[f].width - 1))) \cup {c + layout[f].lo : c \in v}
      <4>1. Pack(layout, [Unpack(layout, before) EXCEPT ![f] = v])
            = (before \ (layout[f].lo..(layout[f].lo + layout[f].width - 1))) \cup {c + layout[f].lo : c \in v}
        BY <2>2, <3>3, PackChanged
      <4> QED
        BY <3>2, <4>1
    <3> QED
      BY <3>4, <3>5, <3>6
  <2> QED
    BY <1>1, <2>3, <2>4
<1> QED
  BY <1>5, <1>6, <1>7 DEF RegInv

(* Going back to rest preserves the invariant. *)
LEMMA DoneKeeps ==
  ASSUME RegInv, RegDone
  PROVE  RegInv'
<1>1. /\ regpc' = "idle" /\ register' = [name |-> "none", bits |-> {}] /\ before' = {}
      /\ unpacked' = NothingUnpacked
  BY DEF RegDone
<1> QED
  BY <1>1 DEF RegInv, RegTyped, RegUnpacked, RegAssigned, FieldChangedAlone, NothingUnpacked

(* Every step of a register access preserves the invariant. *)
LEMMA RegPreserved == RegInv /\ [RegNext]_regVars => RegInv'
<1> SUFFICES ASSUME RegInv, [RegNext]_regVars
             PROVE  RegInv'
  OBVIOUS
<1>1. CASE RegNext
  BY <1>1, UnpackKeeps, AssignKeeps, PackKeeps, DoneKeeps DEF RegNext
<1>2. CASE UNCHANGED regVars
  BY <1>2 DEF RegInv, RegTyped, RegUnpacked, RegAssigned, FieldChangedAlone, regVars
<1> QED
  BY <1>1, <1>2

(* The bits of a register stay within its 64 bits and what was unpacked is of a
   layout that there is (the pack_* and unpack_* macros of the headers). *)
THEOREM RegTypes == RegSpec => []RegTypeOK
<1>1. RegInv => RegTypeOK
  BY DEF RegInv, RegTyped, RegTypeOK
<1>2. RegSpec => []RegInv
  BY RegInitially, RegPreserved, PTL DEF RegSpec
<1> QED
  BY <1>1, <1>2, PTL

(* After a register was unpacked, one field assigned and the register packed,
   that field has the new value and every other bit the old one, whatever the
   register held. *)
THEOREM FieldsAlone == RegSpec => []FieldChangedAlone
<1>1. RegInv => FieldChangedAlone
  BY DEF RegInv
<1>2. RegSpec => []RegInv
  BY RegInitially, RegPreserved, PTL DEF RegSpec
<1> QED
  BY <1>1, <1>2, PTL
-----------------------------------------------------------------------------
(* A set of bits that is not empty has a largest one. *)
LEMMA LargestBit ==
  ASSUME NEW S \in SUBSET (0..30), S # {}
  PROVE  Max(S) \in S
<1>1. S \subseteq Int /\ \A x \in S : 0 <= x /\ x <= 30
  OBVIOUS
<1>2. ASSUME \A x \in S : \E y \in S : y > x
      PROVE  FALSE
  <2>1. \A x \in S : \E y \in S : y >= x + 1
    BY <1>1, <1>2
  <2>2. \A x \in S : \E y \in S : y >= x + 2
    BY <1>1, <2>1
  <2>3. \A x \in S : \E y \in S : y >= x + 4
    BY <1>1, <2>2
  <2>4. \A x \in S : \E y \in S : y >= x + 8
    BY <1>1, <2>3
  <2>5. \A x \in S : \E y \in S : y >= x + 16
    BY <1>1, <2>4
  <2>6. \A x \in S : \E y \in S : y >= x + 32
    BY <1>1, <2>5
  <2>7. PICK x \in S : TRUE
    OBVIOUS
  <2> QED
    BY <1>1, <2>6, <2>7
<1>3. \E x \in S : \A y \in S : x >= y
  BY <1>1, <1>2
<1> QED
  BY <1>3 DEF Max

(* A number that is not zero has a bit that is one, among the first 21 if it is below 2^20. *)
LEMMA SomeBit ==
  ASSUME NEW n \in Nat, n > 0, n < 1024 * 1024
  PROVE  Bits(n) # {}
<1> SUFFICES ASSUME Bits(n) = {}
             PROVE  FALSE
  OBVIOUS
<1>1. PICK pow \in [0..30 -> Nat] :
        /\ pow[0] = 1 /\ pow[1] = 2 /\ pow[2] = 4 /\ pow[3] = 8 /\ pow[4] = 16 /\ pow[5] = 32
        /\ pow[6] = 64 /\ pow[7] = 128 /\ pow[8] = 256 /\ pow[9] = 512 /\ pow[10] = 1024
        /\ pow[11] = 2048 /\ pow[12] = 1024 * 4 /\ pow[13] = 1024 * 8 /\ pow[14] = 1024 * 16
        /\ pow[15] = 1024 * 32 /\ pow[16] = 1024 * 64 /\ pow[17] = 1024 * 128
        /\ pow[18] = 1024 * 256 /\ pow[19] = 1024 * 512 /\ pow[20] = 1024 * 1024
        /\ \A m : Bits(m) = {b \in 0..30 : (m \div pow[b]) % 2 = 1}
  BY TableOfPowers
<1>2. \A b \in 0..30 : (n \div pow[b]) % 2 # 1
  <2>1. Bits(n) = {b \in 0..30 : (n \div pow[b]) % 2 = 1}
    <3> DEFINE Odds(m) == {b \in 0..30 : (m \div pow[b]) % 2 = 1}
    <3>1. \A m : Bits(m) = Odds(m)
      BY <1>1
    <3> HIDE DEF Odds
    <3>2. Bits(n) = Odds(n)
      BY <3>1
    <3> QED
      BY <3>2 DEF Odds
  <2> DEFINE Odd(b) == (n \div pow[b]) % 2 = 1
  <2>2. {b \in 0..30 : Odd(b)} = {}
    BY <2>1
  <2> HIDE DEF Odd
  <2>3. \A b \in 0..30 : ~Odd(b)
    BY <2>2
  <2> QED
    BY <2>3 DEF Odd
<1>3. PICK p \in Nat : p = n \div 1024
  OBVIOUS
<1>4. p < 1024 /\ \A b \in 0..9 : (p \div pow[b]) % 2 # 1
  <2>1. p < 1024
    BY <1>3
  <2>2. /\ p \div 1 = n \div 1024 /\ p \div 2 = n \div (1024 * 2) /\ p \div 4 = n \div (1024 * 4)
        /\ p \div 8 = n \div (1024 * 8) /\ p \div 16 = n \div (1024 * 16)
    BY <1>3
  <2>3. /\ p \div 32 = n \div (1024 * 32) /\ p \div 64 = n \div (1024 * 64) /\ p \div 128 = n \div (1024 * 128)
        /\ p \div 256 = n \div (1024 * 256) /\ p \div 512 = n \div (1024 * 512)
    BY <1>3
  <2>4. \A b \in 0..9 : p \div pow[b] = n \div pow[b + 10]
    BY <1>1, <2>2, <2>3
  <2>5. \A b \in 0..9 : b + 10 \in 0..30
    OBVIOUS
  <2> QED
    BY <1>2, <2>1, <2>4, <2>5
<1>5. ASSUME NEW m \in Nat, m < 1024, \A b \in 0..9 : (m \div pow[b]) % 2 # 1
      PROVE  m = 0
  <2>1. /\ m % 2 # 1 /\ (m \div 2) % 2 # 1 /\ (m \div 4) % 2 # 1 /\ (m \div 8) % 2 # 1
        /\ (m \div 16) % 2 # 1 /\ (m \div 32) % 2 # 1 /\ (m \div 64) % 2 # 1 /\ (m \div 128) % 2 # 1
        /\ (m \div 256) % 2 # 1 /\ (m \div 512) % 2 # 1
    BY <1>1, <1>5
  <2>2. m = 2 * (m \div 2) /\ m \div 2 = 2 * (m \div 4) /\ m \div 4 = 2 * (m \div 8)
    BY <2>1
  <2>3. m \div 8 = 2 * (m \div 16) /\ m \div 16 = 2 * (m \div 32) /\ m \div 32 = 2 * (m \div 64)
    BY <2>1
  <2>4. m \div 64 = 2 * (m \div 128) /\ m \div 128 = 2 * (m \div 256) /\ m \div 256 = 2 * (m \div 512)
    BY <2>1
  <2>5. m \div 512 = 0
    BY <1>5, <2>1
  <2> QED
    BY <2>2, <2>3, <2>4, <2>5
<1>6. p = 0
  BY <1>4, <1>5
<1>7. n < 1024
  BY <1>3, <1>6
<1>8. n = 0
  BY <1>2, <1>5, <1>7
<1> QED
  BY <1>8

(* A number below 256 is the sum of its first eight bits. *)
LEMMA EightBits ==
  ASSUME NEW n \in Nat, n <= 255, NEW w0, NEW w1, NEW w2, NEW w3, NEW w4, NEW w5, NEW w6, NEW w7,
         w0 = IF n % 2 = 1 THEN 1 ELSE 0,
         w1 = IF (n \div 2) % 2 = 1 THEN 2 ELSE 0,
         w2 = IF (n \div 4) % 2 = 1 THEN 4 ELSE 0,
         w3 = IF (n \div 8) % 2 = 1 THEN 8 ELSE 0,
         w4 = IF (n \div 16) % 2 = 1 THEN 16 ELSE 0,
         w5 = IF (n \div 32) % 2 = 1 THEN 32 ELSE 0,
         w6 = IF (n \div 64) % 2 = 1 THEN 64 ELSE 0,
         w7 = IF (n \div 128) % 2 = 1 THEN 128 ELSE 0
  PROVE  w0 + w1 + w2 + w3 + w4 + w5 + w6 + w7 = n
  OBVIOUS
-----------------------------------------------------------------------------
(* The registers of a processor that has n pairs of them. *)
Registers(n) == [cap : SUBSET (0..63), def_type : SUBSET (0..63),
                 base : [0..(n - 1) -> SUBSET (0..63)], mask : [0..(n - 1) -> SUBSET (0..63)]]
(* The points that a call of each function goes through. *)
Serves(fn, pc) ==
  \/ fn = "none" /\ pc = "idle"
  \/ fn = "save" /\ pc \in {"save", "returned"}
  \/ fn = "set_all" /\ pc \in {"all", "returned"}
  \/ fn = "validate" /\ pc \in {"validate", "returned"}
  \/ fn = "restore" /\ pc \in {"disable", "next", "base", "returned"}
  \/ fn = "set_mem_type" /\ pc \in {"default", "clear", "range_base", "range_mask", "returned"}

MtrrRegisters ==
  /\ vcnt \in 1..255 /\ msr \in Registers(vcnt) /\ mcalls \in Nat
  /\ kept # <<>> => kept = <<kept[1]>> /\ kept[1] \in Registers(vcnt)
MtrrCaller ==
  /\ DOMAIN mtrr = {"pc", "fn", "ndx", "base", "num_pages", "range", "mem_type", "enable", "result"}
  /\ Serves(mtrr.fn, mtrr.pc)
  /\ mtrr.ndx \in 0..vcnt /\ mtrr.num_pages \in Nat /\ mtrr.num_pages <= 512 * 1024
  /\ mtrr.result \in BOOLEAN
  /\ mtrr.pc \in {"default", "clear"} => mtrr.range \in MtrrRanges
  /\ mtrr.pc \in {"range_base", "range_mask"} => mtrr.ndx < vcnt
  /\ mtrr.pc = "range_mask" => mtrr.num_pages > 0
MtrrSaved ==
  /\ saved.num_var_mtrrs \in 0..MAX_VARIABLE_MTRRS /\ saved.num_var_mtrrs <= vcnt
  /\ DOMAIN saved.physmasks = 0..(MAX_VARIABLE_MTRRS - 1)
(* The structure of the caller holds the registers m, as many of them as it has room for. *)
Saves(m) ==
  /\ saved.num_var_mtrrs = IF vcnt > MAX_VARIABLE_MTRRS THEN MAX_VARIABLE_MTRRS ELSE vcnt
  /\ saved.def_type = Unpack(mtrr_def_type_t, m.def_type)
  /\ \A i \in 0..(saved.num_var_mtrrs - 1) :
       /\ saved.physmasks[i] = Unpack(mtrr_physmask_t, m.mask[i])
       /\ saved.physbases[i] = Unpack(mtrr_physbase_t, m.base[i])
MtrrKept == kept # <<>> => IF MtrrAt("save") THEN kept[1] = msr ELSE Saves(kept[1])
MtrrRestoring ==
  mtrr.pc \in {"next", "base"} =>
    /\ 11 \notin msr.def_type
    /\ mtrr.ndx <= saved.num_var_mtrrs
    /\ mtrr.pc = "base" => mtrr.ndx < saved.num_var_mtrrs
    /\ kept # <<>> =>
         /\ \A i \in 0..(mtrr.ndx - 1) : msr.base[i] = kept[1].base[i] /\ msr.mask[i] = kept[1].mask[i]
         /\ mtrr.pc = "base" => msr.mask[mtrr.ndx] = kept[1].mask[mtrr.ndx]
MtrrInv == MtrrRegisters /\ MtrrCaller /\ MtrrSaved /\ MtrrKept /\ MtrrRestoring /\ MtrrRestored
-----------------------------------------------------------------------------
(* The number of pairs is what the capability register says, and nothing writes that. *)
LEMMA PairsStay == msr'.cap = msr.cap => vcnt' = vcnt
  BY DEF vcnt

(* The number of variable pairs is the low byte of the capability register. *)
LEMMA PairsCounted ==
  ASSUME NEW n \in 1..255, msr.cap = Bits(n) \cup {8, 10}
  PROVE  vcnt = n
<1>1. n \in Nat /\ n <= 255
  OBVIOUS
<1>2. Bits(n) \subseteq 0..7
  BY <1>1, NoHighBits
<1> DEFINE field == Unpack(mtrr_cap_t, msr.cap).vcnt
<1>3. field = {b - 0 : b \in msr.cap \cap (0..7)}
  BY DEF Unpack, Field, mtrr_cap_t, Place
<1>4. field = Bits(n)
  <2>1. msr.cap \cap (0..7) = Bits(n)
    BY <1>2
  <2>2. \A b \in Bits(n) : b - 0 = b
    BY <1>2
  <2> QED
    BY <1>3, <2>1, <2>2
<1>5. PICK pow \in [0..30 -> Nat] :
        /\ pow[0] = 1 /\ pow[1] = 2 /\ pow[2] = 4 /\ pow[3] = 8 /\ pow[4] = 16 /\ pow[5] = 32
        /\ pow[6] = 64 /\ pow[7] = 128
        /\ \A m : Bits(m) = {b \in 0..30 : (m \div pow[b]) % 2 = 1}
  BY TableOfPowers
<1>6. /\ 0 \in field <=> n % 2 = 1
      /\ 1 \in field <=> (n \div 2) % 2 = 1
      /\ 2 \in field <=> (n \div 4) % 2 = 1
      /\ 3 \in field <=> (n \div 8) % 2 = 1
      /\ 4 \in field <=> (n \div 16) % 2 = 1
      /\ 5 \in field <=> (n \div 32) % 2 = 1
      /\ 6 \in field <=> (n \div 64) % 2 = 1
      /\ 7 \in field <=> (n \div 128) % 2 = 1
  <2>1. field = {b \in 0..30 : (n \div pow[b]) % 2 = 1}
    BY <1>4, <1>5
  <2>2. n \div 1 = n
    OBVIOUS
  <2> HIDE DEF field
  <2> QED
    BY <1>5, <2>1, <2>2
<1> DEFINE w(b) == IF b \in field THEN 2^b ELSE 0
<1>7. vcnt = w(0) + w(1) + w(2) + w(3) + w(4) + w(5) + w(6) + w(7)
  BY DEF vcnt
<1>8. /\ w(0) = IF n % 2 = 1 THEN 1 ELSE 0
      /\ w(1) = IF (n \div 2) % 2 = 1 THEN 2 ELSE 0
      /\ w(2) = IF (n \div 4) % 2 = 1 THEN 4 ELSE 0
      /\ w(3) = IF (n \div 8) % 2 = 1 THEN 8 ELSE 0
      /\ w(4) = IF (n \div 16) % 2 = 1 THEN 16 ELSE 0
      /\ w(5) = IF (n \div 32) % 2 = 1 THEN 32 ELSE 0
      /\ w(6) = IF (n \div 64) % 2 = 1 THEN 64 ELSE 0
      /\ w(7) = IF (n \div 128) % 2 = 1 THEN 128 ELSE 0
  <2> HIDE DEF field
  <2> QED
    BY <1>6, PowersOfTwo
<1> HIDE DEF w
<1>9. w(0) + w(1) + w(2) + w(3) + w(4) + w(5) + w(6) + w(7) = n
  BY <1>1, <1>8, EightBits
<1> QED
  BY <1>7, <1>9

(* The largest power of two that fits into a number of pages. *)
LEMMA LargestPower ==
  ASSUME NEW n \in Nat, n > 0, n <= 512 * 1024
  PROVE  2^(fls(n) - 1) \in Nat /\ 2^(fls(n) - 1) <= n
<1>1. Bits(n) # {} /\ Bits(n) \in SUBSET (0..30)
  <2>1. n < 1024 * 1024
    OBVIOUS
  <2> QED
    BY <2>1, SomeBit DEF Bits
<1>2. Max(Bits(n)) \in Bits(n)
  <2>1. PICK S \in SUBSET (0..30) : S = Bits(n) /\ S # {}
    BY <1>1
  <2>2. Max(S) \in S
    BY <2>1, LargestBit
  <2> QED
    BY <2>1, <2>2
<1>3. PICK m \in Bits(n) : fls(n) = m + 1 /\ m \in 0..30
  <2>1. fls(n) = Max(Bits(n)) + 1
    <3>1. n # 0
      OBVIOUS
    <3> QED
      BY <3>1, Zenon DEF fls
  <2>2. Max(Bits(n)) \in 0..30
    BY <1>1, <1>2
  <2> QED
    BY <1>2, <2>1, <2>2
<1>4. fls(n) - 1 = m
  BY <1>3
<1> DEFINE p(b) == 2^b
<1>5. (n \div p(m)) % 2 = 1
  BY <1>3 DEF Bits
<1>6. p(m) \in Nat /\ p(m) > 0
  <2>1. /\ p(0) = 1 /\ p(1) = 2 /\ p(2) = 4 /\ p(3) = 8 /\ p(4) = 16 /\ p(5) = 32 /\ p(6) = 64
        /\ p(7) = 128 /\ p(8) = 256 /\ p(9) = 512 /\ p(10) = 1024 /\ p(11) = 2048
    BY PowersOfTwo
  <2>2. /\ p(12) = 1024 * 4 /\ p(13) = 1024 * 8 /\ p(14) = 1024 * 16 /\ p(15) = 1024 * 32
        /\ p(16) = 1024 * 64 /\ p(17) = 1024 * 128 /\ p(18) = 1024 * 256 /\ p(19) = 1024 * 512
        /\ p(20) = 1024 * 1024 /\ p(21) = 1024 * 1024 * 2 /\ p(22) = 1024 * 1024 * 4
        /\ p(23) = 1024 * 1024 * 8 /\ p(24) = 1024 * 1024 * 16 /\ p(25) = 1024 * 1024 * 32
        /\ p(26) = 1024 * 1024 * 64 /\ p(27) = 1024 * 1024 * 128 /\ p(28) = 1024 * 1024 * 256
        /\ p(29) = 1024 * 1024 * 512 /\ p(30) = 1024 * 1024 * 1024
    BY PowersOfTwo
  <2> HIDE DEF p
  <2>3. m <= 11 => p(m) \in Nat /\ p(m) > 0
    BY <1>3, <2>1
  <2>4. m >= 12 => p(m) \in Nat /\ p(m) > 0
    BY <1>3, <2>2
  <2> QED
    BY <1>3, <2>3, <2>4
<1> HIDE DEF p
<1>7. PICK k \in Nat : k = p(m) /\ k > 0
  BY <1>6
<1>8. (n \div k) % 2 = 1
  BY <1>5, <1>7
<1>9. k <= n
  BY <1>7, <1>8
<1> QED
  BY <1>4, <1>7, <1>9 DEF p

(* A range below 2^31 has at most 2^19 pages. *)
LEMMA PagesCounted ==
  ASSUME NEW r \in MtrrRanges
  PROVE  PageCount(r.size) \in Nat /\ PageCount(r.size) <= 512 * 1024
<1>1. PICK base \in Nat, size \in Nat : base = r.base /\ size = r.size /\ (base + size) \div 65536 < 32768
  BY MtrrConstants
<1>2. base + size < 65536 * 32768
  BY <1>1
<1>3. (size + 4095) \div 4096 \in Nat /\ (size + 4095) \div 4096 <= 512 * 1024
  BY <1>2
<1> QED
  BY <1>1, <1>3 DEF PageCount, PAGE_SIZE_4K

(* A packed register has bits below 64 only. *)
LEMMA Packed == \A layout, s : Pack(layout, s) \in SUBSET (0..63)
  BY DEF Pack

(* The registers that are saved and packed again are the same. *)
LEMMA Repacked ==
  ASSUME NEW x \in SUBSET (0..63)
  PROVE  /\ Pack(mtrr_def_type_t, Unpack(mtrr_def_type_t, x)) = x
         /\ Pack(mtrr_physbase_t, Unpack(mtrr_physbase_t, x)) = x
         /\ Pack(mtrr_physmask_t, Unpack(mtrr_physmask_t, x)) = x
<1>1. PlacesFit(mtrr_def_type_t) /\ PlacesCover(mtrr_def_type_t, x)
  BY LayoutsDescribe DEF Describes, PlacesCover
<1>2. PlacesFit(mtrr_physbase_t) /\ PlacesCover(mtrr_physbase_t, x)
  BY LayoutsDescribe DEF Describes, PlacesCover
<1>3. PlacesFit(mtrr_physmask_t) /\ PlacesCover(mtrr_physmask_t, x)
  BY LayoutsDescribe DEF Describes, PlacesCover
<1>4. Pack(mtrr_def_type_t, Unpack(mtrr_def_type_t, x)) = x
  BY <1>1, PackUnpacked
<1>5. Pack(mtrr_physbase_t, Unpack(mtrr_physbase_t, x)) = x
  BY <1>2, PackUnpacked
<1>6. Pack(mtrr_physmask_t, Unpack(mtrr_physmask_t, x)) = x
  BY <1>3, PackUnpacked
<1> QED
  BY <1>4, <1>5, <1>6

(* Disabling the registers clears the bit that enables them. *)
LEMMA DisabledAll ==
  ASSUME NEW x \in SUBSET (0..63)
  PROVE  11 \notin Enabled(x, FALSE)
<1> DEFINE layout == mtrr_def_type_t
<1>1. PlacesFit(layout) /\ PlacesApart(layout) /\ PlacesCover(layout, x)
  BY LayoutsDescribe DEF Describes, PlacesCover
<1>2. "e" \in DOMAIN layout /\ layout["e"] = Place(11, 1)
  BY DEF mtrr_def_type_t
<1>3. Enabled(x, FALSE) = Pack(layout, [Unpack(layout, x) EXCEPT !["e"] = {}])
  BY DEF Enabled, WithMember
<1> HIDE DEF layout
<1>4. PICK f \in DOMAIN layout : f = "e"
  BY <1>2
<1>5. PICK v \in SUBSET (0..(layout[f].width - 1)) : v = {}
  OBVIOUS
<1>7. Pack(layout, [Unpack(layout, x) EXCEPT ![f] = v])
        = (x \ (layout[f].lo..(layout[f].lo + layout[f].width - 1))) \cup {c + layout[f].lo : c \in v}
  <2>1. f \in DOMAIN layout /\ v \in SUBSET (0..(layout[f].width - 1))
    OBVIOUS
  <2> QED
    BY <1>1, <2>1, PackChanged
<1>6. 11 \in layout[f].lo..(layout[f].lo + layout[f].width - 1)
  BY <1>2, <1>4 DEF Place
<1> QED
  BY <1>3, <1>4, <1>5, <1>6, <1>7

(* What the write of one mask leaves. *)
LEMMA MaskStep ==
  ASSUME vcnt \in 1..255, msr \in Registers(vcnt)
  PROVE  \A i \in 0..(vcnt - 1), v \in SUBSET (0..63) :
           msr' = [msr EXCEPT !.mask[i] = v] =>
             /\ msr' \in Registers(vcnt) /\ msr'.cap = msr.cap /\ msr'.def_type = msr.def_type
             /\ msr'.base = msr.base /\ msr'.mask[i] = v
             /\ \A j \in 0..(vcnt - 1) : j # i => msr'.mask[j] = msr.mask[j]
<1>1. PICK n \in Nat : n = vcnt
  OBVIOUS
<1>2. msr \in Registers(n)
  BY <1>1
<1> SUFFICES ASSUME NEW i \in 0..(n - 1), NEW v \in SUBSET (0..63), msr' = [msr EXCEPT !.mask[i] = v]
             PROVE  /\ msr' \in Registers(n) /\ msr'.cap = msr.cap /\ msr'.def_type = msr.def_type
                    /\ msr'.base = msr.base /\ msr'.mask[i] = v
                    /\ \A j \in 0..(n - 1) : j # i => msr'.mask[j] = msr.mask[j]
  BY <1>1
<1>3. msr' \in Registers(n)
  BY <1>2 DEF Registers
<1>4. msr'.mask = [msr.mask EXCEPT ![i] = v] /\ msr.mask \in [0..(n - 1) -> SUBSET (0..63)]
  BY <1>2 DEF Registers
<1>5. msr'.cap = msr.cap /\ msr'.def_type = msr.def_type /\ msr'.base = msr.base
  BY <1>2 DEF Registers
<1>6. msr'.mask[i] = v /\ \A j \in 0..(n - 1) : j # i => msr'.mask[j] = msr.mask[j]
  BY <1>4
<1> QED
  BY <1>3, <1>5, <1>6

(* What the write of one base leaves. *)
LEMMA BaseStep ==
  ASSUME vcnt \in 1..255, msr \in Registers(vcnt)
  PROVE  \A i \in 0..(vcnt - 1), v \in SUBSET (0..63) :
           msr' = [msr EXCEPT !.base[i] = v] =>
             /\ msr' \in Registers(vcnt) /\ msr'.cap = msr.cap /\ msr'.def_type = msr.def_type
             /\ msr'.mask = msr.mask /\ msr'.base[i] = v
             /\ \A j \in 0..(vcnt - 1) : j # i => msr'.base[j] = msr.base[j]
<1>1. PICK n \in Nat : n = vcnt
  OBVIOUS
<1>2. msr \in Registers(n)
  BY <1>1
<1> SUFFICES ASSUME NEW i \in 0..(n - 1), NEW v \in SUBSET (0..63), msr' = [msr EXCEPT !.base[i] = v]
             PROVE  /\ msr' \in Registers(n) /\ msr'.cap = msr.cap /\ msr'.def_type = msr.def_type
                    /\ msr'.mask = msr.mask /\ msr'.base[i] = v
                    /\ \A j \in 0..(n - 1) : j # i => msr'.base[j] = msr.base[j]
  BY <1>1
<1>3. msr' \in Registers(n)
  BY <1>2 DEF Registers
<1>4. msr'.base = [msr.base EXCEPT ![i] = v] /\ msr.base \in [0..(n - 1) -> SUBSET (0..63)]
  BY <1>2 DEF Registers
<1>5. msr'.cap = msr.cap /\ msr'.def_type = msr.def_type /\ msr'.mask = msr.mask
  BY <1>2 DEF Registers
<1>6. msr'.base[i] = v /\ \A j \in 0..(n - 1) : j # i => msr'.base[j] = msr.base[j]
  BY <1>4
<1> QED
  BY <1>3, <1>5, <1>6
-----------------------------------------------------------------------------
(* The invariant of the MTRRs holds in what the firmware leaves behind. *)
LEMMA MtrrInitially == MtrrInit => MtrrInv
<1> SUFFICES ASSUME MtrrInit
             PROVE  MtrrInv
  OBVIOUS
<1>1. PICK f \in Firmwares, def_type \in DefTypes :
        /\ msr = [cap |-> Bits(Len(f.pairs)) \cup {8, 10}, def_type |-> def_type,
                  base |-> [i \in 0..(Len(f.pairs) - 1) |-> f.pairs[i + 1].base],
                  mask |-> [i \in 0..(Len(f.pairs) - 1) |-> f.pairs[i + 1].mask]]
        /\ mcalls = f.calls
  BY DEF MtrrInit
<1>2. saved = NothingSaved /\ mtrr = NoMtrrCall /\ kept = <<>>
  BY DEF MtrrInit
<1>3. PICK n \in 1..255 : n = Len(f.pairs)
  BY MtrrConstants
<1>4. vcnt = n
  BY <1>1, <1>3, PairsCounted
<1>5. msr \in Registers(n) /\ mcalls \in Nat
  <2>1. f.pairs \in Seq([base : SUBSET (0..63), mask : SUBSET (0..63)]) /\ f.calls \in Nat
    BY MtrrConstants
  <2>2. \A i \in 0..(n - 1) : f.pairs[i + 1] \in [base : SUBSET (0..63), mask : SUBSET (0..63)]
    <3>1. PICK S : S = [base : SUBSET (0..63), mask : SUBSET (0..63)]
      OBVIOUS
    <3>2. PICK s \in Seq(S) : s = f.pairs /\ Len(s) = n
      BY <1>3, <2>1, <3>1
    <3>3. \A i \in 0..(n - 1) : i + 1 \in 1..Len(s) /\ s[i + 1] \in S
      BY <3>2
    <3> QED
      BY <3>1, <3>2, <3>3
  <2>3. \A i \in 0..(n - 1) : f.pairs[i + 1].base \in SUBSET (0..63) /\ f.pairs[i + 1].mask \in SUBSET (0..63)
    BY <2>2
  <2>4. Bits(n) \cup {8, 10} \in SUBSET (0..63)
    BY DEF Bits
  <2>5. def_type \in SUBSET (0..63)
    BY MtrrConstants
  <2>6. msr \in Registers(n)
    BY <1>1, <1>3, <2>3, <2>4, <2>5 DEF Registers
  <2> QED
    BY <1>1, <2>1, <2>6
<1>6. MtrrRegisters
  BY <1>2, <1>4, <1>5 DEF MtrrRegisters
<1>7. MtrrCaller
  BY <1>2, <1>4 DEF MtrrCaller, NoMtrrCall, Serves
<1>8. MtrrSaved
  BY <1>2, <1>4, MtrrConstants DEF MtrrSaved, NothingSaved
<1>9. MtrrKept /\ MtrrRestoring /\ MtrrRestored
  BY <1>2 DEF MtrrKept, MtrrRestoring, MtrrRestored, NoMtrrCall
<1> QED
  BY <1>6, <1>7, <1>8, <1>9 DEF MtrrInv

(* A call starts. *)
LEMMA MtrrCallKeeps ==
  ASSUME MtrrInv, MtrrCall
  PROVE  MtrrInv'
<1>1. /\ mtrr.pc = "idle" /\ mcalls' = mcalls - 1 /\ mcalls > 0
      /\ msr' = msr /\ saved' = saved /\ vcnt' = vcnt
  BY PairsStay DEF MtrrCall
<1>2. \/ mtrr' = Calling("save", "save") /\ kept' = <<msr>>
      \/ /\ kept' = kept
         /\ \/ mtrr' = Calling("restore", "disable")
            \/ mtrr' = Calling("restore", "returned")
            \/ mtrr' = Calling("validate", "validate")
            \/ \E enable \in BOOLEAN : mtrr' = [Calling("set_all", "all") EXCEPT !.enable = enable]
            \/ \E range \in MtrrRanges, type \in MtrrTypes :
                 mtrr' = [Calling("set_mem_type", "default") EXCEPT
                            !.range = range, !.base = range.base, !.mem_type = type]
  BY DEF MtrrCall
<1>3. MtrrRegisters'
  <2>1. MtrrRegisters
    BY DEF MtrrInv
  <2>2. kept' # <<>> => kept' = <<kept'[1]>> /\ kept'[1] \in Registers(vcnt)
    <3>1. CASE kept' = kept
      BY <2>1, <3>1 DEF MtrrRegisters
    <3>2. CASE kept' = <<msr>>
      BY <2>1, <3>2 DEF MtrrRegisters
    <3> QED
      BY <1>2, <3>1, <3>2
  <2> QED
    BY <1>1, <2>1, <2>2 DEF MtrrRegisters
<1>4. MtrrCaller' /\ mtrr'.pc \notin {"next", "base"} /\ (mtrr'.pc = "returned" => ~mtrr'.result)
  <2>1. vcnt \in 1..255
    BY DEF MtrrInv, MtrrRegisters
  <2> DEFINE Full(c) == DOMAIN c = {"pc", "fn", "ndx", "base", "num_pages", "range", "mem_type", "enable", "result"}
             New(c) == Full(c) /\ c.ndx = 0 /\ c.num_pages = 0 /\ c.result = FALSE
  <2>2. \A fn, pc : Calling(fn, pc).fn = fn /\ Calling(fn, pc).pc = pc /\ New(Calling(fn, pc))
    BY DEF Calling, NoMtrrCall
  <2>3. \A c : New(c) =>
          /\ \A enable : New([c EXCEPT !.enable = enable])
          /\ \A range, base, type : New([c EXCEPT !.range = range, !.base = base, !.mem_type = type])
    <3>1. \A c, enable : New(c) => New([c EXCEPT !.enable = enable])
      OBVIOUS
    <3>2. \A c, range, base, type : New(c) => New([c EXCEPT !.range = range, !.base = base, !.mem_type = type])
      OBVIOUS
    <3> QED
      BY <3>1, <3>2
  <2>4. New(mtrr')
    <3> HIDE DEF New
    <3>1. ASSUME NEW enable \in BOOLEAN, mtrr' = [Calling("set_all", "all") EXCEPT !.enable = enable]
          PROVE  New(mtrr')
      BY <2>2, <2>3, <3>1
    <3>2. ASSUME NEW range \in MtrrRanges, NEW type \in MtrrTypes,
                 mtrr' = [Calling("set_mem_type", "default") EXCEPT
                            !.range = range, !.base = range.base, !.mem_type = type]
          PROVE  New(mtrr')
      BY <2>2, <2>3, <3>2
    <3>3. \A fn, pc : mtrr' = Calling(fn, pc) => New(mtrr')
      BY <2>2
    <3> QED
      BY <1>2, <3>1, <3>2, <3>3
  <2>5. /\ <<mtrr'.fn, mtrr'.pc>> \in {<<"save", "save">>, <<"restore", "disable">>, <<"restore", "returned">>,
            <<"validate", "validate">>, <<"set_all", "all">>, <<"set_mem_type", "default">>}
        /\ mtrr'.pc = "default" => mtrr'.range \in MtrrRanges
    BY <1>2 DEF Calling, NoMtrrCall
  <2>6. Serves(mtrr'.fn, mtrr'.pc) /\ mtrr'.pc \notin {"next", "base", "range_base", "range_mask", "clear"}
    BY <2>5 DEF Serves
  <2>7. MtrrCaller'
    <3>1. mtrr'.ndx \in 0..vcnt' /\ mtrr'.num_pages \in Nat /\ mtrr'.result \in BOOLEAN
      <4>1. mtrr'.ndx = 0 /\ mtrr'.num_pages = 0 /\ mtrr'.result = FALSE
        BY <2>4
      <4>2. vcnt' \in 1..255
        BY <1>1, <2>1
      <4>3. mtrr'.ndx \in 0..vcnt' /\ mtrr'.num_pages \in Nat
        BY <4>1, <4>2
      <4>4. mtrr'.result \in BOOLEAN
        BY <4>1
      <4> QED
        BY <4>3, <4>4
    <3>2. mtrr'.num_pages <= 512 * 1024 /\ mtrr'.pc # "range_mask"
      BY <2>4, <2>6
    <3>3. mtrr'.pc \in {"default", "clear"} => mtrr'.range \in MtrrRanges
      BY <2>5, <2>6
    <3> QED
      BY <2>4, <2>6, <3>1, <3>2, <3>3 DEF MtrrCaller
  <2> QED
    BY <2>4, <2>6, <2>7
<1>5. MtrrSaved'
  BY <1>1 DEF MtrrInv, MtrrSaved
<1>6. MtrrKept'
  <2>1. kept # <<>> => Saves(kept[1])
    BY <1>1 DEF MtrrInv, MtrrKept, MtrrAt
  <2>2. \A m : Saves(m) = Saves(m)'
    BY <1>1 DEF Saves
  <2>3. CASE mtrr' = Calling("save", "save") /\ kept' = <<msr>>
    BY <1>1, <2>3 DEF MtrrKept, MtrrAt, Calling, NoMtrrCall
  <2>4. CASE kept' = kept /\ mtrr'.pc # "save"
    BY <1>1, <2>1, <2>2, <2>4 DEF MtrrKept, MtrrAt, Saves
  <2>5. \/ mtrr' = Calling("save", "save") /\ kept' = <<msr>>
        \/ kept' = kept /\ mtrr'.pc # "save"
    BY <1>2 DEF Calling, NoMtrrCall
  <2> QED
    BY <2>3, <2>4, <2>5
<1>7. MtrrRestoring' /\ MtrrRestored'
  BY <1>4 DEF MtrrRestoring, MtrrRestored, MtrrAt
<1> QED
  BY <1>3, <1>4, <1>5, <1>6, <1>7 DEF MtrrInv

(* Steps outside restore: of the caller's structure only save changes anything. *)
LEMMA MtrrOutside ==
  ASSUME MtrrInv, msr'.cap = msr.cap, msr' \in Registers(vcnt), MtrrCaller',
         saved' = saved, kept' = kept, mcalls' = mcalls, mtrr.pc # "save", mtrr'.pc # "save",
         mtrr'.pc \notin {"next", "base"}, mtrr'.fn = "restore" => mtrr'.pc # "returned"
  PROVE  MtrrInv'
<1>1. vcnt' = vcnt
  BY PairsStay
<1>2. MtrrRegisters' /\ MtrrSaved'
  BY <1>1 DEF MtrrInv, MtrrRegisters, MtrrSaved
<1>3. MtrrKept'
  BY <1>1 DEF MtrrInv, MtrrKept, MtrrAt, Saves
<1>4. MtrrRestoring' /\ MtrrRestored'
  BY DEF MtrrRestoring, MtrrRestored, MtrrAt
<1> QED
  BY <1>2, <1>3, <1>4 DEF MtrrInv

(* Writing all the pairs one after the other preserves the invariant. *)
LEMMA SetAllKeeps ==
  ASSUME MtrrInv, set_all_mtrrs, UNCHANGED <<mcalls, kept>>
  PROVE  MtrrInv'
<1>1. /\ mtrr.pc = "all" /\ msr' = [msr EXCEPT !.def_type = Enabled(msr.def_type, mtrr.enable)]
      /\ mtrr' = [mtrr EXCEPT !.pc = "returned", !.result = TRUE] /\ saved' = saved
  BY DEF set_all_mtrrs, MtrrAt, MtrrReturn
<1>2. MtrrCaller /\ msr \in Registers(vcnt)
  BY DEF MtrrInv, MtrrRegisters
<1>3. msr' \in Registers(vcnt) /\ msr'.cap = msr.cap
  <2>1. Enabled(msr.def_type, mtrr.enable) \in SUBSET (0..63)
    BY Packed DEF Enabled, WithMember
  <2> QED
    BY <1>1, <1>2, <2>1 DEF Registers
<1>4. vcnt' = vcnt
  BY <1>3, PairsStay
<1>5. mtrr.fn = "set_all"
  BY <1>1, <1>2 DEF MtrrCaller, Serves
<1>6. MtrrCaller' /\ mtrr'.fn = "set_all" /\ mtrr'.pc = "returned"
  BY <1>1, <1>2, <1>4, <1>5 DEF MtrrCaller, Serves
<1> QED
  BY <1>1, <1>3, <1>6, MtrrOutside

(* The check of a range preserves the invariant. *)
LEMMA ValidateKeeps ==
  ASSUME MtrrInv, validate_mtrrs, UNCHANGED <<mcalls, kept>>
  PROVE  MtrrInv'
<1>1. /\ mtrr.pc = "validate" /\ msr' = msr /\ saved' = saved
      /\ mtrr' = [mtrr EXCEPT !.pc = "returned", !.result = ValidMtrrs]
  BY DEF validate_mtrrs, MtrrAt, MtrrReturn
<1>2. MtrrCaller /\ msr \in Registers(vcnt)
  BY DEF MtrrInv, MtrrRegisters
<1>3. ValidMtrrs \in BOOLEAN
  BY DEF ValidMtrrs
<1>4. vcnt' = vcnt
  BY <1>1, PairsStay
<1>5. mtrr.fn = "validate"
  BY <1>1, <1>2 DEF MtrrCaller, Serves
<1>6. MtrrCaller' /\ mtrr'.fn = "validate" /\ mtrr'.pc = "returned"
  BY <1>1, <1>2, <1>3, <1>4, <1>5 DEF MtrrCaller, Serves
<1> QED
  BY <1>1, <1>2, <1>6, MtrrOutside

(* Returning to the caller preserves the invariant. *)
LEMMA DoneReturns ==
  ASSUME MtrrInv, MtrrDone, UNCHANGED <<mcalls, kept>>
  PROVE  MtrrInv'
<1>1. mtrr.pc = "returned" /\ msr' = msr /\ saved' = saved /\ mtrr' = NoMtrrCall
  BY DEF MtrrDone, MtrrAt
<1>2. vcnt \in 1..255 /\ msr \in Registers(vcnt)
  BY DEF MtrrInv, MtrrRegisters
<1>3. vcnt' = vcnt
  BY <1>1, PairsStay
<1>4. MtrrCaller' /\ mtrr'.pc = "idle"
  BY <1>1, <1>2, <1>3 DEF MtrrCaller, Serves, NoMtrrCall
<1> QED
  BY <1>1, <1>2, <1>4, MtrrOutside
-----------------------------------------------------------------------------
(* Saving the registers preserves the invariant. *)
LEMMA SaveKeeps ==
  ASSUME MtrrInv, save_mtrrs, UNCHANGED <<mcalls, kept>>
  PROVE  MtrrInv'
<1> DEFINE n == IF vcnt > MAX_VARIABLE_MTRRS THEN MAX_VARIABLE_MTRRS ELSE vcnt
           all == DOMAIN saved.physmasks
<1>1. /\ mtrr.pc = "save" /\ msr' = msr /\ mtrr' = [mtrr EXCEPT !.pc = "returned", !.result = TRUE]
      /\ saved' = [num_var_mtrrs |-> n, def_type |-> Unpack(mtrr_def_type_t, msr.def_type),
           physmasks |-> [i \in all |-> IF i < n THEN Unpack(mtrr_physmask_t, msr.mask[i])
                                        ELSE saved.physmasks[i]],
           physbases |-> [i \in all |-> IF i < n THEN Unpack(mtrr_physbase_t, msr.base[i])
                                        ELSE saved.physbases[i]]]
  BY DEF save_mtrrs, MtrrAt, MtrrReturn
<1>2. MtrrCaller /\ MtrrSaved /\ MtrrRegisters /\ MtrrKept
  BY DEF MtrrInv
<1>3. vcnt' = vcnt
  BY <1>1, PairsStay
<1>4. mtrr.fn = "save"
  BY <1>1, <1>2 DEF MtrrCaller, Serves
<1>5. MtrrCaller' /\ mtrr'.fn = "save" /\ mtrr'.pc = "returned"
  BY <1>1, <1>2, <1>3, <1>4 DEF MtrrCaller, Serves
<1>6. n \in 0..MAX_VARIABLE_MTRRS /\ n <= vcnt /\ all = 0..(MAX_VARIABLE_MTRRS - 1)
  <2>1. vcnt \in 1..255 /\ all = 0..(MAX_VARIABLE_MTRRS - 1)
    BY <1>2 DEF MtrrSaved, MtrrRegisters
  <2>2. n \in 0..MAX_VARIABLE_MTRRS /\ n <= vcnt
    BY <2>1, MtrrConstants
  <2> QED
    BY <2>1, <2>2
<1>7. /\ saved'.num_var_mtrrs = n /\ DOMAIN saved'.physmasks = all
      /\ saved'.def_type = Unpack(mtrr_def_type_t, msr.def_type)
      /\ \A i \in all : i < n => /\ saved'.physmasks[i] = Unpack(mtrr_physmask_t, msr.mask[i])
                                 /\ saved'.physbases[i] = Unpack(mtrr_physbase_t, msr.base[i])
  BY <1>1
<1>8. MtrrSaved'
  BY <1>3, <1>6, <1>7 DEF MtrrSaved
<1>9. MtrrRegisters'
  BY <1>1, <1>2, <1>3 DEF MtrrRegisters
<1>10. MtrrKept'
  <2>1. kept # <<>> => kept[1] = msr
    BY <1>1, <1>2 DEF MtrrKept, MtrrAt
  <2>2. \A i \in 0..(n - 1) : i \in all /\ i < n
    BY <1>6, MtrrConstants
  <2> HIDE DEF n, all
  <2>3. Saves(msr)'
    BY <1>1, <1>3, <1>7, <2>2 DEF Saves, n
  <2>4. kept' # <<>> => Saves(kept[1])'
    BY <1>1, <2>1, <2>3
  <2> QED
    BY <1>5, <2>4 DEF MtrrKept, MtrrAt
<1>11. MtrrRestoring' /\ MtrrRestored'
  BY <1>5 DEF MtrrRestoring, MtrrRestored, MtrrAt
<1> QED
  BY <1>5, <1>8, <1>9, <1>10, <1>11 DEF MtrrInv

(* One step of restore. *)
LEMMA RestoreKeeps ==
  ASSUME MtrrInv, restore_mtrrs, UNCHANGED <<mcalls, kept>>
  PROVE  MtrrInv'
<1> DEFINE ndx == mtrr.ndx
           more == mtrr.ndx < saved.num_var_mtrrs
<1>1. /\ MtrrCaller /\ MtrrSaved /\ MtrrRegisters /\ MtrrKept /\ MtrrRestoring
      /\ saved' = saved /\ kept' = kept /\ mcalls' = mcalls
  BY DEF MtrrInv, restore_mtrrs
<1>2. \/ /\ mtrr.pc = "disable" /\ msr' = [msr EXCEPT !.def_type = Enabled(msr.def_type, FALSE)]
         /\ mtrr' = [mtrr EXCEPT !.pc = "next", !.ndx = 0]
      \/ /\ mtrr.pc = "next" /\ more
         /\ msr' = [msr EXCEPT !.mask[ndx] = Pack(mtrr_physmask_t, saved.physmasks[ndx])]
         /\ mtrr' = [mtrr EXCEPT !.pc = "base", !.ndx = ndx]
      \/ /\ mtrr.pc = "base"
         /\ msr' = [msr EXCEPT !.base[ndx] = Pack(mtrr_physbase_t, saved.physbases[ndx])]
         /\ mtrr' = [mtrr EXCEPT !.pc = "next", !.ndx = ndx + 1]
      \/ /\ mtrr.pc = "next" /\ ~more
         /\ msr' = [msr EXCEPT !.def_type = Pack(mtrr_def_type_t, saved.def_type)]
         /\ mtrr' = [mtrr EXCEPT !.pc = "returned", !.result = TRUE]
  BY DEF restore_mtrrs, MtrrAt, MtrrGoto, MtrrReturn
<1>3. mtrr.fn = "restore"
  <2>1. mtrr.pc \in {"disable", "next", "base"}
    BY <1>2
  <2>2. Serves(mtrr.fn, mtrr.pc)
    BY <1>1 DEF MtrrCaller
  <2> QED
    BY <2>1, <2>2 DEF Serves
<1>4. /\ mtrr.ndx \in 0..vcnt /\ msr \in Registers(vcnt) /\ vcnt \in 1..255
      /\ saved.num_var_mtrrs \in Nat /\ saved.num_var_mtrrs <= vcnt
  <2>1. mtrr.ndx \in 0..vcnt
    BY <1>1 DEF MtrrCaller
  <2>2. msr \in Registers(vcnt) /\ vcnt \in 1..255
    BY <1>1 DEF MtrrRegisters
  <2>3. saved.num_var_mtrrs \in 0..MAX_VARIABLE_MTRRS /\ saved.num_var_mtrrs <= vcnt
    BY <1>1 DEF MtrrSaved
  <2>4. saved.num_var_mtrrs \in Nat
    BY <2>3, MtrrConstants
  <2> QED
    BY <2>1, <2>2, <2>3, <2>4
<1> ndx \in Int /\ (mtrr.pc = "base" => ndx < saved.num_var_mtrrs)
    /\ (mtrr.pc \in {"next", "base"} => ndx <= saved.num_var_mtrrs)
  BY <1>1, <1>4 DEF MtrrRestoring
<1>5. msr' \in Registers(vcnt) /\ msr'.cap = msr.cap
  <2>1. CASE mtrr.pc = "disable"
    <3>1. Enabled(msr.def_type, FALSE) \in SUBSET (0..63)
      BY Packed DEF Enabled, WithMember
    <3> QED
      BY <1>2, <1>4, <2>1, <3>1 DEF Registers
  <2>2. CASE mtrr.pc = "next" /\ more
    <3>1. ndx \in 0..(vcnt - 1)
      BY <1>4, <2>2
    <3>2. PICK v \in SUBSET (0..63) : msr' = [msr EXCEPT !.mask[ndx] = v]
      BY <1>2, <2>2, Packed
    <3> QED
      BY <1>4, <3>1, <3>2, MaskStep
  <2>3. CASE mtrr.pc = "base"
    <3>1. ndx \in 0..(vcnt - 1)
      BY <1>4, <2>3
    <3>2. PICK v \in SUBSET (0..63) : msr' = [msr EXCEPT !.base[ndx] = v]
      BY <1>2, <2>3, Packed
    <3> QED
      BY <1>4, <3>1, <3>2, BaseStep
  <2>4. CASE mtrr.pc = "next" /\ ~more
    <3>1. Pack(mtrr_def_type_t, saved.def_type) \in SUBSET (0..63)
      BY Packed
    <3> QED
      BY <1>2, <1>4, <2>4, <3>1 DEF Registers
  <2> QED
    BY <1>2, <2>1, <2>2, <2>3, <2>4
<1>6. vcnt' = vcnt
  BY <1>5, PairsStay
<1>7. MtrrRegisters'
  BY <1>1, <1>5, <1>6 DEF MtrrRegisters
<1>8. MtrrSaved'
  BY <1>1, <1>6 DEF MtrrSaved
<1>9. MtrrCaller' /\ mtrr'.fn = "restore"
  <2>1. CASE mtrr' = [mtrr EXCEPT !.pc = "next", !.ndx = 0]
    BY <1>1, <1>3, <1>4, <1>6, <2>1 DEF MtrrCaller, Serves
  <2>2. CASE mtrr' = [mtrr EXCEPT !.pc = "base", !.ndx = ndx]
    BY <1>1, <1>3, <1>4, <1>6, <2>2 DEF MtrrCaller, Serves
  <2>3. CASE mtrr.pc = "base" /\ mtrr' = [mtrr EXCEPT !.pc = "next", !.ndx = ndx + 1]
    <3>1. ndx + 1 \in 0..vcnt
      BY <1>4, <2>3
    <3> QED
      BY <1>1, <1>3, <1>4, <1>6, <2>3, <3>1 DEF MtrrCaller, Serves
  <2>4. CASE mtrr' = [mtrr EXCEPT !.pc = "returned", !.result = TRUE]
    BY <1>1, <1>3, <1>4, <1>6, <2>4 DEF MtrrCaller, Serves
  <2> QED
    BY <1>2, <2>1, <2>2, <2>3, <2>4
<1>10. mtrr.pc # "save" /\ mtrr'.pc # "save"
  <2>1. Serves("restore", mtrr.pc) /\ Serves("restore", mtrr'.pc)
    BY <1>1, <1>3, <1>9 DEF MtrrCaller
  <2> QED
    BY <2>1 DEF Serves
<1>11. kept # <<>> => Saves(kept[1])
  BY <1>1, <1>10 DEF MtrrKept, MtrrAt
<1>12. MtrrKept'
  BY <1>1, <1>6, <1>10, <1>11 DEF MtrrKept, MtrrAt, Saves
<1>13. kept # <<>> =>
         /\ kept[1].def_type \in SUBSET (0..63)
         /\ \A i \in 0..(vcnt - 1) : kept[1].base[i] \in SUBSET (0..63) /\ kept[1].mask[i] \in SUBSET (0..63)
  <2>1. kept # <<>> => kept[1] \in Registers(vcnt)
    BY <1>1 DEF MtrrRegisters
  <2>2. \A m \in Registers(vcnt) :
          /\ m.def_type \in SUBSET (0..63)
          /\ \A i \in 0..(vcnt - 1) : m.base[i] \in SUBSET (0..63) /\ m.mask[i] \in SUBSET (0..63)
    BY DEF Registers
  <2> QED
    BY <2>1, <2>2
<1>14. kept # <<>> =>
         /\ Pack(mtrr_def_type_t, saved.def_type) = kept[1].def_type
         /\ \A i \in 0..(saved.num_var_mtrrs - 1) :
              /\ Pack(mtrr_physmask_t, saved.physmasks[i]) = kept[1].mask[i]
              /\ Pack(mtrr_physbase_t, saved.physbases[i]) = kept[1].base[i]
  <2> SUFFICES ASSUME kept # <<>>
               PROVE  /\ Pack(mtrr_def_type_t, saved.def_type) = kept[1].def_type
                      /\ \A i \in 0..(saved.num_var_mtrrs - 1) :
                           /\ Pack(mtrr_physmask_t, saved.physmasks[i]) = kept[1].mask[i]
                           /\ Pack(mtrr_physbase_t, saved.physbases[i]) = kept[1].base[i]
    OBVIOUS
  <2>1. Pack(mtrr_def_type_t, saved.def_type) = kept[1].def_type
    BY <1>11, <1>13, Repacked DEF Saves
  <2>2. ASSUME NEW i \in 0..(saved.num_var_mtrrs - 1)
        PROVE  /\ Pack(mtrr_physmask_t, saved.physmasks[i]) = kept[1].mask[i]
               /\ Pack(mtrr_physbase_t, saved.physbases[i]) = kept[1].base[i]
    <3>1. i \in 0..(vcnt - 1)
      BY <1>4
    <3>2. /\ saved.physmasks[i] = Unpack(mtrr_physmask_t, kept[1].mask[i])
          /\ saved.physbases[i] = Unpack(mtrr_physbase_t, kept[1].base[i])
      BY <1>11 DEF Saves
    <3>3. kept[1].base[i] \in SUBSET (0..63) /\ kept[1].mask[i] \in SUBSET (0..63)
      BY <1>13, <3>1
    <3> QED
      BY <3>2, <3>3, Repacked
  <2> QED
    BY <2>1, <2>2
<1>15. MtrrRestoring'
  <2>1. CASE mtrr.pc = "disable"
    <3>1. 11 \notin msr'.def_type
      <4>1. msr.def_type \in SUBSET (0..63) /\ "def_type" \in DOMAIN msr
        BY <1>4 DEF Registers
      <4>2. msr' = [msr EXCEPT !.def_type = Enabled(msr.def_type, FALSE)]
        BY <1>2, <2>1
      <4>3. msr'.def_type = Enabled(msr.def_type, FALSE)
        BY <4>1, <4>2
      <4> QED
        BY <4>1, <4>3, DisabledAll
    <3>2. mtrr'.pc = "next" /\ mtrr'.ndx = 0
      <4>1. mtrr' = [mtrr EXCEPT !.pc = "next", !.ndx = 0]
        BY <1>2, <2>1
      <4> QED
        BY <1>1, <4>1 DEF MtrrCaller
    <3> QED
      BY <1>1, <1>4, <3>1, <3>2 DEF MtrrRestoring
  <2>2. CASE mtrr.pc = "next" /\ more
    <3>1. mtrr'.pc = "base" /\ mtrr'.ndx = ndx
      BY <1>1, <1>2, <2>2 DEF MtrrCaller
    <3>2. ndx \in 0..(vcnt - 1) /\ ndx \in 0..(saved.num_var_mtrrs - 1)
      BY <1>4, <2>2
    <3>3. /\ msr'.def_type = msr.def_type /\ msr'.base = msr.base
          /\ msr'.mask[ndx] = Pack(mtrr_physmask_t, saved.physmasks[ndx])
          /\ \A i \in 0..(ndx - 1) : msr'.mask[i] = msr.mask[i]
      <4>1. PICK v \in SUBSET (0..63) : v = Pack(mtrr_physmask_t, saved.physmasks[ndx])
        BY Packed
      <4>2. msr' = [msr EXCEPT !.mask[ndx] = v]
        BY <1>2, <2>2, <4>1
      <4>3. /\ msr'.def_type = msr.def_type /\ msr'.base = msr.base /\ msr'.mask[ndx] = v
            /\ \A j \in 0..(vcnt - 1) : j # ndx => msr'.mask[j] = msr.mask[j]
        BY <1>4, <3>2, <4>2, MaskStep
      <4>4. \A i \in 0..(ndx - 1) : i \in 0..(vcnt - 1) /\ i # ndx
        BY <1>4, <3>2
      <4> QED
        BY <4>1, <4>3, <4>4
    <3>4. kept # <<>> => msr'.mask[ndx] = kept[1].mask[ndx]
      BY <1>14, <3>2, <3>3
    <3> QED
      BY <1>1, <1>4, <2>2, <3>1, <3>3, <3>4 DEF MtrrRestoring
  <2>3. CASE mtrr.pc = "base"
    <3>1. mtrr'.pc = "next" /\ mtrr'.ndx = ndx + 1
      BY <1>1, <1>2, <2>3 DEF MtrrCaller
    <3>2. ndx \in 0..(vcnt - 1) /\ ndx \in 0..(saved.num_var_mtrrs - 1)
      BY <1>1, <1>4, <2>3 DEF MtrrRestoring
    <3>3. /\ msr'.def_type = msr.def_type /\ msr'.mask = msr.mask
          /\ msr'.base[ndx] = Pack(mtrr_physbase_t, saved.physbases[ndx])
          /\ \A i \in 0..(ndx - 1) : msr'.base[i] = msr.base[i]
      <4>1. PICK v \in SUBSET (0..63) : v = Pack(mtrr_physbase_t, saved.physbases[ndx])
        BY Packed
      <4>2. msr' = [msr EXCEPT !.base[ndx] = v]
        BY <1>2, <2>3, <4>1
      <4>3. /\ msr'.def_type = msr.def_type /\ msr'.mask = msr.mask /\ msr'.base[ndx] = v
            /\ \A j \in 0..(vcnt - 1) : j # ndx => msr'.base[j] = msr.base[j]
        BY <1>4, <3>2, <4>2, BaseStep
      <4>4. \A i \in 0..(ndx - 1) : i \in 0..(vcnt - 1) /\ i # ndx
        BY <1>4, <3>2
      <4> QED
        BY <4>1, <4>3, <4>4
    <3>4. kept # <<>> => msr'.base[ndx] = kept[1].base[ndx]
      BY <1>14, <3>2, <3>3
    <3>5. kept # <<>> => \A i \in 0..ndx : msr'.base[i] = kept[1].base[i] /\ msr'.mask[i] = kept[1].mask[i]
      BY <1>1, <1>4, <2>3, <3>3, <3>4 DEF MtrrRestoring
    <3>6. 11 \notin msr'.def_type /\ ndx + 1 <= saved.num_var_mtrrs /\ (ndx + 1) - 1 = ndx
      BY <1>1, <1>4, <2>3, <3>2, <3>3 DEF MtrrRestoring
    <3> QED
      BY <1>1, <3>1, <3>5, <3>6 DEF MtrrRestoring
  <2>4. CASE mtrr.pc = "next" /\ ~more
    <3>1. mtrr'.pc = "returned"
      BY <1>1, <1>2, <2>4 DEF MtrrCaller
    <3> QED
      BY <3>1 DEF MtrrRestoring
  <2> QED
    BY <1>2, <2>1, <2>2, <2>3, <2>4
<1>16. MtrrRestored'
  <2>1. mtrr'.pc \in {"next", "base"} => 11 \notin msr'.def_type
    BY <1>15 DEF MtrrRestoring
  <2>2. ASSUME mtrr'.pc = "returned", kept # <<>>
        PROVE  /\ msr'.def_type = kept[1].def_type
               /\ \A i \in Pairs' : i < MAX_VARIABLE_MTRRS =>
                    msr'.base[i] = kept[1].base[i] /\ msr'.mask[i] = kept[1].mask[i]
    <3>1. /\ mtrr.pc = "next" /\ ~more
          /\ msr' = [msr EXCEPT !.def_type = Pack(mtrr_def_type_t, saved.def_type)]
      BY <1>1, <1>2, <2>2 DEF MtrrCaller
    <3>2. /\ msr'.def_type = Pack(mtrr_def_type_t, saved.def_type)
          /\ msr'.base = msr.base /\ msr'.mask = msr.mask
      BY <1>4, <3>1 DEF Registers
    <3>3. mtrr.ndx = saved.num_var_mtrrs
      BY <1>1, <1>4, <3>1 DEF MtrrRestoring
    <3>4. saved.num_var_mtrrs = IF vcnt > MAX_VARIABLE_MTRRS THEN MAX_VARIABLE_MTRRS ELSE vcnt
      BY <1>11, <2>2 DEF Saves
    <3>5. \A i \in Pairs' : i < MAX_VARIABLE_MTRRS => i \in 0..(saved.num_var_mtrrs - 1)
      <4>1. Pairs' = 0..(vcnt - 1)
        BY <1>6 DEF Pairs
      <4> QED
        BY <1>4, <3>4, <4>1, MtrrConstants
    <3>6. \A i \in 0..(saved.num_var_mtrrs - 1) : msr.base[i] = kept[1].base[i] /\ msr.mask[i] = kept[1].mask[i]
      BY <1>1, <2>2, <3>1, <3>3 DEF MtrrRestoring
    <3> QED
      BY <1>14, <2>2, <3>2, <3>5, <3>6
  <2> QED
    BY <1>1, <1>9, <2>1, <2>2 DEF MtrrRestored, MtrrAt
<1> QED
  BY <1>7, <1>8, <1>9, <1>12, <1>15, <1>16 DEF MtrrInv
-----------------------------------------------------------------------------
(* One step of set_mem_type. *)
LEMMA SetMemTypeKeeps ==
  ASSUME MtrrInv, set_mem_type, UNCHANGED <<mcalls, kept>>
  PROVE  MtrrInv'
<1> DEFINE ndx == mtrr.ndx
           power == 2^(fls(mtrr.num_pages) - 1)
           newBase == Pack(mtrr_physbase_t, [type |-> mtrr.mem_type, reserved1 |-> {}, reserved2 |-> {},
                                          base |-> Bits(mtrr.base \div PAGE_SIZE_4K)])
           newMask == Pack(mtrr_physmask_t, [v |-> {0}, reserved1 |-> {}, reserved2 |-> {},
                                          mask |-> (fls(mtrr.num_pages) - 1)..31])
<1>1. MtrrCaller /\ vcnt \in 1..255 /\ msr \in Registers(vcnt) /\ saved' = saved
  BY DEF MtrrInv, MtrrRegisters, set_mem_type
<1>2. mtrr.ndx \in 0..vcnt /\ mtrr.num_pages \in Nat /\ mtrr.num_pages <= 512 * 1024
  BY <1>1 DEF MtrrCaller
<1>3. ASSUME mtrr.pc \in {"default", "clear", "range_base", "range_mask"},
             msr'.cap = msr.cap, msr' \in Registers(vcnt),
             mtrr'.pc \in {"clear", "range_base", "range_mask", "returned"},
             mtrr'.fn = mtrr.fn, DOMAIN mtrr' = DOMAIN mtrr, mtrr'.range = mtrr.range,
             mtrr'.pc = "clear" => mtrr.pc \in {"default", "clear"},
             mtrr'.ndx \in 0..vcnt, mtrr'.num_pages \in Nat, mtrr'.num_pages <= 512 * 1024,
             mtrr'.result \in BOOLEAN, mtrr'.pc \in {"range_base", "range_mask"} => mtrr'.ndx < vcnt,
             mtrr'.pc = "range_mask" => mtrr'.num_pages > 0
      PROVE  MtrrInv'
  <2>1. vcnt' = vcnt
    BY <1>3, PairsStay
  <2>2. mtrr.fn = "set_mem_type"
    BY <1>1, <1>3 DEF MtrrCaller, Serves
  <2>3. Serves(mtrr'.fn, mtrr'.pc)
    BY <1>3, <2>2 DEF Serves
  <2>4. mtrr'.pc \in {"default", "clear"} => mtrr'.range \in MtrrRanges
    BY <1>1, <1>3 DEF MtrrCaller
  <2>5. MtrrCaller'
    BY <1>1, <1>3, <2>1, <2>3, <2>4 DEF MtrrCaller
  <2> QED
    BY <1>1, <1>3, <2>2, <2>5, MtrrOutside
<1>4. CASE /\ mtrr.pc = "default" /\ msr' = [msr EXCEPT !.def_type = Uncached(msr.def_type)]
           /\ IF vcnt > MAX_VARIABLE_MTRRS THEN mtrr' = [mtrr EXCEPT !.pc = "returned", !.result = FALSE]
              ELSE mtrr' = [mtrr EXCEPT !.pc = "clear", !.ndx = 0]
  <2>1. Uncached(msr.def_type) \in SUBSET (0..63)
    BY Packed DEF Uncached, WithMember
  <2>2. msr'.cap = msr.cap /\ msr' \in Registers(vcnt)
    BY <1>1, <1>4, <2>1 DEF Registers
  <2>3. CASE mtrr' = [mtrr EXCEPT !.pc = "returned", !.result = FALSE]
    <3>1. mtrr'.pc = "returned" /\ mtrr'.fn = mtrr.fn /\ DOMAIN mtrr' = DOMAIN mtrr /\ mtrr'.range = mtrr.range
      BY <1>1, <2>3 DEF MtrrCaller
    <3>2. mtrr'.ndx = mtrr.ndx /\ mtrr'.num_pages = mtrr.num_pages
      BY <2>3
    <3>3. mtrr'.result \in BOOLEAN
      BY <1>1, <2>3 DEF MtrrCaller
    <3> QED
      BY <1>2, <1>3, <1>4, <2>2, <3>1, <3>2, <3>3
  <2>4. CASE mtrr' = [mtrr EXCEPT !.pc = "clear", !.ndx = 0]
    <3>1. mtrr'.pc = "clear" /\ mtrr'.fn = mtrr.fn /\ DOMAIN mtrr' = DOMAIN mtrr /\ mtrr'.range = mtrr.range
      BY <1>1, <2>4 DEF MtrrCaller
    <3>2. mtrr'.ndx = 0 /\ mtrr'.num_pages = mtrr.num_pages /\ mtrr'.result \in BOOLEAN
      BY <1>1, <2>4 DEF MtrrCaller
    <3> QED
      BY <1>1, <1>2, <1>3, <1>4, <2>2, <3>1, <3>2
  <2> QED
    BY <1>4, <2>3, <2>4
<1>5. CASE /\ mtrr.pc = "clear" /\ ndx < vcnt
           /\ msr' = [msr EXCEPT !.mask[ndx] = WithMember(mtrr_physmask_t, msr.mask[ndx], "v", {})]
           /\ mtrr' = [mtrr EXCEPT !.pc = "clear", !.ndx = ndx + 1]
  <2>1. ndx \in 0..(vcnt - 1) /\ WithMember(mtrr_physmask_t, msr.mask[ndx], "v", {}) \in SUBSET (0..63)
    BY <1>1, <1>2, <1>5, Packed DEF WithMember
  <2>2. msr'.cap = msr.cap /\ msr' \in Registers(vcnt)
    BY <1>1, <1>5, <2>1, MaskStep
  <2>3. mtrr'.pc = "clear" /\ mtrr'.fn = mtrr.fn /\ DOMAIN mtrr' = DOMAIN mtrr /\ mtrr'.range = mtrr.range
    BY <1>1, <1>5 DEF MtrrCaller
  <2>4. mtrr'.ndx = ndx + 1 /\ mtrr'.num_pages = mtrr.num_pages /\ mtrr'.result \in BOOLEAN
    BY <1>1, <1>5 DEF MtrrCaller
  <2>5. mtrr'.ndx \in 0..vcnt
    BY <1>1, <2>1, <2>4
  <2> QED
    BY <1>2, <1>3, <1>5, <2>2, <2>3, <2>4, <2>5
<1>6. CASE /\ mtrr.pc = "clear" /\ msr' = msr
           /\ mtrr' = [mtrr EXCEPT !.pc = "range_base", !.ndx = 0, !.num_pages = PageCount(mtrr.range.size)]
  <2>1. mtrr'.pc = "range_base" /\ mtrr'.fn = mtrr.fn /\ DOMAIN mtrr' = DOMAIN mtrr /\ mtrr'.range = mtrr.range
    BY <1>1, <1>6 DEF MtrrCaller
  <2>2. mtrr'.ndx = 0 /\ mtrr'.num_pages = PageCount(mtrr.range.size) /\ mtrr'.result \in BOOLEAN
    BY <1>1, <1>6 DEF MtrrCaller
  <2>3. mtrr.range \in MtrrRanges
    BY <1>1, <1>6 DEF MtrrCaller
  <2>4. mtrr'.num_pages \in Nat /\ mtrr'.num_pages <= 512 * 1024
    BY <2>2, <2>3, PagesCounted
  <2>5. mtrr'.ndx \in 0..vcnt /\ mtrr'.ndx < vcnt
    BY <1>1, <2>2
  <2> QED
    BY <1>1, <1>3, <1>6, <2>1, <2>2, <2>4, <2>5
<1>7. CASE /\ mtrr.pc = "range_base" /\ mtrr.num_pages = 0 /\ msr' = msr
           /\ mtrr' = [mtrr EXCEPT !.pc = "returned", !.result = TRUE]
  <2>1. mtrr'.pc = "returned" /\ mtrr'.fn = mtrr.fn /\ DOMAIN mtrr' = DOMAIN mtrr /\ mtrr'.range = mtrr.range
    BY <1>1, <1>7 DEF MtrrCaller
  <2>2. mtrr'.ndx = mtrr.ndx /\ mtrr'.num_pages = mtrr.num_pages
    BY <1>7
  <2>3. mtrr'.result \in BOOLEAN
    BY <1>1, <1>7 DEF MtrrCaller
  <2> QED
    BY <1>1, <1>2, <1>3, <1>7, <2>1, <2>2, <2>3
<1>8. CASE /\ mtrr.pc = "range_base" /\ mtrr.num_pages > 0 /\ msr' = [msr EXCEPT !.base[ndx] = newBase]
           /\ mtrr' = [mtrr EXCEPT !.pc = "range_mask", !.ndx = ndx]
  <2>1. ndx \in 0..(vcnt - 1) /\ newBase \in SUBSET (0..63)
    BY <1>1, <1>2, <1>8, Packed DEF MtrrCaller
  <2>2. msr'.cap = msr.cap /\ msr' \in Registers(vcnt)
    <3> HIDE DEF newBase
    <3> QED
      BY <1>1, <1>8, <2>1, BaseStep
  <2>3. mtrr'.pc = "range_mask" /\ mtrr'.fn = mtrr.fn /\ DOMAIN mtrr' = DOMAIN mtrr /\ mtrr'.range = mtrr.range
    BY <1>1, <1>8 DEF MtrrCaller
  <2>4. mtrr'.ndx = ndx /\ mtrr'.num_pages = mtrr.num_pages /\ mtrr'.result \in BOOLEAN
    BY <1>1, <1>8 DEF MtrrCaller
  <2>5. mtrr'.ndx \in 0..vcnt /\ mtrr'.ndx < vcnt
    BY <1>1, <2>1, <2>4
  <2> HIDE DEF newBase
  <2> QED
    BY <1>2, <1>3, <1>8, <2>2, <2>3, <2>4, <2>5
<1>9. CASE /\ mtrr.pc = "range_mask" /\ msr' = [msr EXCEPT !.mask[ndx] = newMask]
           /\ mtrr' = [mtrr EXCEPT !.ndx = ndx + 1, !.num_pages = mtrr.num_pages - power,
                                   !.base = mtrr.base + power * PAGE_SIZE_4K,
                                   !.pc = IF ndx + 1 = vcnt THEN "returned" ELSE "range_base"]
  <2>1. ndx \in 0..(vcnt - 1) /\ newMask \in SUBSET (0..63) /\ mtrr.num_pages > 0
    <3>1. mtrr.ndx < vcnt /\ mtrr.num_pages > 0
      <4>1. mtrr.pc = "range_mask"
        BY <1>9
      <4> QED
        BY <1>1, <4>1 DEF MtrrCaller
    <3>2. newMask \in SUBSET (0..63)
      BY Packed
    <3> HIDE DEF newMask
    <3> QED
      BY <1>1, <1>2, <3>1, <3>2
  <2>2. msr'.cap = msr.cap /\ msr' \in Registers(vcnt)
    <3> HIDE DEF newMask
    <3> QED
      BY <1>1, <1>9, <2>1, MaskStep
  <2>3. power \in Nat /\ power <= mtrr.num_pages
    BY <1>2, <2>1, LargestPower
  <2> HIDE DEF newMask, power
  <2>4. /\ mtrr'.pc = IF ndx + 1 = vcnt THEN "returned" ELSE "range_base"
        /\ mtrr'.fn = mtrr.fn /\ DOMAIN mtrr' = DOMAIN mtrr /\ mtrr'.range = mtrr.range
    BY <1>1, <1>9 DEF MtrrCaller
  <2>5. /\ mtrr'.ndx = ndx + 1 /\ mtrr'.num_pages = mtrr.num_pages - power /\ mtrr'.result \in BOOLEAN
    BY <1>1, <1>9 DEF MtrrCaller
  <2>6. mtrr'.num_pages \in Nat /\ mtrr'.num_pages <= 512 * 1024
    BY <1>2, <2>3, <2>5
  <2>7. mtrr'.ndx \in 0..vcnt /\ (mtrr'.pc = "range_base" => mtrr'.ndx < vcnt)
    BY <1>1, <2>1, <2>4, <2>5
  <2>8. mtrr'.pc \in {"range_base", "returned"}
    BY <2>4
  <2> QED
    BY <1>3, <1>9, <2>2, <2>4, <2>5, <2>6, <2>7, <2>8
<1> QED
  BY <1>4, <1>5, <1>6, <1>7, <1>8, <1>9 DEF set_mem_type, MtrrAt, MtrrGoto, MtrrReturn

(* Every step of a call about the MTRRs preserves the invariant. *)
LEMMA MtrrPreserved == MtrrInv /\ [MtrrNext]_mtrrVars => MtrrInv'
<1> SUFFICES ASSUME MtrrInv, [MtrrNext]_mtrrVars
             PROVE  MtrrInv'
  OBVIOUS
<1>1. CASE MtrrCall
  BY <1>1, MtrrCallKeeps
<1>2. CASE MtrrStep
  BY <1>2, SetAllKeeps, SaveKeeps, RestoreKeeps, SetMemTypeKeeps, ValidateKeeps, DoneReturns DEF MtrrStep
<1>3. CASE UNCHANGED mtrrVars
  <2>1. msr' = msr /\ saved' = saved /\ mtrr' = mtrr /\ mcalls' = mcalls /\ kept' = kept /\ vcnt' = vcnt
    BY <1>3, PairsStay DEF mtrrVars
  <2>2. MtrrRegisters' /\ MtrrCaller' /\ MtrrSaved'
    BY <2>1 DEF MtrrInv, MtrrRegisters, MtrrCaller, MtrrSaved
  <2>3. MtrrKept' /\ MtrrRestoring' /\ MtrrRestored'
    BY <2>1 DEF MtrrInv, MtrrKept, MtrrRestoring, MtrrRestored, Saves, MtrrAt, Pairs
  <2> QED
    BY <2>2, <2>3 DEF MtrrInv
<1> QED
  BY <1>1, <1>2, <1>3 DEF MtrrNext

(* The invariant of the MTRRs contains their types. *)
LEMMA MtrrInvTypes == MtrrInv => MtrrTypeOK
<1> SUFFICES ASSUME MtrrInv
             PROVE  MtrrTypeOK
  OBVIOUS
<1>1. MtrrRegisters /\ MtrrCaller /\ MtrrSaved
  BY DEF MtrrInv
<1>2. msr.cap \subseteq 0..63 /\ msr.def_type \subseteq 0..63
  BY <1>1 DEF MtrrRegisters, Registers
<1>3. msr.base \in [Pairs -> SUBSET (0..63)] /\ msr.mask \in [Pairs -> SUBSET (0..63)]
  BY <1>1 DEF MtrrRegisters, Registers, Pairs
<1>4. mtrr.ndx \in 0..vcnt /\ mtrr.num_pages \in Nat /\ mtrr.result \in BOOLEAN
  BY <1>1 DEF MtrrCaller
<1>5. saved.num_var_mtrrs \in 0..MAX_VARIABLE_MTRRS /\ mcalls \in Nat
  BY <1>1 DEF MtrrSaved, MtrrRegisters
<1> QED
  BY <1>2, <1>3, <1>4, <1>5 DEF MtrrTypeOK

(* The registers keep their number and their width, the caller's structure holds no more of them
   than it has room for, and no index leaves them: with any number of pairs up to 255, a structure
   of any size and any sequence of calls.  (MtrrTypeOK) *)
THEOREM MtrrKeepsTypes == MtrrSpec => []MtrrTypeOK
<1>1. MtrrSpec => []MtrrInv
  BY MtrrInitially, MtrrPreserved, PTL DEF MtrrSpec
<1> QED
  BY <1>1, MtrrInvTypes, PTL

(* When a restore has returned, the registers hold what they held when they were
   saved, whatever has been set in between (xmhfhw_cpu_mtrrrestore.c). *)
THEOREM RestoredAll == MtrrSpec => []MtrrRestored
<1>1. MtrrInv => MtrrRestored
  BY DEF MtrrInv
<1>2. MtrrSpec => []MtrrInv
  BY MtrrInitially, MtrrPreserved, PTL DEF MtrrSpec
<1> QED
  BY <1>1, <1>2, PTL
-----------------------------------------------------------------------------
(* A set of numbers that is not empty has a least one. *)
LEMMA LeastNumber ==
  ASSUME NEW T, T \subseteq Nat, T # {}
  PROVE  \E x \in T : \A y \in T : x <= y
<1>1. IsWellFoundedOn(OpToRel(<, Nat), Nat)
  BY NatLessThanWellFounded
<1>2. PICK x \in T : \A y \in T : ~(<<y, x>> \in OpToRel(<, Nat))
  BY <1>1, WFMin
<1>3. \A y \in T : ~(y < x)
  BY <1>2 DEF OpToRel
<1> QED
  BY <1>3

(* What a TRUE answer of validate_mtrrs means for every page, also those that no run asks about: the
   masks are contiguous and the page has a type that the processor defines. *)
PageNumbers == SUBSET (0..23)
MtrrSound ==
  mtrr.fn = "validate" /\ MtrrAt("returned") /\ mtrr.result /\ saved.def_type.e # {} =>
    /\ \A i \in ValidPairs : Contiguous(MaskOf(i))
    /\ \A page \in PageNumbers : Defined(SavedTypes(page))
MasksSaved == \A i \in 0..(saved.num_var_mtrrs - 1) : saved.physmasks[i].mask \subseteq 0..23
MtrrAnswered == mtrr.fn = "validate" /\ MtrrAt("returned") /\ mtrr.result => ValidMtrrs

(* Of two contiguous masks one contains the other. *)
LEMMA ContiguousNest ==
  ASSUME NEW m, NEW n, m \subseteq 0..23, n \subseteq 0..23, Contiguous(m), Contiguous(n)
  PROVE  m \subseteq n \/ n \subseteq m
<1>1. CASE m = {} \/ n = {}
  BY <1>1
<1>2. CASE m # {} /\ n # {}
  <2>1. \A s : Contiguous(s) /\ s # {} => s = Min(s)..23
    BY DEF Contiguous
  <2>2. \A s : s \subseteq 0..23 /\ s # {} => Min(s) \in s
    <3> SUFFICES ASSUME NEW s, s \subseteq 0..23, s # {}
                 PROVE  Min(s) \in s
      OBVIOUS
    <3>1. s \subseteq Nat
      OBVIOUS
    <3>2. \E x \in s : \A y \in s : x <= y
      BY <3>1, LeastNumber
    <3> QED
      BY <3>2 DEF Min
  <2>3. Min(m) \in Nat /\ Min(n) \in Nat
    <3>1. \A s : s \subseteq 0..23 /\ s # {} => Min(s) \in 0..23
      <4> HIDE DEF Min
      <4> QED
        BY <2>2
    <3> QED
      BY <1>2, <3>1, 0..23 \subseteq Nat
  <2>4. m = Min(m)..23 /\ n = Min(n)..23
    BY <1>2, <2>1
  <2> QED
    BY <2>3, <2>4
<1> QED
  BY <1>1, <1>2

(* The types of the regions that hold a page when ValidMtrrs says so. *)
LEMMA ValidTypes ==
  ASSUME ValidMtrrs, MasksSaved, saved.def_type.e # {}, NEW page
  PROVE  Defined(SavedTypes(page))
<1> DEFINE holds(i) == page \cap MaskOf(i) = BaseOf(i) \cap MaskOf(i)
           R == {i \in ValidPairs : holds(i)}
           T == {TypeOf(i) : i \in R}
<1>1. /\ \A i \in ValidPairs : Contiguous(MaskOf(i))
      /\ \A n, i \in ValidPairs :
          n < i /\ (Meets(n, i) \/ Meets(i, n)) =>
            Compatible(TypeOf(n), TypeOf(i)) \/ CoveredUncachable(n) \/ CoveredUncachable(i)
  BY DEF ValidMtrrs
<1>2. \A i \in ValidPairs : i \in Int /\ MaskOf(i) \subseteq 0..23
  BY DEF ValidPairs, MasksSaved, MaskOf
<1>3. ASSUME NEW i \in R, NEW j \in R, MaskOf(j) \subseteq MaskOf(i)
      PROVE  Meets(i, j)
  <2>1. page \cap MaskOf(i) = BaseOf(i) \cap MaskOf(i) /\ page \cap MaskOf(j) = BaseOf(j) \cap MaskOf(j)
    OBVIOUS
  <2>2. BaseOf(i) \cap MaskOf(i) \cap MaskOf(j) = page \cap MaskOf(j)
    BY <1>3, <2>1
  <2> QED
    BY <2>1, <2>2 DEF Meets
<1>4. \A i, j \in R : Meets(i, j) \/ Meets(j, i)
  <2> TAKE i, j \in R
  <2>1. MaskOf(i) \subseteq MaskOf(j) \/ MaskOf(j) \subseteq MaskOf(i)
    BY <1>1, <1>2, ContiguousNest
  <2> QED
    BY <1>3, <2>1
<1>5. ASSUME NEW i \in R, CoveredUncachable(i)
      PROVE  MTRR_TYPE_UNCACHABLE \in T
  <2>1. PICK j \in ValidPairs :
          TypeOf(j) = MTRR_TYPE_UNCACHABLE /\ Meets(i, j) /\ MaskOf(j) \subseteq MaskOf(i)
    BY <1>5 DEF CoveredUncachable
  <2>2. page \cap MaskOf(i) = BaseOf(i) \cap MaskOf(i)
    OBVIOUS
  <2>3. page \cap MaskOf(j) = BaseOf(j) \cap MaskOf(j)
    BY <2>1, <2>2 DEF Meets
  <2>4. j \in R
    BY <2>3
  <2> QED
    BY <2>1, <2>4
<1>6. CASE MTRR_TYPE_UNCACHABLE \in T
  BY <1>6 DEF SavedTypes, Defined
<1>7. CASE MTRR_TYPE_UNCACHABLE \notin T
  <2>1. \A i, j \in R : Compatible(TypeOf(i), TypeOf(j))
    <3> TAKE i, j \in R
    <3>1. i \in ValidPairs /\ j \in ValidPairs /\ i \in Int /\ j \in Int
      BY <1>2
    <3>2. ~CoveredUncachable(i) /\ ~CoveredUncachable(j)
      BY <1>5, <1>7
    <3> HIDE DEF R
    <3>3. CASE i < j
      BY <1>1, <1>4, <3>1, <3>2, <3>3
    <3>4. CASE j < i
      <4>1. Compatible(TypeOf(j), TypeOf(i))
        BY <1>1, <1>4, <3>1, <3>2, <3>4
      <4> QED
        BY <4>1 DEF Compatible
    <3>5. CASE i = j
      BY <3>5 DEF Compatible
    <3> QED
      BY <3>1, <3>3, <3>4, <3>5
  <2>2. \A s, t \in T : s = t \/ {s, t} = {MTRR_TYPE_WRTHROUGH, MTRR_TYPE_WRBACK}
    <3> TAKE s, t \in T
    <3>1. Compatible(s, t) /\ s # MTRR_TYPE_UNCACHABLE /\ t # MTRR_TYPE_UNCACHABLE
      BY <1>7, <2>1
    <3> QED
      BY <3>1 DEF Compatible
  <2> HIDE DEF T
  <2>3. CASE T = {}
    <3>1. Cardinality(T) = 0
      BY <2>3, FS_EmptySet
    <3> QED
      BY <3>1 DEF SavedTypes, Defined, T
  <2>4. CASE \E t \in T : T = {t}
    <3>1. Cardinality(T) = 1
      BY <2>4, FS_Singleton
    <3> QED
      BY <3>1 DEF SavedTypes, Defined, T
  <2>5. CASE \E s, t \in T : s # t
    <3>1. T = {MTRR_TYPE_WRTHROUGH, MTRR_TYPE_WRBACK}
      <4>1. PICK s \in T, t \in T : s # t
        BY <2>5
      <4>2. {s, t} = {MTRR_TYPE_WRTHROUGH, MTRR_TYPE_WRBACK}
        BY <2>2, <4>1
      <4>3. \A u \in T : u \in {MTRR_TYPE_WRTHROUGH, MTRR_TYPE_WRBACK}
        BY <2>2, <4>2
      <4> QED
        BY <4>2, <4>3
    <3> QED
      BY <3>1 DEF SavedTypes, Defined, T
  <2> QED
    BY <2>3, <2>4, <2>5
<1> QED
  BY <1>6, <1>7

(* A mask has 24 bits. *)
LEMMA SavedMasksSmall ==
  ASSUME NEW m
  PROVE  Unpack(mtrr_physmask_t, m).mask \subseteq 0..23
<1>1. Unpack(mtrr_physmask_t, m).mask = {b - 12 : b \in m \cap (12..35)}
  BY DEF Unpack, mtrr_physmask_t, Field, Place
<1> QED
  BY <1>1

(* Every step keeps the masks small, and an answer stands for the structure that was validated. *)
LEMMA SoundKept ==
  ASSUME MtrrInv, MasksSaved, MtrrAnswered, [MtrrNext]_mtrrVars
  PROVE  MasksSaved' /\ MtrrAnswered'
<1>1. MtrrCaller /\ MtrrSaved
  BY DEF MtrrInv
<1>2. MasksSaved'
  <2>1. CASE saved' = saved
    BY <2>1 DEF MasksSaved
  <2>2. CASE save_mtrrs
    <3> DEFINE n == IF vcnt > MAX_VARIABLE_MTRRS THEN MAX_VARIABLE_MTRRS ELSE vcnt
               all == DOMAIN saved.physmasks
    <3>1. /\ saved'.num_var_mtrrs = n
          /\ saved'.physmasks = [i \in all |-> IF i < n THEN Unpack(mtrr_physmask_t, msr.mask[i])
                                                ELSE saved.physmasks[i]]
      BY <2>2 DEF save_mtrrs
    <3>2. \A i \in 0..(n - 1) : i \in all /\ i < n
      <4>1. vcnt \in 1..255 /\ all = 0..(MAX_VARIABLE_MTRRS - 1)
        BY <1>1 DEF MtrrSaved, MtrrInv, MtrrRegisters
      <4> QED
        BY <4>1, MtrrConstants
    <3> HIDE DEF n, all
    <3>3. \A i \in 0..(n - 1) : saved'.physmasks[i] = Unpack(mtrr_physmask_t, msr.mask[i])
      BY <3>1, <3>2
    <3> QED
      BY <3>1, <3>3, SavedMasksSmall DEF MasksSaved
  <2>3. saved' = saved \/ save_mtrrs
    BY DEF MtrrNext, MtrrCall, MtrrStep, set_all_mtrrs, restore_mtrrs, set_mem_type, validate_mtrrs,
           MtrrDone, mtrrVars
  <2> QED
    BY <2>1, <2>2, <2>3
<1>3. MtrrAnswered'
  <2>1. CASE validate_mtrrs
    <3>1. saved' = saved /\ msr' = msr /\ mtrr'.result = ValidMtrrs
      BY <1>1, <2>1 DEF validate_mtrrs, MtrrReturn, MtrrCaller
    <3>2. ValidMtrrs' = ValidMtrrs
      BY <3>1 DEF ValidMtrrs, vcnt, ValidPairs, MaskOf, BaseOf, TypeOf, Meets, CoveredUncachable
    <3> QED
      BY <3>1, <3>2 DEF MtrrAnswered
  <2>2. CASE UNCHANGED mtrrVars
    <3>1. saved' = saved /\ msr' = msr /\ mtrr' = mtrr
      BY <2>2 DEF mtrrVars
    <3>2. ValidMtrrs' = ValidMtrrs
      BY <3>1 DEF ValidMtrrs, vcnt, ValidPairs, MaskOf, BaseOf, TypeOf, Meets, CoveredUncachable
    <3> QED
      BY <3>1, <3>2 DEF MtrrAnswered, MtrrAt
  <2>3. CASE MtrrCall
    <3>1. \E fn, pc : mtrr'.pc = pc /\ mtrr'.fn = fn /\ (fn = "validate" => pc # "returned")
      BY <2>3 DEF MtrrCall, Calling, NoMtrrCall
    <3> QED
      BY <3>1 DEF MtrrAnswered, MtrrAt
  <2>4. CASE MtrrDone
    BY <2>4 DEF MtrrDone, NoMtrrCall, MtrrAnswered, MtrrAt
  <2>5. CASE set_all_mtrrs \/ save_mtrrs \/ restore_mtrrs \/ set_mem_type
    <3>1. mtrr.pc \in {"all", "save", "disable", "next", "base", "default", "clear", "range_base", "range_mask"}
      BY <2>5 DEF set_all_mtrrs, save_mtrrs, restore_mtrrs, set_mem_type, MtrrAt
    <3>2. mtrr.fn # "validate"
      BY <1>1, <3>1 DEF MtrrCaller, Serves
    <3>3. mtrr'.fn = mtrr.fn
      <4>1. CASE set_all_mtrrs \/ save_mtrrs
        BY <1>1, <4>1 DEF set_all_mtrrs, save_mtrrs, MtrrReturn, MtrrCaller
      <4>2. CASE restore_mtrrs
        BY <1>1, <4>2 DEF restore_mtrrs, MtrrReturn, MtrrGoto, MtrrCaller
      <4>3. CASE set_mem_type
        BY <1>1, <4>3 DEF set_mem_type, MtrrReturn, MtrrGoto, MtrrCaller
      <4> QED
        BY <2>5, <4>1, <4>2, <4>3
    <3> QED
      BY <3>2, <3>3 DEF MtrrAnswered
  <2> QED
    BY <2>1, <2>2, <2>3, <2>4, <2>5 DEF MtrrNext, MtrrStep
<1> QED
  BY <1>2, <1>3

(* When validate_mtrrs answers TRUE for registers that are enabled, no mask has a hole, and every
   page has a single type, or is uncachable in one of the regions that hold it, or is held as
   write through and write back, with any number of regions (xmhfhw_cpu_mtrrvalidate.c).  The
   argument: contiguous masks nest, so two regions that hold the same page meet in the sense of
   the function, and an uncachable region that covers one of them holds the page too. *)
THEOREM ValidatedSound == MtrrSpec => []MtrrSound
<1>1. MtrrInit => MasksSaved /\ MtrrAnswered
  BY DEF MtrrInit, MasksSaved, MtrrAnswered, NothingSaved, NoMtrrCall, MtrrAt
<1>2. MasksSaved /\ MtrrAnswered => MtrrSound
  <2> SUFFICES ASSUME MasksSaved, MtrrAnswered,
                      mtrr.fn = "validate", MtrrAt("returned"), mtrr.result, saved.def_type.e # {}
               PROVE  /\ \A i \in ValidPairs : Contiguous(MaskOf(i))
                      /\ \A page \in PageNumbers : Defined(SavedTypes(page))
    BY DEF MtrrSound
  <2>1. ValidMtrrs
    BY DEF MtrrAnswered
  <2>2. \A i \in ValidPairs : Contiguous(MaskOf(i))
    BY <2>1 DEF ValidMtrrs
  <2> QED
    BY <2>1, <2>2, ValidTypes
<1>3. MtrrSpec => [](MtrrInv /\ MasksSaved /\ MtrrAnswered)
  BY <1>1, MtrrInitially, MtrrPreserved, SoundKept, PTL DEF MtrrSpec
<1> QED
  BY <1>2, <1>3, PTL
-----------------------------------------------------------------------------
(* What set_mem_type covers.  First numbers and their bits: the powers of two as a table. *)
Pow == [b \in 0..30 |-> 2^b]
LEMMA PowTable ==
  /\ Pow[0] = 1 /\ Pow[1] = 2 /\ Pow[2] = 4 /\ Pow[3] = 8 /\ Pow[4] = 16
  /\ Pow[5] = 32 /\ Pow[6] = 64 /\ Pow[7] = 128 /\ Pow[8] = 256 /\ Pow[9] = 512
  /\ Pow[10] = 1024 /\ Pow[11] = 2048 /\ Pow[12] = 4096 /\ Pow[13] = 8192 /\ Pow[14] = 16384
  /\ Pow[15] = 32768 /\ Pow[16] = 65536 /\ Pow[17] = 131072 /\ Pow[18] = 262144 /\ Pow[19] = 524288
  /\ Pow[20] = 1048576 /\ Pow[21] = 1048576 * 2 /\ Pow[22] = 1048576 * 4
  /\ Pow[23] = 1048576 * 8 /\ Pow[24] = 1048576 * 16
  /\ Pow[25] = 1048576 * 32 /\ Pow[26] = 1048576 * 64 /\ Pow[27] = 1048576 * 128
  /\ Pow[28] = 1048576 * 256 /\ Pow[29] = 1048576 * 512
  /\ Pow[30] = 1048576 * 1024
  /\ \A n : Bits(n) = {b \in 0..30 : (n \div Pow[b]) % 2 = 1}
<1> DEFINE p(b) == 2^b
<1>1. /\ p(0) = 1 /\ p(1) = 2 /\ p(2) = 4 /\ p(3) = 8 /\ p(4) = 16 /\ p(5) = 32 /\ p(6) = 64
      /\ p(7) = 128 /\ p(8) = 256 /\ p(9) = 512 /\ p(10) = 1024 /\ p(11) = 2048
  BY PowersOfTwo
<1>2. /\ p(12) = 1024 * 4 /\ p(13) = 1024 * 8 /\ p(14) = 1024 * 16 /\ p(15) = 1024 * 32
      /\ p(16) = 1024 * 64 /\ p(17) = 1024 * 128 /\ p(18) = 1024 * 256 /\ p(19) = 1024 * 512
      /\ p(20) = 1024 * 1024 /\ p(21) = 1024 * 1024 * 2 /\ p(22) = 1024 * 1024 * 4
      /\ p(23) = 1024 * 1024 * 8 /\ p(24) = 1024 * 1024 * 16 /\ p(25) = 1024 * 1024 * 32
      /\ p(26) = 1024 * 1024 * 64 /\ p(27) = 1024 * 1024 * 128 /\ p(28) = 1024 * 1024 * 256
      /\ p(29) = 1024 * 1024 * 512 /\ p(30) = 1024 * 1024 * 1024
  BY PowersOfTwo
<1>3. \A n : Bits(n) = {b \in 0..30 : (n \div p(b)) % 2 = 1}
  BY DEF Bits
<1>4. Pow = [b \in 0..30 |-> p(b)]
  BY DEF Pow
<1> HIDE DEF p
<1>5. \A b \in 0..30 : Pow[b] = p(b)
  BY <1>4
<1> QED
  BY <1>1, <1>2, <1>3, <1>5

(* Each is twice the one before. *)
LEMMA PowSteps ==
  /\ \A k \in 0..24 : Pow[k] \in Nat /\ Pow[k] > 0
  /\ \A k \in 0..23 : Pow[k + 1] = 2 * Pow[k]
<1>1. \A k \in 0..24 : Pow[k] \in Nat /\ Pow[k] > 0
  BY PowTable
<1>2. \A k \in 0..23 : Pow[k + 1] = 2 * Pow[k]
  BY PowTable
<1> QED
  BY <1>1, <1>2

(* Dividing by the next power is halving. *)
LEMMA HalvesAgain ==
  ASSUME NEW n \in Nat, NEW k \in 0..23
  PROVE  n \div Pow[k] \in Nat /\ n \div Pow[k + 1] = (n \div Pow[k]) \div 2
<1>c0. CASE k = 0
  BY <1>c0, PowTable
<1>c1. CASE k = 1
  BY <1>c1, PowTable
<1>c2. CASE k = 2
  BY <1>c2, PowTable
<1>c3. CASE k = 3
  BY <1>c3, PowTable
<1>c4. CASE k = 4
  BY <1>c4, PowTable
<1>c5. CASE k = 5
  BY <1>c5, PowTable
<1>c6. CASE k = 6
  BY <1>c6, PowTable
<1>c7. CASE k = 7
  BY <1>c7, PowTable
<1>c8. CASE k = 8
  BY <1>c8, PowTable
<1>c9. CASE k = 9
  BY <1>c9, PowTable
<1>c10. CASE k = 10
  BY <1>c10, PowTable
<1>c11. CASE k = 11
  BY <1>c11, PowTable
<1>c12. CASE k = 12
  BY <1>c12, PowTable
<1>c13. CASE k = 13
  BY <1>c13, PowTable
<1>c14. CASE k = 14
  BY <1>c14, PowTable
<1>c15. CASE k = 15
  BY <1>c15, PowTable
<1>c16. CASE k = 16
  BY <1>c16, PowTable
<1>c17. CASE k = 17
  BY <1>c17, PowTable
<1>c18. CASE k = 18
  BY <1>c18, PowTable
<1>c19. CASE k = 19
  BY <1>c19, PowTable
<1>c20. CASE k = 20
  BY <1>c20, PowTable
<1>c21. CASE k = 21
  BY <1>c21, PowTable
<1>c22. CASE k = 22
  BY <1>c22, PowTable
<1>c23. CASE k = 23
  BY <1>c23, PowTable
<1> QED
  BY <1>c0, <1>c1, <1>c2, <1>c3, <1>c4, <1>c5, <1>c6, <1>c7, <1>c8, <1>c9, <1>c10,
     <1>c11, <1>c12, <1>c13, <1>c14, <1>c15, <1>c16, <1>c17, <1>c18, <1>c19, <1>c20, <1>c21, <1>c22, <1>c23

(* The numbers that agree with a multiple of a power from there on are the block that begins with it. *)
LEMMA BlockOf ==
  ASSUME NEW n \in Nat, NEW b \in Nat, NEW m \in Nat, NEW k \in 0..20
  PROVE  b = m * Pow[k] => (n \div Pow[k] = b \div Pow[k] <=> n \in b..(b + Pow[k] - 1))
<1> SUFFICES ASSUME b = m * Pow[k]
             PROVE  n \div Pow[k] = b \div Pow[k] <=> n \in b..(b + Pow[k] - 1)
  OBVIOUS
<1>c0. CASE k = 0
  BY <1>c0, PowTable
<1>c1. CASE k = 1
  BY <1>c1, PowTable
<1>c2. CASE k = 2
  BY <1>c2, PowTable
<1>c3. CASE k = 3
  BY <1>c3, PowTable
<1>c4. CASE k = 4
  BY <1>c4, PowTable
<1>c5. CASE k = 5
  BY <1>c5, PowTable
<1>c6. CASE k = 6
  BY <1>c6, PowTable
<1>c7. CASE k = 7
  BY <1>c7, PowTable
<1>c8. CASE k = 8
  BY <1>c8, PowTable
<1>c9. CASE k = 9
  BY <1>c9, PowTable
<1>c10. CASE k = 10
  BY <1>c10, PowTable
<1>c11. CASE k = 11
  BY <1>c11, PowTable
<1>c12. CASE k = 12
  BY <1>c12, PowTable
<1>c13. CASE k = 13
  BY <1>c13, PowTable
<1>c14. CASE k = 14
  BY <1>c14, PowTable
<1>c15. CASE k = 15
  BY <1>c15, PowTable
<1>c16. CASE k = 16
  BY <1>c16, PowTable
<1>c17. CASE k = 17
  BY <1>c17, PowTable
<1>c18. CASE k = 18
  BY <1>c18, PowTable
<1>c19. CASE k = 19
  BY <1>c19, PowTable
<1>c20. CASE k = 20
  BY <1>c20, PowTable
<1> QED
  BY <1>c0, <1>c1, <1>c2, <1>c3, <1>c4, <1>c5, <1>c6, <1>c7, <1>c8, <1>c9, <1>c10,
     <1>c11, <1>c12, <1>c13, <1>c14, <1>c15, <1>c16, <1>c17, <1>c18, <1>c19, <1>c20

(* A number without remainder is a multiple. *)
LEMMA NoRemainder ==
  ASSUME NEW n \in Nat, NEW k \in 0..20, n % Pow[k] = 0
  PROVE  \E m \in Nat : n = m * Pow[k]
<1>0. SUFFICES n \div Pow[k] \in Nat /\ n = (n \div Pow[k]) * Pow[k]
  OBVIOUS
<1>c0. CASE k = 0
  BY <1>c0, PowTable
<1>c1. CASE k = 1
  BY <1>c1, PowTable
<1>c2. CASE k = 2
  BY <1>c2, PowTable
<1>c3. CASE k = 3
  BY <1>c3, PowTable
<1>c4. CASE k = 4
  BY <1>c4, PowTable
<1>c5. CASE k = 5
  BY <1>c5, PowTable
<1>c6. CASE k = 6
  BY <1>c6, PowTable
<1>c7. CASE k = 7
  BY <1>c7, PowTable
<1>c8. CASE k = 8
  BY <1>c8, PowTable
<1>c9. CASE k = 9
  BY <1>c9, PowTable
<1>c10. CASE k = 10
  BY <1>c10, PowTable
<1>c11. CASE k = 11
  BY <1>c11, PowTable
<1>c12. CASE k = 12
  BY <1>c12, PowTable
<1>c13. CASE k = 13
  BY <1>c13, PowTable
<1>c14. CASE k = 14
  BY <1>c14, PowTable
<1>c15. CASE k = 15
  BY <1>c15, PowTable
<1>c16. CASE k = 16
  BY <1>c16, PowTable
<1>c17. CASE k = 17
  BY <1>c17, PowTable
<1>c18. CASE k = 18
  BY <1>c18, PowTable
<1>c19. CASE k = 19
  BY <1>c19, PowTable
<1>c20. CASE k = 20
  BY <1>c20, PowTable
<1> QED
  BY <1>c0, <1>c1, <1>c2, <1>c3, <1>c4, <1>c5, <1>c6, <1>c7, <1>c8, <1>c9, <1>c10,
     <1>c11, <1>c12, <1>c13, <1>c14, <1>c15, <1>c16, <1>c17, <1>c18, <1>c19, <1>c20

(* The bits from k on are those of the quotient: numbers with the same bits have the same
   quotient, and conversely. *)
PageIndices == {n \in Nat : n < 1048576 * 16}
LEMMA SmallNumbers == \A n \in PageIndices : n \in Nat /\ n < 1048576 * 16
  BY SMT DEF PageIndices
LEMMA BitOf ==
  ASSUME NEW n, NEW j \in 0..30
  PROVE  j \in Bits(n) <=> (n \div Pow[j]) % 2 = 1
  BY PowTable
LEMMA SameBitsUp ==
  ASSUME NEW n \in Nat, NEW b \in Nat, NEW k \in 0..23, n \div Pow[k] = b \div Pow[k]
  PROVE  \A j \in k..24 : n \div Pow[j] = b \div Pow[j]
<1> DEFINE T == {j \in k..24 : n \div Pow[j] # b \div Pow[j]}
<1>1. SUFFICES ASSUME T # {} PROVE FALSE
  OBVIOUS
<1>2. T \subseteq Nat
  OBVIOUS
<1>3. PICK j \in T : \A i \in T : j <= i
  BY <1>1, <1>2, LeastNumber
<1>4. j \in k..24 /\ j # k
  OBVIOUS
<1>5. j - 1 \in k..24 /\ j - 1 \notin T /\ j - 1 \in 0..23
  BY <1>3, <1>4
<1>6. n \div Pow[j - 1] = b \div Pow[j - 1]
  BY <1>5
<1>7. (j - 1) + 1 = j
  BY <1>4
<1>8. n \div Pow[j] = (n \div Pow[j - 1]) \div 2 /\ b \div Pow[j] = (b \div Pow[j - 1]) \div 2
  BY <1>5, <1>7, HalvesAgain
<1>9. n \div Pow[j] = b \div Pow[j]
  BY <1>6, <1>8
<1> QED
  BY <1>9
LEMMA SameBitsDown ==
  ASSUME NEW n \in PageIndices, NEW b \in PageIndices, NEW k \in 0..23,
         \A j \in k..23 : j \in Bits(n) <=> j \in Bits(b)
  PROVE  n \div Pow[k] = b \div Pow[k]
<1> DEFINE T == {j \in k..24 : n \div Pow[j] = b \div Pow[j]}
<1>0. n \in Nat /\ b \in Nat
  BY SmallNumbers
<1>1. 24 \in T
  <2>1. \A x \in Nat : x < 1048576 * 16 => x \div (1048576 * 16) = 0
    BY ONLY SMT
  <2>2. Pow[24] = 1048576 * 16
    BY ONLY PowTable, SMT
  <2>3. n \in Nat /\ n < 1048576 * 16 /\ b \in Nat /\ b < 1048576 * 16
    BY SmallNumbers
  <2>4. n \div Pow[24] = 0 /\ b \div Pow[24] = 0
    BY ONLY <2>1, <2>2, <2>3, SMT
  <2> QED
    BY <2>4
<1>2. T \subseteq Nat
  OBVIOUS
<1>3. PICK j \in T : \A i \in T : j <= i
  BY <1>1, <1>2, LeastNumber
<1>4. SUFFICES ASSUME j # k PROVE FALSE
  OBVIOUS
<1>5. j \in k..24
  OBVIOUS
<1>6. PICK i \in 0..23 : i = j - 1 /\ i + 1 = j /\ i \in k..23
  BY <1>4, <1>5
<1>7. i \notin T
  BY <1>3, <1>6
<1>8. n \div Pow[i] # b \div Pow[i]
  BY <1>6, <1>7
<1>9. n \div Pow[i + 1] = b \div Pow[i + 1]
  BY <1>6
<1>10. /\ n \div Pow[i] \in Nat /\ n \div Pow[i + 1] = (n \div Pow[i]) \div 2
       /\ b \div Pow[i] \in Nat /\ b \div Pow[i + 1] = (b \div Pow[i]) \div 2
  BY <1>0, HalvesAgain
<1>11. (n \div Pow[i]) % 2 = 1 <=> (b \div Pow[i]) % 2 = 1
  BY <1>6, BitOf
<1> DEFINE x == n \div Pow[i]
           y == b \div Pow[i]
<1>12. x \in Nat /\ y \in Nat /\ x \div 2 = y \div 2 /\ (x % 2 = 1 <=> y % 2 = 1) /\ x # y
  BY <1>8, <1>9, <1>10, <1>11
<1> HIDE DEF x, y
<1>13. x \in Nat /\ y \in Nat /\ x \div 2 = y \div 2 /\ (x % 2 = 1 <=> y % 2 = 1) => x = y
  BY ONLY SMT
<1> QED
  BY ONLY <1>12, <1>13

(* A page has the bits of the base of a region where the mask has ones if and only if it is
   in the block of pages that begins with the base. *)
LEMMA PageInBlock ==
  ASSUME NEW n \in PageIndices, NEW b \in PageIndices, NEW m \in Nat, NEW k \in 0..20
  PROVE  b = m * Pow[k] =>
           (Bits(n) \cap (k..23) = Bits(b) \cap (k..23) <=> n \in b..(b + Pow[k] - 1))
<1>0. n \in Nat /\ b \in Nat /\ k \in 0..23
  BY SmallNumbers
<1>3. b = m * Pow[k] => (n \div Pow[k] = b \div Pow[k] <=> n \in b..(b + Pow[k] - 1))
  BY ONLY <1>0, m \in Nat, k \in 0..20, BlockOf
<1>4. SUFFICES ASSUME b = m * Pow[k]
               PROVE  Bits(n) \cap (k..23) = Bits(b) \cap (k..23) <=> n \in b..(b + Pow[k] - 1)
  OBVIOUS
<1>5. n \div Pow[k] = b \div Pow[k] <=> n \in b..(b + Pow[k] - 1)
  BY ONLY <1>3, <1>4
<1>1. ASSUME Bits(n) \cap (k..23) = Bits(b) \cap (k..23)
      PROVE  n \in b..(b + Pow[k] - 1)
  <2>1. \A j \in k..23 : j \in Bits(n) <=> j \in Bits(b)
    BY <1>1
  <2>2. n \div Pow[k] = b \div Pow[k]
    BY <1>0, <2>1, SameBitsDown
  <2> QED
    BY ONLY <1>5, <2>2
<1>2. ASSUME n \in b..(b + Pow[k] - 1)
      PROVE  Bits(n) \cap (k..23) = Bits(b) \cap (k..23)
  <2>1. n \div Pow[k] = b \div Pow[k]
    BY ONLY <1>2, <1>5
  <2>2. \A j \in k..24 : n \div Pow[j] = b \div Pow[j]
    BY <1>0, <2>1, SameBitsUp
  <2>3. \A j \in k..23 : j \in Bits(n) <=> j \in Bits(b)
    <3> SUFFICES ASSUME NEW j \in k..23 PROVE j \in Bits(n) <=> j \in Bits(b)
      OBVIOUS
    <3>1. j \in 0..30 /\ n \div Pow[j] = b \div Pow[j]
      BY <2>2
    <3> QED
      BY <3>1, BitOf
  <2> QED
    BY <2>3
<1> QED
  BY <1>1, <1>2

(* A multiple of a power of two is a multiple of each smaller one. *)
LEMMA SmallerPower ==
  ASSUME NEW n \in Nat, NEW m \in Nat, NEW k \in 0..20, n = m * Pow[k], NEW j \in 0..k
  PROVE  \E l \in Nat : n = l * Pow[j]
<1> DEFINE T == {d \in 0..k : ~\E l \in Nat : n = l * Pow[k - d]}
<1>1. SUFFICES ASSUME T # {} PROVE FALSE
  <2>1. k - j \in 0..k /\ k - (k - j) = j
    OBVIOUS
  <2> QED
    BY <2>1
<1>2. T \subseteq Nat
  OBVIOUS
<1>3. PICK d \in T : \A e \in T : d <= e
  BY <1>1, <1>2, LeastNumber
<1>4. d # 0
  <2>1. k - 0 = k
    OBVIOUS
  <2> QED
    BY <2>1
<1>5. d - 1 \in 0..k /\ d - 1 \notin T
  BY <1>3, <1>4
<1>6. PICK i \in 0..23 : i = k - d /\ k - (d - 1) = i + 1
  BY <1>4
<1>7. PICK l \in Nat : n = l * Pow[i + 1]
  BY <1>5, <1>6
<1>8. PICK p \in Nat : p = Pow[i] /\ Pow[i + 1] = 2 * p
  BY PowSteps
<1>9. n = (2 * l) * p /\ 2 * l \in Nat
  <2>1. n = l * (2 * p)
    BY <1>7, <1>8
  <2> QED
    BY <2>1
<1>10. \E r \in Nat : n = r * Pow[i]
  BY <1>8, <1>9
<1> QED
  BY <1>6, <1>10

(* The highest bit of a number of pages. *)
LEMMA MaxIsLargest ==
  ASSUME NEW S \in SUBSET (0..30), S # {}
  PROVE  \A y \in S : Max(S) >= y
<1>1. S \subseteq Int /\ \A x \in S : 0 <= x /\ x <= 30
  OBVIOUS
<1> DEFINE T == {30 - x : x \in S}
<1>2. T \subseteq Nat /\ T # {}
  <2>1. \A x \in S : 30 - x \in Nat
    BY <1>1
  <2>2. PICK x \in S : TRUE
    OBVIOUS
  <2>3. 30 - x \in T
    OBVIOUS
  <2> QED
    BY <2>1, <2>3
<1>3. PICK t \in T : \A u \in T : t <= u
  BY <1>2, LeastNumber
<1>4. PICK x \in S : t = 30 - x
  BY <1>3
<1>5. \A y \in S : x >= y
  <2> SUFFICES ASSUME NEW y \in S PROVE x >= y
    OBVIOUS
  <2>1. 30 - x <= 30 - y
    BY <1>3, <1>4
  <2>2. x \in Int /\ y \in Int
    BY <1>1
  <2> QED
    BY <2>1, <2>2
<1>6. \E z \in S : \A y \in S : z >= y
  BY <1>5
<1> QED
  BY <1>6 DEF Max
PageTotals == {n \in Nat : n <= 512 * 1024}
LEMMA PageNumbersSmall == \A n \in PageTotals : n \in Nat /\ n <= 512 * 1024 /\ n \in PageIndices
  BY SMT DEF PageTotals, PageIndices
LEMMA HighestPower ==
  ASSUME NEW q \in PageTotals, q > 0
  PROVE  \E k \in 0..19 :
           /\ fls(q) = k + 1 /\ 2^(fls(q) - 1) = Pow[k] /\ k \in Bits(q)
           /\ \A j \in Bits(q) : j <= k
           /\ Pow[k] \in Nat /\ Pow[k] <= q /\ q \div Pow[k] = 1
<1>0. q \in Nat /\ q <= 512 * 1024 /\ q \in PageIndices
  BY PageNumbersSmall
<1>1. Bits(q) # {} /\ Bits(q) \in SUBSET (0..30)
  <2>1. q < 1024 * 1024
    BY <1>0
  <2> QED
    BY <1>0, <2>1, SomeBit DEF Bits
<1> DEFINE k == Max(Bits(q))
<1>2. k \in Bits(q) /\ \A j \in Bits(q) : k >= j
  <2>1. PICK S \in SUBSET (0..30) : S = Bits(q) /\ S # {}
    BY <1>1
  <2>2. Max(S) \in S /\ \A j \in S : Max(S) >= j
    BY <2>1, LargestBit, MaxIsLargest
  <2> QED
    BY <2>1, <2>2
<1>3. fls(q) = k + 1
  <2>1. q # 0
    OBVIOUS
  <2> QED
    BY <2>1, Zenon DEF fls
<1> HIDE DEF k
<1>4. k \in 0..30 /\ (q \div Pow[k]) % 2 = 1
  BY <1>1, <1>2, BitOf
<1>5. \A j \in 20..30 : q \div Pow[j] = 0
  BY <1>0, PowTable, SMT
<1>6. k \in 0..19
  BY <1>4, <1>5
<1>7. fls(q) - 1 = k
  BY <1>3, <1>6
<1>8. Pow[k] = 2^k /\ Pow[k] \in Nat /\ Pow[k] > 0
  <2>1. Pow[k] = 2^k
    BY <1>4 DEF Pow
  <2> QED
    BY <1>6, <2>1, PowSteps
<1>9. 2^(fls(q) - 1) = Pow[k]
  BY <1>7, <1>8
<1>10. Pow[k] <= q
  <2>1. 2^(fls(q) - 1) <= q
    BY <1>0, LargestPower
  <2> QED
    BY <1>9, <2>1
<1>11. q \div Pow[k + 1] = 0
  <2>1. k + 1 \in 0..23 /\ 0 \in PageIndices
    BY <1>6, SMT DEF PageIndices
  <2>2. \A j \in (k + 1)..23 : j \notin Bits(q)
    BY <1>2, <1>6
  <2>3. \A j \in (k + 1)..23 : j \notin Bits(0)
    <3> SUFFICES ASSUME NEW j \in (k + 1)..23 PROVE j \notin Bits(0)
      OBVIOUS
    <3>1. j \in 0..30 /\ Pow[j] \in Nat /\ Pow[j] > 0
      BY <1>6, PowSteps
    <3>2. 0 \div Pow[j] = 0
      BY <3>1
    <3> QED
      BY <3>1, <3>2, BitOf
  <2>4. q \div Pow[k + 1] = 0 \div Pow[k + 1]
    BY <1>0, <2>1, <2>2, <2>3, SameBitsDown
  <2>5. Pow[k + 1] \in Nat /\ Pow[k + 1] > 0
    BY <2>1, PowSteps
  <2> QED
    BY <2>4, <2>5
<1>12. q \div Pow[k] \in Nat /\ (q \div Pow[k]) \div 2 = 0
  <2>1. k \in 0..23
    BY <1>6
  <2>2. q \div Pow[k] \in Nat /\ q \div Pow[k + 1] = (q \div Pow[k]) \div 2
    BY <1>0, <2>1, HalvesAgain
  <2> QED
    BY <1>11, <2>2
<1>13. q \div Pow[k] = 1
  <2> DEFINE x == q \div Pow[k]
  <2>1. x \in Nat /\ x \div 2 = 0 /\ x % 2 = 1
    BY <1>4, <1>12
  <2> HIDE DEF x
  <2>2. x = 1
    BY ONLY <2>1, SMT
  <2> QED
    BY <2>2 DEF x
<1> QED
  BY <1>2, <1>3, <1>6, <1>8, <1>9, <1>10, <1>13

(* The highest bit of a number is taken away with the power of two. *)
LEMMA QuotientsDiffer ==
  ASSUME NEW q \in Nat, NEW r \in Nat, NEW k \in 0..19, q = r + Pow[k]
  PROVE  \A j \in 0..k : q \div Pow[j] = r \div Pow[j] + Pow[k - j]
<1> DEFINE T == {j \in 0..k : q \div Pow[j] # r \div Pow[j] + Pow[k - j]}
<1>1. SUFFICES ASSUME T # {} PROVE FALSE
  OBVIOUS
<1>2. T \subseteq Nat
  OBVIOUS
<1>3. PICK j \in T : \A i \in T : j <= i
  BY <1>1, <1>2, LeastNumber
<1>4. j # 0
  <2>1. Pow[0] = 1 /\ k - 0 = k
    BY PowTable
  <2>2. q \div Pow[0] = r \div Pow[0] + Pow[k - 0]
    <3>1. q \div 1 = q /\ r \div 1 = r
      OBVIOUS
    <3> QED
      BY <2>1, <3>1
  <2> QED
    BY <2>2
<1>5. PICK i \in 0..18 : j = i + 1 /\ i \in 0..k
  BY <1>4
<1>6. i \notin T
  BY <1>3, <1>5
<1>7. q \div Pow[i] = r \div Pow[i] + Pow[k - i]
  BY <1>5, <1>6
<1>8. PICK d \in 0..19 : d = k - j /\ k - i = d + 1
  BY <1>5
<1>9. Pow[d + 1] = 2 * Pow[d] /\ Pow[d] \in Nat
  BY PowSteps
<1>10. i \in 0..23
  OBVIOUS
<1>11. /\ q \div Pow[i] \in Nat /\ q \div Pow[i + 1] = (q \div Pow[i]) \div 2
       /\ r \div Pow[i] \in Nat /\ r \div Pow[i + 1] = (r \div Pow[i]) \div 2
  BY <1>10, HalvesAgain
<1> DEFINE x == q \div Pow[i]
           y == r \div Pow[i]
           p == Pow[d]
<1>12. x \in Nat /\ y \in Nat /\ p \in Nat /\ x = y + 2 * p
  BY <1>7, <1>8, <1>9, <1>11
<1> HIDE DEF x, y, p
<1>13. x \div 2 = y \div 2 + p
  BY ONLY <1>12, SMT
<1>14. q \div Pow[j] = r \div Pow[j] + Pow[k - j]
  BY <1>5, <1>8, <1>11, <1>13 DEF x, y, p
<1> QED
  BY <1>14
LEMMA NoBitsAbove == \A n \in PageTotals : \A j \in 20..30 : n \div Pow[j] = 0
  BY PowTable, PageNumbersSmall, SMT
LEMMA HighestTaken ==
  ASSUME NEW q \in PageTotals, NEW k \in 0..19, k \in Bits(q), \A j \in Bits(q) : j <= k,
         Pow[k] \in Nat, Pow[k] <= q, q \div Pow[k] = 1
  PROVE  q - Pow[k] \in PageTotals /\ Bits(q - Pow[k]) = Bits(q) \ {k}
<1> DEFINE r == q - Pow[k]
<1>1. r \in Nat /\ q \in Nat /\ q = r + Pow[k] /\ r \in PageTotals
  BY PageNumbersSmall DEF PageTotals
<1> HIDE DEF r
<1>2. \A j \in 0..k : q \div Pow[j] = r \div Pow[j] + Pow[k - j]
  BY <1>1, QuotientsDiffer
<1>3. ASSUME NEW j \in 0..30, j < k PROVE j \in Bits(r) <=> j \in Bits(q)
  <2>1. PICK d \in 0..23 : k - j = d + 1
    BY <1>3
  <2>2. Pow[k - j] = 2 * Pow[d] /\ Pow[d] \in Nat
    BY <2>1, PowSteps
  <2>3. q \div Pow[j] = r \div Pow[j] + 2 * Pow[d]
    BY <1>2, <1>3, <2>2
  <2>4. r \div Pow[j] \in Nat /\ q \div Pow[j] \in Nat
    <3>1. j \in 0..23
      BY <1>3
    <3> QED
      BY <1>1, <3>1, HalvesAgain
  <2> DEFINE x == q \div Pow[j]
             y == r \div Pow[j]
             p == Pow[d]
  <2>5. x \in Nat /\ y \in Nat /\ p \in Nat /\ x = y + 2 * p
    BY <2>2, <2>3, <2>4
  <2> HIDE DEF x, y, p
  <2>6. x % 2 = y % 2
    BY ONLY <2>5, SMT
  <2>7. (q \div Pow[j]) % 2 = (r \div Pow[j]) % 2
    BY <2>6 DEF x, y
  <2> QED
    BY <2>7, BitOf
<1>4. r \div Pow[k] = 0
  <2>1. k \in 0..k /\ k - k = 0 /\ Pow[0] = 1
    BY PowTable
  <2>2. q \div Pow[k] = r \div Pow[k] + 1
    BY <1>2, <2>1
  <2>3. r \div Pow[k] \in Nat
    <3>1. k \in 0..23
      OBVIOUS
    <3> QED
      BY <1>1, <3>1, HalvesAgain
  <2> QED
    BY <2>2, <2>3
<1>5. \A j \in k..30 : r \div Pow[j] = 0
  <2>1. k \in 0..23 /\ 0 \in Nat
    OBVIOUS
  <2>2. \A j \in 0..24 : 0 \div Pow[j] = 0
    <3> SUFFICES ASSUME NEW j \in 0..24 PROVE 0 \div Pow[j] = 0
      OBVIOUS
    <3>1. Pow[j] \in Nat /\ Pow[j] > 0
      BY PowSteps
    <3> QED
      BY <3>1
  <2>3. r \div Pow[k] = 0 \div Pow[k]
    BY <1>4, <2>2
  <2>4. \A j \in k..24 : r \div Pow[j] = 0 \div Pow[j]
    BY <1>1, <2>1, <2>3, SameBitsUp
  <2>5. \A j \in 20..30 : r \div Pow[j] = 0
    BY <1>1, NoBitsAbove
  <2> QED
    BY <2>2, <2>4, <2>5
<1>6. ASSUME NEW j \in 0..30, j >= k PROVE j \notin Bits(r)
  <2>1. j \in k..30
    BY <1>6
  <2> QED
    BY <1>5, <2>1, BitOf
<1>7. Bits(r) \subseteq 0..30 /\ Bits(q) \subseteq 0..30
  BY DEF Bits
<1>8. ASSUME NEW j \in 0..30 PROVE j \in Bits(r) <=> j \in Bits(q) /\ j # k
  <2>1. CASE j < k
    BY <1>3, <2>1
  <2>2. CASE j >= k
    BY <1>6, <2>2
  <2> QED
    BY <2>1, <2>2
<1>9. Bits(r) = Bits(q) \ {k}
  BY <1>7, <1>8
<1> QED
  BY <1>1, <1>9 DEF r

(* One bit less is one bit less to count. *)
LEMMA BitsFinite == \A n : IsFiniteSet(Bits(n)) /\ Cardinality(Bits(n)) \in Nat
<1> SUFFICES ASSUME NEW n PROVE IsFiniteSet(Bits(n)) /\ Cardinality(Bits(n)) \in Nat
  OBVIOUS
<1>1. Bits(n) \subseteq 0..30
  BY DEF Bits
<1>3. IsFiniteSet(0..30)
  BY 0 \in Int, 30 \in Int, FS_Interval, Zenon
<1>2. IsFiniteSet(Bits(n))
  BY <1>1, <1>3, FS_Subset
<1> QED
  BY <1>2, FS_CardinalityType
LEMMA OneBitLess ==
  ASSUME NEW q, NEW r, NEW k \in Bits(q), Bits(r) = Bits(q) \ {k}
  PROVE  Cardinality(Bits(q)) = Cardinality(Bits(r)) + 1
<1>1. Cardinality(Bits(q) \ {k}) = Cardinality(Bits(q)) - 1
  BY BitsFinite, FS_RemoveElement
<1> QED
  BY <1>1, BitsFinite
LEMMA ZeroBits == Cardinality(Bits(0)) = 0
<1>1. \A j \in 0..30 : Pow[j] \in Nat /\ Pow[j] > 0
  BY PowTable, SMT
<1>2. \A p \in Nat : p > 0 => 0 \div p = 0
  OBVIOUS
<1>3. \A j \in 0..30 : 0 \div Pow[j] = 0
  BY <1>1, <1>2
<1>4. \A j \in 0..30 : j \notin Bits(0)
  BY <1>3, BitOf
<1>5. Bits(0) = {}
  BY <1>4 DEF Bits
<1>6. IsFiniteSet(Bits(0)) => (Cardinality(Bits(0)) = 0 <=> Bits(0) = {})
  BY FS_EmptySet, Zenon
<1> QED
  BY <1>5, <1>6, BitsFinite, Zenon

(* A member of a packed structure is what the register has at its place. *)
LEMMA FieldOfPack ==
  ASSUME NEW layout, PlacesFit(layout), PlacesApart(layout), NEW s, NEW f \in DOMAIN layout
  PROVE  Field(Pack(layout, s), layout[f]) = s[f] \cap (0..(layout[f].width - 1))
<1> DEFINE lo == layout[f].lo
           width == layout[f].width
<1>1. lo \in Int /\ width \in Int
  BY DEF PlacesFit
<1>2. Field(Pack(layout, s), layout[f]) = {b - lo : b \in Pack(layout, s) \cap (lo..(lo + width - 1))}
  BY DEF Field
<1>3. ASSUME NEW b \in Int, lo <= b, b < lo + width
      PROVE  b \in Pack(layout, s) <=> b - lo \in s[f]
  <2>1. b \in Pack(layout, s) <=>
           \E g \in DOMAIN layout :
             /\ layout[g].lo <= b /\ b < layout[g].lo + layout[g].width
             /\ b - layout[g].lo \in s[g]
    BY BitsOfPack
  <2>2. ASSUME NEW g \in DOMAIN layout, layout[g].lo <= b, b < layout[g].lo + layout[g].width
        PROVE  g = f
    <3>1. PICK x \in Int, y \in Int : x = layout[g].lo /\ y = layout[g].width
      BY DEF PlacesFit
    <3> QED
      BY <1>1, <1>3, <2>2, <3>1 DEF PlacesApart
  <2> QED
    BY <1>3, <2>1, <2>2
<1> HIDE DEF lo, width
<1>4. ASSUME NEW c \in Field(Pack(layout, s), layout[f]) PROVE c \in s[f] \cap (0..(width - 1))
  <2>1. PICK b \in Pack(layout, s) \cap (lo..(lo + width - 1)) : c = b - lo
    BY <1>2, <1>4
  <2>2. b \in Int /\ lo <= b /\ b < lo + width
    BY <1>1
  <2> QED
    BY <1>1, <1>3, <2>1, <2>2
<1>5. ASSUME NEW c \in s[f] \cap (0..(width - 1)) PROVE c \in Field(Pack(layout, s), layout[f])
  <2>1. PICK b \in Int : b = c + lo /\ b - lo = c /\ lo <= b /\ b < lo + width
    BY <1>1
  <2>2. b \in Pack(layout, s) \cap (lo..(lo + width - 1))
    BY <1>1, <1>3, <2>1
  <2> QED
    BY <1>2, <2>1, <2>2
<1> QED
  BY <1>4, <1>5 DEF width

(* The registers that set_mem_type writes: a region from page b on, and a mask for 2^k pages. *)
RegionBase(type, b) ==
  Pack(mtrr_physbase_t, [type |-> type, reserved1 |-> {}, reserved2 |-> {}, base |-> Bits(b)])
RegionMask(k) ==
  Pack(mtrr_physmask_t, [v |-> {0}, reserved1 |-> {}, reserved2 |-> {}, mask |-> k..31])

LEMMA BaseWritten ==
  ASSUME NEW type \in SUBSET (0..7), NEW b
  PROVE  /\ Field(RegionBase(type, b), mtrr_physbase_t.type) = type
         /\ Field(RegionBase(type, b), mtrr_physbase_t.base) = Bits(b) \cap (0..23)
<1> DEFINE s == [type |-> type, reserved1 |-> {}, reserved2 |-> {}, base |-> Bits(b)]
<1>1. PlacesFit(mtrr_physbase_t) /\ PlacesApart(mtrr_physbase_t)
  BY LayoutsDescribe DEF Describes
<1>2. /\ "type" \in DOMAIN mtrr_physbase_t /\ mtrr_physbase_t["type"].width = 8
      /\ "base" \in DOMAIN mtrr_physbase_t /\ mtrr_physbase_t["base"].width = 24
  BY DEF mtrr_physbase_t, Place
<1>3. s["type"] = type /\ s["base"] = Bits(b)
  OBVIOUS
<1>4. RegionBase(type, b) = Pack(mtrr_physbase_t, s)
  BY DEF RegionBase
<1> HIDE DEF s
<1>5. /\ Field(Pack(mtrr_physbase_t, s), mtrr_physbase_t["type"]) = s["type"] \cap (0..(8 - 1))
      /\ Field(Pack(mtrr_physbase_t, s), mtrr_physbase_t["base"]) = s["base"] \cap (0..(24 - 1))
  BY <1>1, <1>2, FieldOfPack
<1>6. type \cap (0..(8 - 1)) = type
  <2>1. \A c \in type : c \in 0..(8 - 1)
    OBVIOUS
  <2> QED
    BY <2>1
<1>7. Bits(b) \cap (0..(24 - 1)) = Bits(b) \cap (0..23)
  OBVIOUS
<1> QED
  BY <1>3, <1>4, <1>5, <1>6, <1>7
LEMMA MaskWritten ==
  ASSUME NEW k \in 0..19
  PROVE  11 \in RegionMask(k) /\ Field(RegionMask(k), mtrr_physmask_t.mask) = k..23
<1> DEFINE s == [v |-> {0}, reserved1 |-> {}, reserved2 |-> {}, mask |-> k..31]
<1>1. PlacesFit(mtrr_physmask_t) /\ PlacesApart(mtrr_physmask_t)
  BY LayoutsDescribe DEF Describes
<1>2. /\ "v" \in DOMAIN mtrr_physmask_t /\ mtrr_physmask_t["v"] = Place(11, 1)
      /\ "mask" \in DOMAIN mtrr_physmask_t /\ mtrr_physmask_t["mask"].width = 24
      /\ Place(11, 1).width = 1
  BY DEF mtrr_physmask_t, Place
<1>3. s["v"] = {0} /\ s["mask"] = k..31
  OBVIOUS
<1>4. RegionMask(k) = Pack(mtrr_physmask_t, s)
  BY DEF RegionMask
<1> HIDE DEF s
<1>5. /\ Field(Pack(mtrr_physmask_t, s), mtrr_physmask_t["v"]) = s["v"] \cap (0..(1 - 1))
      /\ Field(Pack(mtrr_physmask_t, s), mtrr_physmask_t["mask"]) = s["mask"] \cap (0..(24 - 1))
  BY <1>1, <1>2, FieldOfPack
<1>6. 0 \in Field(RegionMask(k), Place(11, 1))
  BY <1>2, <1>3, <1>4, <1>5
<1>7. 0 + 11 \in RegionMask(k)
  <2>1. Field(RegionMask(k), Place(11, 1)) = {b \in 0..(1 - 1) : b + 11 \in RegionMask(k)}
    BY BitsOfField
  <2> QED
    BY <1>6, <2>1
<1>8. (k..31) \cap (0..(24 - 1)) = k..23
  OBVIOUS
<1>9. Field(RegionMask(k), mtrr_physmask_t.mask) = k..23
  BY <1>3, <1>4, <1>5, <1>8
<1>10. 11 \in RegionMask(k)
  BY <1>7
<1> QED
  BY <1>9, <1>10

(* Disabling one pair, and setting the default type. *)
LEMMA PairDisabled ==
  ASSUME NEW x
  PROVE  11 \notin WithMember(mtrr_physmask_t, x, "v", {})
<1> DEFINE s == [Unpack(mtrr_physmask_t, x) EXCEPT !["v"] = {}]
<1>1. PlacesFit(mtrr_physmask_t) /\ PlacesApart(mtrr_physmask_t)
  BY LayoutsDescribe DEF Describes
<1>2. "v" \in DOMAIN mtrr_physmask_t /\ mtrr_physmask_t["v"] = Place(11, 1) /\ Place(11, 1).width = 1
  BY DEF mtrr_physmask_t, Place
<1>3. s["v"] = {}
  BY <1>2 DEF Unpack
<1>4. WithMember(mtrr_physmask_t, x, "v", {}) = Pack(mtrr_physmask_t, s)
  BY DEF WithMember
<1> HIDE DEF s
<1>5. Field(Pack(mtrr_physmask_t, s), mtrr_physmask_t["v"]) = s["v"] \cap (0..(1 - 1))
  BY <1>1, <1>2, FieldOfPack
<1>6. Field(Pack(mtrr_physmask_t, s), Place(11, 1)) = {b \in 0..(1 - 1) : b + 11 \in Pack(mtrr_physmask_t, s)}
  BY BitsOfField
<1>7. 0 \notin {b \in 0..(1 - 1) : b + 11 \in Pack(mtrr_physmask_t, s)}
  BY <1>2, <1>3, <1>5, <1>6
<1>8. 0 + 11 \notin Pack(mtrr_physmask_t, s)
  BY <1>7
<1> QED
  BY <1>4, <1>8
LEMMA DefaultWritten ==
  ASSUME NEW x
  PROVE  Field(Uncached(x), mtrr_def_type_t.type) = MTRR_TYPE_UNCACHABLE
<1> DEFINE y == WithMember(mtrr_def_type_t, x, "fe", {})
           s == [Unpack(mtrr_def_type_t, y) EXCEPT !["type"] = MTRR_TYPE_UNCACHABLE]
<1>1. PlacesFit(mtrr_def_type_t) /\ PlacesApart(mtrr_def_type_t)
  BY LayoutsDescribe DEF Describes
<1>2. "type" \in DOMAIN mtrr_def_type_t
  BY DEF mtrr_def_type_t
<1>4. Uncached(x) = Pack(mtrr_def_type_t, s)
  BY DEF Uncached, WithMember
<1> HIDE DEF y
<1>3. s["type"] = {}
  BY <1>2 DEF Unpack, MTRR_TYPE_UNCACHABLE
<1> HIDE DEF s
<1>5. Field(Pack(mtrr_def_type_t, s), mtrr_def_type_t["type"])
        = s["type"] \cap (0..(mtrr_def_type_t["type"].width - 1))
  BY <1>1, <1>2, FieldOfPack
<1> QED
  BY <1>3, <1>4, <1>5 DEF MTRR_TYPE_UNCACHABLE

(* How far a call of set_mem_type has come: ndx pairs are used, and the pages from the first one
   of the range on, but the num_pages last ones, are in their regions. *)
FirstPage == mtrr.range.base \div PAGE_SIZE_4K
PagesAsked == PageCount(mtrr.range.size)
NextPage == FirstPage + (PagesAsked - mtrr.num_pages)
RangeAligned == PagesAsked = 0 \/ FirstPage % 2^(fls(PagesAsked) - 1) = 0
BlockFits(b, q) == \A k \in 0..19 : k \in Bits(q) => \E m \in Nat : b = m * Pow[k]
HeldBelow(ndx) == {n \in PageIndices : \E i \in Pairs : i < ndx /\ Holds(i, Bits(n))}
PairsUsed ==
  /\ \A i \in Pairs : i < mtrr.ndx => Field(msr.base[i], mtrr_physbase_t.type) = mtrr.mem_type
  /\ \A i \in Pairs : i >= mtrr.ndx => 11 \notin msr.mask[i]
PagesUsed ==
  RangeAligned => /\ BlockFits(NextPage, mtrr.num_pages)
                  /\ \A n \in PageIndices : n \in HeldBelow(mtrr.ndx) <=> FirstPage <= n /\ n < NextPage
CoveredSoFar ==
  /\ vcnt <= MAX_VARIABLE_MTRRS
  /\ Field(msr.def_type, mtrr_def_type_t.type) = MTRR_TYPE_UNCACHABLE
  /\ mtrr.num_pages \in PageTotals /\ mtrr.num_pages <= PagesAsked
  /\ mtrr.base \in Nat /\ mtrr.base \div PAGE_SIZE_4K = NextPage
  /\ Cardinality(Bits(PagesAsked)) = mtrr.ndx + Cardinality(Bits(mtrr.num_pages))
  /\ PairsUsed /\ PagesUsed
SetInv ==
  mtrr.fn = "set_mem_type" =>
    /\ mtrr.range \in MtrrRanges /\ mtrr.mem_type \in MtrrTypes
    /\ mtrr.pc # "returned" => mtrr.result = FALSE
    /\ mtrr.pc \in {"default", "clear"} => mtrr.base = mtrr.range.base
    /\ mtrr.pc = "clear" =>
         /\ vcnt <= MAX_VARIABLE_MTRRS
         /\ Field(msr.def_type, mtrr_def_type_t.type) = MTRR_TYPE_UNCACHABLE
         /\ \A i \in Pairs : i < mtrr.ndx => 11 \notin msr.mask[i]
    /\ mtrr.pc \in {"range_base", "range_mask"} => CoveredSoFar
    /\ mtrr.pc = "range_mask" => msr.base[mtrr.ndx] = RegionBase(mtrr.mem_type, NextPage)
    /\ mtrr.pc = "returned" =>
         \/ vcnt > MAX_VARIABLE_MTRRS /\ mtrr.result = FALSE
         \/ /\ CoveredSoFar /\ (mtrr.result <=> mtrr.ndx < vcnt)
            /\ mtrr.ndx < vcnt => mtrr.num_pages = 0

LEMMA MtrrBounds ==
  /\ MAX_VARIABLE_MTRRS \in Nat
  /\ \A type \in MtrrTypes : type \in SUBSET (0..7)
  /\ \A range \in MtrrRanges : range.base \in Nat /\ range.size \in Nat
<1>1. MAX_VARIABLE_MTRRS \in Nat
  BY MtrrConstants
<1>2. \A type \in MtrrTypes : type \in SUBSET (0..7)
  <2>1. MtrrTypes \subseteq SUBSET (0..7)
    BY MtrrConstants
  <2> QED
    BY ONLY <2>1
<1>3. \A range \in MtrrRanges : range.base \in Nat /\ range.size \in Nat
  <2>1. MtrrRanges \subseteq [base : Nat, size : Nat]
    BY MtrrConstants
  <2> QED
    BY ONLY <2>1
<1> QED
  BY ONLY <1>1, <1>2, <1>3
LEMMA RangeNumbers ==
  ASSUME mtrr.range \in MtrrRanges
  PROVE  /\ FirstPage \in Nat /\ PagesAsked \in PageTotals /\ PagesAsked \in Nat
         /\ \A q \in Nat : q <= PagesAsked =>
              FirstPage + (PagesAsked - q) \in PageIndices /\ FirstPage + (PagesAsked - q) \in Nat
<1>1. PICK base \in Nat, size \in Nat :
        base = mtrr.range.base /\ size = mtrr.range.size /\ (base + size) \div 65536 < 32768
  BY MtrrConstants
<1>2. base + size < 65536 * 32768
  BY <1>1, SMT
<1>3. base \div 4096 \in Nat /\ base \div 4096 <= 512 * 1024
  BY <1>2, SMT
<1>4. FirstPage \in Nat /\ FirstPage <= 512 * 1024
  BY <1>1, <1>3 DEF FirstPage, PAGE_SIZE_4K
<1>5. PagesAsked \in Nat /\ PagesAsked <= 512 * 1024
  BY PagesCounted DEF PagesAsked
<1>6. \A a, b, q \in Nat : a <= 512 * 1024 /\ b <= 512 * 1024 /\ q <= b =>
        a + (b - q) \in Nat /\ a + (b - q) < 1048576 * 16
  BY SMT
<1>7. ASSUME NEW q \in Nat, q <= PagesAsked
      PROVE  FirstPage + (PagesAsked - q) \in PageIndices /\ FirstPage + (PagesAsked - q) \in Nat
  <2>1. FirstPage + (PagesAsked - q) \in Nat /\ FirstPage + (PagesAsked - q) < 1048576 * 16
    BY <1>4, <1>5, <1>6, <1>7
  <2> QED
    BY <2>1 DEF PageIndices
<1>8. PagesAsked \in PageTotals
  BY <1>5 DEF PageTotals
<1> QED
  BY <1>4, <1>5, <1>7, <1>8

(* A range that begins at a multiple of the largest power of two in it begins at a multiple of
   each power in it, and so does what is left of it after the largest one. *)
LEMMA MultipleDown ==
  ASSUME NEW b \in Nat, NEW k \in 0..19, NEW j \in 0..k, \E m \in Nat : b = m * Pow[k]
  PROVE  \E l \in Nat : b = l * Pow[j]
<1>1. PICK m \in Nat : b = m * Pow[k]
  OBVIOUS
<1>2. k \in 0..20
  OBVIOUS
<1> QED
  BY <1>1, <1>2, SmallerPower
LEMMA RangeStarts ==
  ASSUME mtrr.range \in MtrrRanges, RangeAligned
  PROVE  BlockFits(FirstPage, PagesAsked)
<1>0. FirstPage \in Nat /\ PagesAsked \in PageTotals /\ PagesAsked \in Nat
  BY RangeNumbers
<1>1. CASE PagesAsked = 0
  <2>1. \A k : k \notin Bits(0)
    <3>1. Bits(0) = {}
      BY ZeroBits, BitsFinite, FS_EmptySet
    <3> QED
      BY <3>1
  <2> QED
    BY <1>1, <2>1 DEF BlockFits
<1>2. CASE PagesAsked # 0
  <2>1. PagesAsked > 0
    BY <1>0, <1>2
  <2>2. PICK k \in 0..19 :
           /\ 2^(fls(PagesAsked) - 1) = Pow[k] /\ k \in Bits(PagesAsked)
           /\ \A j \in Bits(PagesAsked) : j <= k
    BY <1>0, <2>1, HighestPower
  <2>3. FirstPage % Pow[k] = 0
    BY <1>2, <2>2 DEF RangeAligned
  <2>4. k \in 0..20
    OBVIOUS
  <2>5. \E m \in Nat : FirstPage = m * Pow[k]
    BY <1>0, <2>3, <2>4, NoRemainder
  <2>6. ASSUME NEW j \in 0..19, j \in Bits(PagesAsked)
        PROVE  \E m \in Nat : FirstPage = m * Pow[j]
    <3>1. j \in 0..k
      BY <2>2, <2>6
    <3> QED
      BY <1>0, <2>5, <3>1, MultipleDown
  <2> QED
    BY <2>6 DEF BlockFits
<1> QED
  BY <1>1, <1>2
LEMMA BlockNext ==
  ASSUME NEW b \in Nat, NEW q, NEW r, NEW k \in 0..19, BlockFits(b, q), k \in Bits(q),
         \A j \in Bits(q) : j <= k, Bits(r) = Bits(q) \ {k}
  PROVE  BlockFits(b + Pow[k], r)
<1>1. \E m \in Nat : b = m * Pow[k]
  BY DEF BlockFits
<1>2. Pow[k] \in Nat /\ \E m \in Nat : Pow[k] = m * Pow[k]
  <2>1. Pow[k] \in Nat
    BY PowSteps
  <2>2. Pow[k] = 1 * Pow[k]
    BY <2>1
  <2> QED
    BY <2>1, <2>2
<1>3. ASSUME NEW j \in 0..19, j \in Bits(r)
      PROVE  \E m \in Nat : b + Pow[k] = m * Pow[j]
  <2>1. j \in 0..k
    BY <1>3
  <2>2. PICK l \in Nat : b = l * Pow[j]
    BY <1>1, <2>1, MultipleDown
  <2>3. PICK m \in Nat : Pow[k] = m * Pow[j]
    <3> DEFINE c == Pow[k]
    <3>1. c \in Nat /\ \E m \in Nat : c = m * Pow[k]
      BY <1>2
    <3> HIDE DEF c
    <3>2. \E m \in Nat : c = m * Pow[j]
      BY <2>1, <3>1, MultipleDown
    <3> QED
      BY <3>2 DEF c
  <2>4. PICK p \in Nat : p = Pow[j]
    <3>1. j \in 0..24
      OBVIOUS
    <3> QED
      BY <3>1, PowSteps
  <2>5. b + Pow[k] = (l + m) * p /\ l + m \in Nat
    <3>1. b = l * p /\ Pow[k] = m * p
      BY <2>2, <2>3, <2>4
    <3>2. l * p + m * p = (l + m) * p
      BY ONLY l \in Nat, m \in Nat, p \in Nat, SMT
    <3> QED
      BY <3>1, <3>2
  <2> QED
    BY <2>4, <2>5
<1> QED
  BY <1>3 DEF BlockFits

(* The steps before the pairs are written: the default type is set and all pairs are disabled. *)
LEMMA SetDefaultKeeps ==
  ASSUME MtrrInv, SetInv, mtrr.fn = "set_mem_type", mtrr.pc = "default",
         msr' = [msr EXCEPT !.def_type = Uncached(msr.def_type)],
         IF vcnt > MAX_VARIABLE_MTRRS THEN mtrr' = [mtrr EXCEPT !.pc = "returned", !.result = FALSE]
         ELSE mtrr' = [mtrr EXCEPT !.pc = "clear", !.ndx = 0]
  PROVE  SetInv'
<1>1. MtrrCaller /\ vcnt \in 1..255 /\ msr \in Registers(vcnt) /\ MAX_VARIABLE_MTRRS \in Nat
  BY MtrrBounds DEF MtrrInv, MtrrRegisters
<1>2. msr'.cap = msr.cap /\ msr'.def_type = Uncached(msr.def_type)
  BY <1>1 DEF Registers
<1>3. vcnt' = vcnt
  BY <1>2, PairsStay
<1>4. mtrr.range \in MtrrRanges /\ mtrr.mem_type \in MtrrTypes /\ mtrr.base = mtrr.range.base /\ mtrr.result = FALSE
  BY DEF SetInv
<1>5. CASE vcnt > MAX_VARIABLE_MTRRS
  <2>1. mtrr' = [mtrr EXCEPT !.pc = "returned", !.result = FALSE]
    BY <1>5
  <2>2. /\ mtrr'.pc = "returned" /\ mtrr'.result = FALSE
        /\ mtrr'.range = mtrr.range /\ mtrr'.mem_type = mtrr.mem_type
    BY <1>1, <2>1 DEF MtrrCaller
  <2> QED
    BY <1>3, <1>4, <1>5, <2>2 DEF SetInv
<1>6. CASE ~(vcnt > MAX_VARIABLE_MTRRS)
  <2>1. mtrr' = [mtrr EXCEPT !.pc = "clear", !.ndx = 0]
    BY <1>6
  <2>2. /\ mtrr'.pc = "clear" /\ mtrr'.result = mtrr.result /\ mtrr'.ndx = 0
        /\ mtrr'.range = mtrr.range /\ mtrr'.mem_type = mtrr.mem_type /\ mtrr'.base = mtrr.base
    BY <1>1, <2>1 DEF MtrrCaller
  <2>3. \A i \in Pairs' : ~(i < mtrr'.ndx)
    BY <1>1, <1>3, <2>2 DEF Pairs
  <2>4. Field(msr'.def_type, mtrr_def_type_t.type) = MTRR_TYPE_UNCACHABLE
    BY <1>2, DefaultWritten
  <2>5. vcnt <= MAX_VARIABLE_MTRRS
    BY <1>1, <1>6
  <2> QED
    BY <1>3, <1>4, <2>2, <2>3, <2>4, <2>5 DEF SetInv
<1> QED
  BY <1>5, <1>6
LEMMA SetClearKeeps ==
  ASSUME MtrrInv, SetInv, mtrr.fn = "set_mem_type", mtrr.pc = "clear", mtrr.ndx < vcnt,
         msr' = [msr EXCEPT !.mask[mtrr.ndx] = WithMember(mtrr_physmask_t, msr.mask[mtrr.ndx], "v", {})],
         mtrr' = [mtrr EXCEPT !.pc = "clear", !.ndx = mtrr.ndx + 1]
  PROVE  SetInv'
<1> DEFINE ndx == mtrr.ndx
           x == WithMember(mtrr_physmask_t, msr.mask[mtrr.ndx], "v", {})
<1>1. MtrrCaller /\ vcnt \in 1..255 /\ msr \in Registers(vcnt) /\ ndx \in 0..(vcnt - 1)
  <2>1. MtrrCaller /\ vcnt \in 1..255 /\ msr \in Registers(vcnt)
    BY DEF MtrrInv, MtrrRegisters
  <2>2. ndx \in 0..vcnt
    BY <2>1 DEF MtrrCaller
  <2> QED
    BY <2>1, <2>2
<1>2. x \in SUBSET (0..63) /\ 11 \notin x
  BY Packed, PairDisabled DEF WithMember
<1> HIDE DEF x
<1>3. /\ msr'.cap = msr.cap /\ msr'.def_type = msr.def_type /\ msr'.mask[ndx] = x
      /\ \A j \in 0..(vcnt - 1) : j # ndx => msr'.mask[j] = msr.mask[j]
  BY <1>1, <1>2, MaskStep DEF x
<1>4. vcnt' = vcnt /\ Pairs' = Pairs
  BY <1>3, PairsStay DEF Pairs
<1>5. /\ mtrr.range \in MtrrRanges /\ mtrr.mem_type \in MtrrTypes /\ mtrr.base = mtrr.range.base
      /\ mtrr.result = FALSE /\ vcnt <= MAX_VARIABLE_MTRRS
      /\ Field(msr.def_type, mtrr_def_type_t.type) = MTRR_TYPE_UNCACHABLE
      /\ \A i \in Pairs : i < ndx => 11 \notin msr.mask[i]
  BY DEF SetInv
<1>6. /\ mtrr'.pc = "clear" /\ mtrr'.result = mtrr.result /\ mtrr'.ndx = ndx + 1
      /\ mtrr'.range = mtrr.range /\ mtrr'.mem_type = mtrr.mem_type /\ mtrr'.base = mtrr.base
  BY <1>1 DEF MtrrCaller
<1>7. \A i \in Pairs' : i < mtrr'.ndx => 11 \notin msr'.mask[i]
  <2> SUFFICES ASSUME NEW i \in Pairs, i < ndx + 1 PROVE 11 \notin msr'.mask[i]
    BY <1>4, <1>6
  <2>1. i \in 0..(vcnt - 1) /\ (i < ndx \/ i = ndx)
    BY <1>1 DEF Pairs
  <2> QED
    BY <1>2, <1>3, <1>5, <2>1
<1> QED
  BY <1>3, <1>4, <1>5, <1>6, <1>7 DEF SetInv
LEMMA SetRangeKeeps ==
  ASSUME MtrrInv, SetInv, mtrr.fn = "set_mem_type", mtrr.pc = "clear", mtrr.ndx = vcnt, msr' = msr,
         mtrr' = [mtrr EXCEPT !.pc = "range_base", !.ndx = 0, !.num_pages = PageCount(mtrr.range.size)]
  PROVE  SetInv'
<1>1. MtrrCaller /\ vcnt \in 1..255
  BY DEF MtrrInv, MtrrRegisters
<1>2. vcnt' = vcnt /\ Pairs' = Pairs
  BY PairsStay DEF Pairs
<1>3. /\ mtrr.range \in MtrrRanges /\ mtrr.mem_type \in MtrrTypes /\ mtrr.base = mtrr.range.base
      /\ mtrr.result = FALSE /\ vcnt <= MAX_VARIABLE_MTRRS
      /\ Field(msr.def_type, mtrr_def_type_t.type) = MTRR_TYPE_UNCACHABLE
      /\ \A i \in Pairs : i < vcnt => 11 \notin msr.mask[i]
  BY DEF SetInv
<1>4. /\ mtrr'.pc = "range_base" /\ mtrr'.result = mtrr.result /\ mtrr'.ndx = 0
      /\ mtrr'.range = mtrr.range /\ mtrr'.mem_type = mtrr.mem_type /\ mtrr'.base = mtrr.base
      /\ mtrr'.num_pages = PagesAsked
  BY <1>1 DEF MtrrCaller, PagesAsked
<1>5. FirstPage \in Nat /\ PagesAsked \in Nat /\ PagesAsked \in PageTotals
  BY <1>3, RangeNumbers
<1>6. FirstPage' = FirstPage /\ PagesAsked' = PagesAsked /\ (RangeAligned' <=> RangeAligned)
  BY <1>4 DEF FirstPage, PagesAsked, RangeAligned
<1>7. NextPage' = FirstPage
  BY <1>4, <1>5, <1>6 DEF NextPage
<1>8. mtrr'.base \in Nat /\ mtrr'.base \div PAGE_SIZE_4K = NextPage'
  <2>1. mtrr.range.base \in Nat /\ mtrr'.base = mtrr.range.base
    BY <1>3, <1>4, MtrrBounds
  <2> QED
    BY <1>7, <2>1 DEF FirstPage
<1>9. Cardinality(Bits(PagesAsked)) = 0 + Cardinality(Bits(PagesAsked))
  BY BitsFinite
<1>10. PairsUsed'
  <2>1. \A i \in Pairs : i \in Nat /\ i < vcnt
    BY <1>1 DEF Pairs
  <2> QED
    BY <1>2, <1>3, <1>4, <2>1 DEF PairsUsed
<1>11. PagesUsed'
  <2>1. SUFFICES ASSUME RangeAligned
                 PROVE  /\ BlockFits(FirstPage, PagesAsked)
                        /\ \A n \in PageIndices : n \in HeldBelow(0)' <=> FirstPage <= n /\ n < FirstPage
    BY <1>4, <1>6, <1>7 DEF PagesUsed
  <2>2. BlockFits(FirstPage, PagesAsked)
    BY <1>3, <2>1, RangeStarts
  <2>3. \A i \in Pairs' : ~(i < 0)
    BY <1>1, <1>2 DEF Pairs
  <2>4. \A n \in PageIndices : n \notin HeldBelow(0)'
    BY <2>3 DEF HeldBelow
  <2>5. \A n \in PageIndices : ~(FirstPage <= n /\ n < FirstPage)
    BY <1>5, SmallNumbers
  <2> QED
    BY <2>2, <2>4, <2>5
<1>12. PagesAsked <= PagesAsked
  BY <1>5
<1>13. CoveredSoFar'
  BY <1>2, <1>3, <1>4, <1>5, <1>6, <1>8, <1>9, <1>10, <1>11, <1>12 DEF CoveredSoFar
<1> QED
  BY <1>3, <1>4, <1>13 DEF SetInv
LEMMA SetDoneKeeps ==
  ASSUME MtrrInv, SetInv, mtrr.fn = "set_mem_type", mtrr.pc = "range_base", mtrr.num_pages = 0, msr' = msr,
         mtrr' = [mtrr EXCEPT !.pc = "returned", !.result = TRUE]
  PROVE  SetInv'
<1>1. MtrrCaller /\ mtrr.ndx < vcnt
  BY DEF MtrrInv, MtrrCaller
<1>2. vcnt' = vcnt /\ Pairs' = Pairs
  BY PairsStay DEF Pairs
<1>3. mtrr.range \in MtrrRanges /\ mtrr.mem_type \in MtrrTypes /\ CoveredSoFar
  BY DEF SetInv
<1>4. /\ mtrr'.pc = "returned" /\ mtrr'.result = TRUE /\ mtrr'.ndx = mtrr.ndx
      /\ mtrr'.range = mtrr.range /\ mtrr'.mem_type = mtrr.mem_type /\ mtrr'.base = mtrr.base
      /\ mtrr'.num_pages = mtrr.num_pages
  BY <1>1 DEF MtrrCaller
<1>5. FirstPage' = FirstPage /\ PagesAsked' = PagesAsked /\ NextPage' = NextPage /\ (RangeAligned' <=> RangeAligned)
  BY <1>4 DEF FirstPage, PagesAsked, RangeAligned, NextPage
<1>6. PairsUsed' /\ HeldBelow(mtrr.ndx)' = HeldBelow(mtrr.ndx)
  BY <1>2, <1>3, <1>4 DEF CoveredSoFar, PairsUsed, HeldBelow, Holds
<1>7. CoveredSoFar'
  BY <1>2, <1>3, <1>4, <1>5, <1>6 DEF CoveredSoFar, PagesUsed
<1> QED
  BY <1>1, <1>2, <1>3, <1>4, <1>7 DEF SetInv

(* The base of the next pair is written: the pairs below are as they were. *)
LEMMA SetBaseKeeps ==
  ASSUME MtrrInv, SetInv, mtrr.fn = "set_mem_type", mtrr.pc = "range_base", mtrr.num_pages > 0,
         msr' = [msr EXCEPT !.base[mtrr.ndx] = RegionBase(mtrr.mem_type, mtrr.base \div PAGE_SIZE_4K)],
         mtrr' = [mtrr EXCEPT !.pc = "range_mask", !.ndx = mtrr.ndx]
  PROVE  SetInv'
<1> DEFINE ndx == mtrr.ndx
           x == RegionBase(mtrr.mem_type, mtrr.base \div PAGE_SIZE_4K)
<1>1. MtrrCaller /\ vcnt \in 1..255 /\ msr \in Registers(vcnt) /\ ndx \in 0..(vcnt - 1)
  <2>1. MtrrCaller /\ vcnt \in 1..255 /\ msr \in Registers(vcnt)
    BY DEF MtrrInv, MtrrRegisters
  <2>2. ndx \in 0..vcnt /\ ndx < vcnt
    BY <2>1 DEF MtrrCaller
  <2> QED
    BY <2>1, <2>2
<1>2. /\ mtrr.range \in MtrrRanges /\ mtrr.mem_type \in MtrrTypes /\ mtrr.result = FALSE /\ CoveredSoFar
  BY DEF SetInv
<1>3. x \in SUBSET (0..63) /\ x = RegionBase(mtrr.mem_type, NextPage)
  BY <1>2, Packed DEF RegionBase, CoveredSoFar
<1> HIDE DEF x
<1>4. /\ msr'.cap = msr.cap /\ msr'.def_type = msr.def_type /\ msr'.base[ndx] = x /\ msr'.mask = msr.mask
      /\ \A j \in 0..(vcnt - 1) : j # ndx => msr'.base[j] = msr.base[j]
  BY <1>1, <1>3, BaseStep DEF x
<1>5. vcnt' = vcnt /\ Pairs' = Pairs
  BY <1>4, PairsStay DEF Pairs
<1>6. /\ mtrr'.pc = "range_mask" /\ mtrr'.result = mtrr.result /\ mtrr'.ndx = ndx
      /\ mtrr'.range = mtrr.range /\ mtrr'.mem_type = mtrr.mem_type /\ mtrr'.base = mtrr.base
      /\ mtrr'.num_pages = mtrr.num_pages
  BY <1>1 DEF MtrrCaller
<1>7. FirstPage' = FirstPage /\ PagesAsked' = PagesAsked /\ NextPage' = NextPage /\ (RangeAligned' <=> RangeAligned)
  BY <1>6 DEF FirstPage, PagesAsked, RangeAligned, NextPage
<1>8. \A i \in Pairs : i < ndx => msr'.base[i] = msr.base[i] /\ \A page : Holds(i, page)' <=> Holds(i, page)
  <2> SUFFICES ASSUME NEW i \in Pairs, i < ndx
               PROVE  msr'.base[i] = msr.base[i] /\ \A page : Holds(i, page)' <=> Holds(i, page)
    OBVIOUS
  <2>1. i \in 0..(vcnt - 1) /\ i # ndx
    BY <1>1 DEF Pairs
  <2>2. msr'.base[i] = msr.base[i] /\ msr'.mask[i] = msr.mask[i]
    BY <1>4, <2>1
  <2> QED
    BY <2>2 DEF Holds
<1>9. PairsUsed'
  BY <1>2, <1>4, <1>5, <1>6, <1>8 DEF CoveredSoFar, PairsUsed
<1>10. \A n : n \in HeldBelow(mtrr.ndx)' <=> n \in HeldBelow(mtrr.ndx)
  BY <1>5, <1>6, <1>8 DEF HeldBelow
<1>11. CoveredSoFar'
  BY <1>2, <1>4, <1>5, <1>6, <1>7, <1>9, <1>10 DEF CoveredSoFar, PagesUsed
<1> QED
  BY <1>2, <1>3, <1>4, <1>6, <1>7, <1>11 DEF SetInv

(* The mask of the next pair is written: it holds the pages of one more block. *)
LEMMA SetMaskKeeps ==
  ASSUME MtrrInv, SetInv, mtrr.fn = "set_mem_type", mtrr.pc = "range_mask",
         msr' = [msr EXCEPT !.mask[mtrr.ndx] = RegionMask(fls(mtrr.num_pages) - 1)],
         mtrr' = [mtrr EXCEPT !.ndx = mtrr.ndx + 1, !.num_pages = mtrr.num_pages - 2^(fls(mtrr.num_pages) - 1),
                              !.base = mtrr.base + 2^(fls(mtrr.num_pages) - 1) * PAGE_SIZE_4K,
                              !.pc = IF mtrr.ndx + 1 = vcnt THEN "returned" ELSE "range_base"]
  PROVE  SetInv'
<1> DEFINE ndx == mtrr.ndx
           q == mtrr.num_pages
           b == NextPage
<1>1. MtrrCaller /\ vcnt \in 1..255 /\ msr \in Registers(vcnt) /\ ndx \in 0..(vcnt - 1) /\ q > 0
  <2>1. MtrrCaller /\ vcnt \in 1..255 /\ msr \in Registers(vcnt)
    BY DEF MtrrInv, MtrrRegisters
  <2>2. ndx \in 0..vcnt /\ ndx < vcnt /\ q > 0
    BY <2>1 DEF MtrrCaller
  <2> QED
    BY <2>1, <2>2
<1>2. /\ mtrr.range \in MtrrRanges /\ mtrr.mem_type \in MtrrTypes /\ mtrr.result = FALSE /\ CoveredSoFar
      /\ msr.base[ndx] = RegionBase(mtrr.mem_type, b)
  BY DEF SetInv
<1>3. q \in PageTotals /\ q \in Nat /\ q <= PagesAsked
  BY <1>2, PageNumbersSmall DEF CoveredSoFar
<1>4. PICK k \in 0..19 :
        /\ fls(q) = k + 1 /\ 2^(fls(q) - 1) = Pow[k] /\ k \in Bits(q) /\ \A j \in Bits(q) : j <= k
        /\ Pow[k] \in Nat /\ Pow[k] <= q /\ q \div Pow[k] = 1
  BY <1>1, <1>3, HighestPower
<1>5. PICK p \in Nat : p = Pow[k] /\ p <= q
  BY <1>4
<1>6. q - p \in PageTotals /\ Bits(q - p) = Bits(q) \ {k}
  BY <1>3, <1>4, <1>5, HighestTaken
<1>7. fls(q) - 1 = k /\ 2^(fls(q) - 1) = p
  BY <1>4, <1>5
<1>8. RegionMask(k) \in SUBSET (0..63)
  BY Packed DEF RegionMask
<1>9. /\ msr'.cap = msr.cap /\ msr'.def_type = msr.def_type /\ msr'.mask[ndx] = RegionMask(k) /\ msr'.base = msr.base
      /\ \A j \in 0..(vcnt - 1) : j # ndx => msr'.mask[j] = msr.mask[j]
  BY <1>1, <1>7, <1>8, MaskStep
<1>10. vcnt' = vcnt /\ Pairs' = Pairs
  BY <1>9, PairsStay DEF Pairs
<1>11. /\ mtrr'.pc = (IF ndx + 1 = vcnt THEN "returned" ELSE "range_base") /\ mtrr'.result = mtrr.result
       /\ mtrr'.ndx = ndx + 1 /\ mtrr'.num_pages = q - p /\ mtrr'.base = mtrr.base + p * PAGE_SIZE_4K
       /\ mtrr'.range = mtrr.range /\ mtrr'.mem_type = mtrr.mem_type
  BY <1>1, <1>7 DEF MtrrCaller
<1>12. /\ FirstPage \in Nat /\ PagesAsked \in Nat
       /\ b \in PageIndices /\ b \in Nat
  BY <1>2, <1>3, RangeNumbers DEF NextPage
<1>13. FirstPage' = FirstPage /\ PagesAsked' = PagesAsked /\ (RangeAligned' <=> RangeAligned)
  BY <1>11 DEF FirstPage, PagesAsked, RangeAligned
<1>14. NextPage' = b + p /\ q - p <= PagesAsked
  BY <1>3, <1>5, <1>11, <1>12, <1>13 DEF NextPage
<1>15. mtrr'.base \in Nat /\ mtrr'.base \div PAGE_SIZE_4K = NextPage'
  <2>1. mtrr.base \in Nat /\ mtrr.base \div 4096 = b
    BY <1>2 DEF CoveredSoFar, PAGE_SIZE_4K
  <2> HIDE DEF b
  <2>2. \A x, y \in Nat : x + y * 4096 \in Nat /\ (x + y * 4096) \div 4096 = (x \div 4096) + y
    BY ONLY SMT
  <2>3. mtrr'.base = mtrr.base + p * 4096
    BY <1>11 DEF PAGE_SIZE_4K
  <2>4. mtrr'.base \in Nat /\ mtrr'.base \div 4096 = b + p
    BY <1>5, <2>1, <2>2, <2>3
  <2> QED
    BY <1>14, <2>4 DEF PAGE_SIZE_4K
<1>16. Cardinality(Bits(PagesAsked)) = mtrr'.ndx + Cardinality(Bits(mtrr'.num_pages))
  <2>1. Cardinality(Bits(q)) = Cardinality(Bits(q - p)) + 1
    BY <1>4, <1>6, OneBitLess
  <2>2. Cardinality(Bits(PagesAsked)) = ndx + Cardinality(Bits(q))
    BY <1>2 DEF CoveredSoFar
  <2>3. Cardinality(Bits(q - p)) \in Nat /\ ndx \in Nat
    BY <1>1, BitsFinite
  <2> QED
    BY <1>11, <2>1, <2>2, <2>3
<1>17. \A i \in Pairs : i \in 0..(vcnt - 1)
  BY <1>1 DEF Pairs
<1>18. mtrr.mem_type \in SUBSET (0..7)
  BY <1>2, MtrrBounds
<1>19. PairsUsed'
  <2>1. ASSUME NEW i \in Pairs, i < ndx + 1
        PROVE  Field(msr'.base[i], mtrr_physbase_t.type) = mtrr.mem_type
    <3>1. i < ndx \/ i = ndx
      BY <1>1, <1>17, <2>1
    <3>2. CASE i < ndx
      BY <1>2, <1>9, <3>2 DEF CoveredSoFar, PairsUsed
    <3>3. CASE i = ndx
      BY <1>2, <1>9, <1>18, <3>3, BaseWritten
    <3> QED
      BY <3>1, <3>2, <3>3
  <2>2. ASSUME NEW i \in Pairs, i >= ndx + 1
        PROVE  11 \notin msr'.mask[i]
    <3>1. i # ndx /\ i >= ndx
      BY <1>1, <1>17, <2>2
    <3> QED
      BY <1>2, <1>9, <1>17, <3>1 DEF CoveredSoFar, PairsUsed
  <2> QED
    BY <1>10, <1>11, <2>1, <2>2 DEF PairsUsed
<1>20. \A i \in Pairs : i < ndx => \A page : Holds(i, page)' <=> Holds(i, page)
  <2> SUFFICES ASSUME NEW i \in Pairs, i < ndx PROVE \A page : Holds(i, page)' <=> Holds(i, page)
    OBVIOUS
  <2>1. i \in 0..(vcnt - 1) /\ i # ndx
    BY <1>1, <1>17
  <2> QED
    BY <1>9, <2>1 DEF Holds
<1>0. PICK u \in Nat : u = ndx
  BY <1>1
<1>21. ASSUME NEW m \in Nat, b = m * Pow[k], NEW n \in PageIndices
       PROVE  Holds(u, Bits(n))' <=> b <= n /\ n < b + p
  <2> DEFINE c == b
  <2>1. c \in PageIndices /\ c \in Nat /\ c = m * Pow[k]
    BY <1>12, <1>21
  <2>2. msr'.base[u] = RegionBase(mtrr.mem_type, c) /\ msr'.mask[u] = RegionMask(k)
    BY <1>0, <1>2, <1>9
  <2> HIDE DEF c
  <2>3. 11 \in msr'.mask[u] /\ Field(msr'.mask[u], mtrr_physmask_t.mask) = k..23
    BY <2>2, MaskWritten
  <2>4. Field(msr'.base[u], mtrr_physbase_t.base) = Bits(c) \cap (0..23)
    BY <1>18, <2>2, BaseWritten
  <2>5. (Bits(c) \cap (0..23)) \cap (k..23) = Bits(c) \cap (k..23)
    <3>1. \A d \in k..23 : d \in 0..23
      OBVIOUS
    <3> QED
      BY <3>1
  <2>6. Holds(u, Bits(n))' <=> Bits(n) \cap (k..23) = Bits(c) \cap (k..23)
    BY <2>3, <2>4, <2>5 DEF Holds
  <2>7. Bits(n) \cap (k..23) = Bits(c) \cap (k..23) <=> n \in c..(c + Pow[k] - 1)
    <3>1. k \in 0..20 /\ c \in PageIndices
      BY <2>1
    <3>2. c = m * Pow[k] => (Bits(n) \cap (k..23) = Bits(c) \cap (k..23) <=> n \in c..(c + Pow[k] - 1))
      BY ONLY n \in PageIndices, m \in Nat, <3>1, PageInBlock
    <3> QED
      BY <2>1, <3>2
  <2>8. n \in Nat
    BY SmallNumbers
  <2>9. n \in c..(c + Pow[k] - 1) <=> c <= n /\ n < c + p
    BY <1>5, <2>1, <2>8
  <2> QED
    BY <2>6, <2>7, <2>9 DEF c
<1>22. PagesUsed'
  <2> SUFFICES ASSUME RangeAligned
               PROVE  /\ BlockFits(b + p, q - p)
                      /\ \A n \in PageIndices : n \in HeldBelow(mtrr.ndx)' <=> FirstPage <= n /\ n < b + p
    BY <1>11, <1>13, <1>14 DEF PagesUsed
  <2>1. BlockFits(b, q) /\ \A n \in PageIndices : n \in HeldBelow(ndx) <=> FirstPage <= n /\ n < b
    BY <1>2 DEF CoveredSoFar, PagesUsed
  <2>2. BlockFits(b + p, q - p)
    BY <1>4, <1>5, <1>6, <1>12, <2>1, BlockNext
  <2>3. PICK m \in Nat : b = m * Pow[k]
    BY <1>4, <2>1 DEF BlockFits
  <2>4. ASSUME NEW n \in PageIndices
        PROVE  n \in HeldBelow(mtrr.ndx)' <=> FirstPage <= n /\ n < b + p
    <3>1. n \in HeldBelow(mtrr.ndx)' <=> \E i \in Pairs : i < ndx + 1 /\ Holds(i, Bits(n))'
      BY <1>10, <1>11 DEF HeldBelow
    <3>2. \A i \in Pairs : i < ndx + 1 <=> i < ndx \/ i = ndx
      BY <1>1, <1>17
    <3>3. ndx \in Pairs
      BY <1>1 DEF Pairs
    <3>4. n \in HeldBelow(mtrr.ndx)' <=> n \in HeldBelow(ndx) \/ Holds(u, Bits(n))'
      BY <1>0, <1>20, <3>1, <3>2, <3>3 DEF HeldBelow
    <3>5. Holds(u, Bits(n))' <=> b <= n /\ n < b + p
      BY <1>21, <2>3
    <3>6. FirstPage <= b
      BY <1>3, <1>12 DEF NextPage
    <3>7. n \in Nat
      BY SmallNumbers
    <3> HIDE DEF b
    <3> QED
      BY <1>5, <1>12, <2>1, <3>4, <3>5, <3>6, <3>7
  <2> QED
    BY <2>2, <2>4
<1>23. CoveredSoFar'
  BY <1>2, <1>6, <1>9, <1>10, <1>11, <1>13, <1>14, <1>15, <1>16, <1>19, <1>22 DEF CoveredSoFar
<1>24. mtrr'.pc = "returned" => (mtrr'.result <=> mtrr'.ndx < vcnt) /\ ~(mtrr'.ndx < vcnt)
  <2>1. mtrr'.pc = "returned" => ndx + 1 = vcnt
    BY <1>11
  <2>2. mtrr'.pc = "returned" => ~(mtrr'.ndx < vcnt)
    BY <1>1, <1>11, <2>1
  <2>3. mtrr'.result = FALSE
    BY <1>2, <1>11
  <2> QED
    BY <2>2, <2>3, Zenon
<1>25. mtrr'.pc # "clear" /\ mtrr'.pc # "default" /\ mtrr'.pc # "range_mask"
  BY <1>11
<1> QED
  BY <1>2, <1>10, <1>11, <1>23, <1>24, <1>25 DEF SetInv

(* What set_mem_type promises, for every page. *)
RangeCovered ==
  mtrr.fn = "set_mem_type" /\ MtrrAt("returned") =>
    /\ mtrr.result <=> vcnt <= MAX_VARIABLE_MTRRS /\ Cardinality(Bits(PagesAsked)) < vcnt
    /\ mtrr.result /\ RangeAligned =>
         \A page \in PageIndices :
           TypesOf(Bits(page)) = IF FirstPage <= page /\ page < FirstPage + PagesAsked
                                 THEN {mtrr.mem_type} ELSE {MTRR_TYPE_UNCACHABLE}

LEMMA SetInvInit == MtrrInit => SetInv
  BY DEF MtrrInit, SetInv, NoMtrrCall

LEMMA SetMemTypeCovers ==
  ASSUME MtrrInv, SetInv, set_mem_type
  PROVE  SetInv'
<1>1. MtrrCaller
  BY DEF MtrrInv
<1>2. mtrr.fn = "set_mem_type"
  BY <1>1 DEF set_mem_type, MtrrAt, MtrrCaller, Serves
<1>3. CASE /\ mtrr.pc = "default" /\ msr' = [msr EXCEPT !.def_type = Uncached(msr.def_type)]
           /\ IF vcnt > MAX_VARIABLE_MTRRS THEN mtrr' = [mtrr EXCEPT !.pc = "returned", !.result = FALSE]
              ELSE mtrr' = [mtrr EXCEPT !.pc = "clear", !.ndx = 0]
  BY <1>2, <1>3, SetDefaultKeeps
<1>4. CASE /\ mtrr.pc = "clear" /\ mtrr.ndx < vcnt
           /\ msr' = [msr EXCEPT !.mask[mtrr.ndx] = WithMember(mtrr_physmask_t, msr.mask[mtrr.ndx], "v", {})]
           /\ mtrr' = [mtrr EXCEPT !.pc = "clear", !.ndx = mtrr.ndx + 1]
  BY <1>2, <1>4, SetClearKeeps
<1>5. CASE /\ mtrr.pc = "clear" /\ mtrr.ndx = vcnt /\ msr' = msr
           /\ mtrr' = [mtrr EXCEPT !.pc = "range_base", !.ndx = 0, !.num_pages = PageCount(mtrr.range.size)]
  BY <1>2, <1>5, SetRangeKeeps
<1>6. CASE /\ mtrr.pc = "range_base" /\ mtrr.num_pages = 0 /\ msr' = msr
           /\ mtrr' = [mtrr EXCEPT !.pc = "returned", !.result = TRUE]
  BY <1>2, <1>6, SetDoneKeeps
<1>7. CASE /\ mtrr.pc = "range_base" /\ mtrr.num_pages > 0
           /\ msr' = [msr EXCEPT !.base[mtrr.ndx] = RegionBase(mtrr.mem_type, mtrr.base \div PAGE_SIZE_4K)]
           /\ mtrr' = [mtrr EXCEPT !.pc = "range_mask", !.ndx = mtrr.ndx]
  BY <1>2, <1>7, SetBaseKeeps
<1>8. CASE /\ mtrr.pc = "range_mask"
           /\ msr' = [msr EXCEPT !.mask[mtrr.ndx] = RegionMask(fls(mtrr.num_pages) - 1)]
           /\ mtrr' = [mtrr EXCEPT !.ndx = mtrr.ndx + 1,
                         !.num_pages = mtrr.num_pages - 2^(fls(mtrr.num_pages) - 1),
                         !.base = mtrr.base + 2^(fls(mtrr.num_pages) - 1) * PAGE_SIZE_4K,
                         !.pc = IF mtrr.ndx + 1 = vcnt THEN "returned" ELSE "range_base"]
  BY <1>2, <1>8, SetMaskKeeps
<1> QED
  BY <1>3, <1>4, <1>5, <1>6, <1>7, <1>8 DEF set_mem_type, MtrrAt, MtrrGoto, MtrrReturn, RegionBase, RegionMask

LEMMA SetInvStays ==
  ASSUME SetInv, mtrr' = mtrr, msr' = msr
  PROVE  SetInv'
<1>1. vcnt' = vcnt /\ Pairs' = Pairs
  BY DEF vcnt, Pairs
<1>2. FirstPage' = FirstPage /\ PagesAsked' = PagesAsked
  BY DEF FirstPage, PagesAsked
<1>3. NextPage' = NextPage /\ (RangeAligned' <=> RangeAligned)
  BY <1>2 DEF NextPage, RangeAligned
<1>4. PairsUsed => PairsUsed'
  BY <1>1 DEF PairsUsed
<1>5. PagesUsed => PagesUsed'
  <2>1. ASSUME NEW n PROVE n \in HeldBelow(mtrr.ndx)' <=> n \in HeldBelow(mtrr.ndx)
    <3>1. HeldBelow(mtrr.ndx)' = {m \in PageIndices : \E i \in Pairs : i < mtrr.ndx /\ Holds(i, Bits(m))}
      BY <1>1 DEF HeldBelow, Holds
    <3> QED
      BY <3>1 DEF HeldBelow
  <2> QED
    BY <1>2, <1>3, <2>1 DEF PagesUsed
<1>6. CoveredSoFar => CoveredSoFar'
  BY <1>1, <1>2, <1>3, <1>4, <1>5 DEF CoveredSoFar
<1> QED
  BY <1>1, <1>3, <1>6 DEF SetInv

LEMMA SetInvNext == MtrrInv /\ SetInv /\ [MtrrNext]_mtrrVars => SetInv'
<1> SUFFICES ASSUME MtrrInv, SetInv, [MtrrNext]_mtrrVars PROVE SetInv'
  OBVIOUS
<1>0. MtrrCaller
  BY DEF MtrrInv
<1>1. CASE UNCHANGED mtrrVars
  <2>1. mtrr' = mtrr /\ msr' = msr
    BY <1>1 DEF mtrrVars
  <2> QED
    BY <2>1, SetInvStays
<1>2. CASE MtrrCall
  <2>1. CASE \E range \in MtrrRanges, type \in MtrrTypes :
               mtrr' = [Calling("set_mem_type", "default") EXCEPT
                          !.range = range, !.base = range.base, !.mem_type = type]
    <3>1. PICK range \in MtrrRanges, type \in MtrrTypes :
               mtrr' = [Calling("set_mem_type", "default") EXCEPT
                          !.range = range, !.base = range.base, !.mem_type = type]
      BY <2>1
    <3>2. /\ mtrr'.pc = "default" /\ mtrr'.range = range /\ mtrr'.mem_type = type /\ mtrr'.base = range.base
          /\ mtrr'.result = FALSE
      BY <3>1 DEF Calling, NoMtrrCall
    <3> QED
      BY <3>2 DEF SetInv
  <2>2. ASSUME NEW fn, NEW pc, fn # "set_mem_type", mtrr' = Calling(fn, pc)
        PROVE  SetInv'
    <3>1. mtrr'.fn = fn
      BY <2>2 DEF Calling, NoMtrrCall
    <3> QED
      BY <2>2, <3>1 DEF SetInv
  <2>3. CASE \E enable \in BOOLEAN : mtrr' = [Calling("set_all", "all") EXCEPT !.enable = enable]
    <3>1. mtrr'.fn = "set_all"
      BY <2>3 DEF Calling, NoMtrrCall
    <3> QED
      BY <3>1 DEF SetInv
  <2>4. CASE mtrr' = Calling("save", "save")
    BY <2>2, <2>4
  <2>5. CASE mtrr' = Calling("restore", "disable") \/ mtrr' = Calling("restore", "returned")
    BY <2>2, <2>5
  <2>6. CASE mtrr' = Calling("validate", "validate")
    BY <2>2, <2>6
  <2> QED
    BY <1>2, <2>1, <2>3, <2>4, <2>5, <2>6 DEF MtrrCall
<1>3. CASE set_mem_type
  BY <1>3, SetMemTypeCovers
<1>4. CASE MtrrDone
  BY <1>4 DEF MtrrDone, NoMtrrCall, SetInv
<1>5. CASE set_all_mtrrs \/ save_mtrrs \/ restore_mtrrs \/ validate_mtrrs
  <2>1. mtrr.pc \in {"all", "save", "disable", "next", "base", "validate"}
    BY <1>5 DEF set_all_mtrrs, save_mtrrs, restore_mtrrs, validate_mtrrs, MtrrAt
  <2>2. mtrr.fn # "set_mem_type"
    BY <1>0, <2>1 DEF MtrrCaller, Serves
  <2>3. mtrr'.fn = mtrr.fn
    <3>1. CASE set_all_mtrrs \/ save_mtrrs \/ validate_mtrrs
      BY <1>0, <3>1 DEF set_all_mtrrs, save_mtrrs, validate_mtrrs, MtrrReturn, MtrrCaller
    <3>2. CASE restore_mtrrs
      BY <1>0, <3>2 DEF restore_mtrrs, MtrrReturn, MtrrGoto, MtrrCaller
    <3> QED
      BY <1>5, <3>1, <3>2
  <2> QED
    BY <2>2, <2>3 DEF SetInv
<1> QED
  BY <1>1, <1>2, <1>3, <1>4, <1>5 DEF MtrrNext, MtrrStep

LEMMA SetInvCovers == MtrrInv /\ SetInv => RangeCovered
<1> SUFFICES ASSUME MtrrInv, SetInv, mtrr.fn = "set_mem_type", mtrr.pc = "returned"
             PROVE  /\ mtrr.result <=> vcnt <= MAX_VARIABLE_MTRRS /\ Cardinality(Bits(PagesAsked)) < vcnt
                    /\ mtrr.result /\ RangeAligned =>
                         \A page \in PageIndices :
                           TypesOf(Bits(page)) = IF FirstPage <= page /\ page < FirstPage + PagesAsked
                                                 THEN {mtrr.mem_type} ELSE {MTRR_TYPE_UNCACHABLE}
  BY DEF RangeCovered, MtrrAt
<1>1. MtrrCaller /\ vcnt \in 1..255 /\ mtrr.ndx \in 0..vcnt /\ MAX_VARIABLE_MTRRS \in Nat
  <2>1. MtrrCaller /\ vcnt \in 1..255
    BY DEF MtrrInv, MtrrRegisters
  <2>2. mtrr.ndx \in 0..vcnt
    BY <2>1 DEF MtrrCaller
  <2> QED
    BY <2>1, <2>2, MtrrBounds
<1>2. CASE vcnt > MAX_VARIABLE_MTRRS /\ mtrr.result = FALSE
  BY <1>1, <1>2
<1>3. CASE /\ CoveredSoFar /\ (mtrr.result <=> mtrr.ndx < vcnt)
           /\ mtrr.ndx < vcnt => mtrr.num_pages = 0
  <2>1. vcnt <= MAX_VARIABLE_MTRRS /\ Cardinality(Bits(PagesAsked)) = mtrr.ndx + Cardinality(Bits(mtrr.num_pages))
    BY <1>3 DEF CoveredSoFar
  <2>2. Cardinality(Bits(mtrr.num_pages)) \in Nat
    BY BitsFinite
  <2>3. mtrr.ndx < vcnt => Cardinality(Bits(PagesAsked)) = mtrr.ndx
    BY <1>1, <1>3, <2>1, ZeroBits
  <2>4. mtrr.result <=> vcnt <= MAX_VARIABLE_MTRRS /\ Cardinality(Bits(PagesAsked)) < vcnt
    BY <1>1, <1>3, <2>1, <2>2, <2>3
  <2>5. ASSUME mtrr.result, RangeAligned, NEW page \in PageIndices
        PROVE  TypesOf(Bits(page)) = IF FirstPage <= page /\ page < FirstPage + PagesAsked
                                     THEN {mtrr.mem_type} ELSE {MTRR_TYPE_UNCACHABLE}
    <3> DEFINE regions == {i \in Pairs : Holds(i, Bits(page))}
    <3>0. mtrr.range \in MtrrRanges
      BY DEF SetInv
    <3>1. FirstPage \in Nat /\ PagesAsked \in Nat /\ mtrr.num_pages = 0
      BY <1>3, <2>5, <3>0, RangeNumbers
    <3>2. NextPage = FirstPage + PagesAsked
      BY <3>1 DEF NextPage
    <3>3. page \in HeldBelow(mtrr.ndx) <=> FirstPage <= page /\ page < FirstPage + PagesAsked
      BY <1>3, <2>5, <3>2 DEF CoveredSoFar, PagesUsed
    <3>4. \A i \in Pairs : i \in Int /\ (i < mtrr.ndx \/ i >= mtrr.ndx)
      BY <1>1 DEF Pairs
    <3>5. \A i \in regions : i < mtrr.ndx
      BY <1>3, <3>4 DEF CoveredSoFar, PairsUsed, Holds
    <3>6. regions # {} <=> page \in HeldBelow(mtrr.ndx)
      BY <3>5 DEF HeldBelow
    <3>7. \A i \in regions : Field(msr.base[i], mtrr_physbase_t.type) = mtrr.mem_type
      BY <1>3, <3>5 DEF CoveredSoFar, PairsUsed
    <3>8. Field(msr.def_type, mtrr_def_type_t.type) = MTRR_TYPE_UNCACHABLE
      BY <1>3 DEF CoveredSoFar
    <3>9. TypesOf(Bits(page)) = IF regions = {} THEN {Field(msr.def_type, mtrr_def_type_t.type)}
                                ELSE {Field(msr.base[i], mtrr_physbase_t.type) : i \in regions}
      BY DEF TypesOf
    <3> HIDE DEF regions
    <3>10. regions # {} => {Field(msr.base[i], mtrr_physbase_t.type) : i \in regions} = {mtrr.mem_type}
      BY <3>7
    <3> QED
      BY <3>3, <3>6, <3>8, <3>9, <3>10
  <2> QED
    BY <2>4, <2>5
<1> QED
  BY <1>2, <1>3 DEF SetInv

LEMMA SamplesCovered == MtrrInv /\ SetInv /\ RangeCovered => MtrrTypeCovered
<1> SUFFICES ASSUME MtrrInv, SetInv, RangeCovered, mtrr.fn = "set_mem_type", MtrrAt("returned")
             PROVE  /\ mtrr.result = (vcnt <= MAX_VARIABLE_MTRRS /\ Cardinality(Bits(PagesAsked)) < vcnt)
                    /\ mtrr.result /\ RangeAligned =>
                         \A page \in SamplePages :
                           TypesOf(Bits(page)) = IF page \in FirstPage..(FirstPage + PagesAsked - 1)
                                                 THEN {mtrr.mem_type} ELSE {MTRR_TYPE_UNCACHABLE}
  BY DEF MtrrTypeCovered, PagesAsked, FirstPage, RangeAligned
<1>1. mtrr.result \in BOOLEAN
  BY DEF MtrrInv, MtrrCaller
<1>2. mtrr.result = (vcnt <= MAX_VARIABLE_MTRRS /\ Cardinality(Bits(PagesAsked)) < vcnt)
  <2> DEFINE enough == vcnt <= MAX_VARIABLE_MTRRS /\ Cardinality(Bits(PagesAsked)) < vcnt
  <2>1. mtrr.result <=> enough
    BY DEF RangeCovered
  <2>2. enough \in BOOLEAN
    OBVIOUS
  <2> HIDE DEF enough
  <2>3. mtrr.result = enough
    BY <1>1, <2>1, <2>2
  <2> QED
    BY <2>3 DEF enough
<1>3. \A page \in SamplePages : page \in PageIndices /\ page \in Nat
  <2>1. 2^22 = 1048576 * 4 /\ 2^23 = 1048576 * 8
    BY PowersOfTwo
  <2>2. \A page \in 0..31 : page \in Nat /\ page < 1048576 * 16
    BY SMT
  <2>3. \A p : p = 1048576 * 4 => p + 1 \in Nat /\ p + 1 < 1048576 * 16
    BY SMT
  <2>4. \A p : p = 1048576 * 8 => p \in Nat /\ p < 1048576 * 16
    BY SMT
  <2> DEFINE x == 2^22
             y == 2^23
  <2>5. x + 1 \in Nat /\ x + 1 < 1048576 * 16 /\ y \in Nat /\ y < 1048576 * 16
    BY <2>1, <2>3, <2>4
  <2>6. SamplePages = 0..31 \cup {x + 1, y}
    BY DEF SamplePages
  <2> HIDE DEF x, y
  <2>7. \A page \in SamplePages : page \in Nat /\ page < 1048576 * 16
    BY ONLY <2>2, <2>5, <2>6, SMT
  <2> QED
    BY <2>7 DEF PageIndices
<1>4. FirstPage \in Nat /\ PagesAsked \in Nat
  <2>1. mtrr.range \in MtrrRanges
    BY DEF SetInv
  <2> QED
    BY <2>1, RangeNumbers
<1>5. \A page \in SamplePages :
        page \in FirstPage..(FirstPage + PagesAsked - 1) <=> FirstPage <= page /\ page < FirstPage + PagesAsked
  BY ONLY <1>3, <1>4, SMT
<1>6. mtrr.result /\ RangeAligned =>
        \A page \in PageIndices :
          TypesOf(Bits(page)) = IF FirstPage <= page /\ page < FirstPage + PagesAsked
                                THEN {mtrr.mem_type} ELSE {MTRR_TYPE_UNCACHABLE}
  BY DEF RangeCovered
<1> QED
  BY <1>2, <1>3, <1>5, <1>6

(* When set_mem_type answers, it has answered TRUE exactly if the processor has a register more
   than the number of pages has bits, and no more registers than the code allows for; then, if
   the range begins at a multiple of the largest power of two in it, every page of the range has
   the type asked for and every other page is uncachable, for any range, type and number of pairs
   (xmhfhw_cpu_mtrrsetmemtype.c).  The argument: each pair that is written takes the highest bit
   of the pages that are left, so the pairs used and the bits left add up to the bits at first;
   and since the base stays a multiple of every power that is left, the mask of a pair holds
   the bits of its base for the pages of one block. *)
THEOREM RangeTyped == MtrrSpec => [](RangeCovered /\ MtrrTypeCovered)
<1>1. MtrrInit => SetInv
  BY SetInvInit
<1>2. MtrrInv /\ SetInv => RangeCovered /\ MtrrTypeCovered
  BY SetInvCovers, SamplesCovered
<1> QED
  BY <1>1, <1>2, MtrrInitially, MtrrPreserved, SetInvNext, PTL DEF MtrrSpec
-----------------------------------------------------------------------------
(* The network card: its registers hold what is written to them, small words here. *)
CardTyped(e) ==
  /\ DOMAIN e = DOMAIN E1000Offset \cup {"transmitting"}
  /\ \A r \in DOMAIN E1000Offset : e[r] \in 0..255
  /\ e["transmitting"] \in BOOLEAN
DevicesTyped ==
  /\ DOMAIN dev = {"e1000", "txt", "dataseg"} /\ CardTyped(dev.e1000)
  /\ \A w \in {1, 2} : dev.txt.mle_join[w] \in 0..256
  /\ DOMAIN dev.dataseg = {0, 8, 32} /\ \A w \in {0, 8, 32} : dev.dataseg[w] \in 0..255
(* What the call that runs was given. *)
Asks ==
  /\ DOMAIN plat = {"pc", "fn", "addr", "value", "answer"}
  /\ plat.pc \in {"write", "obj2sys"} => plat.value[1] \in 0..255
  /\ plat.pc = "obj2sys" => plat.addr = DATASEG_BASE
  /\ plat.pc = "write" /\ Wide => plat.addr \in Kept64 /\ plat.value[2] \in 0..256
  /\ plat.pc = "write_high" => plat.addr \in Kept64 /\ plat.value[2] \in 0..256
Timing == {"gate", "mode", "latch_low", "latch_high", "count", "close"}
LowByte == latchregval(plat.value[1]) % 256
HighByte == (latchregval(plat.value[1]) \div 256) % 256
(* How far the latch of the timer has been written, and when the gate is open. *)
PortsTyped ==
  /\ DOMAIN ports = {"p61", "latch", "out", "busy", "reset"}
  /\ ports.p61 \subseteq 0..7 /\ Len(ports.latch) \in 0..2
  /\ plat.pc \in Timing => plat.fn = "udelay"
  /\ plat.fn = "udelay" => plat.pc \in Timing \cup {"returned"}
  /\ plat.pc = "latch_low" => ports.latch = <<>>
  /\ plat.pc = "latch_high" => ports.latch = <<LowByte>>
  /\ plat.pc \in {"count", "close"} =>
       Len(ports.latch) = 2 /\ ports.latch[1] = LowByte /\ ports.latch[2] = HighByte
  /\ plat.pc = "close" => ports.out
  /\ plat.fn = "udelay" => plat.value[1] \in Nat
  /\ plat.pc = "returned" /\ plat.fn = "udelay" =>
       ports.out /\ 0 \notin ports.p61 /\ plat.answer[1] = LowByte /\ plat.answer[2] = HighByte
Pulsing == (plat.pc = "pulse" => ~ports.busy) /\ ResetIntoEmptyBuffer
PlatInv == DevicesTyped /\ Asks /\ PortsTyped /\ Pulsing /\ platcalls \in 0..MaxPlatformCalls

(* A write leaves the registers of the network card bytes. *)
LEMMA CardWritten ==
  ASSUME NEW e, CardTyped(e), NEW addr, NEW v \in 0..255
  PROVE  CardTyped(e1000_write(e, addr, v))
<1> DEFINE regs == E1000Regs(addr)
           D == DOMAIN E1000Offset
<1>1. regs \subseteq D
  BY DEF E1000Regs
<1>2. "tdt" \in D /\ "eecd" \in D /\ "transmitting" \notin D
  BY DEF E1000Offset
<1>3. DOMAIN e = D \cup {"transmitting"} /\ (\A r \in D : e[r] \in 0..255) /\ e["transmitting"] \in BOOLEAN
  BY DEF CardTyped
<1>r. "tdt" \in regs => "eecd" \notin regs
  <2>1. E1000Offset["tdt"] = 14360 /\ E1000Offset["eecd"] = 16
    BY DEF E1000Offset
  <2>2. \A r \in regs : addr = E1000_HWADDR_BASE + E1000Offset[r]
    BY DEF E1000Regs
  <2>3. E1000_HWADDR_BASE \in Int
    BY DEF E1000_HWADDR_BASE, Addr
  <2> HIDE DEF regs
  <2> QED
    BY <2>1, <2>2, <2>3
<1> HIDE DEF regs, D
<1> DEFINE
  sent == [e EXCEPT !.tdt = v, !.transmitting = @ \/ E1000_TCTL_EN \in Bits(e.tctl)]
  granted == IF E1000_EECD_REQ \in Bits(v) /\ E1000_EECD_GNT \notin Bits(v) THEN v + 2^E1000_EECD_GNT ELSE v
  given == [e EXCEPT !.eecd = granted]
  others == [r \in DOMAIN e |-> IF r \in regs THEN v ELSE e[r]]
<1>0. e1000_write(e, addr, v) = CASE "tdt" \in regs -> sent [] "eecd" \in regs -> given [] OTHER -> others
  BY Zenon DEF e1000_write, regs
<1>s. DOMAIN sent = DOMAIN e /\ (\A r \in D : sent[r] \in 0..255)
  BY <1>2, <1>3
<1>t. sent["transmitting"] \in BOOLEAN
  BY <1>2, <1>3
<1>k. DOMAIN others = DOMAIN e /\ (\A r \in D : others[r] \in 0..255)
  BY <1>3
<1>l. others["transmitting"] = e["transmitting"]
  BY <1>1, <1>2, <1>3
<1>g. granted \in 0..255
  <3>1. 2^E1000_EECD_GNT = 128
    BY PowersOfTwo DEF E1000_EECD_GNT
  <3>2. 7 \notin Bits(v) => v < 128
    <4>1. PICK pow \in [0..30 -> Nat] :
            pow[7] = 128 /\ \A m : Bits(m) = {b \in 0..30 : (m \div pow[b]) % 2 = 1}
      BY TableOfPowers
    <4>2. 7 \notin Bits(v) => (v \div 128) % 2 # 1
      BY <4>1
    <4>3. (v \div 128) % 2 # 1 => v < 128
      OBVIOUS
    <4> QED
      BY <4>2, <4>3
  <3> QED
    BY <3>1, <3>2 DEF E1000_EECD_GNT
<1> HIDE DEF granted
<1>h. DOMAIN given = DOMAIN e /\ (\A r \in D : given[r] \in 0..255)
  BY <1>2, <1>3, <1>g
<1>i. given["transmitting"] = e["transmitting"]
  BY <1>2, <1>3, <1>g
<1> HIDE DEF sent, given, others
<1>4. CASE "tdt" \in regs
  <2>1. e1000_write(e, addr, v) = sent
    BY <1>0, <1>4, <1>r
  <2> QED
    BY <2>1, <1>3, <1>s, <1>t DEF CardTyped, D
<1>5. CASE "tdt" \notin regs /\ "eecd" \in regs
  <2>1. e1000_write(e, addr, v) = given
    BY <1>0, <1>5
  <2> QED
    BY <2>1, <1>3, <1>h, <1>i DEF CardTyped, D
<1>6. CASE "tdt" \notin regs /\ "eecd" \notin regs
  <2>1. e1000_write(e, addr, v) = others
    BY <1>0, <1>6
  <2> QED
    BY <2>1, <1>3, <1>k, <1>l DEF CardTyped, D
<1> QED
  BY <1>4, <1>5, <1>6

(* Ending a transmission leaves the registers of the network card bytes. *)
LEMMA CardRead ==
  ASSUME NEW e, CardTyped(e), NEW addr
  PROVE  CardTyped(e1000_settle(e, addr))
<1> DEFINE D == DOMAIN E1000Offset
           f == [e EXCEPT !.tdh = e.tdt, !.transmitting = FALSE]
<1>1. "tdt" \in D /\ "tdh" \in D /\ "transmitting" \notin D
  BY DEF E1000Offset
<1>2. DOMAIN e = D \cup {"transmitting"} /\ (\A r \in D : e[r] \in 0..255) /\ e["transmitting"] \in BOOLEAN
  BY DEF CardTyped
<1> HIDE DEF D
<1>3. DOMAIN f = DOMAIN e /\ (\A r \in D : f[r] \in 0..255)
  BY <1>1, <1>2
<1>4. f["transmitting"] \in BOOLEAN
  BY <1>1, <1>2
<1>5. CardTyped(f)
  BY <1>2, <1>3, <1>4 DEF CardTyped, D
<1> QED
  BY <1>5 DEF e1000_settle

(* The addresses that are read and written twice, as 64 bits, are not those of the network card. *)
LEMMA JoinApart ==
  \A a \in Kept64 : ~In(a, E1000_HWADDR_BASE, E1000_HWADDR_SIZE) /\ ~In(a + 4, E1000_HWADDR_BASE, E1000_HWADDR_SIZE)
<1>1. E1000_HWADDR_BASE = 30660 * 65536 /\ E1000_HWADDR_SIZE = 36864
  BY DEF E1000_HWADDR_BASE, E1000_HWADDR_SIZE, Addr
<1>2. \A a \in Kept64 : a = 32466 * 65536 + 656
  <2>1. TXT_PRIV_CONFIG_REGS_BASE + TXTCR_MLE_JOIN = 32466 * 65536 + 656
    BY DEF TXT_PRIV_CONFIG_REGS_BASE, TXTCR_MLE_JOIN, Addr
  <2> QED
    BY <2>1 DEF Kept64
<1>3. ASSUME NEW a \in Int, a >= 32466 * 65536
      PROVE  ~In(a, E1000_HWADDR_BASE, E1000_HWADDR_SIZE)
  <2>1. /\ E1000_HWADDR_BASE \in Int /\ E1000_HWADDR_SIZE \in Int
        /\ E1000_HWADDR_BASE + E1000_HWADDR_SIZE - 1 < a
    BY <1>1, <1>3
  <2> QED
    BY <1>3, <2>1 DEF In
<1> QED
  BY <1>2, <1>3

(* A word written anywhere leaves the types of the devices. *)
LEMMA WordStored ==
  ASSUME DevicesTyped, NEW addr, NEW v \in 0..256,
         In(addr, E1000_HWADDR_BASE, E1000_HWADDR_SIZE) => v \in 0..255,
         dev' = cpu_sysmemwrite(dev, addr, v)
  PROVE  DevicesTyped'
<1>1. CASE In(addr, E1000_HWADDR_BASE, E1000_HWADDR_SIZE)
  <2>1. dev' = [dev EXCEPT !.e1000 = e1000_write(dev.e1000, addr, v)]
    BY <1>1 DEF cpu_sysmemwrite
  <2>2. CardTyped(e1000_write(dev.e1000, addr, v))
    BY <1>1, CardWritten DEF DevicesTyped
  <2>3. dev'.e1000 = e1000_write(dev.e1000, addr, v) /\ dev'.txt = dev.txt /\ dev'.dataseg = dev.dataseg
        /\ DOMAIN dev' = DOMAIN dev
    BY <2>1 DEF DevicesTyped
  <2> QED
    BY <2>2, <2>3 DEF DevicesTyped
<1>2. CASE ~In(addr, E1000_HWADDR_BASE, E1000_HWADDR_SIZE)
  <2>1. dev' = [dev EXCEPT !.txt = txt_write(dev.txt, addr, v)]
    BY <1>2 DEF cpu_sysmemwrite
  <2>2. \A w \in {1, 2} : txt_write(dev.txt, addr, v).mle_join[w] \in 0..256
    BY DEF txt_write, DevicesTyped
  <2>3. dev'.txt = txt_write(dev.txt, addr, v) /\ dev'.e1000 = dev.e1000 /\ dev'.dataseg = dev.dataseg
        /\ DOMAIN dev' = DOMAIN dev
    BY <2>1 DEF DevicesTyped
  <2>4. DOMAIN dev' = {"e1000", "txt", "dataseg"}
    BY <2>3 DEF DevicesTyped
  <2>5. CardTyped(dev'.e1000)
    BY <2>3 DEF DevicesTyped
  <2>6. \A w \in {1, 2} : dev'.txt.mle_join[w] \in 0..256
    BY <2>2, <2>3
  <2>7. DOMAIN dev'.dataseg = {0, 8, 32} /\ \A w \in {0, 8, 32} : dev'.dataseg[w] \in 0..255
    BY <2>3 DEF DevicesTyped
  <2> QED
    BY <2>4, <2>5, <2>6, <2>7, Zenon DEF DevicesTyped
<1> QED
  BY <1>1, <1>2

(* The calls that can be made. *)
Callable(fn, pc, addr, value) ==
  \/ fn \in {"readu32", "read_config_reg"} /\ pc = "read"
  \/ fn = "writeu32" /\ pc = "write" /\ addr \in WriteAddrs /\ value[1] \in 0..255
  \/ /\ fn = "write_config_reg" /\ pc = "write" /\ addr \in Kept64
     /\ value[1] \in 0..255 /\ value[2] \in 0..256
  \/ fn = "copy_obj2sys" /\ pc = "obj2sys" /\ addr = DATASEG_BASE /\ value[1] \in 0..255
  \/ fn = "udelay" /\ pc = "gate" /\ value[1] \in Nat
  \/ <<fn, pc>> \in {<<"txt_heap", "heap">>, <<"getRSDP", "ebda">>, <<"cpu_queries", "cpu">>, <<"reboot", "flush">>}
(* Every call that can be made begins where, and with the arguments, that Callable says. *)
LEMMA CallsKnown ==
  ASSUME NEW c \in PlatCallSet
  PROVE  \E fn, pc, addr, value : c = CallOf(fn, pc, addr, value) /\ Callable(fn, pc, addr, value)
<1>1. \A w \in WrittenWords : w \in 0..255 /\ w + 1 \in 0..256
  BY PlatformConstants
<1>2. \A d \in Delays : d \in Nat
  BY PlatformConstants
<1>3. (\A a : Callable("readu32", "read", a, <<0, 0>>)) /\ (\A a : Callable("read_config_reg", "read", a, <<0, 0>>))
  BY DEF Callable
<1>4. \A a \in WriteAddrs : \A w \in WrittenWords : Callable("writeu32", "write", a, <<w, 0>>)
  BY <1>1 DEF Callable
<1>5. \A a \in Kept64, w \in WrittenWords : Callable("write_config_reg", "write", a, <<w, w + 1>>)
  BY <1>1 DEF Callable
<1>6. \A w \in WrittenWords : Callable("copy_obj2sys", "obj2sys", DATASEG_BASE, <<w, 0>>)
  BY <1>1 DEF Callable
<1>7. \A d \in Delays : Callable("udelay", "gate", 0, <<d, 0>>)
  BY <1>2 DEF Callable
<1>8. \A f \in {<<"txt_heap", "heap">>, <<"getRSDP", "ebda">>, <<"cpu_queries", "cpu">>, <<"reboot", "flush">>} :
        Callable(f[1], f[2], 0, <<0, 0>>)
  BY DEF Callable
<1> DEFINE
  Calls1 == {CallOf("readu32", "read", a, <<0, 0>>) : a \in ReadAddrs}
  Calls2 == {CallOf("writeu32", "write", a, <<w, 0>>) : a \in WriteAddrs, w \in WrittenWords}
  Calls3 == {CallOf("read_config_reg", "read", a, <<0, 0>>) : a \in Kept64}
  Calls4 == {CallOf("write_config_reg", "write", a, <<w, w + 1>>) : a \in Kept64, w \in WrittenWords}
  Calls5 == {CallOf("copy_obj2sys", "obj2sys", DATASEG_BASE, <<w, 0>>) : w \in WrittenWords}
  Calls6 == {CallOf("udelay", "gate", 0, <<d, 0>>) : d \in Delays}
  Calls7 == {CallOf(f[1], f[2], 0, <<0, 0>>) : f \in 
             {<<"txt_heap", "heap">>, <<"getRSDP", "ebda">>, <<"cpu_queries", "cpu">>, <<"reboot", "flush">>}}
<1>9. ASSUME NEW fn, NEW pc, NEW addr, NEW value, Callable(fn, pc, addr, value), c = CallOf(fn, pc, addr, value)
      PROVE  \E f, p, a, v : c = CallOf(f, p, a, v) /\ Callable(f, p, a, v)
  BY <1>9, Zenon
<1>b1. CASE c \in Calls1
  <2>1. PICK a \in ReadAddrs : c = CallOf("readu32", "read", a, <<0, 0>>)
    BY <1>b1, Zenon
  <2> QED
    BY <1>3, <1>9, <2>1, Zenon
<1>b2. CASE c \in Calls2
  <2>1. PICK a \in WriteAddrs, w \in WrittenWords : c = CallOf("writeu32", "write", a, <<w, 0>>)
    BY <1>b2
  <2> QED
    BY <1>4, <1>9, <2>1
<1>b3. CASE c \in Calls3
  <2>1. PICK a \in Kept64 : c = CallOf("read_config_reg", "read", a, <<0, 0>>)
    BY <1>b3, Zenon
  <2> QED
    BY <1>3, <1>9, <2>1, Zenon
<1>b4. CASE c \in Calls4
  <2>1. PICK a \in Kept64, w \in WrittenWords : c = CallOf("write_config_reg", "write", a, <<w, w + 1>>)
    BY <1>b4
  <2> QED
    BY <1>5, <1>9, <2>1, Zenon
<1>b5. CASE c \in Calls5
  <2>1. PICK w \in WrittenWords : c = CallOf("copy_obj2sys", "obj2sys", DATASEG_BASE, <<w, 0>>)
    BY <1>b5, Zenon
  <2> QED
    BY <1>6, <1>9, <2>1
<1>b6. CASE c \in Calls6
  <2>1. PICK d \in Delays : c = CallOf("udelay", "gate", 0, <<d, 0>>)
    BY <1>b6, Zenon
  <2> QED
    BY <1>7, <1>9, <2>1, Zenon
<1>b7. CASE c \in Calls7
  <2>1. PICK f \in
             {<<"txt_heap", "heap">>, <<"getRSDP", "ebda">>, <<"cpu_queries", "cpu">>, <<"reboot", "flush">>} :
               c = CallOf(f[1], f[2], 0, <<0, 0>>)
    BY <1>b7, Zenon
  <2> QED
    BY <1>8, <1>9, <2>1, Zenon
<1>c. c \in Calls1 \/ c \in Calls2 \/ c \in Calls3 \/ c \in Calls4 \/ c \in Calls5 \/ c \in Calls6 \/ c \in Calls7
  <2>1. PlatCallSet = Calls1 \cup Calls2 \cup Calls3 \cup Calls4 \cup Calls5 \cup Calls6 \cup Calls7
    BY DEF PlatCallSet
  <2> HIDE DEF Calls1, Calls2, Calls3, Calls4, Calls5, Calls6, Calls7
  <2> QED
    BY <2>1
<1> HIDE DEF Calls1, Calls2, Calls3, Calls4, Calls5, Calls6, Calls7
<1> QED
  BY <1>b1, <1>b2, <1>b3, <1>b4, <1>b5, <1>b6, <1>b7, <1>c, Zenon

(* Devices of which only the network card changes keep their types. *)
LEMMA CardAlone ==
  ASSUME DevicesTyped, CardTyped(dev'.e1000), dev'.txt = dev.txt, dev'.dataseg = dev.dataseg,
         DOMAIN dev' = DOMAIN dev
  PROVE  DevicesTyped'
<1>1. \A w \in {1, 2} : dev'.txt.mle_join[w] \in 0..256
  BY DEF DevicesTyped
<1>2. DOMAIN dev'.dataseg = {0, 8, 32} /\ \A w \in {0, 8, 32} : dev'.dataseg[w] \in 0..255
  BY DEF DevicesTyped
<1>3. DOMAIN dev' = {"e1000", "txt", "dataseg"}
  BY DEF DevicesTyped
<1> HIDE DEF CardTyped
<1> QED
  BY <1>1, <1>2, <1>3 DEF DevicesTyped

(* Devices that are not accessed keep their types. *)
LEMMA DevicesStay ==
  ASSUME DevicesTyped, dev' = dev
  PROVE  DevicesTyped'
<1>1. CardTyped(dev'.e1000)
  BY DEF DevicesTyped
<1>2. \A w \in {1, 2} : dev'.txt.mle_join[w] \in 0..256
  BY DEF DevicesTyped
<1> QED
  BY <1>1, <1>2 DEF DevicesTyped

(* What a jump leaves alone. *)
LEMMA GoneTo ==
  ASSUME Asks, NEW p, PlatGoto(p)
  PROVE  /\ DOMAIN plat' = DOMAIN plat /\ plat'.pc = p /\ plat'.fn = plat.fn
         /\ plat'.addr = plat.addr /\ plat'.value = plat.value
  BY DEF Asks, PlatGoto

(* What a return leaves alone. *)
LEMMA Answered ==
  ASSUME Asks
  PROVE  \A a : PlatReturn(a) =>
           /\ DOMAIN plat' = DOMAIN plat /\ plat'.pc = "returned" /\ plat'.fn = plat.fn
           /\ plat'.addr = plat.addr /\ plat'.value = plat.value /\ plat'.answer = a
  BY DEF Asks, PlatReturn

(* What is left to show of a step that asks no port. *)
LEMMA PortsAlone ==
  ASSUME PlatInv, ports' = ports, platcalls' = platcalls, DevicesTyped', Asks',
         plat'.fn # "udelay", plat'.pc \notin Timing \cup {"pulse"}
  PROVE  PlatInv'
<1>1. PortsTyped'
  BY DEF PlatInv, PortsTyped, Timing
<1>2. Pulsing'
  BY DEF PlatInv, Pulsing, ResetIntoEmptyBuffer
<1>3. platcalls' \in 0..MaxPlatformCalls
  BY DEF PlatInv
<1> QED
  BY <1>1, <1>2, <1>3 DEF PlatInv

(* The same when the step returns. *)
LEMMA ReturnAlone ==
  ASSUME PlatInv, ports' = ports, platcalls' = platcalls, DevicesTyped',
         plat.pc \notin Timing \cup {"returned"}, \E a : PlatReturn(a)
  PROVE  PlatInv'
<1>1. Asks
  BY DEF PlatInv
<1>2. /\ DOMAIN plat' = DOMAIN plat /\ plat'.pc = "returned" /\ plat'.fn = plat.fn
  BY <1>1, Answered
<1>3. Asks'
  BY <1>1, <1>2 DEF Asks
<1>4. plat'.fn # "udelay"
  BY <1>2 DEF PlatInv, PortsTyped
<1> QED
  BY <1>2, <1>3, <1>4, PortsAlone DEF Timing

(* Reading system memory preserves the invariant. *)
LEMMA ReadKeeps ==
  ASSUME PlatInv, ReadSysmem, platcalls' = platcalls
  PROVE  PlatInv'
<1>1. DevicesTyped /\ Asks
  BY DEF PlatInv
<1>2. ASSUME dev' = AfterRead(dev, plat.addr)
      PROVE  DevicesTyped'
  <2>1. CardTyped(e1000_settle(dev.e1000, plat.addr))
    BY <1>1, CardRead DEF DevicesTyped
  <2>2. dev'.e1000 = e1000_settle(dev.e1000, plat.addr) /\ dev'.txt = dev.txt /\ dev'.dataseg = dev.dataseg
        /\ DOMAIN dev' = DOMAIN dev
    BY <1>1, <1>2 DEF AfterRead, DevicesTyped
  <2>3. CardTyped(dev'.e1000)
    BY <2>1, <2>2
  <2> QED
    BY <1>1, <2>2, <2>3, CardAlone
<1>3. CASE PlatAt("read") /\ Wide /\ PlatGoto("read_high") /\ dev' = AfterRead(dev, plat.addr)
  <2>1. DOMAIN plat' = DOMAIN plat /\ plat'.pc = "read_high" /\ plat'.fn = plat.fn
    BY <1>1, <1>3, GoneTo
  <2>2. Asks' /\ plat'.fn # "udelay"
    BY <1>1, <1>3, <2>1 DEF Asks, Wide
  <2> QED
    BY <1>2, <1>3, <2>1, <2>2, PortsAlone DEF Timing, ReadSysmem
<1>4. CASE PlatAt("read") /\ (\E a : PlatReturn(a)) /\ dev' = AfterRead(dev, plat.addr)
  BY <1>2, <1>4, ReturnAlone DEF Timing, ReadSysmem, PlatAt
<1>5. CASE PlatAt("read_high") /\ (\E a : PlatReturn(a)) /\ UNCHANGED dev
  <2>1. DevicesTyped'
    BY <1>1, <1>5, DevicesStay
  <2> QED
    BY <2>1, <1>5, ReturnAlone DEF Timing, ReadSysmem, PlatAt
<1> QED
  BY <1>3, <1>4, <1>5 DEF ReadSysmem

(* Writing system memory preserves the invariant. *)
LEMMA WriteKeeps ==
  ASSUME PlatInv, WriteSysmem, platcalls' = platcalls
  PROVE  PlatInv'
<1>1. DevicesTyped /\ Asks
  BY DEF PlatInv
<1>2. CASE PlatAt("write")
  <2>1. plat.value[1] \in 0..255 /\ plat.value[1] \in 0..256
    BY <1>1, <1>2 DEF Asks, PlatAt
  <2>2. dev' = cpu_sysmemwrite(dev, plat.addr, plat.value[1])
    BY <1>2 DEF WriteSysmem, StoreWord, PlatAt
  <2>3. DevicesTyped'
    BY <1>1, <2>1, <2>2, WordStored
  <2>4. CASE Wide /\ PlatGoto("write_high")
    <3>1. DOMAIN plat' = DOMAIN plat /\ plat'.pc = "write_high" /\ plat'.fn = plat.fn
          /\ plat'.addr = plat.addr /\ plat'.value = plat.value
      BY <1>1, <2>4, GoneTo
    <3>2. Asks' /\ plat'.fn # "udelay"
      BY <1>1, <1>2, <2>4, <3>1 DEF Asks, Wide, PlatAt
    <3> QED
      BY <2>3, <3>1, <3>2, PortsAlone DEF Timing, WriteSysmem
  <2>5. CASE PlatReturn(<<>>)
    BY <1>2, <2>3, <2>5, ReturnAlone DEF Timing, WriteSysmem, PlatAt
  <2> QED
    BY <1>2, <2>4, <2>5 DEF WriteSysmem, PlatAt
<1>3. CASE PlatAt("write_high")
  <2>1. plat.addr \in Kept64 /\ plat.value[2] \in 0..256
    BY <1>1, <1>3 DEF Asks, PlatAt
  <2>2. dev' = cpu_sysmemwrite(dev, plat.addr + 4, plat.value[2]) /\ PlatReturn(<<>>)
    BY <1>3 DEF WriteSysmem, StoreWord, PlatAt
  <2>3. DevicesTyped'
    <3>1. ~In(plat.addr + 4, E1000_HWADDR_BASE, E1000_HWADDR_SIZE)
      BY <2>1, JoinApart
    <3> QED
      BY <1>1, <2>1, <2>2, <3>1, WordStored
  <2> QED
    BY <1>3, <2>2, <2>3, ReturnAlone DEF Timing, WriteSysmem, PlatAt
<1> QED
  BY <1>2, <1>3 DEF WriteSysmem

(* A copy into low memory preserves the invariant. *)
LEMMA CopyKeeps ==
  ASSUME PlatInv, CopyToSysmem, platcalls' = platcalls
  PROVE  PlatInv'
<1>1. DevicesTyped /\ Asks
  BY DEF PlatInv
<1>2. plat.pc = "obj2sys" /\ plat.addr = DATASEG_BASE /\ plat.value[1] \in 0..255
  BY <1>1 DEF CopyToSysmem, PlatAt, Asks
<1> DEFINE d == dev.dataseg
           words == [w \in {0, 8, 32} |-> plat.value[1]]
           after == [w \in DOMAIN d |-> IF In(DATASEG_BASE + w, plat.addr, 12) THEN words[w] ELSE d[w]]
<1>3. dev' = [dev EXCEPT !.dataseg = mem_obj2sys(d, plat.addr, 12, words)[1]] /\ PlatReturn(<<>>)
  BY DEF CopyToSysmem
<1>4. mem_obj2sys(d, plat.addr, 12, words) = <<after>>
  <2>1. Within(plat.addr, 12, DATASEG_BASE, 256)
    BY <1>2 DEF Within, DATASEG_BASE, Addr
  <2>2. ~Within(plat.addr, 12, CODESEG_BASE, 4096)
    BY <1>2 DEF Within, DATASEG_BASE, CODESEG_BASE, Addr
  <2> QED
    BY <2>1, <2>2 DEF mem_obj2sys, Answer
<1>5. DOMAIN after = {0, 8, 32} /\ \A w \in {0, 8, 32} : after[w] \in 0..255
  BY <1>1, <1>2 DEF DevicesTyped
<1> HIDE DEF after, words, d
<1>6. dev'.dataseg = after /\ dev'.e1000 = dev.e1000 /\ dev'.txt = dev.txt /\ DOMAIN dev' = DOMAIN dev
  BY <1>1, <1>3, <1>4 DEF DevicesTyped
<1>7. DevicesTyped'
  BY <1>1, <1>5, <1>6 DEF DevicesTyped
<1> QED
  BY <1>2, <1>3, <1>7, ReturnAlone DEF Timing, CopyToSysmem

(* The walk through the TXT heap preserves the invariant. *)
LEMMA HeapWalkKeeps ==
  ASSUME PlatInv, WalkHeap, platcalls' = platcalls
  PROVE  PlatInv'
<1>1. plat.pc = "heap" /\ ports' = ports /\ dev' = dev
  BY DEF WalkHeap, PlatAt
<1>2. \E a : PlatReturn(a)
  BY Zenon DEF WalkHeap
<1>3. DevicesTyped'
  BY <1>1, DevicesStay DEF PlatInv
<1> QED
  BY <1>1, <1>2, <1>3, ReturnAlone DEF Timing

(* The search for the root pointer preserves the invariant. *)
LEMMA SearchKeeps ==
  ASSUME PlatInv, getRSDP, platcalls' = platcalls
  PROVE  PlatInv'
<1>1. plat.pc \in {"ebda", "rom"} /\ ports' = ports /\ dev' = dev
  BY DEF getRSDP, PlatAt
<1>2. PlatGoto("rom") \/ \E a : PlatReturn(a)
  <2>1. ASSUME NEW found, IF found # {} THEN PlatReturn(<<First(found)>>) ELSE PlatGoto("rom")
        PROVE  PlatGoto("rom") \/ \E a : PlatReturn(a)
    BY <2>1
  <2>2. ASSUME NEW found, IF found # {} THEN PlatReturn(<<First(found)>>) ELSE PlatReturn(<<Addr(0, 0)>>)
        PROVE  \E a : PlatReturn(a)
    BY <2>2
  <2> DEFINE
    ebdaphys == Addr(0, 0) + 16 * cpu_sysmemread(dev, BIOS_BDA_BASE + 14)[1]
    low == RootPointers(ebdaphys, ebdaphys + 1016)
    high == RootPointers(Addr(14, 0), Addr(15, 65527))
  <2>3. \/ IF low # {} THEN PlatReturn(<<First(low)>>) ELSE PlatGoto("rom")
        \/ IF high # {} THEN PlatReturn(<<First(high)>>) ELSE PlatReturn(<<Addr(0, 0)>>)
    BY DEF getRSDP
  <2> HIDE DEF low, high
  <2> QED
    BY <2>1, <2>2, <2>3
<1>3. DevicesTyped' /\ Asks /\ plat.fn # "udelay"
  BY <1>1, DevicesStay DEF PlatInv, PortsTyped, Timing
<1>4. CASE PlatGoto("rom")
  <2>1. DOMAIN plat' = DOMAIN plat /\ plat'.pc = "rom" /\ plat'.fn = plat.fn
    BY <1>3, <1>4, GoneTo
  <2>2. Asks'
    BY <1>3, <2>1 DEF Asks
  <2> QED
    BY <1>1, <1>3, <2>1, <2>2, PortsAlone DEF Timing
<1>5. CASE \E a : PlatReturn(a)
  BY <1>1, <1>3, <1>5, ReturnAlone DEF Timing
<1> QED
  BY <1>2, <1>4, <1>5

(* Questions about the CPU preserve the invariant. *)
LEMMA QueriesKeep ==
  ASSUME PlatInv, cpu_queries, platcalls' = platcalls
  PROVE  PlatInv'
<1>1. plat.pc = "cpu" /\ ports' = ports /\ dev' = dev
  BY DEF cpu_queries, PlatAt
<1>2. \E a : PlatReturn(a)
  BY Zenon DEF cpu_queries
<1>3. DevicesTyped'
  BY <1>1, DevicesStay DEF PlatInv
<1> QED
  BY <1>1, <1>2, <1>3, ReturnAlone DEF Timing

(* Going back to rest preserves the invariant. *)
LEMMA PlatDoneKeeps ==
  ASSUME PlatInv, PlatDone, platcalls' = platcalls
  PROVE  PlatInv'
<1>1. ports' = ports /\ dev' = dev /\ plat' = NoPlatCall
  BY DEF PlatDone
<1>2. DevicesTyped'
  BY <1>1, DevicesStay DEF PlatInv
<1>3. Asks'
  BY <1>1 DEF Asks, NoPlatCall
<1>4. plat'.fn # "udelay" /\ plat'.pc = "idle"
  BY <1>1 DEF NoPlatCall
<1> QED
  BY <1>1, <1>2, <1>3, <1>4, PortsAlone DEF Timing

(* A new call preserves the invariant. *)
LEMMA CallKeeps ==
  ASSUME PlatInv, PlatCall
  PROVE  PlatInv'
<1>1. ports' = ports /\ dev' = dev /\ platcalls' = platcalls + 1 /\ platcalls < MaxPlatformCalls
  BY DEF PlatCall
<1>2. DevicesTyped'
  BY <1>1, DevicesStay DEF PlatInv
<1>3. PICK fn, pc, addr, value : plat' = CallOf(fn, pc, addr, value) /\ Callable(fn, pc, addr, value)
  <2>1. PICK c \in PlatCallSet : plat' = c
    BY DEF PlatCall
  <2> QED
    BY <2>1, CallsKnown
<1>4. /\ DOMAIN plat' = {"pc", "fn", "addr", "value", "answer"} /\ plat'.fn = fn /\ plat'.pc = pc
      /\ plat'.addr = addr /\ plat'.value = value
  BY <1>3 DEF CallOf, NoPlatCall
<1>5. Asks'
  BY <1>3, <1>4 DEF Asks, Wide, Callable
<1>6. PortsTyped'
  BY <1>1, <1>3, <1>4 DEF PlatInv, PortsTyped, Timing, Callable
<1>7. Pulsing'
  BY <1>1, <1>3, <1>4 DEF PlatInv, Pulsing, ResetIntoEmptyBuffer, Callable
<1>8. platcalls' \in 0..MaxPlatformCalls
  BY <1>1, PlatformConstants DEF PlatInv
<1> QED
  BY <1>2, <1>5, <1>6, <1>7, <1>8 DEF PlatInv

(* The steps of a delay, the timer and the keyboard controller touch only the ports. *)
LEMMA PortsChange ==
  ASSUME PlatInv, dev' = dev, platcalls' = platcalls, PortsTyped', Pulsing',
         plat'.pc \notin {"write", "write_high", "obj2sys"},
         DOMAIN plat' = DOMAIN plat
  PROVE  PlatInv'
<1>1. DevicesTyped'
  BY DevicesStay DEF PlatInv
<1>2. Asks'
  BY DEF PlatInv, Asks
<1> QED
  BY <1>1, <1>2 DEF PlatInv

(* Every step of a delay preserves the invariant. *)
LEMMA DelayKeeps ==
  ASSUME PlatInv, udelay, platcalls' = platcalls
  PROVE  PlatInv'
<1>1. Asks /\ PortsTyped /\ Pulsing /\ dev' = dev /\ plat.pc \in Timing
  BY DEF PlatInv, udelay, PlatAt, Timing
<1>2. plat.fn = "udelay"
  BY <1>1 DEF PortsTyped
<1>3. ASSUME NEW p \in {"mode", "latch_low", "latch_high", "count", "close"}, PlatGoto(p)
      PROVE  /\ DOMAIN plat' = DOMAIN plat /\ plat'.pc = p /\ plat'.fn = "udelay" /\ plat'.value = plat.value
             /\ LowByte' = LowByte /\ HighByte' = HighByte
  BY <1>1, <1>2, <1>3, GoneTo DEF LowByte, HighByte
<1>4. CASE plat.pc = "gate"
  <2>1. ports' = [ports EXCEPT !.p61 = (ports.p61 \cap {0, 2, 3}) \cup {0}] /\ PlatGoto("mode")
    BY <1>4 DEF udelay, PlatAt, OutP61
  <2>2. PortsTyped' /\ Pulsing'
    BY <1>1, <2>1, <1>3 DEF PortsTyped, Pulsing, ResetIntoEmptyBuffer, Timing
  <2> QED
    BY <1>1, <1>3, <2>1, <2>2, PortsChange
<1>5. CASE plat.pc = "mode"
  <2>1. ports' = [ports EXCEPT !.latch = <<>>, !.out = FALSE] /\ PlatGoto("latch_low")
    BY <1>5 DEF udelay, PlatAt
  <2>2. PortsTyped' /\ Pulsing'
    BY <1>1, <2>1, <1>3 DEF PortsTyped, Pulsing, ResetIntoEmptyBuffer, Timing
  <2> QED
    BY <1>1, <1>3, <2>1, <2>2, PortsChange
<1>6. CASE plat.pc = "latch_low"
  <2>0. ports' = [ports EXCEPT !.latch = Append(ports.latch, LowByte)] /\ PlatGoto("latch_high")
    BY <1>6 DEF udelay, PlatAt, OutLatch, LowByte
  <2>1. ports' = [ports EXCEPT !.latch = <<LowByte>>] /\ PlatGoto("latch_high")
    <3>1. ports.latch = <<>>
      BY <1>1, <1>6 DEF PortsTyped
    <3>2. Append(<<>>, LowByte) = <<LowByte>>
      OBVIOUS
    <3> QED
      BY <2>0, <3>1, <3>2
  <2>2. PortsTyped' /\ Pulsing'
    BY <1>1, <2>1, <1>3 DEF PortsTyped, Pulsing, ResetIntoEmptyBuffer, Timing
  <2> QED
    BY <1>1, <1>3, <2>1, <2>2, PortsChange
<1>7. CASE plat.pc = "latch_high"
  <2>0. ports' = [ports EXCEPT !.latch = Append(ports.latch, HighByte)] /\ PlatGoto("count")
    BY <1>7 DEF udelay, PlatAt, OutLatch, HighByte
  <2>1. Len(Append(ports.latch, HighByte)) = 2 /\ Append(ports.latch, HighByte)[1] = LowByte
        /\ Append(ports.latch, HighByte)[2] = HighByte
    <3>1. ports.latch = <<LowByte>>
      BY <1>1, <1>7 DEF PortsTyped
    <3>2. \A x, y : Len(Append(<<x>>, y)) = 2 /\ Append(<<x>>, y)[1] = x /\ Append(<<x>>, y)[2] = y
      OBVIOUS
    <3> QED
      BY <3>1, <3>2
  <2>2. PortsTyped' /\ Pulsing'
    BY <1>1, <2>0, <2>1, <1>3 DEF PortsTyped, Pulsing, ResetIntoEmptyBuffer, Timing
  <2> QED
    BY <1>1, <1>3, <2>0, <2>2, PortsChange
<1>8. CASE plat.pc = "count"
  <2>1. ports' = ports /\ ports.out /\ PlatGoto("close")
    BY <1>8 DEF udelay, PlatAt
  <2>2. PortsTyped' /\ Pulsing'
    BY <1>1, <1>8, <2>1, <1>3 DEF PortsTyped, Pulsing, ResetIntoEmptyBuffer, Timing
  <2> QED
    BY <1>1, <1>3, <2>1, <2>2, PortsChange
<1>9. CASE plat.pc = "close"
  <2>1. ports' = [ports EXCEPT !.p61 = ports.p61 \cap {2, 3}] /\ PlatReturn(ports.latch)
    BY <1>9 DEF udelay, PlatAt, OutP61
  <2>2. /\ DOMAIN plat' = DOMAIN plat /\ plat'.pc = "returned" /\ plat'.fn = "udelay" /\ plat'.value = plat.value
        /\ plat'.answer = ports.latch /\ LowByte' = LowByte /\ HighByte' = HighByte
    BY <1>1, <1>2, <2>1, Answered DEF LowByte, HighByte
  <2>3. PortsTyped' /\ Pulsing'
    BY <1>1, <1>9, <2>1, <2>2 DEF PortsTyped, Pulsing, ResetIntoEmptyBuffer, Timing
  <2> QED
    BY <1>1, <2>1, <2>2, <2>3, PortsChange
<1> QED
  BY <1>1, <1>4, <1>5, <1>6, <1>7, <1>8, <1>9 DEF Timing

(* Every step of a reboot preserves the invariant. *)
LEMMA RebootKeeps ==
  ASSUME PlatInv, reboot, platcalls' = platcalls
  PROVE  PlatInv'
<1>1. Asks /\ PortsTyped /\ Pulsing /\ dev' = dev /\ plat.pc \in {"flush", "pulse"}
  BY DEF PlatInv, reboot, PlatAt
<1>2. plat.fn # "udelay"
  BY <1>1 DEF PortsTyped, Timing
<1>3. CASE plat.pc = "flush"
  <2>1. ports' = ports /\ ~ports.busy /\ PlatGoto("pulse")
    BY <1>3 DEF reboot, PlatAt
  <2>2. DOMAIN plat' = DOMAIN plat /\ plat'.pc = "pulse" /\ plat'.fn = plat.fn
    BY <1>1, <2>1, GoneTo
  <2>3. PortsTyped' /\ Pulsing'
    BY <1>1, <1>2, <2>1, <2>2 DEF PortsTyped, Pulsing, ResetIntoEmptyBuffer, Timing
  <2> QED
    BY <1>1, <2>2, <2>3, PortsChange
<1>4. CASE plat.pc = "pulse"
  <2>1. ports' = [ports EXCEPT !.reset = TRUE] /\ PlatGoto("halted")
    BY <1>4 DEF reboot, PlatAt
  <2>2. DOMAIN plat' = DOMAIN plat /\ plat'.pc = "halted" /\ plat'.fn = plat.fn
    BY <1>1, <2>1, GoneTo
  <2>3. PortsTyped' /\ Pulsing'
    BY <1>1, <1>2, <1>4, <2>1, <2>2 DEF PortsTyped, Pulsing, ResetIntoEmptyBuffer, Timing
  <2> QED
    BY <1>1, <2>2, <2>3, PortsChange
<1> QED
  BY <1>1, <1>3, <1>4

(* The timer and the keyboard controller preserve the invariant. *)
LEMMA PortStepKeeps ==
  ASSUME PlatInv, PortStep
  PROVE  PlatInv'
<1>1. /\ DevicesTyped /\ Asks /\ PortsTyped /\ Pulsing
      /\ dev' = dev /\ plat' = plat /\ platcalls' = platcalls
  BY DEF PlatInv, PortStep, TimerFires, KeyboardFlushes
<1>2. DevicesTyped'
  BY <1>1, DevicesStay
<1>6. Asks'
  BY <1>1 DEF Asks, Wide
<1>3. ports' = [ports EXCEPT !.out = TRUE] \/ ports' = [ports EXCEPT !.busy = FALSE]
  BY DEF PortStep, TimerFires, KeyboardFlushes
<1>4. PortsTyped'
  BY <1>1, <1>3 DEF PortsTyped, LowByte, HighByte
<1>5. Pulsing'
  BY <1>1, <1>3 DEF PortsTyped, Pulsing, ResetIntoEmptyBuffer
<1> QED
  BY <1>1, <1>2, <1>4, <1>5, <1>6 DEF PlatInv

(* Every step of a call about the platform preserves the invariant. *)
LEMMA PlatPreserved ==
  ASSUME PlatInv, [PlatNext]_platVars
  PROVE  PlatInv'
<1>1. CASE PlatCall
  BY <1>1, CallKeeps
<1>2. CASE PlatStep
  BY <1>2, ReadKeeps, WriteKeeps, CopyKeeps, HeapWalkKeeps, SearchKeeps, DelayKeeps, RebootKeeps, QueriesKeep,
     PlatDoneKeeps DEF PlatStep
<1>3. CASE PortStep
  BY <1>3, PortStepKeeps
<1>4. CASE UNCHANGED platVars
  <2>1. dev' = dev /\ plat' = plat /\ ports' = ports /\ platcalls' = platcalls
    BY <1>4 DEF platVars
  <2>2. DevicesTyped'
    BY <2>1, DevicesStay DEF PlatInv
  <2>3. Asks'
    BY <2>1 DEF PlatInv, Asks, Wide
  <2>4. PortsTyped'
    BY <2>1 DEF PlatInv, PortsTyped, LowByte, HighByte
  <2>5. Pulsing'
    BY <2>1 DEF PlatInv, Pulsing, ResetIntoEmptyBuffer
  <2> QED
    BY <2>1, <2>2, <2>3, <2>4, <2>5 DEF PlatInv
<1> QED
  BY <1>1, <1>2, <1>3, <1>4 DEF PlatNext

(* The invariant of these calls holds in the beginning. *)
LEMMA PlatInitially == PlatInit => PlatInv
<1> SUFFICES ASSUME PlatInit PROVE PlatInv
  OBVIOUS
<1>1. DevicesTyped
  <2>1. /\ dev.e1000 = [r \in DOMAIN E1000Offset \cup {"transmitting"} |-> IF r = "transmitting" THEN FALSE ELSE 0]
        /\ DOMAIN dev = {"e1000", "txt", "dataseg"}
        /\ dev.txt.mle_join = [w \in {1, 2} |-> 0] /\ dev.dataseg = [w \in {0, 8, 32} |-> 0]
    BY DEF PlatInit, xmhfhwm_devices
  <2>2. "transmitting" \notin DOMAIN E1000Offset
    BY DEF E1000Offset
  <2>3. DOMAIN dev.e1000 = DOMAIN E1000Offset \cup {"transmitting"}
    BY <2>1
  <2>4. \A r \in DOMAIN E1000Offset : dev.e1000[r] = 0
    BY <2>1, <2>2
  <2>5. dev.e1000["transmitting"] \in BOOLEAN
    BY <2>1
  <2>7. \A r \in DOMAIN E1000Offset : dev.e1000[r] \in 0..255
    BY <2>4
  <2>6. CardTyped(dev.e1000)
    BY <2>3, <2>5, <2>7, Zenon DEF CardTyped
  <2> QED
    BY <2>1, <2>6 DEF DevicesTyped
<1>2. Asks
  BY DEF PlatInit, NoPlatCall, Asks
<1>3. PortsTyped
  BY DEF PlatInit, NoPlatCall, IdlePorts, PortsTyped, Timing
<1>4. Pulsing
  BY DEF PlatInit, NoPlatCall, IdlePorts, Pulsing, ResetIntoEmptyBuffer
<1> QED
  BY <1>1, <1>2, <1>3, <1>4, PlatformConstants DEF PlatInit, PlatInv

(* The invariant contains what the theorems below say. *)
LEMMA PlatImplied == PlatInv => PlatTypeOK /\ DelayCounted /\ ResetIntoEmptyBuffer
<1> SUFFICES ASSUME PlatInv PROVE PlatTypeOK /\ DelayCounted /\ ResetIntoEmptyBuffer
  OBVIOUS
<1>1. PlatTypeOK
  BY DEF PlatInv, DevicesTyped, CardTyped, PortsTyped, PlatTypeOK
<1>2. DelayCounted
  <2> SUFFICES ASSUME plat.pc = "returned", plat.fn = "udelay"
               PROVE  /\ 0 \notin ports.p61 /\ ports.out
                      /\ plat.value[1] < 65536 => plat.answer[1] + 256 * plat.answer[2] = plat.value[1]
    BY DEF DelayCounted
  <2>1. /\ 0 \notin ports.p61 /\ ports.out /\ plat.value[1] \in Nat
        /\ plat.answer[1] = LowByte /\ plat.answer[2] = HighByte
    BY DEF PlatInv, PortsTyped
  <2>2. latchregval(plat.value[1]) = plat.value[1]
    BY <2>1 DEF latchregval
  <2>3. ASSUME NEW n \in Nat, n < 65536
        PROVE  (n % 256) + 256 * ((n \div 256) % 256) = n
    BY <2>3
  <2> QED
    BY <2>1, <2>2, <2>3 DEF LowByte, HighByte
<1> QED
  BY <1>1, <1>2 DEF PlatInv, Pulsing

(* The registers of the devices hold words and the latch of the timer two bytes at
   most, whatever is written where. *)
THEOREM PlatKeepsTypes == PlatSpec => []PlatTypeOK
<1>1. PlatInit => PlatInv
  BY PlatInitially
<1>2. PlatInv /\ [PlatNext]_platVars => PlatInv'
  BY PlatPreserved
<1>3. PlatInv => PlatTypeOK
  BY PlatImplied
<1> QED
  BY <1>1, <1>2, <1>3, PTL DEF PlatSpec

(* A delay that fits the latch waits for as many ticks as microseconds and closes the
   gate (xmhfhw_pit_udelay.c); the reset is pulsed only into an empty buffer
   (xmhfhw_keyb_reboot.c). *)
THEOREM DelaysAreCounted == PlatSpec => []DelayCounted /\ []ResetIntoEmptyBuffer
<1>1. PlatInit => PlatInv
  BY PlatInitially
<1>2. PlatInv /\ [PlatNext]_platVars => PlatInv'
  BY PlatPreserved
<1>3. PlatInv => DelayCounted /\ ResetIntoEmptyBuffer
  BY PlatImplied
<1> QED
  BY <1>1, <1>2, <1>3, PTL DEF PlatSpec
-----------------------------------------------------------------------------
(* Which device answers an address: 1 the network card, 2 TXT, 3 the BIOS, 4 low memory, 5 the
   local APIC, in ranges of addresses that do not meet. *)
TxtAddrs == {TXT_PUB_CONFIG_REGS_BASE + 768, TXT_PUB_CONFIG_REGS_BASE + 772, TXT_PUB_CONFIG_REGS_BASE + 776,
             TXT_PUB_CONFIG_REGS_BASE + 780, TXT_PRIV_CONFIG_REGS_BASE + 656, TXT_PRIV_CONFIG_REGS_BASE + 660}
Owns(a, i) ==
  \/ i = 1 /\ In(a, E1000_HWADDR_BASE, E1000_HWADDR_SIZE)
  \/ i = 2 /\ (a \in TxtAddrs \/ In(a, HEAPBASE, HeapSize))
  \/ i = 3 /\ a = BIOS_BDA_BASE + 14
  \/ i = 4 /\ (a \in {DATASEG_BASE, DATASEG_BASE + 8, DATASEG_BASE + 32} \/ In(a, Addr(0, 0), IvtEnd))
  \/ i = 5 /\ a = LAPIC_REG_ID

(* The words that processors are joined with are among the registers of TXT. *)
LEMMA JoinWords ==
  ASSUME NEW a \in Int, MleJoin(a) # {}
  PROVE  a \in TxtAddrs
<1>1. PICK w \in {1, 2} : a = TXT_PRIV_CONFIG_REGS_BASE + TXTCR_MLE_JOIN + 4 * (w - 1)
  BY DEF MleJoin
<1>2. TXT_PRIV_CONFIG_REGS_BASE \in Int
  BY DEF TXT_PRIV_CONFIG_REGS_BASE, Addr
<1> QED
  BY <1>1, <1>2 DEF TxtAddrs, TXTCR_MLE_JOIN

(* An address is in the range of one device only. *)
LEMMA OneOwner ==
  ASSUME NEW a \in Int, NEW i \in 1..5, NEW j \in 1..5, Owns(a, i), Owns(a, j)
  PROVE  i = j
<1> DEFINE page == 65536
<1>1. Owns(a, 1) => a >= 30660 * page /\ a < 30661 * page
  <2>1. Owns(a, 1) => In(a, E1000_HWADDR_BASE, E1000_HWADDR_SIZE)
    BY DEF Owns
  <2>2. E1000_HWADDR_BASE = 30660 * page
    BY DEF E1000_HWADDR_BASE, Addr
  <2>3. In(a, E1000_HWADDR_BASE, E1000_HWADDR_SIZE) => a >= E1000_HWADDR_BASE /\ a < E1000_HWADDR_BASE + page
    BY <2>2 DEF In, E1000_HWADDR_SIZE
  <2> QED
    BY <2>1, <2>2, <2>3
<1>2. Owns(a, 2) => (a >= 32466 * page /\ a < 32468 * page) \/ (a >= 28160 * page /\ a < 28161 * page)
  BY DEF Owns, In, Addr, TxtAddrs, HEAPBASE, HeapSize, TXT_PUB_CONFIG_REGS_BASE, TXT_PRIV_CONFIG_REGS_BASE
<1>3. Owns(a, 3) => a = (0 - 32768) * page + 1038
  BY DEF Owns, Addr, BIOS_BDA_BASE
<1>4. Owns(a, 4) => a < (0 - 32768) * page + 1020 \/ (a >= (1 - 32768) * page /\ a < 0)
  BY DEF Owns, In, Addr, DATASEG_BASE, IvtEnd
<1>5. Owns(a, 5) => a = 32480 * page + 32
  BY DEF Owns, Addr, LAPIC_REG_ID
<1>6. \A k \in 1..5 : k \in {1, 2, 3, 4, 5}
  OBVIOUS
<1>7. CASE i = 1
  BY <1>7, <1>6, <1>1, <1>2, <1>3, <1>4, <1>5
<1>8. CASE i = 2
  BY <1>8, <1>6, <1>1, <1>2, <1>3, <1>4, <1>5
<1>9. CASE i = 3
  BY <1>9, <1>6, <1>1, <1>2, <1>3, <1>4, <1>5
<1>10. CASE i = 4
  BY <1>10, <1>6, <1>1, <1>2, <1>3, <1>4, <1>5
<1>11. CASE i = 5
  BY <1>11, <1>6, <1>1, <1>2, <1>3, <1>4, <1>5
<1> QED
  BY <1>6, <1>7, <1>8, <1>9, <1>10, <1>11

(* A device that answers an address owns it. *)
LEMMA AnswersOwn ==
  ASSUME DevicesTyped, NEW a \in Int, NEW i \in 1..5, Answers(dev, a)[i] # Unanswered
  PROVE  Owns(a, i)
<1>1. CASE i = 1
  BY <1>1 DEF Answers, e1000_read, Owns
<1>2. CASE i = 2
  <2>1. txt_read(dev.txt, a) # Unanswered
    BY <1>2 DEF Answers
  <2>2. CASE MleJoin(a) # {}
    BY <1>2, <2>2, JoinWords DEF Owns
  <2>3. CASE a = TXT_PUB_CONFIG_REGS_BASE + TXTCR_HEAP_BASE \/ a = TXT_PUB_CONFIG_REGS_BASE + TXTCR_HEAP_SIZE
             \/ \E r \in {TXTCR_HEAP_BASE, TXTCR_HEAP_SIZE} : a = TXT_PUB_CONFIG_REGS_BASE + r + 4
    <3>1. TXT_PUB_CONFIG_REGS_BASE \in Int
      BY DEF TXT_PUB_CONFIG_REGS_BASE, Addr
    <3> QED
      BY <1>2, <2>3, <3>1 DEF Owns, TxtAddrs, TXTCR_HEAP_BASE, TXTCR_HEAP_SIZE
  <2>4. CASE In(a, HEAPBASE, HeapSize)
    BY <1>2, <2>4 DEF Owns
  <2> QED
    BY <2>1, <2>2, <2>3, <2>4 DEF txt_read
<1>3. CASE i = 3
  BY <1>3 DEF Answers, bios_read, Owns
<1>4. CASE i = 4
  <2>1. mem_read(dev.dataseg, a) # Unanswered
    BY <1>4 DEF Answers
  <2>2. DOMAIN dev.dataseg = {0, 8, 32}
    BY DEF DevicesTyped
  <2>3. DATASEG_BASE \in Int
    BY DEF DATASEG_BASE, Addr
  <2> QED
    BY <1>4, <2>1, <2>2, <2>3 DEF mem_read, Owns
<1>5. CASE i = 5
  BY <1>5 DEF Answers, lapic_read, Owns
<1> QED
  BY <1>1, <1>2, <1>3, <1>4, <1>5

(* At most one device answers, and what it answers is read. *)
LEMMA OneAnswers ==
  ASSUME DevicesTyped, NEW a \in Int
  PROVE  /\ Cardinality(Answering(Answers(dev, a))) <= 1
         /\ \A i \in 1..5 : Answers(dev, a)[i] # Unanswered => cpu_sysmemread(dev, a) = Answers(dev, a)[i]
<1> DEFINE answers == Answers(dev, a)
<1>1. DOMAIN answers = 1..5
  BY DEF Answers
<1>2. \A i, j \in 1..5 : answers[i] # Unanswered /\ answers[j] # Unanswered => i = j
  BY AnswersOwn, OneOwner
<1>3. cpu_sysmemread(dev, a) =
        IF Answering(answers) = {} THEN Unanswered ELSE answers[First(Answering(answers))]
  BY DEF cpu_sysmemread
<1> HIDE DEF answers
<1>4. ASSUME NEW i \in 1..5, answers[i] # Unanswered
      PROVE  Answering(answers) = {i} /\ First(Answering(answers)) = i
  <2>1. Answering(answers) = {i}
    BY <1>1, <1>2, <1>4 DEF Answering
  <2>2. First({i}) = i
    BY <1>4 DEF First
  <2> QED
    BY <2>1, <2>2
<1>5. Answering(answers) = {} \/ \E i \in 1..5 : Answering(answers) = {i}
  BY <1>1, <1>4 DEF Answering
<1>6. Cardinality(Answering(answers)) <= 1
  <2>1. Cardinality({}) = 0 /\ \A x : Cardinality({x}) = 1
    BY FS_EmptySet, FS_Singleton
  <2>2. CASE Answering(answers) = {}
    BY <2>1, <2>2
  <2>3. CASE \E i \in 1..5 : Answering(answers) = {i}
    <3>1. PICK i \in 1..5 : Answering(answers) = {i}
      BY <2>3
    <3>2. Cardinality({i}) = 1
      BY <2>1
    <3> QED
      BY <3>1, <3>2
  <2> QED
    BY <1>5, <2>2, <2>3
<1>7. \A i \in 1..5 : answers[i] # Unanswered => cpu_sysmemread(dev, a) = answers[i]
  BY <1>3, <1>4
<1> QED
  BY <1>6, <1>7 DEF answers

(* The addresses of the registers of the network card tell them apart. *)
LEMMA CardRegs ==
  \A r \in DOMAIN E1000Offset :
    /\ E1000_HWADDR_BASE + E1000Offset[r] \in Int
    /\ In(E1000_HWADDR_BASE + E1000Offset[r], E1000_HWADDR_BASE, E1000_HWADDR_SIZE)
    /\ E1000Regs(E1000_HWADDR_BASE + E1000Offset[r]) = {r}
<1>1. E1000_HWADDR_BASE \in Int
  BY DEF E1000_HWADDR_BASE, Addr
<1>2. /\ DOMAIN E1000Offset = {"eecd", "tctl", "tdbal", "tdbah", "tdlen", "tdh", "tdt", "swsm"}
      /\ E1000Offset["eecd"] = 16 /\ E1000Offset["tctl"] = 1024
      /\ E1000Offset["tdbal"] = 14336 /\ E1000Offset["tdbah"] = 14340
      /\ E1000Offset["tdlen"] = 14344 /\ E1000Offset["tdh"] = 14352
      /\ E1000Offset["tdt"] = 14360 /\ E1000Offset["swsm"] = 23376
  BY DEF E1000Offset
<1> DEFINE D == DOMAIN E1000Offset
           at(r) == E1000Offset[r]
<1>a. /\ D = {"eecd", "tctl", "tdbal", "tdbah", "tdlen", "tdh", "tdt", "swsm"}
      /\ at("eecd") = 16 /\ at("tctl") = 1024 /\ at("tdbal") = 14336 /\ at("tdbah") = 14340
      /\ at("tdlen") = 14344 /\ at("tdh") = 14352 /\ at("tdt") = 14360 /\ at("swsm") = 23376
  BY <1>2
<1> HIDE DEF D, at
<1>c. \A s \in D : at(s) \in Int /\ at(s) >= 0 /\ at(s) < 36864
  BY <1>a
<1>4. \A r, s \in D : at(r) = at(s) => r = s
  BY <1>a
<1> SUFFICES
      ASSUME NEW r \in D
      PROVE  /\ E1000_HWADDR_BASE + at(r) \in Int
             /\ In(E1000_HWADDR_BASE + at(r), E1000_HWADDR_BASE, E1000_HWADDR_SIZE)
             /\ E1000Regs(E1000_HWADDR_BASE + at(r)) = {r}
  BY DEF D, at
<1>b. \A b, m, n \in Int : b + m = b + n => m = n
  OBVIOUS
<1>6. E1000Regs(E1000_HWADDR_BASE + at(r)) = {r}
  <2>1. \A s \in D : E1000_HWADDR_BASE + at(r) = E1000_HWADDR_BASE + at(s) => r = s
    <3>1. TAKE s \in D
    <3>2. E1000_HWADDR_BASE + at(r) = E1000_HWADDR_BASE + at(s) => at(r) = at(s)
      BY <1>1, <1>b, <1>c
    <3> QED
      BY <3>2, <1>4
  <2>2. E1000Regs(E1000_HWADDR_BASE + at(r)) = {s \in D : E1000_HWADDR_BASE + at(r) = E1000_HWADDR_BASE + at(s)}
    BY Zenon DEF E1000Regs, D, at
  <2> QED
    BY <2>1, <2>2
<1>7. In(E1000_HWADDR_BASE + at(r), E1000_HWADDR_BASE, E1000_HWADDR_SIZE)
  BY <1>1, <1>c DEF In, E1000_HWADDR_SIZE
<1> QED
  BY <1>1, <1>c, <1>6, <1>7

(* What is read from a register of the card. *)
LEMMA CardAnswers ==
  ASSUME DevicesTyped, NEW r \in DOMAIN E1000Offset
  PROVE  LET a == E1000_HWADDR_BASE + E1000Offset[r]
         IN  cpu_sysmemread(dev, a) = Answer(e1000_settle(dev.e1000, a)[r])
<1> DEFINE a == E1000_HWADDR_BASE + E1000Offset[r]
           e == e1000_settle(dev.e1000, a)
<1>1. a \in Int /\ In(a, E1000_HWADDR_BASE, E1000_HWADDR_SIZE) /\ E1000Regs(a) = {r}
  BY CardRegs
<1> HIDE DEF a
<1>2. e1000_read(dev.e1000, a) = Answer(e[CHOOSE x \in E1000Regs(a) : TRUE])
  BY <1>1 DEF e1000_read
<1>3. (CHOOSE x \in {r} : TRUE) = r
  OBVIOUS
<1>4. Answers(dev, a)[1] = Answer(e[r]) /\ Answers(dev, a)[1] # Unanswered
  BY <1>1, <1>2, <1>3 DEF Answers, Answer, Unanswered
<1>5. cpu_sysmemread(dev, a) = Answer(e[r])
  BY <1>1, <1>4, OneAnswers
<1> QED
  BY <1>5 DEF a
-----------------------------------------------------------------------------
(* What is read of the words that TXT joins processors with. *)
LEMMA JoinAnswers ==
  ASSUME DevicesTyped, NEW w \in {1, 2}
  PROVE  cpu_sysmemread(dev, TXT_PRIV_CONFIG_REGS_BASE + TXTCR_MLE_JOIN + 4 * (w - 1)) = Answer(dev.txt.mle_join[w])
<1> DEFINE a == TXT_PRIV_CONFIG_REGS_BASE + TXTCR_MLE_JOIN + 4 * (w - 1)
<1>1. TXT_PRIV_CONFIG_REGS_BASE = 32466 * 65536 /\ TXTCR_MLE_JOIN = 656 /\ TXT_PUB_CONFIG_REGS_BASE = 32467 * 65536
      /\ HEAPBASE = 28160 * 65536 /\ HeapSize = 4404 /\ TXTCR_HEAP_BASE = 768 /\ TXTCR_HEAP_SIZE = 776
  BY DEF TXT_PRIV_CONFIG_REGS_BASE, TXT_PUB_CONFIG_REGS_BASE, TXTCR_MLE_JOIN, HEAPBASE, HeapSize, Addr,
     TXTCR_HEAP_BASE, TXTCR_HEAP_SIZE
<1>2. a \in Int /\ a >= 32466 * 65536 /\ a < 32466 * 65536 + 1024
  BY <1>1
<1>3. MleJoin(a) = {w}
  BY <1>1 DEF MleJoin
<1> HIDE DEF a
<1>4. /\ a # TXT_PUB_CONFIG_REGS_BASE + TXTCR_HEAP_BASE /\ a # TXT_PUB_CONFIG_REGS_BASE + TXTCR_HEAP_SIZE
      /\ a \notin {TXT_PUB_CONFIG_REGS_BASE + r + 4 : r \in {TXTCR_HEAP_BASE, TXTCR_HEAP_SIZE}}
  BY <1>1, <1>2
<1>5. ~In(a, HEAPBASE, HeapSize)
  <2>1. HEAPBASE \in Int /\ HeapSize \in Int /\ HEAPBASE + HeapSize - 1 < a
    BY <1>1, <1>2
  <2> QED
    BY <1>2, <2>1 DEF In
<1>6. txt_read(dev.txt, a) = Answer(dev.txt.mle_join[CHOOSE x \in MleJoin(a) : TRUE])
  BY <1>3, <1>4, <1>5 DEF txt_read
<1>7. (CHOOSE x \in {w} : TRUE) = w
  OBVIOUS
<1>8. Answers(dev, a)[2] = Answer(dev.txt.mle_join[w]) /\ Answers(dev, a)[2] # Unanswered
  BY <1>3, <1>6, <1>7 DEF Answers, Answer, Unanswered
<1>9. cpu_sysmemread(dev, a) = Answer(dev.txt.mle_join[w])
  BY <1>2, <1>8, OneAnswers
<1> QED
  BY <1>9 DEF a

(* What is read of low memory, where copies go. *)
LEMMA DatasegAnswers ==
  ASSUME DevicesTyped
  PROVE  cpu_sysmemread(dev, DATASEG_BASE + 8) = Answer(dev.dataseg[8])
<1> DEFINE a == DATASEG_BASE + 8
<1>1. DATASEG_BASE = (1 - 32768) * 65536 + 4096 /\ Addr(0, 0) = (0 - 32768) * 65536
  BY DEF DATASEG_BASE, Addr
<1>2. a \in Int /\ ~In(a, Addr(0, 0), IvtEnd) /\ a - DATASEG_BASE = 8
  BY <1>1 DEF In, IvtEnd
<1>3. \E w \in DOMAIN dev.dataseg : a = DATASEG_BASE + w
  BY DEF DevicesTyped
<1> HIDE DEF a
<1>4. mem_read(dev.dataseg, a) = Answer(dev.dataseg[8])
  BY <1>2, <1>3 DEF mem_read
<1>5. Answers(dev, a)[4] = Answer(dev.dataseg[8]) /\ Answers(dev, a)[4] # Unanswered
  BY <1>4 DEF Answers, Answer, Unanswered
<1>6. cpu_sysmemread(dev, a) = Answer(dev.dataseg[8])
  BY <1>2, <1>5, OneAnswers
<1> QED
  BY <1>6 DEF a

(* What is read of the TXT heap, and of where it is. *)
LEMMA HeapAnswers ==
  ASSUME DevicesTyped
  PROVE  /\ cpu_sysmemread(dev, TXT_PUB_CONFIG_REGS_BASE + TXTCR_HEAP_BASE) = Answer(HEAPBASE)
         /\ \A o \in 0..(HeapSize - 1) : cpu_sysmemread(dev, HEAPBASE + o) = Answer(xmhfhwm_txt_heap(o))
<1>1. TXT_PRIV_CONFIG_REGS_BASE = 32466 * 65536 /\ TXTCR_MLE_JOIN = 656 /\ TXT_PUB_CONFIG_REGS_BASE = 32467 * 65536
      /\ HEAPBASE = 28160 * 65536 /\ HeapSize = 4404 /\ TXTCR_HEAP_BASE = 768 /\ TXTCR_HEAP_SIZE = 776
  BY DEF TXT_PRIV_CONFIG_REGS_BASE, TXT_PUB_CONFIG_REGS_BASE, TXTCR_MLE_JOIN, HEAPBASE, HeapSize, Addr,
     TXTCR_HEAP_BASE, TXTCR_HEAP_SIZE
<1>2. cpu_sysmemread(dev, TXT_PUB_CONFIG_REGS_BASE + TXTCR_HEAP_BASE) = Answer(HEAPBASE)
  <2> DEFINE a == TXT_PUB_CONFIG_REGS_BASE + TXTCR_HEAP_BASE
  <2>1. a \in Int /\ a # TXT_PUB_CONFIG_REGS_BASE + TXTCR_HEAP_SIZE
        /\ a \notin {TXT_PUB_CONFIG_REGS_BASE + r + 4 : r \in {TXTCR_HEAP_BASE, TXTCR_HEAP_SIZE}}
    BY <1>1
  <2>2. MleJoin(a) = {} /\ ~In(a, HEAPBASE, HeapSize)
    BY <1>1 DEF MleJoin, In
  <2>3. txt_read(dev.txt, a) = Answer(HEAPBASE)
    BY <2>1, <2>2 DEF txt_read
  <2> HIDE DEF a
  <2>4. Answers(dev, a)[2] = Answer(HEAPBASE) /\ Answers(dev, a)[2] # Unanswered
    BY <2>3 DEF Answers, Answer, Unanswered
  <2>5. cpu_sysmemread(dev, a) = Answer(HEAPBASE)
    BY <2>1, <2>4, OneAnswers
  <2> QED
    BY <2>5 DEF a
<1>3. ASSUME NEW o \in 0..(HeapSize - 1)
      PROVE  cpu_sysmemread(dev, HEAPBASE + o) = Answer(xmhfhwm_txt_heap(o))
  <2> DEFINE a == HEAPBASE + o
  <2>1. a \in Int /\ a >= 28160 * 65536 /\ a < 28161 * 65536 /\ a - HEAPBASE = o /\ In(a, HEAPBASE, HeapSize)
    BY <1>1, <1>3 DEF In
  <2> HIDE DEF a
  <2>2. /\ a # TXT_PUB_CONFIG_REGS_BASE + TXTCR_HEAP_BASE /\ a # TXT_PUB_CONFIG_REGS_BASE + TXTCR_HEAP_SIZE
        /\ a \notin {TXT_PUB_CONFIG_REGS_BASE + r + 4 : r \in {TXTCR_HEAP_BASE, TXTCR_HEAP_SIZE}}
    BY <1>1, <2>1
  <2>3. MleJoin(a) = {}
    BY <1>1, <2>1 DEF MleJoin
  <2>4. txt_read(dev.txt, a) = Answer(xmhfhwm_txt_heap(o))
    BY <2>1, <2>2, <2>3 DEF txt_read
  <2>5. Answers(dev, a)[2] = Answer(xmhfhwm_txt_heap(o)) /\ Answers(dev, a)[2] # Unanswered
    BY <2>4 DEF Answers, Answer, Unanswered
  <2>6. cpu_sysmemread(dev, a) = Answer(xmhfhwm_txt_heap(o))
    BY <2>1, <2>5, OneAnswers
  <2> QED
    BY <2>6 DEF a
<1> QED
  BY <1>2, <1>3

(* The words of the heap that the walk reads: the sizes of the four blocks, and the wakeup address. *)
LEMMA HeapWords ==
  /\ xmhfhwm_txt_heap(0) = 44 /\ xmhfhwm_txt_heap(44) = 4104 /\ xmhfhwm_txt_heap(4148) = 100
  /\ xmhfhwm_txt_heap(4248) = 156 /\ xmhfhwm_txt_heap(4376) = RLPWAKEUPADDR
<1> DEFINE D == DOMAIN BlockSize
           size(b) == BlockSize[b]
           offset(b) == BlockOffset[b]
<1>1. /\ D = {"biosdata", "osmledata", "ossinitdata", "sinitmledata"}
      /\ size("biosdata") = 44 /\ size("osmledata") = 4104 /\ size("ossinitdata") = 100 /\ size("sinitmledata") = 156
      /\ offset("biosdata") = 0 /\ offset("osmledata") = 44 /\ offset("ossinitdata") = 4148
      /\ offset("sinitmledata") = 4248
  BY DEF BlockSize, BlockOffset
<1>2. BlockOffset.ossinitdata = offset("ossinitdata") /\ BlockOffset.sinitmledata = offset("sinitmledata")
  OBVIOUS
<1>3. \A o : xmhfhwm_txt_heap(o) =
        CASE \E b \in D : o = offset(b) -> size(CHOOSE b \in D : o = offset(b))
          [] o = offset("ossinitdata") + 8 + 80 -> TXT_CAPS_T_RLP_WAKE_MONITOR
          [] o = offset("sinitmledata") + 8 + 120 -> RLPWAKEUPADDR
          [] OTHER -> 0
  BY Zenon DEF xmhfhwm_txt_heap
<1> HIDE DEF D, size, offset
<1>4. ASSUME NEW b \in D, NEW o, o = offset(b)
      PROVE  xmhfhwm_txt_heap(o) = size(b)
  <2>1. \A c \in D : offset(c) = o => c = b
    BY <1>1, <1>4
  <2>2. (CHOOSE c \in D : o = offset(c)) = b
    BY <2>1, <1>4
  <2>3. o # offset("ossinitdata") + 8 + 80 /\ o # offset("sinitmledata") + 8 + 120
    BY <1>1, <1>4
  <2>4. xmhfhwm_txt_heap(o) = size(CHOOSE c \in D : o = offset(c))
    BY <1>3, <1>4, <2>3
  <2> QED
    BY <2>2, <2>4
<1>5. xmhfhwm_txt_heap(4376) = RLPWAKEUPADDR
  <2>1. ~\E b \in D : 4376 = offset(b)
    BY <1>1
  <2>2. 4376 # offset("ossinitdata") + 8 + 80 /\ 4376 = offset("sinitmledata") + 8 + 120
    BY <1>1
  <2> QED
    BY <1>3, <2>1, <2>2
<1> QED
  BY <1>1, <1>4, <1>5

(* The walk finds the blocks where the hardware model has put them. *)
HeapBlocks ==
  <<[start |-> HEAPBASE + 8, size |-> 44], [start |-> HEAPBASE + 52, size |-> 4104],
    [start |-> HEAPBASE + 4156, size |-> 100], [start |-> HEAPBASE + 4256, size |-> 156]>>
(* The walk finds the blocks where the hardware model has put them
   (xmhfhw_cpu_txtget*.c). *)
LEMMA WalkFinds ==
  ASSUME DevicesTyped, WalkHeap
  PROVE  PlatReturn(HeapBlocks)
<1> DEFINE base == HEAPBASE
<1>1. base \in Int
  BY DEF HEAPBASE, Addr
<1>2. HeapSize = 4404
  BY DEF HeapSize
<1>3. get_txt_heap = base
  BY HeapAnswers DEF get_txt_heap, Answer
<1>4. ASSUME NEW o \in 0..4403
      PROVE  SizeAt[base + o] = xmhfhwm_txt_heap(o)
  <2>1. o \in 0..(HeapSize - 1)
    BY <1>2
  <2>2. cpu_sysmemread(dev, base + o) = <<xmhfhwm_txt_heap(o)>>
    BY <2>1, HeapAnswers DEF Answer
  <2>3. base + o \in Int
    BY <1>1
  <2>4. SizeAt[base + o] = cpu_sysmemread(dev, base + o)[1]
    BY <2>3 DEF SizeAt
  <2> QED
    BY <2>2, <2>4
<1>5. /\ SizeAt[base + 0] = 44 /\ SizeAt[base + 44] = 4104 /\ SizeAt[base + 4148] = 100
      /\ SizeAt[base + 4248] = 156
  <2>1. /\ SizeAt[base + 0] = xmhfhwm_txt_heap(0) /\ SizeAt[base + 44] = xmhfhwm_txt_heap(44)
        /\ SizeAt[base + 4148] = xmhfhwm_txt_heap(4148) /\ SizeAt[base + 4248] = xmhfhwm_txt_heap(4248)
    BY <1>4
  <2> QED
    BY <2>1, HeapWords
<1>6. base + 0 = base /\ base + 44 + 4104 = base + 4148 /\ base + 44 + 4104 + 100 = base + 4248
  BY <1>1
<1> HIDE DEF base
<1>7. get_bios_data_size(base) = 44
  BY <1>5, <1>6 DEF get_bios_data_size
<1>8. get_os_mle_data_size(base) = 4104
  BY <1>5, <1>7 DEF get_os_mle_data_size
<1>9. get_os_sinit_data_size(base) = 100
  BY <1>5, <1>6, <1>7, <1>8 DEF get_os_sinit_data_size
<1>10. get_sinit_mle_data_size(base) = 156
  BY <1>5, <1>6, <1>7, <1>8, <1>9 DEF get_sinit_mle_data_size
<1>11. /\ get_bios_data_start(base) = base + 8 /\ get_os_mle_data_start(base) = base + 52
      /\ get_os_sinit_data_start(base) = base + 4156 /\ get_sinit_mle_data_start(base) = base + 4256
  BY <1>1, <1>7, <1>8, <1>9 DEF get_bios_data_start, get_os_mle_data_start, get_os_sinit_data_start,
     get_sinit_mle_data_start
<1> DEFINE
  found == <<
           [start |-> get_bios_data_start(base), size |-> get_bios_data_size(base)],
           [start |-> get_os_mle_data_start(base), size |-> get_os_mle_data_size(base)],
           [start |-> get_os_sinit_data_start(base), size |-> get_os_sinit_data_size(base)],
           [start |-> get_sinit_mle_data_start(base), size |-> get_sinit_mle_data_size(base)]>>
<1>12. found = HeapBlocks
  BY <1>7, <1>8, <1>9, <1>10, <1>11 DEF HeapBlocks, base
<1>13. PlatReturn(found)
  BY <1>3, Zenon DEF WalkHeap, base
<1> HIDE DEF found
<1> QED
  BY <1>12, <1>13
-----------------------------------------------------------------------------
(* A word that was written is where it was written; the card transmits, and has a head, only
   after its control register and its tail were written. *)
CardAt(r) == E1000_HWADDR_BASE + E1000Offset[r]
JoinAt(w) == TXT_PRIV_CONFIG_REGS_BASE + TXTCR_MLE_JOIN + 4 * (w - 1)
Remembered ==
  /\ \A r \in {"tctl", "tdbal", "tdlen", "tdt"} : CardAt(r) \in DOMAIN stored => dev.e1000[r] = stored[CardAt(r)]
  /\ \A w \in {1, 2} : JoinAt(w) \in DOMAIN stored => dev.txt.mle_join[w] = stored[JoinAt(w)]
  /\ DATASEG_BASE + 8 \in DOMAIN stored => dev.dataseg[8] = stored[DATASEG_BASE + 8]
Transmits ==
  /\ \A r \in {"tctl", "tdt"} : dev.e1000[r] # 0 => CardAt(r) \in DOMAIN stored
  /\ dev.e1000["transmitting"] \/ dev.e1000["tdh"] # 0 => {TCTL, TDT} \subseteq DOMAIN stored
(* What runs for a call, and where it writes. *)
Named ==
  /\ plat.fn = "readu32" => plat.pc \in {"read", "returned"}
  /\ plat.fn = "txt_heap" => plat.pc \in {"heap", "returned"}
  /\ plat.fn = "getRSDP" => plat.pc \in {"ebda", "rom", "returned"}
  /\ plat.fn = "cpu_queries" => plat.pc \in {"cpu", "returned"}
  /\ plat.pc = "write" /\ ~Wide => plat.addr \in WriteAddrs
(* What a call answers. *)
HeapSaid ==
  plat.pc = "returned" /\ plat.fn = "txt_heap" =>
    plat.answer = HeapBlocks
Valid(w) == {a \in DOMAIN machine.bios : machine.bios[a] /\ a \in Windows[w] /\ a % 16 = 0}
RsdpSaid ==
  /\ plat.pc = "rom" => Valid(1) = {}
  /\ plat.pc = "returned" /\ plat.fn = "getRSDP" =>
       plat.answer[1] = IF Valid(1) # {} THEN First(Valid(1))
                        ELSE IF Valid(2) # {} THEN First(Valid(2)) ELSE Addr(0, 0)
Said == HeadRead /\ HeapSaid /\ RsdpSaid /\ CpuKnown
PlatSays == PlatInv /\ Remembered /\ Transmits /\ Named /\ Said

(* What a write does to the registers of the card. *)
LEMMA CardStores ==
  ASSUME NEW e, CardTyped(e), NEW addr \in Int, NEW v \in 0..255
  PROVE  LET f == e1000_write(e, addr, v)
         IN  /\ \A r \in {"tctl", "tdbal", "tdlen", "tdt"} : f[r] = IF addr = CardAt(r) THEN v ELSE e[r]
             /\ addr # CardAt("tdh") => f["tdh"] = e["tdh"]
             /\ f["transmitting"] => e["transmitting"] \/ (addr = CardAt("tdt") /\ e["tctl"] # 0)
<1> DEFINE D == DOMAIN E1000Offset
           regs == E1000Regs(addr)
           f == e1000_write(e, addr, v)
<1>1. D = {"eecd", "tctl", "tdbal", "tdbah", "tdlen", "tdh", "tdt", "swsm"}
  BY DEF E1000Offset
<1>2. \A r \in D : r \in regs <=> addr = CardAt(r)
  BY Zenon DEF E1000Regs, CardAt
<1>3. regs \subseteq D /\ \A r, s \in regs : r = s
  <2>1. regs \subseteq D
    BY DEF E1000Regs
  <2>2. ASSUME NEW r \in regs
        PROVE  regs = {r}
    <3>1. r \in D /\ addr = E1000_HWADDR_BASE + E1000Offset[r]
      BY <2>2 DEF E1000Regs
    <3> QED
      BY <3>1, CardRegs
  <2> QED
    BY <2>1, <2>2
<1>4. DOMAIN e = D \cup {"transmitting"} /\ (\A r \in D : e[r] \in 0..255) /\ e["transmitting"] \in BOOLEAN
  BY DEF CardTyped
<1>5. E1000_TCTL_EN \in Bits(e.tctl) => e["tctl"] # 0
  <2>1. PICK pow \in [0..30 -> Nat] :
          pow[1] = 2 /\ \A m : Bits(m) = {b \in 0..30 : (m \div pow[b]) % 2 = 1}
    BY TableOfPowers
  <2>2. 1 \in Bits(e.tctl) => (e.tctl \div 2) % 2 = 1
    BY <2>1
  <2>3. e.tctl = 0 => (e.tctl \div 2) % 2 # 1
    OBVIOUS
  <2> QED
    BY <2>2, <2>3 DEF E1000_TCTL_EN
<1> DEFINE
  sent == [e EXCEPT !.tdt = v, !.transmitting = @ \/ E1000_TCTL_EN \in Bits(e.tctl)]
  granted == IF E1000_EECD_REQ \in Bits(v) /\ E1000_EECD_GNT \notin Bits(v) THEN v + 2^E1000_EECD_GNT ELSE v
  given == [e EXCEPT !.eecd = granted]
  others == [r \in DOMAIN e |-> IF r \in regs THEN v ELSE e[r]]
<1>6. f = CASE "tdt" \in regs -> sent [] "eecd" \in regs -> given [] OTHER -> others
  BY Zenon DEF e1000_write, regs
<1>7. /\ sent["tdt"] = v /\ \A r \in {"tctl", "tdbal", "tdlen", "tdh"} : sent[r] = e[r]
      /\ sent["transmitting"] => e["transmitting"] \/ e["tctl"] # 0
  BY <1>1, <1>4, <1>5
<1>8. \A r \in {"tctl", "tdbal", "tdlen", "tdh", "tdt", "transmitting"} : given[r] = e[r]
  BY <1>1, <1>4
<1>9. /\ \A r \in {"tctl", "tdbal", "tdlen", "tdh", "tdt"} : others[r] = IF r \in regs THEN v ELSE e[r]
      /\ others["transmitting"] = e["transmitting"]
  <2>1. "transmitting" \notin regs
    BY <1>1, <1>3
  <2>2. \A r \in DOMAIN e : others[r] = IF r \in regs THEN v ELSE e[r]
    OBVIOUS
  <2> HIDE DEF others
  <2>3. {"tctl", "tdbal", "tdlen", "tdh", "tdt", "transmitting"} \subseteq DOMAIN e
    BY <1>1, <1>4
  <2> QED
    BY <2>1, <2>2, <2>3
<1> HIDE DEF sent, given, others, regs, f, D
<1> USE DEF D
<1>10. CASE "tdt" \in regs
  <2>1. f = sent
    BY <1>3, <1>6, <1>10
  <2>2. \A r \in {"tctl", "tdbal", "tdlen", "tdh"} : addr # CardAt(r)
    BY <1>1, <1>2, <1>3, <1>10
  <2>3. addr = CardAt("tdt")
    BY <1>1, <1>2, <1>10
  <2> QED
    BY <1>7, <2>1, <2>2, <2>3 DEF f
<1>11. CASE "eecd" \in regs
  <2>1. f = given
    BY <1>3, <1>6, <1>11
  <2>2. \A r \in {"tctl", "tdbal", "tdlen", "tdh", "tdt"} : addr # CardAt(r)
    BY <1>1, <1>2, <1>3, <1>11
  <2> QED
    BY <1>8, <2>1, <2>2 DEF f
<1>12. CASE "tdt" \notin regs /\ "eecd" \notin regs
  <2>1. f = others
    BY <1>6, <1>12
  <2>2. \A r \in {"tctl", "tdbal", "tdlen", "tdh", "tdt"} : r \in regs <=> addr = CardAt(r)
    BY <1>1, <1>2
  <2> QED
    BY <1>9, <2>1, <2>2 DEF f
<1> QED
  BY <1>10, <1>11, <1>12

(* The addresses that are written, apart from one another. *)
LEMMA WordsApart ==
  /\ \A r \in {"tctl", "tdbal", "tdlen", "tdt", "tdh"} :
       CardAt(r) \in Int /\ In(CardAt(r), E1000_HWADDR_BASE, E1000_HWADDR_SIZE)
  /\ \A w \in {1, 2} : JoinAt(w) \in Int /\ ~In(JoinAt(w), E1000_HWADDR_BASE, E1000_HWADDR_SIZE)
  /\ DATASEG_BASE + 8 \in Int /\ ~In(DATASEG_BASE + 8, E1000_HWADDR_BASE, E1000_HWADDR_SIZE)
  /\ \A w \in {1, 2} : JoinAt(w) # DATASEG_BASE + 8
  /\ \A r, s \in {"tctl", "tdbal", "tdlen", "tdt", "tdh", "eecd"} : CardAt(r) = CardAt(s) => r = s
  /\ JoinAt(1) # JoinAt(2)
<1>1. /\ E1000_HWADDR_BASE = 30660 * 65536 /\ TXT_PRIV_CONFIG_REGS_BASE = 32466 * 65536 /\ TXTCR_MLE_JOIN = 656
      /\ DATASEG_BASE = (1 - 32768) * 65536 + 4096 /\ E1000_HWADDR_SIZE = 36864
  BY DEF TXT_PRIV_CONFIG_REGS_BASE, E1000_HWADDR_BASE, DATASEG_BASE, Addr, TXTCR_MLE_JOIN, E1000_HWADDR_SIZE
<1>2. \A r \in {"tctl", "tdbal", "tdlen", "tdt", "tdh", "eecd"} :
        /\ CardAt(r) \in Int /\ In(CardAt(r), E1000_HWADDR_BASE, E1000_HWADDR_SIZE)
        /\ E1000Regs(CardAt(r)) = {r}
  <2>1. {"tctl", "tdbal", "tdlen", "tdt", "tdh", "eecd"} \subseteq DOMAIN E1000Offset
    BY DEF E1000Offset
  <2> QED
    BY <2>1, CardRegs, Zenon DEF CardAt
<1>3. \A r, s \in {"tctl", "tdbal", "tdlen", "tdt", "tdh", "eecd"} : CardAt(r) = CardAt(s) => r = s
  BY <1>2
<1>4. JoinAt(1) = 32466 * 65536 + 656 /\ JoinAt(2) = 32466 * 65536 + 660
  BY <1>1 DEF JoinAt
<1>5. \A w \in {1, 2} : JoinAt(w) \in Int /\ ~In(JoinAt(w), E1000_HWADDR_BASE, E1000_HWADDR_SIZE)
  <2>1. /\ JoinAt(1) \in Int /\ JoinAt(1) > E1000_HWADDR_BASE + E1000_HWADDR_SIZE
        /\ JoinAt(2) \in Int /\ JoinAt(2) > E1000_HWADDR_BASE + E1000_HWADDR_SIZE
    BY <1>1, <1>4
  <2>2. E1000_HWADDR_BASE \in Int /\ E1000_HWADDR_SIZE \in Int
    BY <1>1
  <2>3. \A j, b, z \in Int : j > b + z => ~In(j, b, z)
    BY DEF In
  <2> QED
    BY <2>1, <2>2, <2>3
<1>6. DATASEG_BASE + 8 \in Int /\ ~In(DATASEG_BASE + 8, E1000_HWADDR_BASE, E1000_HWADDR_SIZE)
  BY <1>1 DEF In
<1>7. \A w \in {1, 2} : JoinAt(w) # DATASEG_BASE + 8
  BY <1>1, <1>4
<1> QED
  BY <1>2, <1>3, <1>4, <1>5, <1>6, <1>7
(* Where a write may go. *)
LEMMA WrittenTo ==
  ASSUME NEW addr \in WriteAddrs \cup KeptAddrs
  PROVE  /\ addr \in Int /\ addr # CardAt("tdh") /\ addr # DATASEG_BASE + 8
         /\ addr \notin {JoinAt(1), JoinAt(2)} => addr \in WriteAddrs
<1>1. /\ E1000_HWADDR_BASE = 30660 * 65536 /\ DATASEG_BASE = (1 - 32768) * 65536 + 4096
      /\ VTDDMARTABLEBASE = (55423 - 32768) * 65536 + 61096 /\ BIOS_BDA_BASE = (0 - 32768) * 65536 + 1024
      /\ Addr(0, 1019) = (0 - 32768) * 65536 + 1019 /\ RLPWAKEUPADDR = (56304 - 32768) * 65536 + 6928
      /\ TXT_PRIV_CONFIG_REGS_BASE = 32466 * 65536 /\ TXTCR_MLE_JOIN = 656
  BY DEF E1000_HWADDR_BASE, DATASEG_BASE, VTDDMARTABLEBASE, BIOS_BDA_BASE, Addr, RLPWAKEUPADDR,
     TXT_PRIV_CONFIG_REGS_BASE, TXTCR_MLE_JOIN
<1>2. CardAt("tdh") = 30660 * 65536 + 14352
  BY <1>1 DEF CardAt, E1000Offset
<1>3. JoinAt(1) = 32466 * 65536 + 656 /\ JoinAt(2) = 32466 * 65536 + 660
  BY <1>1 DEF JoinAt
<1>4. KeptRegs = {30660 * 65536 + 1024, 30660 * 65536 + 14336, 30660 * 65536 + 14344}
  <2>1. E1000Offset["tctl"] = 1024 /\ E1000Offset["tdbal"] = 14336 /\ E1000Offset["tdlen"] = 14344
    BY DEF E1000Offset
  <2>2. KeptRegs = {E1000_HWADDR_BASE + E1000Offset["tctl"], E1000_HWADDR_BASE + E1000Offset["tdbal"],
                    E1000_HWADDR_BASE + E1000Offset["tdlen"]}
    BY DEF KeptRegs
  <2> QED
    BY <1>1, <2>1, <2>2
<1>5. TDT = 30660 * 65536 + 14360 /\ E1000_HWADDR_BASE + E1000Offset.eecd = 30660 * 65536 + 16
  BY <1>1 DEF TDT, E1000Offset
<1>6. KeptAddrs = KeptRegs \cup {JoinAt(1), JoinAt(2)}
  BY <1>1, <1>3 DEF KeptAddrs, Kept64
<1>7. KeptRegs \subseteq WriteAddrs
  BY DEF WriteAddrs
<1>8. CASE addr \in KeptRegs
  BY <1>1, <1>2, <1>3, <1>4, <1>7, <1>8
<1>9. CASE addr \in {JoinAt(1), JoinAt(2)}
  BY <1>1, <1>2, <1>3, <1>9
<1>10. CASE addr \in WriteAddrs /\ addr \notin KeptRegs
  <2>1. addr \in {TDT, E1000_HWADDR_BASE + 4, VTDDMARTABLEBASE, BIOS_BDA_BASE + 255, Addr(0, 1019), RLPWAKEUPADDR,
                  E1000_HWADDR_BASE + E1000Offset.eecd}
    BY <1>10 DEF WriteAddrs
  <2> QED
    BY <1>1, <1>2, <1>5, <1>10, <2>1
<1> QED
  BY <1>6, <1>8, <1>9, <1>10

(* A word that is stored is remembered, and the words at other places still are. *)
LEMMA StoreRemembers ==
  ASSUME DevicesTyped, Remembered, Transmits, NEW addr \in WriteAddrs \cup KeptAddrs, NEW v \in 0..256,
         In(addr, E1000_HWADDR_BASE, E1000_HWADDR_SIZE) => v \in 0..255, StoreWord(addr, v)
  PROVE  Remembered' /\ Transmits'
<1>1. /\ dev' = cpu_sysmemwrite(dev, addr, v)
      /\ DOMAIN stored' = DOMAIN stored \cup {addr}
      /\ \A a \in DOMAIN stored' : stored'[a] = IF a = addr THEN v ELSE stored[a]
  BY DEF StoreWord
<1>2. TCTL = CardAt("tctl") /\ TDT = CardAt("tdt")
  BY DEF TCTL, TDT, CardAt
<1>3. addr \in Int /\ addr # CardAt("tdh") /\ addr # DATASEG_BASE + 8
  BY WrittenTo
<1>4. CASE In(addr, E1000_HWADDR_BASE, E1000_HWADDR_SIZE)
  <2> DEFINE f == e1000_write(dev.e1000, addr, v)
  <2>1. dev' = [dev EXCEPT !.e1000 = f]
    BY <1>1, <1>4 DEF cpu_sysmemwrite
  <2>2. dev'.e1000 = f /\ dev'.txt = dev.txt /\ dev'.dataseg = dev.dataseg
    BY <2>1 DEF DevicesTyped
  <2>3. CardTyped(dev.e1000) /\ v \in 0..255
    BY <1>4 DEF DevicesTyped
  <2>4. /\ \A r \in {"tctl", "tdbal", "tdlen", "tdt"} : f[r] = IF addr = CardAt(r) THEN v ELSE dev.e1000[r]
        /\ f["tdh"] = dev.e1000["tdh"]
        /\ f["transmitting"] => dev.e1000["transmitting"] \/ (addr = CardAt("tdt") /\ dev.e1000["tctl"] # 0)
    <3>1. /\ \A r \in {"tctl", "tdbal", "tdlen", "tdt"} : f[r] = IF addr = CardAt(r) THEN v ELSE dev.e1000[r]
          /\ addr # CardAt("tdh") => f["tdh"] = dev.e1000["tdh"]
          /\ f["transmitting"] => dev.e1000["transmitting"] \/ (addr = CardAt("tdt") /\ dev.e1000["tctl"] # 0)
      <4>1. addr \in Int
        BY <1>3
      <4> QED
        BY <2>3, <4>1, CardStores
    <3> QED
      BY <1>3, <3>1, Zenon
  <2> HIDE DEF f
  <2>5. \A w \in {1, 2} : JoinAt(w) # addr
    BY <1>4, WordsApart
  <2>6. Remembered'
    BY <1>1, <1>3, <2>2, <2>4, <2>5 DEF Remembered
  <2>7. Transmits'
    BY <1>1, <1>2, <2>2, <2>4 DEF Transmits
  <2> QED
    BY <2>6, <2>7
<1>5. CASE ~In(addr, E1000_HWADDR_BASE, E1000_HWADDR_SIZE)
  <2>1. dev' = [dev EXCEPT !.txt = txt_write(dev.txt, addr, v)]
    BY <1>1, <1>5 DEF cpu_sysmemwrite
  <2>2. dev'.e1000 = dev.e1000 /\ dev'.txt = txt_write(dev.txt, addr, v) /\ dev'.dataseg = dev.dataseg
    BY <2>1 DEF DevicesTyped
  <2>3. \A w \in {1, 2} : dev'.txt.mle_join[w] = IF addr = JoinAt(w) THEN v ELSE dev.txt.mle_join[w]
    <3>1. \A w \in {1, 2} : w \in MleJoin(addr) <=> addr = JoinAt(w)
      BY Zenon DEF MleJoin, JoinAt
    <3>2. \A w \in {1, 2} : dev'.txt.mle_join[w] = IF w \in MleJoin(addr) THEN v ELSE dev.txt.mle_join[w]
      BY <2>2 DEF txt_write
    <3> QED
      BY <3>1, <3>2
  <2>4. \A r \in {"tctl", "tdbal", "tdlen", "tdt", "tdh"} : CardAt(r) # addr
    BY <1>5, WordsApart
  <2>5. Remembered'
    BY <1>1, <1>3, <2>2, <2>3, <2>4 DEF Remembered
  <2>6. Transmits'
    BY <1>1, <2>2 DEF Transmits
  <2> QED
    BY <2>5, <2>6
<1> QED
  BY <1>4, <1>5

(* What is left to show of a step that ends elsewhere than at an answer, or of a call whose answer
   nothing is said of. *)
LEMMA NothingSaid ==
  ASSUME plat'.pc # "returned" \/ plat'.fn \notin {"readu32", "txt_heap", "getRSDP", "cpu_queries"},
         plat'.pc # "rom"
  PROVE  Said'
  BY DEF Said, HeadRead, HeapSaid, RsdpSaid, CpuKnown

(* The devices and what is remembered of them stay. *)
LEMMA RestRemembers ==
  ASSUME Remembered, Transmits, dev' = dev, stored' = stored
  PROVE  Remembered' /\ Transmits'
  BY DEF Remembered, Transmits

(* A step within a call, which stays what it is. *)
LEMMA NamedStays ==
  ASSUME Named, plat'.fn = plat.fn, plat'.pc \notin {"read", "heap", "ebda", "rom", "cpu", "write"},
         plat.pc \in {"read", "heap", "ebda", "rom", "cpu"} => plat'.pc \in {"returned", "read_high"},
         plat'.pc = "read_high" => Wide, plat.pc # "returned"
  PROVE  Named'
  BY DEF Named, Wide

(* Reading system memory keeps what is remembered, and ends a transmission when it reads
   the head. *)
LEMMA ReadSays ==
  ASSUME PlatSays, ReadSysmem
  PROVE  Remembered' /\ Transmits' /\ Named' /\ Said'
<1>1. DevicesTyped /\ Asks /\ Remembered /\ Transmits /\ Named /\ CardTyped(dev.e1000) /\ stored' = stored
  BY DEF PlatSays, PlatInv, DevicesTyped, ReadSysmem
<1> DEFINE e == dev.e1000
           f == e1000_settle(e, plat.addr)
<1>2. /\ \A r \in {"tctl", "tdbal", "tdlen", "tdt"} : f[r] = e[r]
      /\ f["transmitting"] => e["transmitting"]
      /\ f["tdh"] # 0 => e["tdh"] # 0 \/ e["transmitting"]
  <2>1. DOMAIN e = DOMAIN E1000Offset \cup {"transmitting"}
    BY <1>1 DEF CardTyped
  <2>2. {"tctl", "tdbal", "tdlen", "tdt", "tdh"} \subseteq DOMAIN E1000Offset
    BY DEF E1000Offset
  <2> HIDE DEF e
  <2>3. CASE f = e
    BY <2>3
  <2>4. CASE e["transmitting"] /\ f = [e EXCEPT !.tdh = e.tdt, !.transmitting = FALSE]
    BY <2>1, <2>2, <2>4
  <2> QED
    BY <2>3, <2>4 DEF e1000_settle
<1>3. CASE dev' = AfterRead(dev, plat.addr) /\ plat.pc = "read"
  <2>1. dev'.e1000 = f /\ dev'.txt = dev.txt /\ dev'.dataseg = dev.dataseg
    BY <1>1, <1>3 DEF AfterRead, DevicesTyped
  <2> HIDE DEF f
  <2>2. Remembered' /\ Transmits'
    BY <1>1, <1>2, <2>1 DEF Remembered, Transmits
  <2>3. CASE Wide /\ PlatGoto("read_high")
    <3>1. plat'.pc = "read_high" /\ plat'.fn = plat.fn
      BY <1>1, <2>3, GoneTo
    <3> QED
      BY <1>1, <1>3, <2>2, <2>3, <3>1, NothingSaid, NamedStays
  <2>4. CASE ~Wide /\ PlatReturn(cpu_sysmemread(dev, plat.addr))
    <3>1. plat'.pc = "returned" /\ plat'.fn = plat.fn /\ plat'.addr = plat.addr
          /\ plat'.answer = cpu_sysmemread(dev, plat.addr)
      BY <1>1, <2>4, Answered
    <3>2. Named'
      BY <1>1, <1>3, <3>1, NamedStays
    <3>3. HeadRead'
      <4> SUFFICES ASSUME plat.addr = TDH
                   PROVE  /\ ~dev'.e1000.transmitting
                          /\ plat'.answer[1] # 0 => {TCTL, TDT} \subseteq DOMAIN stored'
        BY <3>1 DEF HeadRead
      <4>1. E1000Regs(plat.addr) = {"tdh"} /\ plat.addr = E1000_HWADDR_BASE + E1000Offset["tdh"]
            /\ "tdh" \in DOMAIN E1000Offset
        <5>1. "tdh" \in DOMAIN E1000Offset /\ TDH = E1000_HWADDR_BASE + E1000Offset["tdh"]
          BY DEF E1000Offset, TDH
        <5> QED
          BY <5>1, CardRegs
      <4>2. ~f["transmitting"]
        <5>1. "transmitting" \in DOMAIN e /\ e["transmitting"] \in BOOLEAN
          BY <1>1 DEF CardTyped
        <5> HIDE DEF e
        <5> QED
          BY <4>1, <5>1 DEF e1000_settle, f
      <4>3. plat'.answer = <<f["tdh"]>>
        BY <1>1, <3>1, <4>1, CardAnswers DEF Answer, f
      <4>4. f["tdh"] # 0 => {TCTL, TDT} \subseteq DOMAIN stored
        BY <1>1, <1>2 DEF Transmits
      <4> QED
        BY <1>1, <2>1, <4>2, <4>3, <4>4
    <3>4. plat'.fn \notin {"txt_heap", "getRSDP", "cpu_queries"}
      BY <1>1, <1>3, <3>1 DEF Named
    <3>5. Said'
      BY <3>1, <3>3, <3>4 DEF Said, HeapSaid, RsdpSaid, CpuKnown
    <3> QED
      BY <2>2, <3>2, <3>5
  <2> QED
    BY <1>3, <2>3, <2>4 DEF ReadSysmem, PlatAt
<1>4. CASE plat.pc = "read_high" /\ UNCHANGED dev /\ \E a : PlatReturn(a)
  <2>1. plat'.pc = "returned" /\ plat'.fn = plat.fn
    BY <1>1, <1>4, Answered
  <2>2. Named' /\ Said'
    BY <1>1, <1>4, <2>1, NamedStays, NothingSaid DEF Named
  <2> QED
    BY <1>1, <1>4, <2>2, RestRemembers
<1> QED
  BY <1>3, <1>4 DEF ReadSysmem, PlatAt

(* Writing system memory keeps what is remembered. *)
LEMMA WriteSays ==
  ASSUME PlatSays, WriteSysmem
  PROVE  Remembered' /\ Transmits' /\ Named' /\ Said'
<1>1. DevicesTyped /\ Asks /\ Remembered /\ Transmits /\ Named
  BY DEF PlatSays, PlatInv
<1>2. plat.pc \in {"write", "write_high"} /\ (PlatGoto("write_high") \/ PlatReturn(<<>>))
  BY DEF WriteSysmem, PlatAt
<1>3. plat'.fn = plat.fn /\ plat'.pc \in {"write_high", "returned"}
  BY <1>1, <1>2, GoneTo, Answered
<1>4. Named' /\ Said'
  <2>1. plat.fn \notin {"readu32", "txt_heap", "getRSDP", "cpu_queries"}
    BY <1>1, <1>2 DEF Named
  <2> QED
    BY <1>1, <1>2, <1>3, <2>1, NamedStays, NothingSaid
<1>5. CASE plat.pc = "write"
  <2>1. plat.value[1] \in 0..255 /\ plat.addr \in WriteAddrs \cup KeptAddrs
    BY <1>1, <1>5 DEF Asks, Named, KeptAddrs
  <2>2. StoreWord(plat.addr, plat.value[1])
    BY <1>5 DEF WriteSysmem, PlatAt
  <2>3. plat.value[1] \in 0..256
    BY <2>1
  <2>4. Remembered' /\ Transmits'
    BY <1>1, <2>1, <2>2, <2>3, StoreRemembers
  <2> QED
    BY <1>4, <2>4
<1>6. CASE plat.pc = "write_high"
  <2>1. plat.addr \in Kept64 /\ plat.value[2] \in 0..256
    BY <1>1, <1>6 DEF Asks
  <2>2. StoreWord(plat.addr + 4, plat.value[2])
    BY <1>6 DEF WriteSysmem, PlatAt
  <2>3. plat.addr + 4 \in WriteAddrs \cup KeptAddrs /\ ~In(plat.addr + 4, E1000_HWADDR_BASE, E1000_HWADDR_SIZE)
    BY <2>1, JoinApart DEF KeptAddrs
  <2>4. Remembered' /\ Transmits'
    BY <1>1, <2>1, <2>2, <2>3, StoreRemembers
  <2> QED
    BY <1>4, <2>4
<1> QED
  BY <1>2, <1>5, <1>6

(* A copy into low memory keeps what is remembered. *)
LEMMA CopySays ==
  ASSUME PlatSays, CopyToSysmem
  PROVE  Remembered' /\ Transmits' /\ Named' /\ Said'
<1>1. DevicesTyped /\ Asks /\ Remembered /\ Transmits /\ Named
  BY DEF PlatSays, PlatInv
<1>2. plat.pc = "obj2sys" /\ plat.addr = DATASEG_BASE
  BY <1>1 DEF CopyToSysmem, PlatAt, Asks
<1> DEFINE d == dev.dataseg
           words == [w \in {0, 8, 32} |-> plat.value[1]]
           after == [w \in DOMAIN d |-> IF In(DATASEG_BASE + w, plat.addr, 12) THEN words[w] ELSE d[w]]
<1>3. /\ dev' = [dev EXCEPT !.dataseg = mem_obj2sys(d, plat.addr, 12, words)[1]] /\ PlatReturn(<<>>)
      /\ stored' = [a \in DOMAIN stored \cup {DATASEG_BASE + 8} |->
                       IF a = DATASEG_BASE + 8 THEN plat.value[1] ELSE stored[a]]
  BY DEF CopyToSysmem
<1>4. mem_obj2sys(d, plat.addr, 12, words) = <<after>>
  <2>1. Within(plat.addr, 12, DATASEG_BASE, 256)
    BY <1>2 DEF Within, DATASEG_BASE, Addr
  <2>2. ~Within(plat.addr, 12, CODESEG_BASE, 4096)
    BY <1>2 DEF Within, DATASEG_BASE, CODESEG_BASE, Addr
  <2> QED
    BY <2>1, <2>2 DEF mem_obj2sys, Answer
<1>5. after[8] = plat.value[1]
  <2>1. In(DATASEG_BASE + 8, plat.addr, 12)
    BY <1>2 DEF In, DATASEG_BASE, Addr
  <2> QED
    BY <1>1, <2>1 DEF DevicesTyped
<1> HIDE DEF after, words, d
<1>6. dev'.dataseg = after /\ dev'.e1000 = dev.e1000 /\ dev'.txt = dev.txt
  BY <1>1, <1>3, <1>4 DEF DevicesTyped
<1>7. /\ DOMAIN stored' = DOMAIN stored \cup {DATASEG_BASE + 8}
      /\ \A a \in DOMAIN stored' : stored'[a] = IF a = DATASEG_BASE + 8 THEN plat.value[1] ELSE stored[a]
  BY <1>3
<1>8. /\ \A w \in {1, 2} : JoinAt(w) # DATASEG_BASE + 8
      /\ \A r \in {"tctl", "tdbal", "tdlen", "tdt"} : CardAt(r) # DATASEG_BASE + 8
  BY WordsApart
<1>9. Remembered'
  BY <1>1, <1>5, <1>6, <1>7, <1>8 DEF Remembered
<1>10. Transmits'
  BY <1>1, <1>6, <1>7 DEF Transmits
<1>11. plat'.pc = "returned" /\ plat'.fn = plat.fn /\ plat.fn \notin {"readu32", "txt_heap", "getRSDP", "cpu_queries"}
  BY <1>1, <1>2, <1>3, Answered DEF Named
<1> QED
  BY <1>1, <1>2, <1>9, <1>10, <1>11, NamedStays, NothingSaid

(* The walk through the TXT heap answers its blocks. *)
LEMMA WalkSays ==
  ASSUME PlatSays, WalkHeap
  PROVE  Remembered' /\ Transmits' /\ Named' /\ Said'
<1>1. DevicesTyped /\ Asks /\ Remembered /\ Transmits /\ Named
  BY DEF PlatSays, PlatInv
<1>2. plat.pc = "heap" /\ dev' = dev /\ stored' = stored
  BY DEF WalkHeap, PlatAt
<1>3. PlatReturn(HeapBlocks)
  BY <1>1, WalkFinds
<1>4. plat'.pc = "returned" /\ plat'.fn = plat.fn /\ plat'.answer = HeapBlocks
  BY <1>1, <1>3, Answered
<1>5. plat'.fn \notin {"readu32", "getRSDP", "cpu_queries"}
  BY <1>1, <1>2, <1>4 DEF Named
<1>6. HeapSaid'
  BY <1>4 DEF HeapSaid
<1>7. Said'
  BY <1>4, <1>5, <1>6 DEF Said, HeadRead, RsdpSaid, CpuKnown
<1> QED
  BY <1>1, <1>2, <1>4, <1>7, RestRemembers, NamedStays

(* The word of the BIOS that is read. *)
LEMMA SegmentAnswers ==
  ASSUME DevicesTyped
  PROVE  cpu_sysmemread(dev, BIOS_BDA_BASE + 14) = <<40640>>
<1>1. BIOS_BDA_BASE + 14 \in Int
  BY DEF BIOS_BDA_BASE, Addr
<1>2. PICK a : a = BIOS_BDA_BASE + 14
  OBVIOUS
<1>3. Answers(dev, a)[3] = <<40640>>
  BY <1>2 DEF Answers, bios_read, Answer, BIOS_EBDA_SEG
<1>4. Answers(dev, a)[3] # Unanswered
  BY <1>3 DEF Unanswered
<1>5. cpu_sysmemread(dev, a) = Answers(dev, a)[3]
  BY <1>1, <1>2, <1>4, OneAnswers
<1> QED
  BY <1>2, <1>3, <1>5

(* The questions about the CPU are answered by what it tells. *)
LEMMA QueriesSay ==
  ASSUME PlatSays, cpu_queries, machine' = machine
  PROVE  Remembered' /\ Transmits' /\ Named' /\ Said'
<1>1. DevicesTyped /\ Asks /\ Remembered /\ Transmits /\ Named
  BY DEF PlatSays, PlatInv
<1>2. plat.pc = "cpu" /\ dev' = dev /\ stored' = stored /\ PlatReturn(<<getcpuvendor, getcpulapicid, lapic_isbsp>>)
  BY DEF cpu_queries, PlatAt
<1>3. plat'.pc = "returned" /\ plat'.fn = plat.fn /\ plat'.answer = <<getcpuvendor, getcpulapicid, lapic_isbsp>>
  BY <1>1, <1>2, Answered
<1>5. getcpuvendor = "INTEL" <=>
        <<machine.vendor.ebx, machine.vendor.edx, machine.vendor.ecx>> = <<"Genu", "ineI", "ntel">>
  <2> DEFINE words == <<machine.vendor.ebx, machine.vendor.edx, machine.vendor.ecx>>
  <2>1. getcpuvendor = CASE words = AMD_STRING -> "AMD" [] words = INTEL_STRING -> "INTEL" [] OTHER -> "UNKNOWN"
    BY DEF getcpuvendor
  <2>2. AMD_STRING # INTEL_STRING
    BY DEF AMD_STRING, INTEL_STRING
  <2> HIDE DEF words
  <2>3. getcpuvendor = "INTEL" <=> words = INTEL_STRING
    BY <2>1, <2>2
  <2> QED
    BY <2>3 DEF words, INTEL_STRING
<1>6. CpuKnown'
  BY <1>3, <1>5 DEF CpuKnown
<1>7. plat'.fn \notin {"readu32", "getRSDP", "txt_heap"}
  BY <1>1, <1>2, <1>3 DEF Named
<1>8. Said'
  BY <1>3, <1>6, <1>7 DEF Said, HeadRead, RsdpSaid, HeapSaid
<1> QED
  BY <1>1, <1>2, <1>3, <1>8, RestRemembers, NamedStays

(* What the search finds. *)
LEMMA RootPointersAre ==
  ASSUME NEW b, NEW e
  PROVE  \A a : a \in RootPointers(b, e) <=>
                  a \in DOMAIN machine.bios /\ machine.bios[a] /\ a \in b..(e - 1) /\ (a - b) % 16 = 0
BY DEF RootPointers

(* The two windows of the search are those of the standard. *)
LEMMA WindowsSearched ==
  ASSUME DevicesTyped
  PROVE  LET ebdaphys == Addr(0, 0) + 16 * cpu_sysmemread(dev, BIOS_BDA_BASE + 14)[1]
         IN  /\ RootPointers(ebdaphys, ebdaphys + 1016) = Valid(1)
             /\ RootPointers(Addr(14, 0), Addr(15, 65527)) = Valid(2)
<1> DEFINE low == Addr(9, 60416)
           high == Addr(14, 0)
           ebdaphys == Addr(0, 0) + 16 * cpu_sysmemread(dev, BIOS_BDA_BASE + 14)[1]
<1>1. low \in Int /\ low % 16 = 0 /\ Addr(9, 61439) = low + 1023 /\ ebdaphys = low
  <2>1. ebdaphys = Addr(0, 0) + 16 * 40640
    BY SegmentAnswers
  <2> QED
    BY <2>1 DEF Addr
<1>2. high \in Int /\ high % 16 = 0 /\ Addr(15, 65535) = high + 131071 /\ Addr(15, 65527) = high + 131063
  BY DEF Addr
<1>3. Windows[1] = low..(low + 1023) /\ Windows[2] = high..(high + 131071)
  BY <1>1, <1>2 DEF Windows
<1> HIDE DEF low, high, ebdaphys
<1>4. ASSUME NEW a \in Int, NEW b \in Int, b % 16 = 0
      PROVE  /\ (a - b) % 16 = 0 <=> a % 16 = 0
             /\ a \in b..(b + 1023) /\ a % 16 = 0 <=> a \in b..(b + 1016 - 1) /\ a % 16 = 0
             /\ a \in b..(b + 131071) /\ a % 16 = 0 <=> a \in b..(b + 131063 - 1) /\ a % 16 = 0
  BY <1>4
<1>5. RootPointers(low, low + 1016) = Valid(1)
  <2>1. PICK b, e : b = low /\ e = low + 1016
    OBVIOUS
  <2> DEFINE D == DOMAIN machine.bios
             B(a) == machine.bios[a]
             I(a) == a \in b..(e - 1) /\ (a - b) % 16 = 0
             J(a) == a \in low..(low + 1023) /\ a % 16 = 0
  <2>2. \A a : I(a) <=> J(a)
    <3>1. b \in Int /\ b % 16 = 0 /\ b = low /\ e - 1 = b + 1016 - 1
      BY <1>1, <2>1
    <3>2. ASSUME NEW a, a \in Int
          PROVE  I(a) <=> J(a)
      BY <1>4, <3>1, <3>2
    <3>3. ASSUME NEW a, a \notin Int
          PROVE  ~I(a) /\ ~J(a)
      BY <3>3
    <3> QED
      BY <3>2, <3>3
  <2>3. \A a : a \in RootPointers(b, e) <=> a \in D /\ B(a) /\ I(a)
    BY RootPointersAre
  <2>4. \A a : a \in Valid(1) <=> a \in D /\ B(a) /\ J(a)
    BY <1>3 DEF Valid
  <2> HIDE DEF D, B, I, J
  <2>5. RootPointers(b, e) = Valid(1)
    BY <2>2, <2>3, <2>4
  <2> QED
    BY <2>1, <2>5
<1>6. RootPointers(high, high + 131063) = Valid(2)
  <2>1. PICK b, e : b = high /\ e = high + 131063
    OBVIOUS
  <2> DEFINE D == DOMAIN machine.bios
             B(a) == machine.bios[a]
             I(a) == a \in b..(e - 1) /\ (a - b) % 16 = 0
             J(a) == a \in high..(high + 131071) /\ a % 16 = 0
  <2>2. \A a : I(a) <=> J(a)
    <3>1. b \in Int /\ b % 16 = 0 /\ b = high /\ e - 1 = b + 131063 - 1
      BY <1>2, <2>1
    <3>2. ASSUME NEW a, a \in Int
          PROVE  I(a) <=> J(a)
      BY <1>4, <3>1, <3>2
    <3>3. ASSUME NEW a, a \notin Int
          PROVE  ~I(a) /\ ~J(a)
      BY <3>3
    <3> QED
      BY <3>2, <3>3
  <2>3. \A a : a \in RootPointers(b, e) <=> a \in D /\ B(a) /\ I(a)
    BY RootPointersAre
  <2>4. \A a : a \in Valid(2) <=> a \in D /\ B(a) /\ J(a)
    BY <1>3 DEF Valid
  <2> HIDE DEF D, B, I, J
  <2>5. RootPointers(b, e) = Valid(2)
    BY <2>2, <2>3, <2>4
  <2> QED
    BY <2>1, <2>5
<1> QED
  BY <1>1, <1>2, <1>5, <1>6 DEF high, ebdaphys

(* The search answers the first valid root pointer of the first window that has one. *)
LEMMA SearchSays ==
  ASSUME PlatSays, getRSDP, machine' = machine
  PROVE  Remembered' /\ Transmits' /\ Named' /\ Said'
<1>1. DevicesTyped /\ Asks /\ Remembered /\ Transmits /\ Named /\ RsdpSaid
  BY DEF PlatSays, PlatInv, Said
<1>2. plat.pc \in {"ebda", "rom"} /\ dev' = dev /\ stored' = stored
  BY DEF getRSDP, PlatAt
<1>3. plat.fn \notin {"readu32", "txt_heap", "cpu_queries"}
  BY <1>1, <1>2 DEF Named
<1>4. /\ plat.pc = "ebda" => IF Valid(1) # {} THEN PlatReturn(<<First(Valid(1))>>) ELSE PlatGoto("rom")
      /\ plat.pc = "rom" => IF Valid(2) # {} THEN PlatReturn(<<First(Valid(2))>>) ELSE PlatReturn(<<Addr(0, 0)>>)
  <2> DEFINE
    ebdaphys == Addr(0, 0) + 16 * cpu_sysmemread(dev, BIOS_BDA_BASE + 14)[1]
    low == RootPointers(ebdaphys, ebdaphys + 1016)
    high == RootPointers(Addr(14, 0), Addr(15, 65527))
  <2>1. /\ plat.pc = "ebda" => IF low # {} THEN PlatReturn(<<First(low)>>) ELSE PlatGoto("rom")
        /\ plat.pc = "rom" => IF high # {} THEN PlatReturn(<<First(high)>>) ELSE PlatReturn(<<Addr(0, 0)>>)
    BY DEF getRSDP, PlatAt
  <2>2. low = Valid(1) /\ high = Valid(2)
    BY <1>1, WindowsSearched
  <2> HIDE DEF low, high
  <2> QED
    BY <2>1, <2>2
<1>5. Valid(1)' = Valid(1) /\ Valid(2)' = Valid(2)
  BY DEF Valid
<1>6. CASE PlatGoto("rom") /\ plat.pc = "ebda" /\ Valid(1) = {}
  <2>1. plat'.pc = "rom" /\ plat'.fn = plat.fn
    BY <1>1, <1>6, GoneTo
  <2>2. Named'
    BY <1>1, <1>3, <1>6, <2>1 DEF Named, Wide
  <2>3. Said'
    BY <1>5, <1>6, <2>1 DEF Said, HeadRead, HeapSaid, RsdpSaid, CpuKnown
  <2> QED
    BY <1>1, <1>2, <2>2, <2>3, RestRemembers
<1>7. ASSUME NEW a, PlatReturn(<<a>>),
             a = IF Valid(1) # {} THEN First(Valid(1)) ELSE IF Valid(2) # {} THEN First(Valid(2)) ELSE Addr(0, 0)
      PROVE  Remembered' /\ Transmits' /\ Named' /\ Said'
  <2>1. plat'.pc = "returned" /\ plat'.fn = plat.fn /\ plat'.answer = <<a>>
    BY <1>1, <1>7, Answered
  <2>2. RsdpSaid'
    BY <1>5, <1>7, <2>1 DEF RsdpSaid
  <2>3. Said'
    BY <1>3, <2>1, <2>2 DEF Said, HeadRead, HeapSaid, CpuKnown
  <2> QED
    BY <1>1, <1>2, <2>1, <2>3, RestRemembers, NamedStays
<1>8. CASE plat.pc = "ebda"
  BY <1>4, <1>6, <1>7, <1>8
<1>9. CASE plat.pc = "rom"
  <2>1. Valid(1) = {}
    BY <1>1, <1>9 DEF RsdpSaid
  <2> QED
    BY <1>4, <1>7, <1>9, <2>1
<1> QED
  BY <1>2, <1>8, <1>9

(* A delay and a reboot change no device. *)
LEMMA OthersSay ==
  ASSUME PlatSays, udelay \/ reboot
  PROVE  Remembered' /\ Transmits' /\ Named' /\ Said'
<1>1. Asks /\ Remembered /\ Transmits /\ Named /\ dev' = dev /\ stored' = stored
  BY DEF PlatSays, PlatInv, udelay, reboot
<1>2. plat.pc \in {"gate", "mode", "latch_low", "latch_high", "count", "close", "flush", "pulse"}
  BY DEF udelay, reboot, PlatAt
<1>3. \/ \E p \in {"mode", "latch_low", "latch_high", "count", "close", "pulse", "halted"} : PlatGoto(p)
      \/ PlatReturn(ports.latch)
  BY DEF udelay, reboot
<1>4. plat'.fn = plat.fn
      /\ plat'.pc \in {"mode", "latch_low", "latch_high", "count", "close", "pulse", "halted", "returned"}
  BY <1>1, <1>3, GoneTo, Answered
<1>5. plat.fn \notin {"readu32", "txt_heap", "getRSDP", "cpu_queries"}
  BY <1>1, <1>2 DEF Named
<1> QED
  BY <1>1, <1>2, <1>4, <1>5, RestRemembers, NamedStays, NothingSaid

(* Going back to rest changes no device. *)
LEMMA DoneSays ==
  ASSUME PlatSays, PlatDone
  PROVE  Remembered' /\ Transmits' /\ Named' /\ Said'
<1>1. Remembered /\ Transmits /\ dev' = dev /\ stored' = stored /\ plat' = NoPlatCall
  BY DEF PlatSays, PlatDone
<1>2. Named' /\ Said'
  BY <1>1, NothingSaid DEF Named, NoPlatCall
<1> QED
  BY <1>1, <1>2, RestRemembers

(* A new call changes no device and has answered nothing. *)
LEMMA CallSays ==
  ASSUME PlatSays, PlatCall
  PROVE  Remembered' /\ Transmits' /\ Named' /\ Said'
<1>1. Remembered /\ Transmits /\ dev' = dev /\ stored' = stored
  BY DEF PlatSays, PlatCall
<1>2. PICK fn, pc, addr, value : plat' = CallOf(fn, pc, addr, value) /\ Callable(fn, pc, addr, value)
  <2>1. PICK c \in PlatCallSet : plat' = c
    BY DEF PlatCall
  <2> QED
    BY <2>1, CallsKnown
<1>3. plat'.fn = fn /\ plat'.pc = pc /\ plat'.addr = addr
  BY <1>2 DEF CallOf, NoPlatCall
<1>4. Named'
  BY <1>2, <1>3 DEF Named, Wide, Callable
<1>5. Said'
  BY <1>2, <1>3, NothingSaid DEF Callable
<1> QED
  BY <1>1, <1>4, <1>5, RestRemembers

(* What the devices hold and the call has answered stays when neither changes. *)
LEMMA StaySays ==
  ASSUME PlatSays, dev' = dev, stored' = stored, plat' = plat, machine' = machine
  PROVE  Remembered' /\ Transmits' /\ Named' /\ Said'
<1>1. Remembered' /\ Transmits'
  BY RestRemembers DEF PlatSays
<1>2. Named'
  BY DEF PlatSays, Named, Wide
<1>3. HeadRead' /\ HeapSaid' /\ CpuKnown'
  BY DEF PlatSays, Said, HeadRead, HeapSaid, CpuKnown
<1>4. RsdpSaid'
  <2>1. Valid(1)' = Valid(1) /\ Valid(2)' = Valid(2)
    BY DEF Valid
  <2> QED
    BY <2>1 DEF PlatSays, Said, RsdpSaid
<1> QED
  BY <1>1, <1>2, <1>3, <1>4 DEF Said

(* Every step of a call about the platform preserves what is remembered and answered. *)
LEMMA SaysPreserved == PlatSays /\ [PlatNext]_platVars => PlatSays'
<1> SUFFICES ASSUME PlatSays, [PlatNext]_platVars PROVE PlatSays'
  OBVIOUS
<1>1. PlatInv'
  BY PlatPreserved DEF PlatSays
<1>2. CASE PlatCall
  BY <1>1, <1>2, CallSays DEF PlatSays
<1>3. CASE PlatStep
  <2>1. machine' = machine
    BY <1>3 DEF PlatStep
  <2>2. Remembered' /\ Transmits' /\ Named' /\ Said'
    BY <1>3, <2>1, ReadSays, WriteSays, CopySays, WalkSays, SearchSays, OthersSay, QueriesSay, DoneSays DEF PlatStep
  <2> QED
    BY <1>1, <2>2 DEF PlatSays
<1>4. CASE PortStep \/ UNCHANGED platVars
  <2>1. dev' = dev /\ stored' = stored /\ plat' = plat /\ machine' = machine
    BY <1>4 DEF PortStep, TimerFires, KeyboardFlushes, platVars
  <2> QED
    BY <1>1, <2>1, StaySays DEF PlatSays
<1> QED
  BY <1>2, <1>3, <1>4 DEF PlatNext

(* It holds in the beginning, when nothing was written or answered. *)
LEMMA SaysInitially == PlatInit => PlatSays
<1> SUFFICES ASSUME PlatInit PROVE PlatSays
  OBVIOUS
<1>1. PlatInv
  BY PlatInitially
<1>2. Remembered
  BY DEF PlatInit, Remembered
<1>3. Transmits
  <2>1. dev.e1000 = [r \in DOMAIN E1000Offset \cup {"transmitting"} |-> IF r = "transmitting" THEN FALSE ELSE 0]
    BY DEF PlatInit, xmhfhwm_devices
  <2>2. {"tctl", "tdt", "tdh"} \subseteq DOMAIN E1000Offset
    BY DEF E1000Offset
  <2>3. ~dev.e1000["transmitting"] /\ \A r \in {"tctl", "tdt", "tdh"} : dev.e1000[r] = 0
    BY <2>1, <2>2
  <2> QED
    BY <2>3 DEF Transmits
<1>4. Named
  BY DEF PlatInit, NoPlatCall, Named
<1>5. Said
  BY DEF PlatInit, NoPlatCall, Said, HeadRead, HeapSaid, RsdpSaid, CpuKnown
<1> QED
  BY <1>1, <1>2, <1>3, <1>4, <1>5 DEF PlatSays
-----------------------------------------------------------------------------
(* One device answers an address, and what was written is read back. *)
LEMMA ApartSaid ==
  ASSUME PlatSays
  PROVE  DevicesApart
<1>1. DevicesTyped /\ Remembered
  BY DEF PlatSays, PlatInv
<1>2. ASSUME NEW a \in ReadAddrs \cup WriteAddrs \cup KeptAddrs
      PROVE  Cardinality(Answering(Answers(dev, a))) <= 1
  <2>1. /\ E1000_HWADDR_BASE \in Int /\ TXT_PRIV_CONFIG_REGS_BASE \in Int /\ TXTCR_MLE_JOIN \in Int
        /\ BIOS_BDA_BASE \in Int /\ DATASEG_BASE \in Int /\ LAPIC_REG_ID \in Int /\ RLPWAKEUPADDR \in Int
        /\ VTDDMARTABLEBASE \in Int /\ Addr(0, 1019) \in Int /\ E1000_HWADDR_SIZE \in Int
    BY DEF E1000_HWADDR_BASE, TXT_PRIV_CONFIG_REGS_BASE, TXTCR_MLE_JOIN, BIOS_BDA_BASE, DATASEG_BASE,
       LAPIC_REG_ID, RLPWAKEUPADDR, VTDDMARTABLEBASE, Addr, E1000_HWADDR_SIZE
  <2>2. {TCTL, TDH, TDT, E1000_HWADDR_BASE + E1000Offset.eecd} \subseteq Int /\ KeptRegs \subseteq Int
    BY <2>1 DEF TCTL, TDH, TDT, KeptRegs, E1000Offset
  <2>3. ReadAddrs \subseteq Int
    <3>1. /\ BIOS_BDA_BASE + 14 \in Int /\ DATASEG_BASE + 8 \in Int
          /\ E1000_HWADDR_BASE + E1000_HWADDR_SIZE - 1 \in Int
      BY <2>1
    <3> QED
      BY <2>1, <2>2, <3>1 DEF ReadAddrs
  <2>4. WriteAddrs \subseteq Int
    <3>1. E1000_HWADDR_BASE + 4 \in Int /\ BIOS_BDA_BASE + 255 \in Int
      BY <2>1
    <3> DEFINE eecd == E1000_HWADDR_BASE + E1000Offset.eecd
               next == E1000_HWADDR_BASE + 4
               last == BIOS_BDA_BASE + 255
               ivt == Addr(0, 1019)
    <3>2. WriteAddrs = KeptRegs \cup {TDT, next, VTDDMARTABLEBASE, last, ivt, RLPWAKEUPADDR, eecd}
      BY DEF WriteAddrs
    <3>3. eecd \in Int /\ next \in Int /\ last \in Int /\ ivt \in Int
      BY <2>1, <2>2, <3>1
    <3> HIDE DEF eecd, next, last, ivt
    <3>4. KeptRegs \subseteq Int /\ TDT \in Int
      BY <2>2
    <3>5. ASSUME NEW w \in WriteAddrs
          PROVE  w \in Int
      <4>1. w \in KeptRegs \/ w \in {TDT, next, VTDDMARTABLEBASE, last, ivt, RLPWAKEUPADDR, eecd}
        BY <3>2
      <4>2. {TDT, next, VTDDMARTABLEBASE, last, ivt, RLPWAKEUPADDR, eecd} \subseteq Int
        <5>1. TDT \in Int /\ VTDDMARTABLEBASE \in Int /\ RLPWAKEUPADDR \in Int
          BY <2>1, <3>4
        <5> QED
          BY <3>3, <5>1, Zenon
      <4> QED
        BY <3>4, <4>1, <4>2, Zenon
    <3> QED
      BY <3>5
  <2>5. KeptAddrs \subseteq Int
    <3>1. Kept64 \subseteq Int
      BY <2>1 DEF Kept64
    <3>2. {k + 4 : k \in Kept64} \subseteq Int
      BY <3>1
    <3> QED
      BY <2>2, <3>1, <3>2 DEF KeptAddrs
  <2> QED
    BY <1>1, <2>3, <2>4, <2>5, OneAnswers
<1>3. ASSUME NEW a \in DOMAIN stored \cap (KeptAddrs \cup {TDT, DATASEG_BASE + 8})
      PROVE  cpu_sysmemread(dev, a) = Answer(stored[a])
  <2>1. \/ \E r \in {"tctl", "tdbal", "tdlen", "tdt"} : a = CardAt(r)
        \/ \E w \in {1, 2} : a = JoinAt(w)
        \/ a = DATASEG_BASE + 8
    <3>1. a \in KeptRegs \/ a = TDT => \E r \in {"tctl", "tdbal", "tdlen", "tdt"} : a = CardAt(r)
      BY DEF KeptRegs, TDT, CardAt
    <3>2. JoinAt(1) \in Int /\ JoinAt(1) = TXT_PRIV_CONFIG_REGS_BASE + TXTCR_MLE_JOIN /\ JoinAt(2) = JoinAt(1) + 4
      BY DEF JoinAt, TXT_PRIV_CONFIG_REGS_BASE, Addr, TXTCR_MLE_JOIN
    <3>3. a \in Kept64 \cup {k + 4 : k \in Kept64} => a = JoinAt(1) \/ a = JoinAt(2)
      BY <3>2 DEF Kept64
    <3> QED
      BY <3>1, <3>3 DEF KeptAddrs
  <2>2. ASSUME NEW r \in {"tctl", "tdbal", "tdlen", "tdt"}, a = CardAt(r)
        PROVE  cpu_sysmemread(dev, a) = Answer(stored[a])
    <3>1. r \in DOMAIN E1000Offset /\ r # "tdh"
      BY DEF E1000Offset
    <3>2. cpu_sysmemread(dev, a) = Answer(e1000_settle(dev.e1000, a)[r])
      BY <1>1, <2>2, <3>1, CardAnswers DEF CardAt
    <3>3. E1000Regs(a) = {r}
      BY <2>2, <3>1, CardRegs DEF CardAt
    <3>4. e1000_settle(dev.e1000, a) = dev.e1000
      BY <3>1, <3>3 DEF e1000_settle
    <3>5. dev.e1000[r] = stored[a]
      BY <1>1, <2>2 DEF Remembered
    <3> QED
      BY <3>2, <3>4, <3>5
  <2>3. ASSUME NEW w \in {1, 2}, a = JoinAt(w)
        PROVE  cpu_sysmemread(dev, a) = Answer(stored[a])
    BY <1>1, <2>3, JoinAnswers DEF JoinAt, Remembered
  <2>4. CASE a = DATASEG_BASE + 8
    BY <1>1, <2>4, DatasegAnswers DEF Remembered
  <2> QED
    BY <2>1, <2>2, <2>3, <2>4
<1> QED
  BY <1>2, <1>3 DEF DevicesApart

(* What the walk answered is where the hardware model has put the blocks. *)
LEMMA HeapIsWalked ==
  ASSUME PlatSays
  PROVE  HeapWalked
<1> SUFFICES ASSUME plat.pc = "returned", plat.fn = "txt_heap"
             PROVE  /\ \A i \in DOMAIN Blocks :
                         /\ plat.answer[i].start = HEAPBASE + BlockOffset[Blocks[i]] + 8
                         /\ plat.answer[i].size = BlockSize[Blocks[i]]
                    /\ plat.answer[4].start - 8 + plat.answer[4].size = HEAPBASE + HeapSize
                    /\ SysmemWritten(cpu_sysmemread(dev, plat.answer[4].start + 120)[1])
  BY Zenon DEF HeapWalked
<1>1. DevicesTyped /\ plat.answer = HeapBlocks
  BY DEF PlatSays, PlatInv, Said, HeapSaid
<1> DEFINE base == HEAPBASE
<1>2. base \in Int
  BY DEF HEAPBASE, Addr
<1>3. /\ plat.answer[1].start = base + 8 /\ plat.answer[1].size = 44
      /\ plat.answer[2].start = base + 52 /\ plat.answer[2].size = 4104
      /\ plat.answer[3].start = base + 4156 /\ plat.answer[3].size = 100
      /\ plat.answer[4].start = base + 4256 /\ plat.answer[4].size = 156
  BY <1>1 DEF HeapBlocks
<1>4. HeapSize = 4404
  BY DEF HeapSize
<1>5. cpu_sysmemread(dev, base + 4376) = Answer(RLPWAKEUPADDR)
  BY <1>1, <1>4, HeapAnswers, HeapWords
<1> HIDE DEF base
<1>6. ASSUME NEW i \in DOMAIN Blocks
      PROVE  /\ plat.answer[i].start = base + BlockOffset[Blocks[i]] + 8
             /\ plat.answer[i].size = BlockSize[Blocks[i]]
  <2>1. i \in {1, 2, 3, 4}
    BY DEF Blocks
  <2>2. /\ Blocks[1] = "biosdata" /\ Blocks[2] = "osmledata" /\ Blocks[3] = "ossinitdata"
        /\ Blocks[4] = "sinitmledata"
    BY DEF Blocks
  <2>3. /\ BlockOffset["biosdata"] = 0 /\ BlockOffset["osmledata"] = 44
        /\ BlockOffset["ossinitdata"] = 4148 /\ BlockOffset["sinitmledata"] = 4248
    BY DEF BlockOffset
  <2>4. /\ BlockSize["biosdata"] = 44 /\ BlockSize["osmledata"] = 4104
        /\ BlockSize["ossinitdata"] = 100 /\ BlockSize["sinitmledata"] = 156
    BY DEF BlockSize
  <2> QED
    BY <1>2, <1>3, <2>1, <2>2, <2>3, <2>4
<1>7. plat.answer[4].start - 8 + plat.answer[4].size = base + HeapSize
  BY <1>2, <1>3, <1>4
<1>8. SysmemWritten(cpu_sysmemread(dev, plat.answer[4].start + 120)[1])
  <2>1. cpu_sysmemread(dev, plat.answer[4].start + 120)[1] = RLPWAKEUPADDR
    <3>1. plat.answer[4].start + 120 = base + 4376
      BY <1>2, <1>3
    <3> QED
      BY <1>5, <3>1 DEF Answer
  <2> QED
    BY <2>1 DEF SysmemWritten, TxtWritten
<1> QED
  BY <1>6, <1>7, <1>8 DEF base

(* The copies at the ends of the windows of the search are answered. *)
LEMMA WindowsAnswered ==
  \A a \in {Addr(9, 60416), Addr(9, 60416 + 1008), Addr(14, 0), Addr(15, 65520)} : cpu_sysmemcopy(a, 36) # Unanswered
<1> DEFINE page == 65536
<1>1. HEAPBASE = 28160 * page
  BY DEF HEAPBASE, Addr
<1>2. /\ Addr(9, 60416) = (9 - 32768) * page + 60416 /\ Addr(9, 60416 + 1008) = (9 - 32768) * page + 61424
      /\ Addr(14, 0) = (14 - 32768) * page /\ Addr(15, 65520) = (15 - 32768) * page + 65520
  BY DEF Addr
<1>3. ACPIRSDTBASE = (55422 - 32768) * page + 61480 /\ VTDDMARTABLEBASE = (55423 - 32768) * page + 61096
  BY DEF ACPIRSDTBASE, VTDDMARTABLEBASE, Addr
<1>4. ASSUME NEW a \in {Addr(9, 60416), Addr(9, 60416 + 1008), Addr(14, 0), Addr(15, 65520)}
      PROVE  cpu_sysmemcopy(a, 36) # Unanswered
  <2> DEFINE
    ebda == a >= BIOS_EBDA_BASE /\ a + 36 < BIOS_EBDA_BASE + BIOS_EBDA_SIZE
    rom == a >= BIOS_ROMBASE /\ a + 36 < BIOS_ROMBASE + BIOS_ROMSIZE
    found == Answer(IF a = BIOS_ROMBASE THEN "rsdp" ELSE "nothing")
    rsdt == a = ACPIRSDTBASE
    entries == Within(a, 36, ACPIRSDTENTRIESBASE, 4)
    dmar == Within(a, 36, VTDDMARTABLEBASE, 48)
    units == Within(a, 36, VTDDMARTABLEBASE + 48, 32)
  <2>1. bios_copied(a, 36) =
          CASE ebda -> Answer("nothing") [] rom -> found [] rsdt -> Answer("rsdt")
            [] entries -> Answer("rsdt entries") [] dmar -> Answer("dmar")
            [] units -> Answer("remapping structures") [] OTHER -> Unanswered
    BY DEF bios_copied
  <2>2. a \in Int /\ a < 0 /\ HEAPBASE > 0 /\ ACPIRSDTBASE > 0 /\ VTDDMARTABLEBASE > 0 /\ ACPIRSDTBASE \in Int
        /\ VTDDMARTABLEBASE \in Int /\ HEAPBASE \in Int
    BY <1>1, <1>2, <1>3
  <2>3. ~rsdt /\ ~entries /\ ~dmar /\ ~units /\ ~(a >= HEAPBASE)
    BY <2>2 DEF Within, ACPIRSDTENTRIESBASE
  <2>4. (ebda \/ rom) /\ ~(ebda /\ rom)
    BY <1>2 DEF BIOS_EBDA_BASE, BIOS_EBDA_SIZE, BIOS_ROMBASE, BIOS_ROMSIZE
  <2>5. Answer("nothing") # Unanswered /\ found # Unanswered
    BY DEF Answer, Unanswered
  <2> HIDE DEF ebda, rom, found, rsdt, entries, dmar, units
  <2>6. bios_copied(a, 36) # Unanswered
    BY <2>1, <2>3, <2>4, <2>5
  <2> QED
    BY <2>3, <2>6 DEF cpu_sysmemcopy
<1> QED
  BY <1>4

(* What the search answered is what the standard says of the two windows. *)
LEMMA RsdpIsFound ==
  ASSUME PlatSays
  PROVE  RsdpFound
<1>1. RsdpSaid
  BY DEF PlatSays, Said
<1>2. \A w : Valid(w) = {a \in DOMAIN machine.bios : machine.bios[a] /\ a \in Windows[w] /\ a % 16 = 0}
  BY DEF Valid
<1> DEFINE valid(w) == {a \in DOMAIN machine.bios : machine.bios[a] /\ a \in Windows[w] /\ a % 16 = 0}
<1>3. ASSUME plat.pc = "returned", plat.fn = "getRSDP"
      PROVE  plat.answer[1] = IF valid(1) # {} THEN First(valid(1))
                              ELSE IF valid(2) # {} THEN First(valid(2)) ELSE Addr(0, 0)
  BY <1>1, <1>2, <1>3, Zenon DEF RsdpSaid
<1> HIDE DEF valid
<1> DEFINE answered == plat.answer[1] = IF valid(1) # {} THEN First(valid(1))
                                        ELSE IF valid(2) # {} THEN First(valid(2)) ELSE Addr(0, 0)
           ends == \A a \in {Addr(9, 60416), Addr(9, 60416 + 1008), Addr(14, 0), Addr(15, 65520)} :
                     cpu_sysmemcopy(a, 36) # Unanswered
<1>4. ends
  BY WindowsAnswered
<1>5. plat.pc = "returned" /\ plat.fn = "getRSDP" => answered
  BY <1>3
<1> SUFFICES ASSUME plat.pc = "returned", plat.fn = "getRSDP"
             PROVE  ends /\ answered
  BY DEF RsdpFound, valid
<1> HIDE DEF ends, answered
<1> QED
  BY <1>4, <1>5

(* The calls of the platform answer what they promise and leave behind what they promise. *)
THEOREM CallsAreRight == PlatSpec => []PlatformCallsRight
<1>1. PlatInit => PlatSays
  BY SaysInitially
<1>2. PlatSays /\ [PlatNext]_platVars => PlatSays'
  BY SaysPreserved
<1>3. PlatSays => PlatformCallsRight
  <2> SUFFICES ASSUME PlatSays PROVE PlatformCallsRight
    OBVIOUS
  <2>1. DevicesApart /\ HeapWalked /\ RsdpFound
    BY ApartSaid, HeapIsWalked, RsdpIsFound
  <2>2. HeadRead /\ CpuKnown
    BY DEF PlatSays, Said
  <2>3. DelayCounted /\ ResetIntoEmptyBuffer
    BY PlatImplied DEF PlatSays
  <2> QED
    BY <2>1, <2>2, <2>3 DEF PlatformCallsRight
<1> QED
  BY <1>1, <1>2, <1>3, PTL DEF PlatSpec
-----------------------------------------------------------------------------
(* A step of the platform is a step of the active component, or none of it. *)
LEMMA VtdSteps == [PlatformNext]_platformVars => [VtdNext]_vtdVars
<1> SUFFICES ASSUME [PlatformNext]_platformVars PROVE VtdNext \/ UNCHANGED vtdVars
  BY Zenon
<1>1. CASE UNCHANGED platformVars
  BY <1>1 DEF platformVars
<1>2. CASE PlatformNext
  BY <1>2, Zenon DEF PlatformNext, AllBut
<1> QED
  BY <1>1, <1>2, Zenon

(* The same for the configuration space. *)
LEMMA PciSteps == [PlatformNext]_platformVars => [PciNext]_pciVars
<1> SUFFICES ASSUME [PlatformNext]_platformVars PROVE PciNext \/ UNCHANGED pciVars
  BY Zenon
<1>1. CASE UNCHANGED platformVars
  BY <1>1 DEF platformVars
<1>2. CASE PlatformNext
  BY <1>2, Zenon DEF PlatformNext, AllBut
<1> QED
  BY <1>1, <1>2, Zenon

(* The same for the MTRRs. *)
LEMMA MtrrSteps == [PlatformNext]_platformVars => [MtrrNext]_mtrrVars
<1> SUFFICES ASSUME [PlatformNext]_platformVars PROVE MtrrNext \/ UNCHANGED mtrrVars
  BY Zenon
<1>1. CASE UNCHANGED platformVars
  BY <1>1 DEF platformVars
<1>2. CASE PlatformNext
  BY <1>2, Zenon DEF PlatformNext, AllBut
<1> QED
  BY <1>1, <1>2, Zenon

(* The same for the register accesses. *)
LEMMA RegSteps == [PlatformNext]_platformVars => [RegNext]_regVars
<1> SUFFICES ASSUME [PlatformNext]_platformVars PROVE RegNext \/ UNCHANGED regVars
  BY Zenon
<1>1. CASE UNCHANGED platformVars
  BY <1>1 DEF platformVars
<1>2. CASE PlatformNext
  BY <1>2, Zenon DEF PlatformNext, AllBut
<1> QED
  BY <1>1, <1>2, Zenon

(* The same for the calls about the platform. *)
LEMMA PlatSteps == [PlatformNext]_platformVars => [PlatNext]_platVars
<1> SUFFICES ASSUME [PlatformNext]_platformVars PROVE PlatNext \/ UNCHANGED platVars
  BY Zenon
<1>1. CASE UNCHANGED platformVars
  BY <1>1 DEF platformVars
<1>2. CASE PlatformNext
  BY <1>2, Zenon DEF PlatformNext, AllBut
<1> QED
  BY <1>1, <1>2, Zenon

(* A behaviour of the platform is one of each component that keeps state
   between its calls; where the component has fairness, so has the platform. *)
THEOREM VtdImplemented == PlatformSpec => VtdSpec
<1>1. PlatformInit => VtdInit
  BY DEF PlatformInit
<1> QED
  BY <1>1, VtdSteps, PTL DEF PlatformSpec, VtdSpec

(* The same for the configuration space. *)
THEOREM PciImplemented == PlatformSpec => PciSpec
<1>1. PlatformInit => PciInit
  BY DEF PlatformInit
<1> QED
  BY <1>1, PciSteps, PTL DEF PlatformSpec, PciSpec

(* The same for the MTRRs. *)
THEOREM MtrrImplemented == PlatformSpec => MtrrSpec
<1>1. PlatformInit => MtrrInit
  BY DEF PlatformInit
<1> QED
  BY <1>1, MtrrSteps, PTL DEF PlatformSpec, MtrrSpec

(* The same for the register accesses. *)
THEOREM RegImplemented == PlatformSpec => RegSpec
<1>1. PlatformInit => RegInit
  BY DEF PlatformInit
<1> QED
  BY <1>1, RegSteps, PTL DEF PlatformSpec, RegSpec

(* The same for the calls about the platform. *)
THEOREM PlatImplemented == PlatformSpec => PlatSpec
<1>1. PlatformInit => PlatInit
  BY DEF PlatformInit
<1> QED
  BY <1>1, PlatSteps, PTL DEF PlatformSpec, PlatSpec

(* In the whole platform every variable keeps its type. *)
THEOREM PlatformTypes == PlatformSpec => []PlatformTypeOK
<1>1. VtdTypeOK /\ PciTypeOK /\ MtrrTypeOK /\ RegTypeOK /\ PlatTypeOK => PlatformTypeOK
  BY DEF PlatformTypeOK
<1> QED
  BY <1>1, VtdImplemented, PciImplemented, MtrrImplemented, RegImplemented, PlatImplemented,
     TypesHold, PciTypes, MtrrKeepsTypes, RegTypes, PlatKeepsTypes, PTL

(* In the whole platform, where any component may be active, the drivers of VT-d
   do what was asked and hear its end, an access reaches the register asked for, a
   field is changed alone, the MTRRs are restored and give a range its type, and the
   calls about the platform answer what they promise. *)
THEOREM PlatformKeepsPromises ==
  PlatformSpec => /\ []TranslationAsAsked /\ []InvalidationDone /\ []DriversDeliver
                  /\ []PciReachesAsked /\ []FieldChangedAlone /\ []MtrrRestored
                  /\ []MtrrTypeCovered /\ []PlatformCallsRight
  BY VtdImplemented, PciImplemented, MtrrImplemented, RegImplemented, PlatImplemented,
     TranslationHolds, InvalidationHolds, DeliveryHolds, AccessReaches, FieldsAlone, RestoredAll,
     RangeTyped, CallsAreRight, PTL
=============================================================================
