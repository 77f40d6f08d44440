------------------------------ MODULE CasmProofs ------------------------------
(***************************************************************************)
(* Proofs about CasmMachine, for bytes of either width, every set of words *)
(* that the harness passes, and any number of calls, one after the other.  *)
(* What an instruction does to the machine is stated once, as a lemma.     *)
(* Most functions are made of instructions that leave memory, the stack    *)
(* pointer and the registers of the caller alone (Quiet); the others have  *)
(* an outline: for every instruction of theirs, where the stack pointer is *)
(* by then, where the registers that they save are, and what they have     *)
(* written.  The inductive invariant is: the function that runs is at      *)
(* its outline.                                                            *)
(***************************************************************************)
EXTENDS CasmMachine, Integers, TLAPS, WellFoundedInduction

Bytes == 0..(Byte - 1)
Words == 0..(Word - 1)
SysStates ==
  [gdtr : [limit : Words, base : Words], idtr : [limit : Words, base : Words],
   tr : Words, cr0 : Words, cr2 : Words, cr3 : Words, cr4 : Words,
   sel : [Selectors -> Words], xcr0 : Words \X Words, halted : BOOLEAN,
   msr : [DOMAIN Msr -> Words \X Words], rdtsc : Words \X Words, vmcs : [DOMAIN Vmcs -> Words],
   pci_addr : Words]
Machines == [r : [Gprs -> Words], fl : Words, sys : SysStates, mem : [Memory -> Bytes]]

(* The two widths of a byte. *)
LEMMA Widths ==
  \/ Byte = 128 /\ Half = 128 * 128 /\ Word = 16384 * 16384
  \/ Byte = 256 /\ Half = 256 * 256 /\ Word = 65536 * 65536
<1>1. 2^7 = 128 /\ 2^8 = 256
  BY SMT
<1>2. Byte = 128 \/ Byte = 256
  BY <1>1, ByteBitsAssumption, ZenonT(60) DEF Byte
<1>3. (Byte = 128 => Half = 16384) /\ (Byte = 256 => Half = 65536)
  BY DEF Half
<1> QED
  BY <1>2, <1>3 DEF Word

LEMMA WidthNumbers ==
  /\ Byte \in Nat /\ Half \in Nat /\ Word \in Nat
  /\ Byte >= 128 /\ Half >= 16384 /\ Word >= 16384 * 16384
  /\ CASM_RET_EIP \in Words
<1>1. 246267631 < 16384 * 16384
  OBVIOUS
<1>2. Word \in Nat /\ Word >= 16384 * 16384
  BY Widths
<1>3. CASM_RET_EIP \in Words
  BY <1>1, <1>2 DEF CASM_RET_EIP, Words
<1> QED
  BY <1>3, Widths

LEMMA Wraps == ASSUME NEW v \in Int PROVE Wrap(v) \in Words
  BY WidthNumbers DEF Wrap, Words
LEMMA WrapsNot == ASSUME NEW v \in Words PROVE Wrap(v) = v
  BY WidthNumbers DEF Wrap, Words

(* A number below b * c is its remainder and its quotient by b. *)
LEMMA Divides ==
  ASSUME NEW v \in Nat, NEW b \in Nat, b > 0, NEW c \in Nat, v < b * c
  PROVE  /\ v % b \in 0..(b - 1) /\ v \div b \in 0..(c - 1)
         /\ v = (v % b) + b * (v \div b) /\ v \div b <= v /\ v - (v % b) \in Nat
<1>1. v % b \in 0..(b - 1) /\ v \div b \in Nat /\ v = b * (v \div b) + (v % b)
  BY SMT
<1>2. v \div b < c
  BY SMT
<1>3. v \div b <= v
  BY SMT
<1> QED
  BY <1>1, <1>2, <1>3, SMT
LEMMA Composes ==
  ASSUME NEW b \in Nat, b > 0, NEW c \in Nat, NEW lo \in 0..(b - 1), NEW hi \in 0..(c - 1)
  PROVE  lo + b * hi \in 0..(b * c - 1)
  BY SMT

(* Four bytes are a word. *)
LEMMA WordOfBytes ==
  ASSUME NEW a \in Bytes, NEW b \in Bytes, NEW c \in Bytes, NEW d \in Bytes
  PROVE  /\ a + Byte * b \in Nat /\ a + Byte * b < Half
         /\ (a + Byte * b) + Half * (c + Byte * d) \in Words
<1> DEFINE low == a + Byte * b
           high == c + Byte * d
<1>1. Byte \in Nat /\ Byte > 0 /\ Half \in Nat /\ Half > 0 /\ Half = Byte * Byte /\ Word = Half * Half
  BY WidthNumbers DEF Half, Word
<1>2. low \in 0..(Half - 1) /\ high \in 0..(Half - 1)
  BY <1>1, Composes DEF Bytes
<1> HIDE DEF low, high
<1>3. low + Half * high \in Words
  BY <1>1, <1>2, Composes DEF Words
<1>4. low \in Nat /\ low < Half
  BY <1>1, <1>2
<1> QED
  BY <1>3, <1>4 DEF low, high

(* A word is its four bytes. *)
LEMMA BytesOfHalf ==
  ASSUME NEW v \in Nat, v < Half
  PROVE  /\ Low8(v) \in Bytes /\ Low8(v \div Byte) \in Bytes
         /\ v = Low8(v) + Byte * Low8(v \div Byte)
<1>1. Byte \in Nat /\ Byte > 0 /\ Half = Byte * Byte
  BY WidthNumbers DEF Half
<1>2. v % Byte \in 0..(Byte - 1) /\ v \div Byte \in 0..(Byte - 1) /\ v = (v % Byte) + Byte * (v \div Byte)
  BY <1>1, Divides
<1>3. (v \div Byte) % Byte = v \div Byte
  BY <1>1, <1>2, SMT
<1> QED
  BY <1>2, <1>3 DEF Low8, Bytes
LEMMA HalvesOfWord ==
  ASSUME NEW v \in Words
  PROVE  /\ Low16(v) \in Nat /\ Low16(v) < Half /\ v \div Half \in Nat /\ v \div Half < Half
         /\ v = Low16(v) + Half * (v \div Half) /\ v - Low16(v) \in Nat
         /\ Low16(v) \in Words /\ v \div Half \in Words
<1>1. Half \in Nat /\ Half > 0 /\ Word = Half * Half /\ Half < Word
  BY WidthNumbers, Widths DEF Word
<1>2. v \in Nat /\ v < Half * Half
  BY <1>1 DEF Words
<1>3. /\ v % Half \in 0..(Half - 1) /\ v \div Half \in 0..(Half - 1)
      /\ v = (v % Half) + Half * (v \div Half) /\ v - (v % Half) \in Nat
  BY <1>1, <1>2, Divides
<1> QED
  BY <1>1, <1>3 DEF Low16, Words
LEMMA LowBytes ==
  ASSUME NEW v \in Nat
  PROVE  Low8(v) \in Bytes /\ v - Low8(v) \in Nat /\ Low8(v) \in Words
<1>1. Byte \in Nat /\ Byte > 0 /\ Byte < Word
  BY WidthNumbers, Widths
<1>2. v % Byte \in 0..(Byte - 1) /\ v - (v % Byte) \in Nat
  <2>1. v % Byte \in 0..(Byte - 1) /\ v \div Byte \in Nat /\ v = Byte * (v \div Byte) + (v % Byte)
    BY <1>1, SMT
  <2>2. PICK p \in Nat : p = Byte * (v \div Byte)
    BY <1>1, <2>1, SMT
  <2>3. PICK r \in 0..(Byte - 1) : r = v % Byte
    BY <2>1
  <2>4. v = p + r
    BY <2>1, <2>2, <2>3
  <2>5. v - r \in Nat
    BY <1>1, <2>4
  <2> QED
    BY <2>1, <2>3, <2>5
<1>3. Word \in Nat
  BY WidthNumbers
<1>4. v % Byte \in Words
  BY <1>1, <1>2, <1>3 DEF Words
<1> QED
  BY <1>2, <1>4 DEF Low8, Bytes

(* A word read from memory. *)
LEMMA ReadsHalf ==
  ASSUME NEW n, n.mem \in [Memory -> Bytes], NEW a \in 0..86
  PROVE  Read16(n, a) \in Nat /\ Read16(n, a) < Half /\ Read16(n, a) \in Words
<1>1. n.mem[a] \in Bytes /\ n.mem[a + 1] \in Bytes
  BY DEF Memory
<1>2. Read16(n, a) \in Nat /\ Read16(n, a) < Half
  BY <1>1, WordOfBytes DEF Read16
<1>3. Half < Word
  BY Widths
<1> QED
  BY <1>2, <1>3, WidthNumbers DEF Words
LEMMA ReadsWord ==
  ASSUME NEW n, n.mem \in [Memory -> Bytes], NEW a \in 0..84
  PROVE  Read32(n, a) \in Words
<1>1. n.mem[a] \in Bytes /\ n.mem[a + 1] \in Bytes /\ n.mem[a + 2] \in Bytes /\ n.mem[a + 3] \in Bytes
  BY DEF Memory
<1>2. Read32(n, a) = (n.mem[a] + Byte * n.mem[a + 1]) + Half * (n.mem[a + 2] + Byte * n.mem[a + 3])
  BY DEF Read32, Read16
<1> QED
  BY <1>1, <1>2, WordOfBytes

(* What a write of two bytes, of a word, does. *)
LEMMA WritesHalf ==
  ASSUME NEW n \in Machines, NEW a \in 0..86, NEW v \in Nat
  PROVE  /\ Write16(n, a, v) \in Machines
         /\ Write16(n, a, v).r = n.r /\ Write16(n, a, v).fl = n.fl /\ Write16(n, a, v).sys = n.sys
         /\ \A b \in Memory : b # a /\ b # a + 1 => Write16(n, a, v).mem[b] = n.mem[b]
         /\ Write16(n, a, v).mem[a] = Low8(v) /\ Write16(n, a, v).mem[a + 1] = Low8(v \div Byte)
<1> DEFINE lo == Low8(v)
           hi == Low8(v \div Byte)
<1>1. lo \in Bytes /\ hi \in Bytes
  <2>1. v \div Byte \in Nat
    BY WidthNumbers, SMT
  <2> QED
    BY <2>1, LowBytes
<1>2. a \in Memory /\ a + 1 \in Memory /\ a # a + 1
  BY DEF Memory
<1>3. Write16(n, a, v) = [n EXCEPT !.mem[a] = lo, !.mem[a + 1] = hi]
  BY DEF Write16
<1> HIDE DEF lo, hi
<1> DEFINE mem == [[n.mem EXCEPT ![a] = lo] EXCEPT ![a + 1] = hi]
           w == Write16(n, a, v)
<1>4. n.mem \in [Memory -> Bytes] /\ DOMAIN n = {"r", "fl", "sys", "mem"}
  BY DEF Machines
<1>5. mem \in [Memory -> Bytes] /\ mem[a] = lo /\ mem[a + 1] = hi
  BY <1>1, <1>2, <1>4
<1>6. \A b \in Memory : b # a /\ b # a + 1 => mem[b] = n.mem[b]
  BY <1>4
<1> HIDE DEF mem
<1>7. w = [n EXCEPT !.mem = mem]
  BY <1>3, <1>4 DEF mem
<1> HIDE DEF w
<1>8. w.mem = mem /\ w.r = n.r /\ w.fl = n.fl /\ w.sys = n.sys
  BY <1>4, <1>7
<1>9. w \in Machines
  BY <1>5, <1>7 DEF Machines
<1> QED
  BY <1>5, <1>6, <1>8, <1>9 DEF w, lo, hi
LEMMA WritesWord ==
  ASSUME NEW n \in Machines, NEW a \in 0..84, NEW v \in Words
  PROVE  /\ Write32(n, a, v) \in Machines
         /\ Write32(n, a, v).r = n.r /\ Write32(n, a, v).fl = n.fl /\ Write32(n, a, v).sys = n.sys
         /\ \A b \in Memory : b \notin WordAt(a) => Write32(n, a, v).mem[b] = n.mem[b]
         /\ Read32(Write32(n, a, v), a) = v
<1> DEFINE lo == Low16(v)
           hi == v \div Half
           half == Write16(n, a, lo)
           w == Write16(half, a + 2, hi)
<1>1. /\ lo \in Nat /\ lo < Half /\ hi \in Nat /\ hi < Half /\ v = lo + Half * hi
  BY HalvesOfWord
<1>2. Write32(n, a, v) = w
  BY DEF Write32
<1> HIDE DEF lo, hi
<1>3. a \in 0..86 /\ a + 2 \in 0..86 /\ (a + 2) + 1 = a + 3
  OBVIOUS
<1>4. /\ half \in Machines /\ half.r = n.r /\ half.fl = n.fl /\ half.sys = n.sys
      /\ \A b \in Memory : b # a /\ b # a + 1 => half.mem[b] = n.mem[b]
      /\ half.mem[a] = Low8(lo) /\ half.mem[a + 1] = Low8(lo \div Byte)
  BY <1>1, <1>3, WritesHalf
<1> HIDE DEF half
<1>5. /\ w \in Machines /\ w.r = half.r /\ w.fl = half.fl /\ w.sys = half.sys
      /\ \A b \in Memory : b # a + 2 /\ b # (a + 2) + 1 => w.mem[b] = half.mem[b]
      /\ w.mem[a + 2] = Low8(hi) /\ w.mem[(a + 2) + 1] = Low8(hi \div Byte)
  BY <1>1, <1>3, <1>4, WritesHalf
<1> HIDE DEF w
<1>6. \A b \in Memory : b \notin WordAt(a) => w.mem[b] = n.mem[b]
  BY <1>3, <1>4, <1>5 DEF WordAt, Memory
<1>7. w.mem[a] = Low8(lo) /\ w.mem[a + 1] = Low8(lo \div Byte)
  BY <1>3, <1>4, <1>5 DEF Memory
<1>8. Read32(w, a) = v
  <2>1. Read32(w, a) = (w.mem[a] + Byte * w.mem[a + 1]) + Half * (w.mem[a + 2] + Byte * w.mem[(a + 2) + 1])
    BY DEF Read32, Read16
  <2>2. lo = Low8(lo) + Byte * Low8(lo \div Byte) /\ hi = Low8(hi) + Byte * Low8(hi \div Byte)
    BY <1>1, BytesOfHalf
  <2> QED
    BY <1>1, <1>5, <1>7, <2>1, <2>2
<1> QED
  BY <1>2, <1>4, <1>5, <1>6, <1>8

(* A word that no byte of which changed. *)
LEMMA ReadsSame ==
  ASSUME NEW n, NEW w, NEW a \in 0..84, \A b \in WordAt(a) : w.mem[b] = n.mem[b]
  PROVE  Read32(w, a) = Read32(n, a)
<1>1. a \in WordAt(a) /\ a + 1 \in WordAt(a) /\ a + 2 \in WordAt(a) /\ a + 3 \in WordAt(a)
  BY DEF WordAt
<1> QED
  BY <1>1 DEF Read32, Read16

(* A register that is set. *)
LEMMA SetsReg ==
  ASSUME NEW n \in Machines, NEW reg \in Gprs, NEW v \in Int
  PROVE  /\ SetReg(n, reg, v) \in Machines
         /\ SetReg(n, reg, v).r = [n.r EXCEPT ![reg] = Wrap(v)]
         /\ SetReg(n, reg, v).fl = n.fl /\ SetReg(n, reg, v).sys = n.sys /\ SetReg(n, reg, v).mem = n.mem
<1>1. Wrap(v) \in Words
  BY Wraps
<1> QED
  BY <1>1 DEF Machines, SetReg

(* One bit of a word. *)
LEMMA Powers == 2^0 = 1 /\ 2^6 = 64 /\ 2^8 = 256 /\ 2^9 = 512 /\ 2^10 = 1024
<1>1. 2^0 = 1
  BY SMT
<1>2. 2^6 = 64
  BY SMT
<1>3. 2^8 = 256
  BY SMT
<1>4. 2^9 = 512
  BY SMT
<1>5. 2^10 = 1024
  BY SMT
<1> QED
  BY <1>1, <1>2, <1>3, <1>4, <1>5
LEMMA BitOf ==
  ASSUME NEW v \in Words, NEW i, NEW p \in {1, 64, 256, 512, 1024}, 2^i = p
  PROVE  /\ Bit(v, i) \in {0, 1}
         /\ SetBit(v, i) \in Words /\ Bit(SetBit(v, i), i) = 1
         /\ ClearBit(v, i) \in Words /\ Bit(ClearBit(v, i), i) = 0
<1>1. v \in Nat /\ v < Word /\ Word \in Nat
  BY WidthNumbers DEF Words
<1>2. Bit(v, i) = (v \div p) % 2
  BY DEF Bit
<1>3. Bit(v, i) \in {0, 1}
  <2>1. v \div p \in Nat
    BY <1>1, SMT
  <2> QED
    BY <1>2, <2>1, SMT
<1>4. CASE Bit(v, i) = 1
  <2>1. SetBit(v, i) = v /\ ClearBit(v, i) = v - p
    BY <1>4 DEF SetBit, ClearBit
  <2>2. v - p \in Nat /\ v - p < Word /\ ((v - p) \div p) % 2 = 0
    BY <1>1, <1>2, <1>4, SMT
  <2> QED
    BY <1>1, <1>3, <1>4, <2>1, <2>2 DEF Words, Bit
<1>5. CASE Bit(v, i) = 0
  <2>1. SetBit(v, i) = v + p /\ ClearBit(v, i) = v
    BY <1>5 DEF SetBit, ClearBit
  <2>2. v + p \in Nat /\ v + p < Word /\ ((v + p) \div p) % 2 = 1
    <3>1. Word = 16384 * 16384 \/ Word = 65536 * 65536
      BY Widths
    <3>2. ((v + p) \div p) % 2 = 1
      BY <1>1, <1>2, <1>5, SMT
    <3>3. v + p < Word
      BY <1>1, <1>2, <1>5, <3>1, SMT
    <3> QED
      BY <1>1, <3>2, <3>3
  <2> QED
    BY <1>1, <1>3, <1>5, <2>1, <2>2 DEF Words, Bit
<1> QED
  BY <1>3, <1>4, <1>5
LEMMA Flags ==
  ASSUME NEW v \in Words, NEW i \in {EFLAGS_CF, EFLAGS_ZF, EFLAGS_IF, EFLAGS_DF, 8}
  PROVE  /\ Bit(v, i) \in {0, 1}
         /\ SetBit(v, i) \in Words /\ Bit(SetBit(v, i), i) = 1
         /\ ClearBit(v, i) \in Words /\ Bit(ClearBit(v, i), i) = 0
<1>1. i = 0 \/ i = 6 \/ i = 8 \/ i = 9 \/ i = 10
  BY DEF EFLAGS_CF, EFLAGS_ZF, EFLAGS_IF, EFLAGS_DF
<1>2. 2^i \in {1, 64, 256, 512, 1024}
  <2>1. ASSUME i = 0 PROVE 2^i = 1
    BY <2>1, Powers
  <2>2. ASSUME i = 6 PROVE 2^i = 64
    BY <2>2, Powers
  <2>3. ASSUME i = 8 PROVE 2^i = 256
    BY <2>3, Powers
  <2>4. ASSUME i = 9 PROVE 2^i = 512
    BY <2>4, Powers
  <2>5. ASSUME i = 10 PROVE 2^i = 1024
    BY <2>5, Powers
  <2> QED
    BY <1>1, <2>1, <2>2, <2>3, <2>4, <2>5, Zenon
<1>3. PICK p \in {1, 64, 256, 512, 1024} : 2^i = p
  BY <1>2
<1> QED
  BY <1>3, BitOf

(* The parts of a machine. *)
LEMMA Parts ==
  ASSUME NEW n \in Machines
  PROVE  /\ n.r \in [Gprs -> Words] /\ n.fl \in Words /\ n.sys \in SysStates /\ n.mem \in [Memory -> Bytes]
         /\ \A reg \in Gprs : n.r[reg] \in Words
  BY DEF Machines
LEMMA SysReplaced ==
  ASSUME NEW sys \in SysStates
  PROVE  /\ \A msr \in [DOMAIN Msr -> Words \X Words] : [sys EXCEPT !.msr = msr] \in SysStates
         /\ \A sel \in [Selectors -> Words] : [sys EXCEPT !.sel = sel] \in SysStates
<1>1. ASSUME NEW msr \in [DOMAIN Msr -> Words \X Words] PROVE [sys EXCEPT !.msr = msr] \in SysStates
  BY ONLY sys \in SysStates, <1>1 DEF SysStates
<1>2. ASSUME NEW sel \in [Selectors -> Words] PROVE [sys EXCEPT !.sel = sel] \in SysStates
  BY ONLY sys \in SysStates, <1>2 DEF SysStates
<1> QED
  BY ONLY <1>1, <1>2
LEMMA Small == 0..1024 \subseteq Words
  BY WidthNumbers DEF Words

(* A change of a part of the machine that is not memory. *)
LEMMA RegsTyped ==
  ASSUME NEW n \in Machines, NEW r \in [Gprs -> Words]
  PROVE  LET w == [n EXCEPT !.r = r]
         IN  w \in Machines /\ w.r = r /\ w.fl = n.fl /\ w.sys = n.sys /\ w.mem = n.mem
  BY DEF Machines
LEMMA FlagsTyped ==
  ASSUME NEW n \in Machines, NEW fl \in Words
  PROVE  LET w == [n EXCEPT !.fl = fl]
         IN  w \in Machines /\ w.r = n.r /\ w.fl = fl /\ w.sys = n.sys /\ w.mem = n.mem
  BY DEF Machines
LEMMA SysTyped ==
  ASSUME NEW n \in Machines, NEW sys \in SysStates
  PROVE  LET w == [n EXCEPT !.sys = sys]
         IN  w \in Machines /\ w.r = n.r /\ w.fl = n.fl /\ w.sys = sys /\ w.mem = n.mem
  BY DEF Machines

(* Moves of the stack pointer. *)
LEMMA AddEsp ==
  ASSUME NEW n \in Machines, NEW k \in 0..16, n.r.esp \in 0..88
  PROVE  /\ addl_imm_esp(n, k) \in Machines
         /\ addl_imm_esp(n, k).r = [n.r EXCEPT !["esp"] = n.r.esp + k]
         /\ addl_imm_esp(n, k).fl = n.fl /\ addl_imm_esp(n, k).sys = n.sys
         /\ addl_imm_esp(n, k).mem = n.mem
<1>1. n.r.esp + k \in Words /\ "esp" \in Gprs /\ n.r.esp + k \in Int
  BY WidthNumbers DEF Words, Gprs
<1>2. Wrap(n.r.esp + k) = n.r.esp + k
  BY <1>1, WrapsNot
<1>3. addl_imm_esp(n, k) = SetReg(n, "esp", n.r.esp + k)
  BY DEF addl_imm_esp
<1> QED
  BY <1>1, <1>2, <1>3, SetsReg
LEMMA SubEsp ==
  ASSUME NEW n \in Machines, NEW k \in 0..16, n.r.esp \in k..88
  PROVE  /\ subl_imm_esp(n, k) \in Machines
         /\ subl_imm_esp(n, k).r = [n.r EXCEPT !["esp"] = n.r.esp - k]
         /\ subl_imm_esp(n, k).fl = n.fl /\ subl_imm_esp(n, k).sys = n.sys
         /\ subl_imm_esp(n, k).mem = n.mem
<1>1. Word \in Nat /\ Word > 88 /\ "esp" \in Gprs
  BY WidthNumbers DEF Gprs
<1>2. PICK e \in k..88 : e = n.r.esp
  OBVIOUS
<1>3. (e + Word - k) % Word = e - k
  <2>1. Word = 16384 * 16384 \/ Word = 65536 * 65536
    BY Widths
  <2> QED
    BY <1>2, <2>1
<1>4. Wrap(n.r.esp + Word - k) = n.r.esp - k /\ n.r.esp + Word - k \in Int
  BY <1>1, <1>2, <1>3 DEF Wrap
<1>5. subl_imm_esp(n, k) = SetReg(n, "esp", n.r.esp + Word - k)
  BY DEF subl_imm_esp
<1> QED
  BY <1>1, <1>4, <1>5, SetsReg

(* The stack. *)
LEMMA Pushes ==
  ASSUME NEW n \in Machines, n.r.esp \in 4..88, NEW v \in Words
  PROVE  /\ pushl_mem(n, v) \in Machines
         /\ pushl_mem(n, v).r = [n.r EXCEPT !["esp"] = n.r.esp - 4]
         /\ pushl_mem(n, v).fl = n.fl /\ pushl_mem(n, v).sys = n.sys
         /\ \A b \in Memory : b \notin WordAt(n.r.esp - 4) => pushl_mem(n, v).mem[b] = n.mem[b]
         /\ Read32(pushl_mem(n, v), n.r.esp - 4) = v
<1> DEFINE d == subl_imm_esp(n, 4)
<1>1. /\ d \in Machines /\ d.r = [n.r EXCEPT !["esp"] = n.r.esp - 4]
      /\ d.fl = n.fl /\ d.sys = n.sys /\ d.mem = n.mem
  <2>1. 4 \in 0..16
    OBVIOUS
  <2> QED
    BY <2>1, SubEsp
<1>2. pushl_mem(n, v) = Write32(d, d.r.esp, v)
  BY DEF pushl_mem
<1> HIDE DEF d
<1>3. d.r.esp = n.r.esp - 4
  BY <1>1, Parts DEF Gprs
<1>4. PICK a \in 0..84 : a = n.r.esp - 4
  OBVIOUS
<1>5. pushl_mem(n, v) = Write32(d, a, v)
  BY <1>2, <1>3, <1>4
<1>6. /\ Write32(d, a, v) \in Machines
      /\ Write32(d, a, v).r = d.r /\ Write32(d, a, v).fl = d.fl /\ Write32(d, a, v).sys = d.sys
      /\ \A b \in Memory : b \notin WordAt(a) => Write32(d, a, v).mem[b] = d.mem[b]
      /\ Read32(Write32(d, a, v), a) = v
  BY <1>1, WritesWord
<1> QED
  BY <1>1, <1>4, <1>5, <1>6
LEMMA Pops ==
  ASSUME NEW n \in Machines, n.r.esp \in 0..84, NEW reg \in Gprs, reg # "esp"
  PROVE  /\ popl(n, reg) \in Machines
         /\ popl(n, reg).r = [n.r EXCEPT !["esp"] = n.r.esp + 4, ![reg] = Read32(n, n.r.esp)]
         /\ popl(n, reg).fl = n.fl /\ popl(n, reg).sys = n.sys /\ popl(n, reg).mem = n.mem
<1> DEFINE u == addl_imm_esp(n, 4)
<1>1. /\ u \in Machines /\ u.r = [n.r EXCEPT !["esp"] = n.r.esp + 4]
      /\ u.fl = n.fl /\ u.sys = n.sys /\ u.mem = n.mem
  <2>1. 4 \in 0..16 /\ n.r.esp \in 0..88
    OBVIOUS
  <2> QED
    BY <2>1, AddEsp
<1>2. Read32(n, n.r.esp) \in Words
  BY Parts, ReadsWord
<1>3. popl(n, reg) = SetReg(u, reg, Read32(n, n.r.esp))
  BY DEF popl
<1>4. Read32(n, n.r.esp) \in Int /\ Wrap(Read32(n, n.r.esp)) = Read32(n, n.r.esp)
  BY <1>2, WrapsNot, WidthNumbers DEF Words
<1> HIDE DEF u
<1> QED
  BY <1>1, <1>3, <1>4, SetsReg

(* A register loaded with a word. *)
LEMMA Loads ==
  ASSUME NEW n \in Machines, NEW reg \in Gprs, NEW v \in Words
  PROVE  /\ SetReg(n, reg, v) \in Machines
         /\ SetReg(n, reg, v).r = [n.r EXCEPT ![reg] = v]
         /\ SetReg(n, reg, v).fl = n.fl /\ SetReg(n, reg, v).sys = n.sys /\ SetReg(n, reg, v).mem = n.mem
<1>1. v \in Int /\ Wrap(v) = v
  BY WrapsNot, WidthNumbers DEF Words
<1> QED
  BY <1>1, SetsReg

(* The operator that stands for each instruction. *)
LEMMA ExecSystems ==
  ASSUME NEW n, NEW k, NEW v, NEW reg
  PROVE  /\ Exec(n, <<"cpuid">>) = cpuid(n)
         /\ Exec(n, <<"rdtsc">>) = rdtsc(n)
         /\ Exec(n, <<"hlt">>) = hlt(n)
         /\ Exec(n, <<"cli">>) = cli(n)
         /\ Exec(n, <<"sti">>) = sti(n)
         /\ Exec(n, <<"inb_dx_al">>) = inb_dx_al(n)
         /\ Exec(n, <<"inw_dx_ax">>) = inw_dx_ax(n)
         /\ Exec(n, <<"inl_dx_eax">>) = inl_dx_eax(n)
         /\ Exec(n, <<"outl_eax_dx">>) = outl_eax_dx(n)
         /\ Exec(n, <<"outb_al_dx">>) = n
         /\ Exec(n, <<"outw_ax_dx">>) = n
         /\ Exec(n, <<"pause">>) = n
         /\ Exec(n, <<"lock">>) = n
         /\ Exec(n, <<"rdmsr">>) = rdmsr(n)
         /\ Exec(n, <<"wrmsr">>) = wrmsr(n)
         /\ Exec(n, <<"wbinvd">>) = n
         /\ Exec(n, <<"sgdt_mesp", k>>) = sgdt_mesp(n, k)
         /\ Exec(n, <<"str_ax">>) = str_ax(n)
         /\ Exec(n, <<"sidt_mesp", k>>) = sidt_mesp(n, k)
         /\ Exec(n, <<"lidt_mecx", k>>) = lidt_mecx(n, k)
         /\ Exec(n, <<"ltr_ax">>) = ltr_ax(n)
         /\ Exec(n, <<"lgdt_mecx", k>>) = lgdt_mecx(n, k)
         /\ Exec(n, <<"xsetbv">>) = xsetbv(n)
         /\ Exec(n, <<"xgetbv">>) = xgetbv(n)
<1>1. Exec(n, <<"cpuid">>) = cpuid(n)
  BY DEF Exec, ExecSystem, no_effect, vmclear_vmptrld_wbinvd, LoadStores, Stacks, Arithmetic, Segments, Controls, Vmx
<1>2. Exec(n, <<"rdtsc">>) = rdtsc(n)
  BY DEF Exec, ExecSystem, no_effect, vmclear_vmptrld_wbinvd, LoadStores, Stacks, Arithmetic, Segments, Controls, Vmx
<1>3. Exec(n, <<"hlt">>) = hlt(n)
  BY DEF Exec, ExecSystem, no_effect, vmclear_vmptrld_wbinvd, LoadStores, Stacks, Arithmetic, Segments, Controls, Vmx
<1>4. Exec(n, <<"cli">>) = cli(n)
  BY DEF Exec, ExecSystem, no_effect, vmclear_vmptrld_wbinvd, LoadStores, Stacks, Arithmetic, Segments, Controls, Vmx
<1>5. Exec(n, <<"sti">>) = sti(n)
  BY DEF Exec, ExecSystem, no_effect, vmclear_vmptrld_wbinvd, LoadStores, Stacks, Arithmetic, Segments, Controls, Vmx
<1>6. Exec(n, <<"inb_dx_al">>) = inb_dx_al(n)
  BY DEF Exec, ExecSystem, no_effect, vmclear_vmptrld_wbinvd, LoadStores, Stacks, Arithmetic, Segments, Controls, Vmx
<1>7. Exec(n, <<"inw_dx_ax">>) = inw_dx_ax(n)
  BY DEF Exec, ExecSystem, no_effect, vmclear_vmptrld_wbinvd, LoadStores, Stacks, Arithmetic, Segments, Controls, Vmx
<1>8. Exec(n, <<"inl_dx_eax">>) = inl_dx_eax(n)
  BY DEF Exec, ExecSystem, no_effect, vmclear_vmptrld_wbinvd, LoadStores, Stacks, Arithmetic, Segments, Controls, Vmx
<1>9. Exec(n, <<"outl_eax_dx">>) = outl_eax_dx(n)
  BY DEF Exec, ExecSystem, no_effect, vmclear_vmptrld_wbinvd, LoadStores, Stacks, Arithmetic, Segments, Controls, Vmx
<1>10. Exec(n, <<"outb_al_dx">>) = n
  BY DEF Exec, ExecSystem, no_effect, vmclear_vmptrld_wbinvd, LoadStores, Stacks, Arithmetic, Segments, Controls, Vmx
<1>11. Exec(n, <<"outw_ax_dx">>) = n
  BY DEF Exec, ExecSystem, no_effect, vmclear_vmptrld_wbinvd, LoadStores, Stacks, Arithmetic, Segments, Controls, Vmx
<1>12. Exec(n, <<"pause">>) = n
  BY DEF Exec, ExecSystem, no_effect, vmclear_vmptrld_wbinvd, LoadStores, Stacks, Arithmetic, Segments, Controls, Vmx
<1>13. Exec(n, <<"lock">>) = n
  BY DEF Exec, ExecSystem, no_effect, vmclear_vmptrld_wbinvd, LoadStores, Stacks, Arithmetic, Segments, Controls, Vmx
<1>14. Exec(n, <<"rdmsr">>) = rdmsr(n)
  BY DEF Exec, ExecSystem, no_effect, vmclear_vmptrld_wbinvd, LoadStores, Stacks, Arithmetic, Segments, Controls, Vmx
<1>15. Exec(n, <<"wrmsr">>) = wrmsr(n)
  BY DEF Exec, ExecSystem, no_effect, vmclear_vmptrld_wbinvd, LoadStores, Stacks, Arithmetic, Segments, Controls, Vmx
<1>16. Exec(n, <<"wbinvd">>) = n
  BY DEF Exec, ExecSystem, no_effect, vmclear_vmptrld_wbinvd, LoadStores, Stacks, Arithmetic, Segments, Controls, Vmx
<1>17. Exec(n, <<"sgdt_mesp", k>>) = sgdt_mesp(n, k)
  BY DEF Exec, ExecSystem, no_effect, vmclear_vmptrld_wbinvd, LoadStores, Stacks, Arithmetic, Segments, Controls, Vmx
<1>18. Exec(n, <<"str_ax">>) = str_ax(n)
  BY DEF Exec, ExecSystem, no_effect, vmclear_vmptrld_wbinvd, LoadStores, Stacks, Arithmetic, Segments, Controls, Vmx
<1>19. Exec(n, <<"sidt_mesp", k>>) = sidt_mesp(n, k)
  BY DEF Exec, ExecSystem, no_effect, vmclear_vmptrld_wbinvd, LoadStores, Stacks, Arithmetic, Segments, Controls, Vmx
<1>20. Exec(n, <<"lidt_mecx", k>>) = lidt_mecx(n, k)
  BY DEF Exec, ExecSystem, no_effect, vmclear_vmptrld_wbinvd, LoadStores, Stacks, Arithmetic, Segments, Controls, Vmx
<1>21. Exec(n, <<"ltr_ax">>) = ltr_ax(n)
  BY DEF Exec, ExecSystem, no_effect, vmclear_vmptrld_wbinvd, LoadStores, Stacks, Arithmetic, Segments, Controls, Vmx
<1>22. Exec(n, <<"lgdt_mecx", k>>) = lgdt_mecx(n, k)
  BY DEF Exec, ExecSystem, no_effect, vmclear_vmptrld_wbinvd, LoadStores, Stacks, Arithmetic, Segments, Controls, Vmx
<1>23. Exec(n, <<"xsetbv">>) = xsetbv(n)
  BY DEF Exec, ExecSystem, no_effect, vmclear_vmptrld_wbinvd, LoadStores, Stacks, Arithmetic, Segments, Controls, Vmx
<1>24. Exec(n, <<"xgetbv">>) = xgetbv(n)
  BY DEF Exec, ExecSystem, no_effect, vmclear_vmptrld_wbinvd, LoadStores, Stacks, Arithmetic, Segments, Controls, Vmx
<1> QED
  BY <1>1, <1>2, <1>3, <1>4, <1>5, <1>6, <1>7, <1>8, <1>9, <1>10, <1>11, <1>12, <1>13, <1>14, <1>15, <1>16, <1>17, <1>18, <1>19, <1>20, <1>21, <1>22, <1>23, <1>24

LEMMA ExecMoves ==
  ASSUME NEW n, NEW k, NEW v, NEW reg
  PROVE  /\ Exec(n, <<"cld">>) = cld(n)
         /\ Exec(n, <<"rep_movsb">>) = rep_movsb(n)
         /\ Exec(n, <<"movl_imm", k, reg>>) = movl_imm(n, k, reg)
         /\ Exec(n, <<"movl_imm_mesp", v, k>>) = movl_imm_mesp(n, v, k)
         /\ Exec(n, <<"movl_imm_meax", v, k>>) = movl_imm_meax(n, v, k)
         /\ Exec(n, <<"cmpl_imm_meax", v, k>>) = cmpl_imm_meax(n, v, k)
         /\ Exec(n, <<"movl_reg_meax", k, reg>>) = movl_reg_meax(n, k, reg)
         /\ Exec(n, <<"movl_eax_mesp", k>>) = movl_eax_mesp(n, k)
         /\ Exec(n, <<"movl_mesp", k, reg>>) = movl_mesp(n, k, reg)
         /\ Exec(n, <<"movl_mesp_esi", k>>) = movl_mesp_esi(n, k)
         /\ Exec(n, <<"movl_reg_mesi", k, reg>>) = movl_reg_mesi(n, k, reg)
         /\ Exec(n, <<"movl_meax", k, reg>>) = movl_meax(n, k, reg)
         /\ Exec(n, <<"movl_self", k, reg>>) = movl_self(n, k, reg)
         /\ Exec(n, <<"movl_to_ecx", reg>>) = movl_to_ecx(n, reg)
         /\ Exec(n, <<"movl_esp", reg>>) = movl_esp(n, reg)
<1>1. Exec(n, <<"cld">>) = cld(n)
  BY DEF Exec, ExecMove, ExecLoadStore, LoadStores, Stacks, Arithmetic, Segments, Controls, Vmx
<1>2. Exec(n, <<"rep_movsb">>) = rep_movsb(n)
  BY DEF Exec, ExecMove, ExecLoadStore, LoadStores, Stacks, Arithmetic, Segments, Controls, Vmx
<1>3. Exec(n, <<"movl_imm", k, reg>>) = movl_imm(n, k, reg)
  BY DEF Exec, ExecMove, ExecLoadStore, LoadStores, Stacks, Arithmetic, Segments, Controls, Vmx
<1>4. Exec(n, <<"movl_imm_mesp", v, k>>) = movl_imm_mesp(n, v, k)
  BY DEF Exec, ExecMove, ExecLoadStore, LoadStores, Stacks, Arithmetic, Segments, Controls, Vmx
<1>5. Exec(n, <<"movl_imm_meax", v, k>>) = movl_imm_meax(n, v, k)
  BY DEF Exec, ExecMove, ExecLoadStore, LoadStores, Stacks, Arithmetic, Segments, Controls, Vmx
<1>6. Exec(n, <<"cmpl_imm_meax", v, k>>) = cmpl_imm_meax(n, v, k)
  BY DEF Exec, ExecMove, ExecLoadStore, LoadStores, Stacks, Arithmetic, Segments, Controls, Vmx
<1>7. Exec(n, <<"movl_reg_meax", k, reg>>) = movl_reg_meax(n, k, reg)
  BY DEF Exec, ExecMove, ExecLoadStore, LoadStores, Stacks, Arithmetic, Segments, Controls, Vmx
<1>8. Exec(n, <<"movl_eax_mesp", k>>) = movl_eax_mesp(n, k)
  BY DEF Exec, ExecMove, ExecLoadStore, LoadStores, Stacks, Arithmetic, Segments, Controls, Vmx
<1>9. Exec(n, <<"movl_mesp", k, reg>>) = movl_mesp(n, k, reg)
  BY DEF Exec, ExecMove, ExecLoadStore, LoadStores, Stacks, Arithmetic, Segments, Controls, Vmx
<1>10. Exec(n, <<"movl_mesp_esi", k>>) = movl_mesp_esi(n, k)
  BY DEF Exec, ExecMove, ExecLoadStore, LoadStores, Stacks, Arithmetic, Segments, Controls, Vmx
<1>11. Exec(n, <<"movl_reg_mesi", k, reg>>) = movl_reg_mesi(n, k, reg)
  BY DEF Exec, ExecMove, ExecLoadStore, LoadStores, Stacks, Arithmetic, Segments, Controls, Vmx
<1>12. Exec(n, <<"movl_meax", k, reg>>) = movl_meax(n, k, reg)
  BY DEF Exec, ExecMove, ExecLoadStore, LoadStores, Stacks, Arithmetic, Segments, Controls, Vmx
<1>13. Exec(n, <<"movl_self", k, reg>>) = movl_self(n, k, reg)
  BY DEF Exec, ExecMove, ExecLoadStore, LoadStores, Stacks, Arithmetic, Segments, Controls, Vmx
<1>14. Exec(n, <<"movl_to_ecx", reg>>) = movl_to_ecx(n, reg)
  BY DEF Exec, ExecMove, ExecLoadStore, LoadStores, Stacks, Arithmetic, Segments, Controls, Vmx
<1>15. Exec(n, <<"movl_esp", reg>>) = movl_esp(n, reg)
  BY DEF Exec, ExecMove, ExecLoadStore, LoadStores, Stacks, Arithmetic, Segments, Controls, Vmx
<1> QED
  BY <1>1, <1>2, <1>3, <1>4, <1>5, <1>6, <1>7, <1>8, <1>9, <1>10, <1>11, <1>12, <1>13, <1>14, <1>15

LEMMA ExecStackMoves ==
  ASSUME NEW n, NEW k, NEW v, NEW reg
  PROVE  /\ Exec(n, <<"pushl", reg>>) = pushl_mem(n, n.r[reg])
         /\ Exec(n, <<"pushl_mesp", k>>) = pushl_mesp(n, k)
         /\ Exec(n, <<"popl", reg>>) = popl(n, reg)
         /\ Exec(n, <<"pushfl">>) = pushfl(n)
         /\ Exec(n, <<"popfl">>) = popfl(n)
<1>1. Exec(n, <<"pushl", reg>>) = pushl_mem(n, n.r[reg])
  BY DEF Exec, ExecStack, pushl_saved, pushl, popl_ebp, LoadStores, Stacks, Arithmetic, Segments, Controls, Vmx
<1>2. Exec(n, <<"pushl_mesp", k>>) = pushl_mesp(n, k)
  BY DEF Exec, ExecStack, pushl_saved, pushl, popl_ebp, LoadStores, Stacks, Arithmetic, Segments, Controls, Vmx
<1>3. Exec(n, <<"popl", reg>>) = popl(n, reg)
  BY DEF Exec, ExecStack, pushl_saved, pushl, popl_ebp, LoadStores, Stacks, Arithmetic, Segments, Controls, Vmx
<1>4. Exec(n, <<"pushfl">>) = pushfl(n)
  BY DEF Exec, ExecStack, pushl_saved, pushl, popl_ebp, LoadStores, Stacks, Arithmetic, Segments, Controls, Vmx
<1>5. Exec(n, <<"popfl">>) = popfl(n)
  BY DEF Exec, ExecStack, pushl_saved, pushl, popl_ebp, LoadStores, Stacks, Arithmetic, Segments, Controls, Vmx
<1> QED
  BY <1>1, <1>2, <1>3, <1>4, <1>5

LEMMA ExecOperations ==
  ASSUME NEW n, NEW k, NEW v, NEW reg
  PROVE  /\ Exec(n, <<"xorl", reg>>) = xorl(n, reg)
         /\ Exec(n, <<"addl_imm_esp", k>>) = addl_imm_esp(n, k)
         /\ Exec(n, <<"subl_imm_esp", k>>) = subl_imm_esp(n, k)
         /\ Exec(n, <<"btl_imm_mecx", v, k>>) = btl_imm_mecx(n, v, k)
         /\ Exec(n, <<"btrl_imm_mecx", v, k>>) = btrl_imm_mecx(n, v, k)
         /\ Exec(n, <<"btsl_imm_mecx", v, k>>) = btsl_imm_mecx(n, v, k)
         /\ Exec(n, <<"bsrl_mesp_eax", k>>) = bsrl_mesp_eax(n, k)
<1>1. Exec(n, <<"xorl", reg>>) = xorl(n, reg)
  BY DEF Exec, ExecArithmetic, LoadStores, Stacks, Arithmetic, Segments, Controls, Vmx
<1>2. Exec(n, <<"addl_imm_esp", k>>) = addl_imm_esp(n, k)
  BY DEF Exec, ExecArithmetic, LoadStores, Stacks, Arithmetic, Segments, Controls, Vmx
<1>3. Exec(n, <<"subl_imm_esp", k>>) = subl_imm_esp(n, k)
  BY DEF Exec, ExecArithmetic, LoadStores, Stacks, Arithmetic, Segments, Controls, Vmx
<1>4. Exec(n, <<"btl_imm_mecx", v, k>>) = btl_imm_mecx(n, v, k)
  BY DEF Exec, ExecArithmetic, LoadStores, Stacks, Arithmetic, Segments, Controls, Vmx
<1>5. Exec(n, <<"btrl_imm_mecx", v, k>>) = btrl_imm_mecx(n, v, k)
  BY DEF Exec, ExecArithmetic, LoadStores, Stacks, Arithmetic, Segments, Controls, Vmx
<1>6. Exec(n, <<"btsl_imm_mecx", v, k>>) = btsl_imm_mecx(n, v, k)
  BY DEF Exec, ExecArithmetic, LoadStores, Stacks, Arithmetic, Segments, Controls, Vmx
<1>7. Exec(n, <<"bsrl_mesp_eax", k>>) = bsrl_mesp_eax(n, k)
  BY DEF Exec, ExecArithmetic, LoadStores, Stacks, Arithmetic, Segments, Controls, Vmx
<1> QED
  BY <1>1, <1>2, <1>3, <1>4, <1>5, <1>6, <1>7

LEMMA ExecOthers ==
  ASSUME NEW n, NEW k, NEW v, NEW reg
  PROVE  /\ Exec(n, <<"movl_seg_eax", reg>>) = movl_seg_eax(n, reg)
         /\ Exec(n, <<"movw_ax_seg", reg>>) = movw_ax_seg(n, reg)
         /\ Exec(n, <<"movl_cr_eax", reg>>) = movl_cr_eax(n, reg)
         /\ Exec(n, <<"movl_reg_cr", reg, k>>) = movl_reg_cr(n, reg, k)
         /\ Exec(n, <<"vmxon_mesp", k>>) = vmxon_mesp(n)
         /\ Exec(n, <<"vmwrite_eax_ecx">>) = vmwrite_eax_ecx(n)
         /\ Exec(n, <<"vmread_ecx_eax">>) = vmread_ecx_eax(n)
         /\ Exec(n, <<"vmclear_mesp", k>>) = n
         /\ Exec(n, <<"vmptrld_mesp", k>>) = n
         /\ Exec(n, <<"invept_mesp_edx">>) = n
<1>1. Exec(n, <<"movl_seg_eax", reg>>) = movl_seg_eax(n, reg)
  BY DEF Exec, ExecSegment, ExecControl, ExecVmx, vmclear_vmptrld_wbinvd, invept_mesp_edx, LoadStores, Stacks, Arithmetic, Segments, Controls, Vmx
<1>2. Exec(n, <<"movw_ax_seg", reg>>) = movw_ax_seg(n, reg)
  BY DEF Exec, ExecSegment, ExecControl, ExecVmx, vmclear_vmptrld_wbinvd, invept_mesp_edx, LoadStores, Stacks, Arithmetic, Segments, Controls, Vmx
<1>3. Exec(n, <<"movl_cr_eax", reg>>) = movl_cr_eax(n, reg)
  BY DEF Exec, ExecSegment, ExecControl, ExecVmx, vmclear_vmptrld_wbinvd, invept_mesp_edx, LoadStores, Stacks, Arithmetic, Segments, Controls, Vmx
<1>4. Exec(n, <<"movl_reg_cr", reg, k>>) = movl_reg_cr(n, reg, k)
  BY DEF Exec, ExecSegment, ExecControl, ExecVmx, vmclear_vmptrld_wbinvd, invept_mesp_edx, LoadStores, Stacks, Arithmetic, Segments, Controls, Vmx
<1>5. Exec(n, <<"vmxon_mesp", k>>) = vmxon_mesp(n)
  BY DEF Exec, ExecSegment, ExecControl, ExecVmx, vmclear_vmptrld_wbinvd, invept_mesp_edx, LoadStores, Stacks, Arithmetic, Segments, Controls, Vmx
<1>6. Exec(n, <<"vmwrite_eax_ecx">>) = vmwrite_eax_ecx(n)
  BY DEF Exec, ExecSegment, ExecControl, ExecVmx, vmclear_vmptrld_wbinvd, invept_mesp_edx, LoadStores, Stacks, Arithmetic, Segments, Controls, Vmx
<1>7. Exec(n, <<"vmread_ecx_eax">>) = vmread_ecx_eax(n)
  BY DEF Exec, ExecSegment, ExecControl, ExecVmx, vmclear_vmptrld_wbinvd, invept_mesp_edx, LoadStores, Stacks, Arithmetic, Segments, Controls, Vmx
<1>8. Exec(n, <<"vmclear_mesp", k>>) = n
  BY DEF Exec, ExecSegment, ExecControl, ExecVmx, vmclear_vmptrld_wbinvd, invept_mesp_edx, LoadStores, Stacks, Arithmetic, Segments, Controls, Vmx
<1>9. Exec(n, <<"vmptrld_mesp", k>>) = n
  BY DEF Exec, ExecSegment, ExecControl, ExecVmx, vmclear_vmptrld_wbinvd, invept_mesp_edx, LoadStores, Stacks, Arithmetic, Segments, Controls, Vmx
<1>10. Exec(n, <<"invept_mesp_edx">>) = n
  BY DEF Exec, ExecSegment, ExecControl, ExecVmx, vmclear_vmptrld_wbinvd, invept_mesp_edx, LoadStores, Stacks, Arithmetic, Segments, Controls, Vmx
<1> QED
  BY <1>1, <1>2, <1>3, <1>4, <1>5, <1>6, <1>7, <1>8, <1>9, <1>10

(* Instructions that leave memory, the stack pointer and the saved registers alone. *)
Same(w, n) ==
  /\ w.mem = n.mem
  /\ w.r.esp = n.r.esp /\ w.r.ebx = n.r.ebx /\ w.r.esi = n.r.esi /\ w.r.edi = n.r.edi
Plain(i) == i[1] \notin Branches \cup Returns \cup ThroughEax \cup {"call_c_1p", "jmpsentinel"}
Quiet(i) ==
  /\ Plain(i)
  /\ \A n \in Machines :
       n.r.esp \in 16..36 /\ (i[1] = "bsrl_mesp_eax" => bsrl_ends(n, i[2])) =>
         Exec(n, i) \in Machines /\ Same(Exec(n, i), n)

Scratch == {"eax", "ecx", "edx"}
LEMMA SetsScratch ==
  ASSUME NEW n \in Machines, NEW reg \in Scratch, NEW v \in Words
  PROVE  SetReg(n, reg, v) \in Machines /\ Same(SetReg(n, reg, v), n)
<1> DEFINE w == SetReg(n, reg, v)
<1>1. w \in Machines /\ w.r = [n.r EXCEPT ![reg] = v] /\ w.mem = n.mem
  BY Loads DEF Scratch, Gprs
<1> HIDE DEF w
<1>2. n.r \in [Gprs -> Words]
  BY Parts
<1>3. w.r.esp = n.r.esp /\ w.r.ebx = n.r.ebx /\ w.r.esi = n.r.esi /\ w.r.edi = n.r.edi
  BY <1>1, <1>2 DEF Scratch, Gprs
<1> QED
  BY <1>1, <1>3 DEF Same, w
LEMMA SetsPair ==
  ASSUME NEW n \in Machines, NEW a \in Scratch, NEW b \in Scratch, NEW v \in Words, NEW u \in Words
  PROVE  [n EXCEPT !.r[a] = v, !.r[b] = u] \in Machines /\ Same([n EXCEPT !.r[a] = v, !.r[b] = u], n)
<1> DEFINE r == [[n.r EXCEPT ![a] = v] EXCEPT ![b] = u]
           w == [n EXCEPT !.r = r]
<1>1. n.r \in [Gprs -> Words]
  BY Parts
<1>2. r \in [Gprs -> Words]
  BY <1>1 DEF Scratch, Gprs
<1>3. r.esp = n.r.esp /\ r.ebx = n.r.ebx /\ r.esi = n.r.esi /\ r.edi = n.r.edi
  BY <1>1 DEF Scratch, Gprs
<1>4. [n EXCEPT !.r[a] = v, !.r[b] = u] = w
  BY DEF Machines
<1> HIDE DEF r
<1>5. w \in Machines /\ w.r = r /\ w.mem = n.mem
  BY <1>2, RegsTyped
<1> QED
  BY <1>3, <1>4, <1>5 DEF Same
LEMMA SetsFlags ==
  ASSUME NEW n \in Machines, NEW fl \in Words
  PROVE  [n EXCEPT !.fl = fl] \in Machines /\ Same([n EXCEPT !.fl = fl], n)
<1> DEFINE w == [n EXCEPT !.fl = fl]
<1>1. w \in Machines /\ w.r = n.r /\ w.mem = n.mem
  BY FlagsTyped
<1> HIDE DEF w
<1> QED
  BY <1>1 DEF Same, w
LEMMA SetsSys ==
  ASSUME NEW n \in Machines, NEW sys \in SysStates
  PROVE  [n EXCEPT !.sys = sys] \in Machines /\ Same([n EXCEPT !.sys = sys], n)
<1> DEFINE w == [n EXCEPT !.sys = sys]
<1>1. w \in Machines /\ w.r = n.r /\ w.mem = n.mem
  BY SysTyped
<1> HIDE DEF w
<1> QED
  BY <1>1 DEF Same, w
LEMMA SameSelf == ASSUME NEW n PROVE Same(n, n)
  BY DEF Same

LEMMA QuietMove == ASSUME NEW k \in {4, 8, 12}, NEW reg \in Scratch PROVE Quiet(<<"movl_mesp", k, reg>>)
<1> DEFINE i == <<"movl_mesp", k, reg>>
<1>1. Plain(i)
  BY DEF Plain, Branches, Returns, ThroughEax
<1>2. ASSUME NEW n \in Machines, n.r.esp \in 16..36 PROVE Exec(n, i) \in Machines /\ Same(Exec(n, i), n)
  <2>1. n.r.esp + k \in 0..84
    BY <1>2
  <2>2. Read32(n, n.r.esp + k) \in Words
    BY <2>1, Parts, ReadsWord
  <2>3. Exec(n, i) = SetReg(n, reg, Read32(n, n.r.esp + k))
    BY ExecMoves DEF movl_mesp, At
  <2> QED
    BY <2>2, <2>3, SetsScratch
<1> QED
  BY <1>1, <1>2 DEF Quiet

(* Words made of others. *)
LEMMA Halved ==
  ASSUME NEW v \in Words, NEW u \in Words
  PROVE  (v - Low16(v)) + Low16(u) \in Words /\ v - Low16(v) \in Words /\ v - Low8(v) \in Words
<1>1. PICK lo \in Nat, hi \in Nat : lo = Low16(v) /\ hi = v \div Half /\ lo < Half /\ hi < Half /\ v = lo + Half * hi
  BY HalvesOfWord
<1>2. PICK t \in Nat : t = Low16(u) /\ t < Half
  BY HalvesOfWord
<1>3. Half \in Nat /\ Half > 0 /\ Word = Half * Half /\ Word \in Nat
  BY WidthNumbers DEF Word
<1>4. t + Half * hi \in 0..(Half * Half - 1)
  BY <1>1, <1>2, <1>3, Composes
<1>5. PICK q \in Int : q = Half * hi
  BY <1>1, <1>3
<1>6. v - lo = q /\ (v - lo) + t = t + q
  <2>1. v = lo + q
    BY <1>1, <1>5
  <2>2. lo \in Nat /\ t \in Nat /\ q \in Int
    BY <1>1, <1>2, <1>5
  <2> QED
    BY <2>1, <2>2
<1>7. q \in 0..(Half * Half - 1)
  <2>1. 0 \in 0..(Half - 1)
    BY <1>3
  <2>2. 0 + Half * hi \in 0..(Half * Half - 1)
    BY <1>1, <1>3, <2>1, Composes
  <2> QED
    BY <1>5, <2>2
<1>8. v - Low8(v) \in Words
  <2>1. v \in Nat /\ v < Word
    BY <1>3 DEF Words
  <2>2. Low8(v) \in Nat /\ v - Low8(v) \in Nat
    BY <2>1, LowBytes, WidthNumbers DEF Bytes
  <2> QED
    BY <1>3, <2>1, <2>2 DEF Words
<1> QED
  BY <1>1, <1>2, <1>3, <1>4, <1>5, <1>6, <1>7, <1>8 DEF Words

LEMMA SysParts ==
  ASSUME NEW n \in Machines
  PROVE  /\ n.sys.gdtr \in [limit : Words, base : Words] /\ n.sys.idtr \in [limit : Words, base : Words]
         /\ n.sys.tr \in Words /\ n.sys.xcr0 \in Words \X Words /\ n.sys.rdtsc \in Words \X Words
         /\ n.sys.pci_addr \in Words /\ n.sys.msr \in [DOMAIN Msr -> Words \X Words]
         /\ n.sys.vmcs \in [DOMAIN Vmcs -> Words] /\ n.sys.sel \in [Selectors -> Words]
         /\ \A cr \in {"cr0", "cr2", "cr3", "cr4"} : n.sys[cr] \in Words
  BY Parts DEF SysStates

LEMMA QuietXor == ASSUME NEW reg \in Scratch PROVE Quiet(<<"xorl", reg>>)
<1> DEFINE i == <<"xorl", reg>>
<1>1. Plain(i) /\ i[1] # "bsrl_mesp_eax"
  BY DEF Plain, Branches, Returns, ThroughEax
<1>2. ASSUME NEW n \in Machines PROVE Exec(n, i) \in Machines /\ Same(Exec(n, i), n)
  <2>1. Exec(n, i) = [n EXCEPT !.r[reg] = 0]
    BY ExecOperations DEF xorl
  <2>2. 0 \in Words
    BY Small
  <2>3. SetReg(n, reg, 0) = [n EXCEPT !.r[reg] = 0]
    BY <2>2, WrapsNot DEF SetReg
  <2> QED
    BY <2>1, <2>2, <2>3, SetsScratch
<1> QED
  BY <1>1, <1>2 DEF Quiet

LEMMA QuietIn == Quiet(<<"inb_dx_al">>) /\ Quiet(<<"inw_dx_ax">>) /\ Quiet(<<"inl_dx_eax">>)
<1>1. Plain(<<"inb_dx_al">>) /\ Plain(<<"inw_dx_ax">>) /\ Plain(<<"inl_dx_eax">>)
  BY DEF Plain, Branches, Returns, ThroughEax
<1>2. ASSUME NEW n \in Machines
      PROVE  /\ n.r.eax - Low8(n.r.eax) \in Words /\ n.r.eax - Low16(n.r.eax) \in Words
             /\ (IF Low16(n.r.edx) = PCI_CONFIG_ADDR_PORT THEN n.sys.pci_addr ELSE 0) \in Words
  <2>1. n.r.eax \in Words /\ n.sys.pci_addr \in Words /\ 0 \in Words
    BY Parts, SysParts, Small DEF Gprs
  <2> QED
    BY <2>1, Halved
<1>3. ASSUME NEW n \in Machines
      PROVE  /\ inb_dx_al(n) \in Machines /\ Same(inb_dx_al(n), n)
             /\ inw_dx_ax(n) \in Machines /\ Same(inw_dx_ax(n), n)
             /\ inl_dx_eax(n) \in Machines /\ Same(inl_dx_eax(n), n)
  <2>1. "eax" \in Scratch
    BY DEF Scratch
  <2>2. inb_dx_al(n) \in Machines /\ Same(inb_dx_al(n), n)
    BY <1>2, <2>1, SetsScratch DEF inb_dx_al
  <2>3. inw_dx_ax(n) \in Machines /\ Same(inw_dx_ax(n), n)
    BY <1>2, <2>1, SetsScratch DEF inw_dx_ax
  <2>4. inl_dx_eax(n) \in Machines /\ Same(inl_dx_eax(n), n)
    BY <1>2, <2>1, SetsScratch DEF inl_dx_eax
  <2> QED
    BY <2>2, <2>3, <2>4
<1> QED
  BY <1>1, <1>3, ExecSystems DEF Quiet

LEMMA QuietNothing ==
  /\ Quiet(<<"outb_al_dx">>) /\ Quiet(<<"outw_ax_dx">>) /\ Quiet(<<"pause">>) /\ Quiet(<<"wbinvd">>)
  /\ Quiet(<<"vmclear_mesp", 4>>) /\ Quiet(<<"vmptrld_mesp", 4>>)
<1>1. /\ Plain(<<"outb_al_dx">>) /\ Plain(<<"outw_ax_dx">>) /\ Plain(<<"pause">>) /\ Plain(<<"wbinvd">>)
      /\ Plain(<<"vmclear_mesp", 4>>) /\ Plain(<<"vmptrld_mesp", 4>>)
  BY DEF Plain, Branches, Returns, ThroughEax
<1> QED
  BY <1>1, ExecSystems, ExecOthers, SameSelf DEF Quiet

LEMMA QuietFlags == Quiet(<<"cli">>) /\ Quiet(<<"sti">>) /\ Quiet(<<"vmxon_mesp", 4>>)
<1>1. Plain(<<"cli">>) /\ Plain(<<"sti">>) /\ Plain(<<"vmxon_mesp", 4>>)
  BY DEF Plain, Branches, Returns, ThroughEax
<1>2. ASSUME NEW n \in Machines
      PROVE  /\ ClearBit(n.fl, EFLAGS_IF) \in Words /\ SetBit(n.fl, EFLAGS_IF) \in Words
             /\ ClearBit(ClearBit(n.fl, EFLAGS_CF), EFLAGS_ZF) \in Words
  <2>1. n.fl \in Words
    BY Parts
  <2> QED
    BY <2>1, Flags
<1>3. ASSUME NEW n \in Machines
      PROVE  /\ cli(n) \in Machines /\ Same(cli(n), n)
             /\ sti(n) \in Machines /\ Same(sti(n), n)
             /\ vmxon_mesp(n) \in Machines /\ Same(vmxon_mesp(n), n)
  <2>1. cli(n) \in Machines /\ Same(cli(n), n)
    BY <1>2, SetsFlags DEF cli
  <2>2. sti(n) \in Machines /\ Same(sti(n), n)
    BY <1>2, SetsFlags DEF sti
  <2>3. vmxon_mesp(n) \in Machines /\ Same(vmxon_mesp(n), n)
    BY <1>2, SetsFlags DEF vmxon_mesp
  <2> QED
    BY <2>1, <2>2, <2>3
<1> QED
  BY <1>1, <1>3, ExecSystems, ExecOthers DEF Quiet

LEMMA QuietReads ==
  /\ \A cr \in {"cr0", "cr2", "cr3", "cr4"} : Quiet(<<"movl_cr_eax", cr>>)
  /\ \A s \in Selectors : Quiet(<<"movl_seg_eax", s>>)
  /\ Quiet(<<"movl_esp", "eax">>)
  /\ \A v \in {0, 1} : Quiet(<<"movl_imm", v, "eax">>)
<1> DEFINE Kept(w, n) == w \in Machines /\ Same(w, n)
<1>1. ASSUME NEW n \in Machines, NEW v \in Words PROVE Kept(SetReg(n, "eax", v), n)
  BY SetsScratch DEF Scratch
<1> HIDE DEF Kept
<1>2. ASSUME NEW cr \in {"cr0", "cr2", "cr3", "cr4"} PROVE Quiet(<<"movl_cr_eax", cr>>)
  <2>1. Plain(<<"movl_cr_eax", cr>>)
    BY DEF Plain, Branches, Returns, ThroughEax
  <2>2. ASSUME NEW n \in Machines PROVE Kept(Exec(n, <<"movl_cr_eax", cr>>), n)
    <3>1. n.sys[cr] \in Words
      BY SysParts
    <3>2. Exec(n, <<"movl_cr_eax", cr>>) = SetReg(n, "eax", n.sys[cr])
      BY ExecOthers DEF movl_cr_eax
    <3> QED
      BY <1>1, <3>1, <3>2
  <2> QED
    BY <2>1, <2>2 DEF Quiet, Kept
<1>3. ASSUME NEW s \in Selectors PROVE Quiet(<<"movl_seg_eax", s>>)
  <2>1. Plain(<<"movl_seg_eax", s>>)
    BY DEF Plain, Branches, Returns, ThroughEax
  <2>2. ASSUME NEW n \in Machines PROVE Kept(Exec(n, <<"movl_seg_eax", s>>), n)
    <3>1. n.sys.sel[s] \in Words
      BY SysParts
    <3>2. Exec(n, <<"movl_seg_eax", s>>) = SetReg(n, "eax", n.sys.sel[s])
      BY ExecOthers DEF movl_seg_eax
    <3> QED
      BY <1>1, <3>1, <3>2
  <2> QED
    BY <2>1, <2>2 DEF Quiet, Kept
<1>4. Quiet(<<"movl_esp", "eax">>)
  <2>1. Plain(<<"movl_esp", "eax">>)
    BY DEF Plain, Branches, Returns, ThroughEax
  <2>2. ASSUME NEW n \in Machines PROVE Kept(Exec(n, <<"movl_esp", "eax">>), n)
    <3>1. n.r.esp \in Words
      BY Parts DEF Gprs
    <3> QED
      BY <1>1, <3>1, ExecMoves DEF movl_esp
  <2> QED
    BY <2>1, <2>2 DEF Quiet, Kept
<1>5. ASSUME NEW v \in {0, 1} PROVE Quiet(<<"movl_imm", v, "eax">>)
  <2>1. Plain(<<"movl_imm", v, "eax">>)
    BY DEF Plain, Branches, Returns, ThroughEax
  <2>2. ASSUME NEW n \in Machines PROVE Kept(Exec(n, <<"movl_imm", v, "eax">>), n)
    <3>1. v \in Words
      BY Small
    <3> QED
      BY <1>1, <3>1, ExecMoves DEF movl_imm
  <2> QED
    BY <2>1, <2>2 DEF Quiet, Kept
<1> QED
  BY <1>2, <1>3, <1>4, <1>5

LEMMA QuietMsr == Quiet(<<"rdmsr">>) /\ Quiet(<<"wrmsr">>)
<1>1. Plain(<<"rdmsr">>) /\ Plain(<<"wrmsr">>)
  BY DEF Plain, Branches, Returns, ThroughEax
<1>2. ASSUME NEW n \in Machines PROVE rdmsr(n) \in Machines /\ Same(rdmsr(n), n)
  <2> DEFINE value(i) == IF i = "apic_base" THEN <<n.sys.msr[i][1], SetBit(n.sys.msr[i][2], 8)>>
                         ELSE n.sys.msr[i]
             v == value(CHOOSE i \in MsrsOf(n.r.ecx) : TRUE)
  <2>1. ASSUME NEW i \in DOMAIN Msr PROVE value(i)[1] \in Words /\ value(i)[2] \in Words
    <3>1. n.sys.msr[i] \in Words \X Words
      BY SysParts
    <3>2. n.sys.msr[i][1] \in Words /\ n.sys.msr[i][2] \in Words
      BY <3>1
    <3>3. SetBit(n.sys.msr[i][2], 8) \in Words
      BY <3>2, Flags
    <3> QED
      BY <3>2, <3>3
  <2>2. CASE MsrsOf(n.r.ecx) = {}
    BY <2>2, SameSelf DEF rdmsr
  <2>3. CASE MsrsOf(n.r.ecx) # {}
    <3>1. (CHOOSE i \in MsrsOf(n.r.ecx) : TRUE) \in MsrsOf(n.r.ecx)
      BY <2>3
    <3>2. (CHOOSE i \in MsrsOf(n.r.ecx) : TRUE) \in DOMAIN Msr
      BY <3>1 DEF MsrsOf
    <3>3. v[1] \in Words /\ v[2] \in Words
      BY <2>1, <3>2
    <3>4. rdmsr(n) = [n EXCEPT !.r.edx = v[1], !.r.eax = v[2]]
      BY <2>3 DEF rdmsr
    <3> HIDE DEF v
    <3>5. PICK hi \in Words, lo \in Words : hi = v[1] /\ lo = v[2]
      BY <3>3
    <3>6. rdmsr(n) = [n EXCEPT !.r["edx"] = hi, !.r["eax"] = lo]
      BY <3>4, <3>5
    <3>7. "eax" \in Scratch /\ "edx" \in Scratch
      BY DEF Scratch
    <3> DEFINE w == [n EXCEPT !.r["edx"] = hi, !.r["eax"] = lo]
    <3>8. w \in Machines /\ Same(w, n)
      BY <3>7, SetsPair
    <3> HIDE DEF w
    <3>9. rdmsr(n) = w
      BY <3>6 DEF w
    <3> QED
      BY <3>8, <3>9
  <2> QED
    BY <2>2, <2>3
<1>3. ASSUME NEW n \in Machines PROVE wrmsr(n) \in Machines /\ Same(wrmsr(n), n)
  <2> DEFINE msr == [i \in DOMAIN Msr |-> IF i \in MsrsOf(n.r.ecx) \cap WritableMsrs THEN <<n.r.edx, n.r.eax>>
                                          ELSE n.sys.msr[i]]
             sys == [n.sys EXCEPT !.msr = msr]
  <2>1. msr \in [DOMAIN Msr -> Words \X Words]
    <3>1. n.r.edx \in Words /\ n.r.eax \in Words
      BY Parts DEF Gprs
    <3> QED
      BY <3>1, SysParts
  <2>2. wrmsr(n) = [n EXCEPT !.sys = sys]
    BY DEF wrmsr
  <2> HIDE DEF msr
  <2>3. sys \in SysStates
    <3>1. n.sys \in SysStates
      BY Parts
    <3> QED
      BY ONLY <2>1, <3>1, SysReplaced
  <2> HIDE DEF sys
  <2> QED
    BY <2>2, <2>3, SetsSys
<1>4. ASSUME NEW n \in Machines
      PROVE  /\ Exec(n, <<"rdmsr">>) \in Machines /\ Same(Exec(n, <<"rdmsr">>), n)
             /\ Exec(n, <<"wrmsr">>) \in Machines /\ Same(Exec(n, <<"wrmsr">>), n)
  BY <1>2, <1>3, ExecSystems
<1> QED
  BY <1>1, <1>4 DEF Quiet

LEMMA QuietClock == Quiet(<<"rdtsc">>) /\ Quiet(<<"hlt">>)
<1>1. Plain(<<"rdtsc">>) /\ Plain(<<"hlt">>)
  BY DEF Plain, Branches, Returns, ThroughEax
<1>2. ASSUME NEW n \in Machines PROVE rdtsc(n) \in Machines /\ Same(rdtsc(n), n)
  <2>1. PICK hi \in Words, lo \in Words : n.sys.rdtsc = <<hi, lo>>
    BY SysParts
  <2> DEFINE sys == [n.sys EXCEPT !.rdtsc = Successor(n.sys.rdtsc)]
             w == [n EXCEPT !.r["edx"] = hi, !.r["eax"] = lo]
  <2>2. Successor(n.sys.rdtsc) \in Words \X Words
    <3>1. Word \in Nat /\ Word > 1 /\ 0 \in Words
      BY WidthNumbers, Small
    <3>2. Wrap(hi + 1) \in Words
      BY Wraps DEF Words
    <3>3. CASE lo = Word - 1
      BY <2>1, <3>1, <3>2, <3>3 DEF Successor
    <3>4. CASE lo # Word - 1
      <4>1. lo + 1 \in Words
        BY <3>1, <3>4 DEF Words
      <4> QED
        BY <2>1, <3>4, <4>1 DEF Successor
    <3> QED
      BY <3>3, <3>4
  <2>3. sys \in SysStates
    BY <2>2, Parts, ZenonT(60) DEF SysStates
  <2>4. rdtsc(n) = [w EXCEPT !.sys = sys]
    <3>1. hi = n.sys.rdtsc[1] /\ lo = n.sys.rdtsc[2]
      BY <2>1
    <3>2. rdtsc(n) = [n EXCEPT !.r.edx = hi, !.r.eax = lo, !.sys.rdtsc = Successor(n.sys.rdtsc)]
      BY <3>1, Zenon DEF rdtsc
    <3> QED
      BY <3>2 DEF Machines
  <2> HIDE DEF sys
  <2>5. w \in Machines /\ Same(w, n)
    BY <2>1, SetsPair DEF Scratch
  <2> HIDE DEF w
  <2>6. [w EXCEPT !.sys = sys] \in Machines /\ Same([w EXCEPT !.sys = sys], w)
    BY <2>3, <2>5, SetsSys
  <2> QED
    BY <2>4, <2>5, <2>6 DEF Same
<1>3. ASSUME NEW n \in Machines PROVE hlt(n) \in Machines /\ Same(hlt(n), n)
  <2>1. [n.sys EXCEPT !.halted = TRUE] \in SysStates
    BY Parts, ZenonT(60) DEF SysStates
  <2>2. hlt(n) = [n EXCEPT !.sys = [n.sys EXCEPT !.halted = TRUE]]
    BY DEF hlt
  <2> QED
    BY <2>1, <2>2, SetsSys
<1>4. ASSUME NEW n \in Machines
      PROVE  /\ Exec(n, <<"rdtsc">>) \in Machines /\ Same(Exec(n, <<"rdtsc">>), n)
             /\ Exec(n, <<"hlt">>) \in Machines /\ Same(Exec(n, <<"hlt">>), n)
  BY <1>2, <1>3, ExecSystems
<1> QED
  BY <1>1, <1>4 DEF Quiet

(* Writes of system registers. *)
LEMMA QuietWrites ==
  /\ Quiet(<<"outl_eax_dx">>) /\ Quiet(<<"ltr_ax">>)
  /\ \A cr \in {"cr0", "cr3", "cr4"} : Quiet(<<"movl_reg_cr", "eax", cr>>)
  /\ \A s \in Selectors : Quiet(<<"movw_ax_seg", s>>)
<1> DEFINE Kept(w, n) == w \in Machines /\ Same(w, n)
<1>1. ASSUME NEW n \in Machines PROVE n.r.eax \in Words /\ Low16(n.r.eax) \in Words
  <2>1. n.r.eax \in Words
    BY Parts DEF Gprs
  <2> QED
    BY <2>1, HalvesOfWord
<1>2. ASSUME NEW n \in Machines, NEW sys \in SysStates PROVE Kept([n EXCEPT !.sys = sys], n)
  BY SetsSys
<1>3. ASSUME NEW n PROVE n \in Machines => Kept(n, n)
  BY SameSelf
<1> HIDE DEF Kept
<1>4. Quiet(<<"outl_eax_dx">>)
  <2>1. Plain(<<"outl_eax_dx">>)
    BY DEF Plain, Branches, Returns, ThroughEax
  <2>2. ASSUME NEW n \in Machines PROVE Kept(Exec(n, <<"outl_eax_dx">>), n)
    <3>1. [n.sys EXCEPT !.pci_addr = n.r.eax] \in SysStates
      BY <1>1, Parts DEF SysStates
    <3>2. Exec(n, <<"outl_eax_dx">>) = outl_eax_dx(n)
      BY ExecSystems
    <3>3. outl_eax_dx(n) = n \/ outl_eax_dx(n) = [n EXCEPT !.sys = [n.sys EXCEPT !.pci_addr = n.r.eax]]
      BY DEF outl_eax_dx
    <3> QED
      BY <1>2, <1>3, <3>1, <3>2, <3>3
  <2> QED
    BY <2>1, <2>2 DEF Quiet, Kept
<1>5. Quiet(<<"ltr_ax">>)
  <2>1. Plain(<<"ltr_ax">>)
    BY DEF Plain, Branches, Returns, ThroughEax
  <2>2. ASSUME NEW n \in Machines PROVE Kept(Exec(n, <<"ltr_ax">>), n)
    <3>1. [n.sys EXCEPT !.tr = Low16(n.r.eax)] \in SysStates
      BY <1>1, Parts DEF SysStates
    <3>2. Exec(n, <<"ltr_ax">>) = [n EXCEPT !.sys = [n.sys EXCEPT !.tr = Low16(n.r.eax)]]
      BY ExecSystems DEF ltr_ax
    <3> QED
      BY <1>2, <3>1, <3>2
  <2> QED
    BY <2>1, <2>2 DEF Quiet, Kept
<1>6. ASSUME NEW cr \in {"cr0", "cr3", "cr4"} PROVE Quiet(<<"movl_reg_cr", "eax", cr>>)
  <2>1. Plain(<<"movl_reg_cr", "eax", cr>>)
    BY DEF Plain, Branches, Returns, ThroughEax
  <2>2. ASSUME NEW n \in Machines PROVE Kept(Exec(n, <<"movl_reg_cr", "eax", cr>>), n)
    <3>1. [n.sys EXCEPT ![cr] = n.r.eax] \in SysStates
      <4>1. n.r.eax \in Words /\ n.sys \in SysStates
        BY <1>1, Parts
      <4>2. CASE cr = "cr0"
        BY <4>1, <4>2 DEF SysStates
      <4>3. CASE cr = "cr3"
        BY <4>1, <4>3 DEF SysStates
      <4>4. CASE cr = "cr4"
        BY <4>1, <4>4 DEF SysStates
      <4> QED
        BY <4>2, <4>3, <4>4
    <3>2. Exec(n, <<"movl_reg_cr", "eax", cr>>) = movl_reg_cr(n, "eax", cr)
      BY DEF Exec, ExecControl, LoadStores, Stacks, Arithmetic, Segments, Controls, Vmx
    <3>3. movl_reg_cr(n, "eax", cr) = [n EXCEPT !.sys = [n.sys EXCEPT ![cr] = n.r.eax]]
      BY DEF movl_reg_cr
    <3> QED
      BY <1>2, <3>1, <3>2, <3>3
  <2> QED
    BY <2>1, <2>2 DEF Quiet, Kept
<1>7. ASSUME NEW s \in Selectors PROVE Quiet(<<"movw_ax_seg", s>>)
  <2>1. Plain(<<"movw_ax_seg", s>>)
    BY DEF Plain, Branches, Returns, ThroughEax
  <2>2. ASSUME NEW n \in Machines PROVE Kept(Exec(n, <<"movw_ax_seg", s>>), n)
    <3>1. [n.sys.sel EXCEPT ![s] = Low16(n.r.eax)] \in [Selectors -> Words]
      BY <1>1, SysParts
    <3>2. [n.sys EXCEPT !.sel = [n.sys.sel EXCEPT ![s] = Low16(n.r.eax)]] \in SysStates
      <4>1. n.sys \in SysStates
        BY Parts
      <4> QED
        BY ONLY <3>1, <4>1, SysReplaced
    <3>3. Exec(n, <<"movw_ax_seg", s>>) = movw_ax_seg(n, s)
      BY ExecOthers
    <3>4. movw_ax_seg(n, s) = [n EXCEPT !.sys = [n.sys EXCEPT !.sel = [n.sys.sel EXCEPT ![s] = Low16(n.r.eax)]]]
      BY DEF movw_ax_seg
    <3> QED
      BY <1>2, <3>2, <3>3, <3>4
  <2> QED
    BY <2>1, <2>2 DEF Quiet, Kept
<1> QED
  BY <1>4, <1>5, <1>6, <1>7

LEMMA QuietVmx ==
  Quiet(<<"vmread_ecx_eax">>) /\ Quiet(<<"vmwrite_eax_ecx">>) /\ Quiet(<<"str_ax">>)
<1>1. Plain(<<"vmread_ecx_eax">>) /\ Plain(<<"vmwrite_eax_ecx">>) /\ Plain(<<"str_ax">>)
  BY DEF Plain, Branches, Returns, ThroughEax
<1>2. ASSUME NEW n \in Machines PROVE vmread_ecx_eax(n) \in Machines /\ Same(vmread_ecx_eax(n), n)
  <2> DEFINE named == {f \in DOMAIN Vmcs : Vmcs[f] = n.r.ecx}
             v == n.sys.vmcs[CHOOSE f \in named : TRUE]
  <2>1. CASE named = {}
    BY <2>1, SameSelf DEF vmread_ecx_eax
  <2>2. CASE named # {}
    <3>1. (CHOOSE f \in named : TRUE) \in DOMAIN Vmcs
      BY <2>2
    <3>2. v \in Words
      BY <3>1, SysParts
    <3>3. vmread_ecx_eax(n) = SetReg(n, "eax", v)
      BY <2>2 DEF vmread_ecx_eax
    <3> HIDE DEF v
    <3> QED
      BY <3>2, <3>3, SetsScratch DEF Scratch
  <2> QED
    BY <2>1, <2>2
<1>3. ASSUME NEW n \in Machines PROVE vmwrite_eax_ecx(n) \in Machines /\ Same(vmwrite_eax_ecx(n), n)
  <2> DEFINE vmcs == [f \in DOMAIN Vmcs |-> IF Vmcs[f] = n.r.ecx THEN n.r.eax ELSE n.sys.vmcs[f]]
             sys == [n.sys EXCEPT !.vmcs = vmcs]
  <2>1. vmcs \in [DOMAIN Vmcs -> Words]
    <3>1. n.r.eax \in Words
      BY Parts DEF Gprs
    <3> QED
      BY <3>1, SysParts
  <2>2. vmwrite_eax_ecx(n) = [n EXCEPT !.sys = sys]
    BY DEF vmwrite_eax_ecx
  <2> HIDE DEF vmcs
  <2>3. sys \in SysStates
    BY <2>1, Parts DEF SysStates
  <2> HIDE DEF sys
  <2> QED
    BY <2>2, <2>3, SetsSys
<1>4. ASSUME NEW n \in Machines PROVE str_ax(n) \in Machines /\ Same(str_ax(n), n)
  <2>1. n.r.eax \in Words /\ n.sys.tr \in Words
    BY Parts, SysParts DEF Gprs
  <2>2. (n.r.eax - Low16(n.r.eax)) + Low16(n.sys.tr) \in Words
    BY <2>1, Halved
  <2> QED
    BY <2>2, SetsScratch DEF str_ax, Scratch
<1>5. ASSUME NEW n \in Machines
      PROVE  /\ Exec(n, <<"vmread_ecx_eax">>) \in Machines /\ Same(Exec(n, <<"vmread_ecx_eax">>), n)
             /\ Exec(n, <<"vmwrite_eax_ecx">>) \in Machines /\ Same(Exec(n, <<"vmwrite_eax_ecx">>), n)
             /\ Exec(n, <<"str_ax">>) \in Machines /\ Same(Exec(n, <<"str_ax">>), n)
  BY <1>2, <1>3, <1>4, ExecSystems, ExecOthers
<1> QED
  BY <1>1, <1>5 DEF Quiet

LEMMA QuietXcr == Quiet(<<"xgetbv">>) /\ Quiet(<<"xsetbv">>)
<1>1. Plain(<<"xgetbv">>) /\ Plain(<<"xsetbv">>)
  BY DEF Plain, Branches, Returns, ThroughEax
<1>2. ASSUME NEW n \in Machines PROVE xgetbv(n) \in Machines /\ Same(xgetbv(n), n)
  <2>1. PICK hi \in Words, lo \in Words : hi = n.sys.xcr0[1] /\ lo = n.sys.xcr0[2]
    BY SysParts
  <2> DEFINE w == [n EXCEPT !.r["eax"] = lo, !.r["edx"] = hi]
  <2>2. xgetbv(n) = n \/ xgetbv(n) = w
    BY <2>1 DEF xgetbv
  <2>3. w \in Machines /\ Same(w, n)
    BY SetsPair DEF Scratch
  <2> HIDE DEF w
  <2> QED
    BY <2>2, <2>3, SameSelf
<1>3. ASSUME NEW n \in Machines PROVE xsetbv(n) \in Machines /\ Same(xsetbv(n), n)
  <2> DEFINE sys == [n.sys EXCEPT !.xcr0 = <<n.r.edx, n.r.eax>>]
  <2>1. n.r.eax \in Words /\ n.r.edx \in Words
    BY Parts DEF Gprs
  <2>2. sys \in SysStates
    BY <2>1, Parts, SMTT(30) DEF SysStates
  <2>3. xsetbv(n) = n \/ xsetbv(n) = [n EXCEPT !.sys = sys]
    BY DEF xsetbv
  <2> HIDE DEF sys
  <2> QED
    BY <2>2, <2>3, SetsSys, SameSelf
<1>4. ASSUME NEW n \in Machines
      PROVE  /\ Exec(n, <<"xgetbv">>) \in Machines /\ Same(Exec(n, <<"xgetbv">>), n)
             /\ Exec(n, <<"xsetbv">>) \in Machines /\ Same(Exec(n, <<"xsetbv">>), n)
  BY <1>2, <1>3, ExecSystems
<1> QED
  BY <1>1, <1>4 DEF Quiet

(* A set of numbers that is not empty has a least one; what holds of zero and of every next number
   holds of all. *)
LEMMA LeastNumber ==
  ASSUME NEW T, T \subseteq Nat, T # {}
  PROVE  \E x \in T : \A y \in T : x <= y
<1>1. IsWellFoundedOn(OpToRel(<, Nat), Nat)
  BY NatLessThanWellFounded
<1>2. PICK x \in T : \A y \in T : ~(<<y, x>> \in OpToRel(<, Nat))
  BY <1>1, WFMin
<1>3. \A y \in T : ~(y < x)
  BY <1>2 DEF OpToRel
<1> QED
  BY <1>3
LEMMA SetInduction ==
  ASSUME NEW T, 0 \in T, \A k \in Nat : k \in T => k + 1 \in T
  PROVE  Nat \subseteq T
<1> SUFFICES ASSUME Nat \ T # {}
             PROVE  FALSE
  OBVIOUS
<1>1. PICK x \in Nat \ T : \A y \in Nat \ T : x <= y
  BY LeastNumber
<1>2. x # 0
  BY <1>1
<1>3. x - 1 \in Nat /\ x - 1 \in T
  BY <1>1, <1>2
<1>4. (x - 1) + 1 \in T
  BY <1>3
<1> QED
  BY <1>1, <1>4

(* Powers of two, as far as words go. *)
LEMMA Doubles ==
  ASSUME NEW i \in 0..31
  PROVE  2^i \in Nat /\ 2^(i + 1) = 2 * 2^i
<1>0. CASE i = 0
  BY <1>0, SMT
<1>1. CASE i = 1
  BY <1>1, SMT
<1>2. CASE i = 2
  BY <1>2, SMT
<1>3. CASE i = 3
  BY <1>3, SMT
<1>4. CASE i = 4
  BY <1>4, SMT
<1>5. CASE i = 5
  BY <1>5, SMT
<1>6. CASE i = 6
  BY <1>6, SMT
<1>7. CASE i = 7
  BY <1>7, SMT
<1>8. CASE i = 8
  BY <1>8, SMT
<1>9. CASE i = 9
  BY <1>9, SMT
<1>10. CASE i = 10
  BY <1>10, SMT
<1>11. CASE i = 11
  BY <1>11, SMT
<1>12. CASE i = 12
  BY <1>12, SMT
<1>13. CASE i = 13
  BY <1>13, SMT
<1>14. CASE i = 14
  BY <1>14, SMT
<1>15. CASE i = 15
  BY <1>15, SMT
<1>16. CASE i = 16
  BY <1>16, SMT
<1>17. CASE i = 17
  BY <1>17, SMT
<1>18. CASE i = 18
  BY <1>18, SMT
<1>19. CASE i = 19
  BY <1>19, SMT
<1>20. CASE i = 20
  BY <1>20, SMT
<1>21. CASE i = 21
  BY <1>21, SMT
<1>22. CASE i = 22
  BY <1>22, SMT
<1>23. CASE i = 23
  BY <1>23, SMT
<1>24. CASE i = 24
  BY <1>24, SMT
<1>25. CASE i = 25
  BY <1>25, SMT
<1>26. CASE i = 26
  BY <1>26, SMT
<1>27. CASE i = 27
  BY <1>27, SMT
<1>28. CASE i = 28
  BY <1>28, SMT
<1>29. CASE i = 29
  BY <1>29, SMT
<1>30. CASE i = 30
  BY <1>30, SMT
<1>31. CASE i = 31
  BY <1>31, SMT
<1> QED
  BY <1>0, <1>1, <1>2, <1>3, <1>4, <1>5, <1>6, <1>7, <1>8, <1>9, <1>10, <1>11, <1>12, <1>13, <1>14, <1>15,
     <1>16, <1>17, <1>18, <1>19, <1>20, <1>21, <1>22, <1>23, <1>24, <1>25, <1>26, <1>27, <1>28, <1>29, <1>30, <1>31

(* A word that is not zero has a highest bit. *)
LEMMA GreatestNumber ==
  ASSUME NEW b \in Nat, NEW T, T \subseteq 0..b, T # {}
  PROVE  \E x \in T : \A y \in T : y <= x
<1> DEFINE Rest == {b - x : x \in T}
<1>1. Rest \subseteq Nat /\ Rest # {}
  <2>1. ASSUME NEW x \in T PROVE b - x \in Nat
    OBVIOUS
  <2>2. Rest \subseteq Nat
    BY <2>1
  <2>3. PICK x \in T : TRUE
    OBVIOUS
  <2>4. b - x \in Rest
    OBVIOUS
  <2> QED
    BY <2>2, <2>4
<1>2. PICK d \in Rest : \A e \in Rest : d <= e
  BY <1>1, LeastNumber
<1>3. PICK x \in T : d = b - x
  BY <1>2
<1>4. ASSUME NEW y \in T PROVE y <= x
  <2>1. d <= b - y
    BY <1>2
  <2> QED
    BY <1>3, <2>1
<1> QED
  BY <1>3, <1>4
LEMMA WordSize == WordBits \in 1..32 /\ 2^WordBits = Word
<1>1. CASE ByteBits = 7
  <2>1. 2^7 = 128 /\ 2^28 = 16384 * 16384
    BY SMT
  <2>2. WordBits = 28 /\ Byte = 2^7
    BY <1>1 DEF WordBits, Byte
  <2>3. Word = 16384 * 16384
    BY <2>1, <2>2, Widths
  <2> QED
    BY <2>1, <2>2, <2>3
<1>2. CASE ByteBits = 8
  <2>1. 2^8 = 256 /\ 2^32 = 65536 * 65536
    BY SMT
  <2>2. WordBits = 32 /\ Byte = 2^8
    BY <1>2 DEF WordBits, Byte
  <2>3. Word = 65536 * 65536
    BY <2>1, <2>2, Widths
  <2> QED
    BY <2>1, <2>2, <2>3
<1> QED
  BY <1>1, <1>2, ByteBitsAssumption
LEMMA HighestBit ==
  ASSUME NEW v \in Words, v # 0
  PROVE  \E i \in 0..(WordBits - 1) :
           /\ Bit(v, i) = 1 /\ \A j \in 0..(WordBits - 1) : Bit(v, j) = 1 => j <= i
           /\ 2^i <= v /\ v < 2^(i + 1)
<1> DEFINE Bits == 0..(WordBits - 1)
           Within == {k \in Bits : 2^k <= v}
<1>1. WordBits \in 1..32 /\ v \in Nat /\ v < 2^WordBits /\ v >= 1
  BY WordSize, WidthNumbers DEF Words
<1>2. 2^0 = 1
  BY SMT
<1>3. 0 \in Within
  BY <1>1, <1>2
<1>4. PICK i \in Within : \A k \in Within : k <= i
  <2>1. Within \subseteq 0..(WordBits - 1) /\ WordBits - 1 \in Nat
    BY <1>1
  <2> HIDE DEF Within
  <2> QED
    BY <1>3, <2>1, GreatestNumber
<1>5. ASSUME NEW k \in Bits PROVE 2^k \in Nat /\ 2^(k + 1) = 2 * 2^k
  <2>1. k \in 0..31
    BY <1>1
  <2> QED
    BY <2>1, Doubles
<1>6. i \in Bits /\ 2^i <= v
  BY <1>4
<1>7. v < 2 * 2^i
  <2>1. CASE i + 1 \in Bits
    <3>1. i + 1 \notin Within
      BY <1>1, <1>4, <1>6
    <3>2. ~(2^(i + 1) <= v) /\ 2^(i + 1) \in Nat
      BY <1>5, <2>1, <3>1
    <3>3. 2^(i + 1) = 2 * 2^i
      BY <1>5, <1>6
    <3> QED
      BY <1>1, <3>2, <3>3
  <2>2. CASE i + 1 \notin Bits
    <3>1. i + 1 = WordBits
      BY <1>1, <1>6, <2>2
    <3>2. 2^(i + 1) = 2 * 2^i
      BY <1>5, <1>6
    <3> QED
      BY <1>1, <3>1, <3>2
  <2> QED
    BY <2>1, <2>2
<1>8. Bit(v, i) = 1
  <2>1. PICK p \in Nat : p = 2^i /\ p <= v /\ v < 2 * p
    BY <1>5, <1>6, <1>7
  <2>2. v \div p = 1
    BY <1>1, <2>1, SMT
  <2> QED
    BY <2>1, <2>2 DEF Bit
<1>9. ASSUME NEW j \in Bits, Bit(v, j) = 1 PROVE j <= i
  <2>1. PICK p \in Nat : p = 2^j
    BY <1>5
  <2>2. v < p => v \div p = 0
    BY <1>1, SMT
  <2>3. (v \div p) % 2 = 1
    BY <1>9, <2>1 DEF Bit
  <2>4. ~(v < p)
    BY <2>2, <2>3
  <2>5. j \in Within
    BY <1>1, <2>1, <2>4
  <2> QED
    BY <1>4, <2>5
<1>10. v < 2^(i + 1)
  BY <1>5, <1>6, <1>7
<1> QED
  BY <1>6, <1>8, <1>9, <1>10
LEMMA QuietSearch == Quiet(<<"bsrl_mesp_eax", 4>>)
<1> DEFINE i == <<"bsrl_mesp_eax", 4>>
<1>1. Plain(i) /\ i[1] = "bsrl_mesp_eax" /\ i[2] = 4
  BY DEF Plain, Branches, Returns, ThroughEax
<1>2. ASSUME NEW n \in Machines, n.r.esp \in 16..36, bsrl_ends(n, 4)
      PROVE  Exec(n, i) \in Machines /\ Same(Exec(n, i), n)
  <2>1. PICK v \in Words : v = Read32(n, At(n, "esp", 4))
    <3>1. At(n, "esp", 4) \in 0..84
      BY <1>2 DEF At
    <3> QED
      BY <3>1, Parts, ReadsWord
  <2> DEFINE set == {k \in 0..(WordBits - 1) : Bit(v, k) = 1}
             top == CHOOSE k \in set : \A j \in set : j <= k
  <2>2. top \in set
    <3>1. \E k \in set : \A j \in set : j <= k
      BY <1>2, <2>1, HighestBit DEF bsrl_ends
    <3> HIDE DEF set
    <3> QED
      BY <3>1
  <2>3. top \in Words
    <3>1. WordBits - 1 \in 0..31
      BY WordSize
    <3>2. top \in 0..1024
      BY <2>2, <3>1, SMTT(30)
    <3> QED
      BY <3>2, Small
  <2>4. Exec(n, i) = SetReg(n, "eax", top)
    <3>1. bsrl_mesp_eax(n, 4) = SetReg(n, "eax", top)
      BY <2>1, Zenon DEF bsrl_mesp_eax
    <3> QED
      BY <3>1, ExecOperations
  <2> HIDE DEF top
  <2> QED
    BY <2>3, <2>4, SetsScratch DEF Scratch
<1> QED
  BY <1>1, <1>2 DEF Quiet

(* Functions that are made of such instructions. *)
QuietProgram(prog) ==
  \E k \in 2..7 :
    /\ DOMAIN prog = 1..k
    /\ \A p \in 1..(k - 1) : Quiet(prog[p]) \/ (prog[p][1] \in Branches /\ prog[p][2] \in 1..k)
    /\ prog[k][1] \in {"ret", "retu32", "retu64"}

LEMMA QuietOf2 ==
  ASSUME NEW a, Quiet(a), NEW z, z[1] \in {"ret", "retu32", "retu64"}
  PROVE  QuietProgram(<<a, z>>)
<1> DEFINE prog == <<a, z>>
<1>1. DOMAIN prog = 1..2 /\ prog[2] = z
  OBVIOUS
<1>2. prog[1] = a
  OBVIOUS
<1> HIDE DEF prog
<1>3. ASSUME NEW p \in 1..(2 - 1) PROVE Quiet(prog[p])
  <2>1. p = 1
    OBVIOUS
  <2> QED
    BY <1>2, <2>1
<1> QED
  BY <1>1, <1>3 DEF QuietProgram, prog

LEMMA QuietOf3 ==
  ASSUME NEW a, Quiet(a), NEW b, Quiet(b), NEW z, z[1] \in {"ret", "retu32", "retu64"}
  PROVE  QuietProgram(<<a, b, z>>)
<1> DEFINE prog == <<a, b, z>>
<1>1. DOMAIN prog = 1..3 /\ prog[3] = z
  OBVIOUS
<1>2. prog[1] = a /\ prog[2] = b
  OBVIOUS
<1> HIDE DEF prog
<1>3. ASSUME NEW p \in 1..(3 - 1) PROVE Quiet(prog[p])
  <2>1. p = 1 \/ p = 2
    OBVIOUS
  <2> QED
    BY <1>2, <2>1
<1> QED
  BY <1>1, <1>3 DEF QuietProgram, prog

LEMMA QuietOf4 ==
  ASSUME NEW a, Quiet(a), NEW b, Quiet(b), NEW c, Quiet(c), NEW z, z[1] \in {"ret", "retu32", "retu64"}
  PROVE  QuietProgram(<<a, b, c, z>>)
<1> DEFINE prog == <<a, b, c, z>>
<1>1. DOMAIN prog = 1..4 /\ prog[4] = z
  OBVIOUS
<1>2. prog[1] = a /\ prog[2] = b /\ prog[3] = c
  OBVIOUS
<1> HIDE DEF prog
<1>3. ASSUME NEW p \in 1..(4 - 1) PROVE Quiet(prog[p])
  <2>1. p = 1 \/ p = 2 \/ p = 3
    OBVIOUS
  <2> QED
    BY <1>2, <2>1
<1> QED
  BY <1>1, <1>3 DEF QuietProgram, prog

LEMMA QuietOf5 ==
  ASSUME NEW a, Quiet(a), NEW b, Quiet(b), NEW c, Quiet(c), NEW d, Quiet(d), NEW z, z[1] \in {"ret", "retu32", "retu64"}
  PROVE  QuietProgram(<<a, b, c, d, z>>)
<1> DEFINE prog == <<a, b, c, d, z>>
<1>1. DOMAIN prog = 1..5 /\ prog[5] = z
  OBVIOUS
<1>2. prog[1] = a /\ prog[2] = b /\ prog[3] = c /\ prog[4] = d
  OBVIOUS
<1> HIDE DEF prog
<1>3. ASSUME NEW p \in 1..(5 - 1) PROVE Quiet(prog[p])
  <2>1. p = 1 \/ p = 2 \/ p = 3 \/ p = 4
    OBVIOUS
  <2> QED
    BY <1>2, <2>1
<1> QED
  BY <1>1, <1>3 DEF QuietProgram, prog

LEMMA QuietOf7 ==
  ASSUME NEW a, Quiet(a), NEW b, Quiet(b), NEW c, Quiet(c), NEW d, Quiet(d), NEW e, Quiet(e), NEW f, Quiet(f), NEW z, z[1] \in {"ret", "retu32", "retu64"}
  PROVE  QuietProgram(<<a, b, c, d, e, f, z>>)
<1> DEFINE prog == <<a, b, c, d, e, f, z>>
<1>1. DOMAIN prog = 1..7 /\ prog[7] = z
  OBVIOUS
<1>2. prog[1] = a /\ prog[2] = b /\ prog[3] = c /\ prog[4] = d /\ prog[5] = e /\ prog[6] = f
  OBVIOUS
<1> HIDE DEF prog
<1>3. ASSUME NEW p \in 1..(7 - 1) PROVE Quiet(prog[p])
  <2>1. p = 1 \/ p = 2 \/ p = 3 \/ p = 4 \/ p = 5 \/ p = 6
    OBVIOUS
  <2> QED
    BY <1>2, <2>1
<1> QED
  BY <1>1, <1>3 DEF QuietProgram, prog

LEMMA QuietOneOrZero ==
  ASSUME NEW a, Quiet(a)
  PROVE  QuietProgram(OneOrZero(a))
<1> DEFINE prog == OneOrZero(a)
<1>1. /\ DOMAIN prog = 1..6 /\ prog[6] = <<"retu32">> /\ prog[1] = a
      /\ prog[2] = <<"jbe", 5>> /\ prog[3] = <<"movl_imm", 1, "eax">>
      /\ prog[4] = <<"jmplabel", 6>> /\ prog[5] = <<"movl_imm", 0, "eax">>
  BY DEF OneOrZero
<1> HIDE DEF prog
<1>2. Quiet(prog[3]) /\ Quiet(prog[5])
  BY <1>1, QuietReads
<1>3. prog[2][1] \in Branches /\ prog[2][2] \in 1..6 /\ prog[4][1] \in Branches /\ prog[4][2] \in 1..6
  BY <1>1 DEF Branches
<1>4. prog[6][1] \in {"ret", "retu32", "retu64"}
  BY <1>1
<1>5. ASSUME NEW p \in 1..(6 - 1)
      PROVE  Quiet(prog[p]) \/ (prog[p][1] \in Branches /\ prog[p][2] \in 1..6)
  <2>1. p = 1 \/ p = 2 \/ p = 3 \/ p = 4 \/ p = 5
    OBVIOUS
  <2> QED
    BY <1>1, <1>2, <1>3, <2>1
<1> QED
  BY <1>1, <1>4, <1>5 DEF QuietProgram, prog

QuietFns ==
  {"bsrl", "xmhfhw_cpu_disable_intr", "enable_intr", "cpu_relax", "hlt", "wbinvd", "inb",
   "inw", "inl", "outb", "outw", "outl", "xmhfhw_cpu_loadTR", "rdmsr64", "wrmsr64", "rdtsc64",
   "read_cr0", "read_cr3", "read_cr4", "read_cr2", "write_cr0", "write_cr3", "write_cr4",
   "read_segreg_cs", "read_segreg_ds", "read_segreg_es", "read_segreg_fs", "read_segreg_gs",
   "read_segreg_ss", "read_esp", "read_rsp", "read_tr_sel", "xmhfhw_cpu_reloaddsregs",
   "vmclear", "vmptrld", "vmxon", "vmread", "vmwrite", "xgetbv", "xsetbv"}

(* The functions that never touch the stack, nor anything a caller keeps. *)
LEMMA QuietFunctions == \A f \in QuietFns : f \in DOMAIN Program /\ QuietProgram(Program[f])
<1>1. "bsrl" \in DOMAIN Program /\ QuietProgram(Program["bsrl"])
  <2>1. Program["bsrl"] = <<<<"bsrl_mesp_eax", 4>>, <<"retu32">>>>
    BY DEF Program, bsrl, ReadInto
  <2>2. "bsrl" \in DOMAIN Program
    BY DEF Program
  <2>3. Quiet(<<"bsrl_mesp_eax", 4>>)
    BY QuietSearch DEF Scratch, Selectors
  <2> QED
    BY <2>1, <2>2, <2>3, QuietOf2
<1>2. "xmhfhw_cpu_disable_intr" \in DOMAIN Program /\ QuietProgram(Program["xmhfhw_cpu_disable_intr"])
  <2>1. Program["xmhfhw_cpu_disable_intr"] = <<<<"cli">>, <<"ret">>>>
    BY DEF Program, Simple
  <2>2. "xmhfhw_cpu_disable_intr" \in DOMAIN Program
    BY DEF Program
  <2>3. Quiet(<<"cli">>)
    BY QuietFlags DEF Scratch, Selectors
  <2> QED
    BY <2>1, <2>2, <2>3, QuietOf2
<1>3. "enable_intr" \in DOMAIN Program /\ QuietProgram(Program["enable_intr"])
  <2>1. Program["enable_intr"] = <<<<"sti">>, <<"ret">>>>
    BY DEF Program, Simple
  <2>2. "enable_intr" \in DOMAIN Program
    BY DEF Program
  <2>3. Quiet(<<"sti">>)
    BY QuietFlags DEF Scratch, Selectors
  <2> QED
    BY <2>1, <2>2, <2>3, QuietOf2
<1>4. "cpu_relax" \in DOMAIN Program /\ QuietProgram(Program["cpu_relax"])
  <2>1. Program["cpu_relax"] = <<<<"pause">>, <<"ret">>>>
    BY DEF Program, Simple
  <2>2. "cpu_relax" \in DOMAIN Program
    BY DEF Program
  <2>3. Quiet(<<"pause">>)
    BY QuietNothing DEF Scratch, Selectors
  <2> QED
    BY <2>1, <2>2, <2>3, QuietOf2
<1>5. "hlt" \in DOMAIN Program /\ QuietProgram(Program["hlt"])
  <2>1. Program["hlt"] = <<<<"hlt">>, <<"ret">>>>
    BY DEF Program, Simple
  <2>2. "hlt" \in DOMAIN Program
    BY DEF Program
  <2>3. Quiet(<<"hlt">>)
    BY QuietClock DEF Scratch, Selectors
  <2> QED
    BY <2>1, <2>2, <2>3, QuietOf2
<1>6. "wbinvd" \in DOMAIN Program /\ QuietProgram(Program["wbinvd"])
  <2>1. Program["wbinvd"] = <<<<"wbinvd">>, <<"ret">>>>
    BY DEF Program, Simple
  <2>2. "wbinvd" \in DOMAIN Program
    BY DEF Program
  <2>3. Quiet(<<"wbinvd">>)
    BY QuietNothing DEF Scratch, Selectors
  <2> QED
    BY <2>1, <2>2, <2>3, QuietOf2
<1>7. "inb" \in DOMAIN Program /\ QuietProgram(Program["inb"])
  <2>1. Program["inb"] = <<<<"movl_mesp", 4, "edx">>, <<"xorl", "eax">>, <<"inb_dx_al">>, <<"xorl", "edx">>, <<"retu32">>>>
    BY DEF Program, PortIn
  <2>2. "inb" \in DOMAIN Program
    BY DEF Program
  <2>3. Quiet(<<"movl_mesp", 4, "edx">>) /\ Quiet(<<"xorl", "eax">>) /\ Quiet(<<"inb_dx_al">>) /\ Quiet(<<"xorl", "edx">>)
    BY QuietIn, QuietXor, QuietMove DEF Scratch, Selectors
  <2> QED
    BY <2>1, <2>2, <2>3, QuietOf5
<1>8. "inw" \in DOMAIN Program /\ QuietProgram(Program["inw"])
  <2>1. Program["inw"] = <<<<"movl_mesp", 4, "edx">>, <<"xorl", "eax">>, <<"inw_dx_ax">>, <<"xorl", "edx">>, <<"retu32">>>>
    BY DEF Program, PortIn
  <2>2. "inw" \in DOMAIN Program
    BY DEF Program
  <2>3. Quiet(<<"movl_mesp", 4, "edx">>) /\ Quiet(<<"xorl", "eax">>) /\ Quiet(<<"inw_dx_ax">>) /\ Quiet(<<"xorl", "edx">>)
    BY QuietIn, QuietXor, QuietMove DEF Scratch, Selectors
  <2> QED
    BY <2>1, <2>2, <2>3, QuietOf5
<1>9. "inl" \in DOMAIN Program /\ QuietProgram(Program["inl"])
  <2>1. Program["inl"] = <<<<"movl_mesp", 4, "edx">>, <<"xorl", "eax">>, <<"inl_dx_eax">>, <<"xorl", "edx">>, <<"retu32">>>>
    BY DEF Program, PortIn
  <2>2. "inl" \in DOMAIN Program
    BY DEF Program
  <2>3. Quiet(<<"movl_mesp", 4, "edx">>) /\ Quiet(<<"xorl", "eax">>) /\ Quiet(<<"inl_dx_eax">>) /\ Quiet(<<"xorl", "edx">>)
    BY QuietIn, QuietXor, QuietMove DEF Scratch, Selectors
  <2> QED
    BY <2>1, <2>2, <2>3, QuietOf5
<1>10. "outb" \in DOMAIN Program /\ QuietProgram(Program["outb"])
  <2>1. Program["outb"] = <<<<"movl_mesp", 4, "eax">>, <<"movl_mesp", 8, "edx">>, <<"outb_al_dx">>, <<"ret">>>>
    BY DEF Program, PortOut
  <2>2. "outb" \in DOMAIN Program
    BY DEF Program
  <2>3. Quiet(<<"movl_mesp", 4, "eax">>) /\ Quiet(<<"movl_mesp", 8, "edx">>) /\ Quiet(<<"outb_al_dx">>)
    BY QuietNothing, QuietMove DEF Scratch, Selectors
  <2> QED
    BY <2>1, <2>2, <2>3, QuietOf4
<1>11. "outw" \in DOMAIN Program /\ QuietProgram(Program["outw"])
  <2>1. Program["outw"] = <<<<"movl_mesp", 4, "eax">>, <<"movl_mesp", 8, "edx">>, <<"outw_ax_dx">>, <<"ret">>>>
    BY DEF Program, PortOut
  <2>2. "outw" \in DOMAIN Program
    BY DEF Program
  <2>3. Quiet(<<"movl_mesp", 4, "eax">>) /\ Quiet(<<"movl_mesp", 8, "edx">>) /\ Quiet(<<"outw_ax_dx">>)
    BY QuietNothing, QuietMove DEF Scratch, Selectors
  <2> QED
    BY <2>1, <2>2, <2>3, QuietOf4
<1>12. "outl" \in DOMAIN Program /\ QuietProgram(Program["outl"])
  <2>1. Program["outl"] = <<<<"movl_mesp", 4, "eax">>, <<"movl_mesp", 8, "edx">>, <<"outl_eax_dx">>, <<"ret">>>>
    BY DEF Program, PortOut
  <2>2. "outl" \in DOMAIN Program
    BY DEF Program
  <2>3. Quiet(<<"movl_mesp", 4, "eax">>) /\ Quiet(<<"movl_mesp", 8, "edx">>) /\ Quiet(<<"outl_eax_dx">>)
    BY QuietWrites, QuietMove DEF Scratch, Selectors
  <2> QED
    BY <2>1, <2>2, <2>3, QuietOf4
<1>13. "xmhfhw_cpu_loadTR" \in DOMAIN Program /\ QuietProgram(Program["xmhfhw_cpu_loadTR"])
  <2>1. Program["xmhfhw_cpu_loadTR"] = <<<<"movl_mesp", 4, "eax">>, <<"ltr_ax">>, <<"ret">>>>
    BY DEF Program, FromArg
  <2>2. "xmhfhw_cpu_loadTR" \in DOMAIN Program
    BY DEF Program
  <2>3. Quiet(<<"movl_mesp", 4, "eax">>) /\ Quiet(<<"ltr_ax">>)
    BY QuietWrites, QuietMove DEF Scratch, Selectors
  <2> QED
    BY <2>1, <2>2, <2>3, QuietOf3
<1>14. "rdmsr64" \in DOMAIN Program /\ QuietProgram(Program["rdmsr64"])
  <2>1. Program["rdmsr64"] = <<<<"movl_mesp", 4, "ecx">>, <<"rdmsr">>, <<"retu64">>>>
    BY DEF Program, rdmsr64
  <2>2. "rdmsr64" \in DOMAIN Program
    BY DEF Program
  <2>3. Quiet(<<"movl_mesp", 4, "ecx">>) /\ Quiet(<<"rdmsr">>)
    BY QuietMsr, QuietMove DEF Scratch, Selectors
  <2> QED
    BY <2>1, <2>2, <2>3, QuietOf3
<1>15. "wrmsr64" \in DOMAIN Program /\ QuietProgram(Program["wrmsr64"])
  <2>1. Program["wrmsr64"] = <<<<"movl_mesp", 4, "ecx">>, <<"movl_mesp", 8, "eax">>, <<"movl_mesp", 12, "edx">>, <<"wrmsr">>, <<"ret">>>>
    BY DEF Program, wrmsr64
  <2>2. "wrmsr64" \in DOMAIN Program
    BY DEF Program
  <2>3. Quiet(<<"movl_mesp", 4, "ecx">>) /\ Quiet(<<"movl_mesp", 8, "eax">>) /\ Quiet(<<"movl_mesp", 12, "edx">>) /\ Quiet(<<"wrmsr">>)
    BY QuietMsr, QuietMove DEF Scratch, Selectors
  <2> QED
    BY <2>1, <2>2, <2>3, QuietOf5
<1>16. "rdtsc64" \in DOMAIN Program /\ QuietProgram(Program["rdtsc64"])
  <2>1. Program["rdtsc64"] = <<<<"rdtsc">>, <<"retu64">>>>
    BY DEF Program, ReadInto
  <2>2. "rdtsc64" \in DOMAIN Program
    BY DEF Program
  <2>3. Quiet(<<"rdtsc">>)
    BY QuietClock DEF Scratch, Selectors
  <2> QED
    BY <2>1, <2>2, <2>3, QuietOf2
<1>17. "read_cr0" \in DOMAIN Program /\ QuietProgram(Program["read_cr0"])
  <2>1. Program["read_cr0"] = <<<<"xorl", "edx">>, <<"movl_cr_eax", "cr0">>, <<"retu64">>>>
    BY DEF Program, read_cr
  <2>2. "read_cr0" \in DOMAIN Program
    BY DEF Program
  <2>3. Quiet(<<"xorl", "edx">>) /\ Quiet(<<"movl_cr_eax", "cr0">>)
    BY QuietReads, QuietXor DEF Scratch, Selectors
  <2> QED
    BY <2>1, <2>2, <2>3, QuietOf3
<1>18. "read_cr3" \in DOMAIN Program /\ QuietProgram(Program["read_cr3"])
  <2>1. Program["read_cr3"] = <<<<"xorl", "edx">>, <<"movl_cr_eax", "cr3">>, <<"retu64">>>>
    BY DEF Program, read_cr
  <2>2. "read_cr3" \in DOMAIN Program
    BY DEF Program
  <2>3. Quiet(<<"xorl", "edx">>) /\ Quiet(<<"movl_cr_eax", "cr3">>)
    BY QuietReads, QuietXor DEF Scratch, Selectors
  <2> QED
    BY <2>1, <2>2, <2>3, QuietOf3
<1>19. "read_cr4" \in DOMAIN Program /\ QuietProgram(Program["read_cr4"])
  <2>1. Program["read_cr4"] = <<<<"xorl", "edx">>, <<"movl_cr_eax", "cr4">>, <<"retu64">>>>
    BY DEF Program, read_cr
  <2>2. "read_cr4" \in DOMAIN Program
    BY DEF Program
  <2>3. Quiet(<<"xorl", "edx">>) /\ Quiet(<<"movl_cr_eax", "cr4">>)
    BY QuietReads, QuietXor DEF Scratch, Selectors
  <2> QED
    BY <2>1, <2>2, <2>3, QuietOf3
<1>20. "read_cr2" \in DOMAIN Program /\ QuietProgram(Program["read_cr2"])
  <2>1. Program["read_cr2"] = <<<<"movl_cr_eax", "cr2">>, <<"retu32">>>>
    BY DEF Program, ReadInto
  <2>2. "read_cr2" \in DOMAIN Program
    BY DEF Program
  <2>3. Quiet(<<"movl_cr_eax", "cr2">>)
    BY QuietReads DEF Scratch, Selectors
  <2> QED
    BY <2>1, <2>2, <2>3, QuietOf2
<1>21. "write_cr0" \in DOMAIN Program /\ QuietProgram(Program["write_cr0"])
  <2>1. Program["write_cr0"] = <<<<"movl_mesp", 4, "eax">>, <<"movl_reg_cr", "eax", "cr0">>, <<"ret">>>>
    BY DEF Program, write_cr, FromArg
  <2>2. "write_cr0" \in DOMAIN Program
    BY DEF Program
  <2>3. Quiet(<<"movl_mesp", 4, "eax">>) /\ Quiet(<<"movl_reg_cr", "eax", "cr0">>)
    BY QuietWrites, QuietMove DEF Scratch, Selectors
  <2> QED
    BY <2>1, <2>2, <2>3, QuietOf3
<1>22. "write_cr3" \in DOMAIN Program /\ QuietProgram(Program["write_cr3"])
  <2>1. Program["write_cr3"] = <<<<"movl_mesp", 4, "eax">>, <<"movl_reg_cr", "eax", "cr3">>, <<"ret">>>>
    BY DEF Program, write_cr, FromArg
  <2>2. "write_cr3" \in DOMAIN Program
    BY DEF Program
  <2>3. Quiet(<<"movl_mesp", 4, "eax">>) /\ Quiet(<<"movl_reg_cr", "eax", "cr3">>)
    BY QuietWrites, QuietMove DEF Scratch, Selectors
  <2> QED
    BY <2>1, <2>2, <2>3, QuietOf3
<1>23. "write_cr4" \in DOMAIN Program /\ QuietProgram(Program["write_cr4"])
  <2>1. Program["write_cr4"] = <<<<"movl_mesp", 4, "eax">>, <<"movl_reg_cr", "eax", "cr4">>, <<"ret">>>>
    BY DEF Program, write_cr, FromArg
  <2>2. "write_cr4" \in DOMAIN Program
    BY DEF Program
  <2>3. Quiet(<<"movl_mesp", 4, "eax">>) /\ Quiet(<<"movl_reg_cr", "eax", "cr4">>)
    BY QuietWrites, QuietMove DEF Scratch, Selectors
  <2> QED
    BY <2>1, <2>2, <2>3, QuietOf3
<1>24. "read_segreg_cs" \in DOMAIN Program /\ QuietProgram(Program["read_segreg_cs"])
  <2>1. Program["read_segreg_cs"] = <<<<"movl_seg_eax", "cs">>, <<"retu32">>>>
    BY DEF Program, ReadInto
  <2>2. "read_segreg_cs" \in DOMAIN Program
    BY DEF Program
  <2>3. Quiet(<<"movl_seg_eax", "cs">>)
    BY QuietReads DEF Scratch, Selectors
  <2> QED
    BY <2>1, <2>2, <2>3, QuietOf2
<1>25. "read_segreg_ds" \in DOMAIN Program /\ QuietProgram(Program["read_segreg_ds"])
  <2>1. Program["read_segreg_ds"] = <<<<"movl_seg_eax", "ds">>, <<"retu32">>>>
    BY DEF Program, ReadInto
  <2>2. "read_segreg_ds" \in DOMAIN Program
    BY DEF Program
  <2>3. Quiet(<<"movl_seg_eax", "ds">>)
    BY QuietReads DEF Scratch, Selectors
  <2> QED
    BY <2>1, <2>2, <2>3, QuietOf2
<1>26. "read_segreg_es" \in DOMAIN Program /\ QuietProgram(Program["read_segreg_es"])
  <2>1. Program["read_segreg_es"] = <<<<"movl_seg_eax", "es">>, <<"retu32">>>>
    BY DEF Program, ReadInto
  <2>2. "read_segreg_es" \in DOMAIN Program
    BY DEF Program
  <2>3. Quiet(<<"movl_seg_eax", "es">>)
    BY QuietReads DEF Scratch, Selectors
  <2> QED
    BY <2>1, <2>2, <2>3, QuietOf2
<1>27. "read_segreg_fs" \in DOMAIN Program /\ QuietProgram(Program["read_segreg_fs"])
  <2>1. Program["read_segreg_fs"] = <<<<"movl_seg_eax", "fs">>, <<"retu32">>>>
    BY DEF Program, ReadInto
  <2>2. "read_segreg_fs" \in DOMAIN Program
    BY DEF Program
  <2>3. Quiet(<<"movl_seg_eax", "fs">>)
    BY QuietReads DEF Scratch, Selectors
  <2> QED
    BY <2>1, <2>2, <2>3, QuietOf2
<1>28. "read_segreg_gs" \in DOMAIN Program /\ QuietProgram(Program["read_segreg_gs"])
  <2>1. Program["read_segreg_gs"] = <<<<"movl_seg_eax", "gs">>, <<"retu32">>>>
    BY DEF Program, ReadInto
  <2>2. "read_segreg_gs" \in DOMAIN Program
    BY DEF Program
  <2>3. Quiet(<<"movl_seg_eax", "gs">>)
    BY QuietReads DEF Scratch, Selectors
  <2> QED
    BY <2>1, <2>2, <2>3, QuietOf2
<1>29. "read_segreg_ss" \in DOMAIN Program /\ QuietProgram(Program["read_segreg_ss"])
  <2>1. Program["read_segreg_ss"] = <<<<"movl_seg_eax", "ss">>, <<"retu32">>>>
    BY DEF Program, ReadInto
  <2>2. "read_segreg_ss" \in DOMAIN Program
    BY DEF Program
  <2>3. Quiet(<<"movl_seg_eax", "ss">>)
    BY QuietReads DEF Scratch, Selectors
  <2> QED
    BY <2>1, <2>2, <2>3, QuietOf2
<1>30. "read_esp" \in DOMAIN Program /\ QuietProgram(Program["read_esp"])
  <2>1. Program["read_esp"] = <<<<"movl_esp", "eax">>, <<"retu32">>>>
    BY DEF Program, ReadInto
  <2>2. "read_esp" \in DOMAIN Program
    BY DEF Program
  <2>3. Quiet(<<"movl_esp", "eax">>)
    BY QuietReads DEF Scratch, Selectors
  <2> QED
    BY <2>1, <2>2, <2>3, QuietOf2
<1>31. "read_rsp" \in DOMAIN Program /\ QuietProgram(Program["read_rsp"])
  <2>1. Program["read_rsp"] = <<<<"xorl", "edx">>, <<"movl_esp", "eax">>, <<"retu64">>>>
    BY DEF Program, read_rsp
  <2>2. "read_rsp" \in DOMAIN Program
    BY DEF Program
  <2>3. Quiet(<<"xorl", "edx">>) /\ Quiet(<<"movl_esp", "eax">>)
    BY QuietReads, QuietXor DEF Scratch, Selectors
  <2> QED
    BY <2>1, <2>2, <2>3, QuietOf3
<1>32. "read_tr_sel" \in DOMAIN Program /\ QuietProgram(Program["read_tr_sel"])
  <2>1. Program["read_tr_sel"] = <<<<"xorl", "eax">>, <<"str_ax">>, <<"retu32">>>>
    BY DEF Program, read_tr_sel
  <2>2. "read_tr_sel" \in DOMAIN Program
    BY DEF Program
  <2>3. Quiet(<<"xorl", "eax">>) /\ Quiet(<<"str_ax">>)
    BY QuietVmx, QuietXor DEF Scratch, Selectors
  <2> QED
    BY <2>1, <2>2, <2>3, QuietOf3
<1>33. "xmhfhw_cpu_reloaddsregs" \in DOMAIN Program /\ QuietProgram(Program["xmhfhw_cpu_reloaddsregs"])
  <2>1. Program["xmhfhw_cpu_reloaddsregs"] = <<<<"movl_mesp", 4, "eax">>, <<"movw_ax_seg", "ds">>, <<"movw_ax_seg", "es">>, <<"movw_ax_seg", "fs">>, <<"movw_ax_seg", "gs">>, <<"movw_ax_seg", "ss">>, <<"ret">>>>
    BY DEF Program, reloaddsregs
  <2>2. "xmhfhw_cpu_reloaddsregs" \in DOMAIN Program
    BY DEF Program
  <2>3. Quiet(<<"movl_mesp", 4, "eax">>) /\ Quiet(<<"movw_ax_seg", "ds">>) /\ Quiet(<<"movw_ax_seg", "es">>) /\ Quiet(<<"movw_ax_seg", "fs">>) /\ Quiet(<<"movw_ax_seg", "gs">>) /\ Quiet(<<"movw_ax_seg", "ss">>)
    BY QuietWrites, QuietMove DEF Scratch, Selectors
  <2> DEFINE a == <<"movl_mesp", 4, "eax">>
             seg(s) == <<"movw_ax_seg", s>>
             z == <<"ret">>
  <2>4. z[1] \in {"ret", "retu32", "retu64"}
    OBVIOUS
  <2>5. Quiet(a) /\ Quiet(seg("ds")) /\ Quiet(seg("es")) /\ Quiet(seg("fs")) /\ Quiet(seg("gs")) /\ Quiet(seg("ss"))
    BY <2>3
  <2>6. Program["xmhfhw_cpu_reloaddsregs"] = <<a, seg("ds"), seg("es"), seg("fs"), seg("gs"), seg("ss"), z>>
    BY <2>1
  <2> HIDE DEF a, seg, z
  <2>7. QuietProgram(<<a, seg("ds"), seg("es"), seg("fs"), seg("gs"), seg("ss"), z>>)
    BY <2>4, <2>5, QuietOf7, SMTT(30)
  <2> QED
    BY <2>2, <2>6, <2>7
<1>34. "vmclear" \in DOMAIN Program /\ QuietProgram(Program["vmclear"])
  <2>1. Program["vmclear"] = OneOrZero(<<"vmclear_mesp", 4>>)
    BY DEF Program
  <2>2. "vmclear" \in DOMAIN Program
    BY DEF Program
  <2>3. Quiet(<<"vmclear_mesp", 4>>)
    BY QuietNothing
  <2> QED
    BY <2>1, <2>2, <2>3, QuietOneOrZero
<1>35. "vmptrld" \in DOMAIN Program /\ QuietProgram(Program["vmptrld"])
  <2>1. Program["vmptrld"] = OneOrZero(<<"vmptrld_mesp", 4>>)
    BY DEF Program
  <2>2. "vmptrld" \in DOMAIN Program
    BY DEF Program
  <2>3. Quiet(<<"vmptrld_mesp", 4>>)
    BY QuietNothing
  <2> QED
    BY <2>1, <2>2, <2>3, QuietOneOrZero
<1>36. "vmxon" \in DOMAIN Program /\ QuietProgram(Program["vmxon"])
  <2>1. Program["vmxon"] = OneOrZero(<<"vmxon_mesp", 4>>)
    BY DEF Program
  <2>2. "vmxon" \in DOMAIN Program
    BY DEF Program
  <2>3. Quiet(<<"vmxon_mesp", 4>>)
    BY QuietFlags
  <2> QED
    BY <2>1, <2>2, <2>3, QuietOneOrZero
<1>37. "vmread" \in DOMAIN Program /\ QuietProgram(Program["vmread"])
  <2>1. Program["vmread"] = <<<<"movl_mesp", 4, "ecx">>, <<"vmread_ecx_eax">>, <<"retu32">>>>
    BY DEF Program, vmread
  <2>2. "vmread" \in DOMAIN Program
    BY DEF Program
  <2>3. Quiet(<<"movl_mesp", 4, "ecx">>) /\ Quiet(<<"vmread_ecx_eax">>)
    BY QuietVmx, QuietMove DEF Scratch, Selectors
  <2> QED
    BY <2>1, <2>2, <2>3, QuietOf3
<1>38. "vmwrite" \in DOMAIN Program /\ QuietProgram(Program["vmwrite"])
  <2>1. Program["vmwrite"] = <<<<"movl_mesp", 4, "ecx">>, <<"movl_mesp", 8, "eax">>, <<"vmwrite_eax_ecx">>, <<"ret">>>>
    BY DEF Program, vmwrite
  <2>2. "vmwrite" \in DOMAIN Program
    BY DEF Program
  <2>3. Quiet(<<"movl_mesp", 4, "ecx">>) /\ Quiet(<<"movl_mesp", 8, "eax">>) /\ Quiet(<<"vmwrite_eax_ecx">>)
    BY QuietVmx, QuietMove DEF Scratch, Selectors
  <2> QED
    BY <2>1, <2>2, <2>3, QuietOf4
<1>39. "xgetbv" \in DOMAIN Program /\ QuietProgram(Program["xgetbv"])
  <2>1. Program["xgetbv"] = <<<<"movl_mesp", 4, "ecx">>, <<"xgetbv">>, <<"retu64">>>>
    BY DEF Program, xgetbv64
  <2>2. "xgetbv" \in DOMAIN Program
    BY DEF Program
  <2>3. Quiet(<<"movl_mesp", 4, "ecx">>) /\ Quiet(<<"xgetbv">>)
    BY QuietXcr, QuietMove DEF Scratch, Selectors
  <2> QED
    BY <2>1, <2>2, <2>3, QuietOf3
<1>40. "xsetbv" \in DOMAIN Program /\ QuietProgram(Program["xsetbv"])
  <2>1. Program["xsetbv"] = <<<<"movl_mesp", 4, "ecx">>, <<"movl_mesp", 8, "eax">>, <<"movl_mesp", 12, "edx">>, <<"xsetbv">>, <<"ret">>>>
    BY DEF Program, xsetbv64
  <2>2. "xsetbv" \in DOMAIN Program
    BY DEF Program
  <2>3. Quiet(<<"movl_mesp", 4, "ecx">>) /\ Quiet(<<"movl_mesp", 8, "eax">>) /\ Quiet(<<"movl_mesp", 12, "edx">>) /\ Quiet(<<"xsetbv">>)
    BY QuietXcr, QuietMove DEF Scratch, Selectors
  <2> QED
    BY <2>1, <2>2, <2>3, QuietOf5
<1> QED
  BY <1>1, <1>2, <1>3, <1>4, <1>5, <1>6, <1>7, <1>8, <1>9, <1>10, <1>11, <1>12, <1>13, <1>14, <1>15, <1>16, <1>17, <1>18, <1>19, <1>20, <1>21, <1>22, <1>23, <1>24, <1>25, <1>26, <1>27, <1>28, <1>29, <1>30, <1>31, <1>32, <1>33, <1>34, <1>35, <1>36, <1>37, <1>38, <1>39, <1>40 DEF QuietFns

(* The names of the sizes count the elements. *)
LEMMA SizeCounts ==
  ASSUME NEW s, Len(s) \in 0..TableSize
  PROVE  PP_SEQ_SIZE(s) = Len(s)
<1> DEFINE L == Len(s)
           P(g) == g = [k \in 0..L |-> IF k = 0 THEN 0 ELSE PP_SEQ_SIZE_NEXT[g[k - 1]]]
           h == [k \in 0..L |-> k]
           name == CHOOSE g : P(g)
<1>0. \A k \in 0..256 : PP_SEQ_SIZE_NEXT[k] = k + 1 /\ PP_SEQ_SIZE_NUMBER[k] = k
  BY DEF TableSize, PP_SEQ_SIZE_NEXT, PP_SEQ_SIZE_NUMBER
<1>1. L \in 0..256
  BY DEF TableSize
<1>2. PP_SEQ_SIZE(s) = PP_SEQ_SIZE_NUMBER[name[L]]
  BY DEF PP_SEQ_SIZE
<1> HIDE DEF L
<1>3. P(h)
  <2>1. ASSUME NEW k \in 0..L PROVE h[k] = IF k = 0 THEN 0 ELSE PP_SEQ_SIZE_NEXT[h[k - 1]]
    <3>1. CASE k = 0
      BY <3>1
    <3>2. CASE k # 0
      <4>1. k - 1 \in 0..L /\ k - 1 \in 0..256 /\ (k - 1) + 1 = k
        BY <1>1, <3>2
      <4>2. PP_SEQ_SIZE_NEXT[k - 1] = k
        BY <1>0, <4>1
      <4> QED
        BY <3>2, <4>1, <4>2
    <3> QED
      BY <3>1, <3>2
  <2> QED
    BY <2>1
<1>4. P(name)
  BY <1>3
<1> HIDE DEF name
<1>5. \A k \in 0..L : name[k] = IF k = 0 THEN 0 ELSE PP_SEQ_SIZE_NEXT[name[k - 1]]
  BY <1>4, Zenon
<1> DEFINE T == {k \in Nat : k <= L => name[k] = k}
<1>6. 0 \in T
  BY <1>1, <1>5
<1>7. ASSUME NEW k \in Nat, k \in T PROVE k + 1 \in T
  <2>1. CASE k + 1 <= L
    <3>1. k \in 0..256 /\ k + 1 \in 0..L /\ k + 1 # 0 /\ (k + 1) - 1 = k
      BY <1>1, <2>1
    <3>2. name[k] = k /\ name[k + 1] = PP_SEQ_SIZE_NEXT[name[k]]
      <4>1. name[k] = k
        BY <1>1, <1>7, <3>1
      <4>2. name[k + 1] = IF k + 1 = 0 THEN 0 ELSE PP_SEQ_SIZE_NEXT[name[(k + 1) - 1]]
        BY <1>5, <3>1
      <4> QED
        BY <3>1, <4>1, <4>2
    <3>3. name[k + 1] = k + 1
      BY <1>0, <3>1, <3>2
    <3> QED
      BY <3>3
  <2> QED
    BY <2>1
<1>8. name[L] = L
  <2>1. Nat \subseteq T
    <3> HIDE DEF T
    <3> QED
      BY <1>6, <1>7, SetInduction
  <2>2. L \in T /\ L <= L
    BY <1>1, <2>1
  <2> QED
    BY <2>2
<1> QED
  BY <1>0, <1>1, <1>2, <1>8 DEF L

(* When every level is free the search ends at the first. *)
LEMMA FirstFree == PP_AUTO_REC(1..TableSize, TableSize) = 1
<1> DEFINE Pairs == {r \in (1..TableSize) \X (1..TableSize) : r[1] + r[2] - 1 <= TableSize}
           at(g, r) == LET half == r[2] \div 2
                       IN  IF r[2] = 1 THEN r[1]
                           ELSE IF r[1] + half - 1 \in 1..TableSize THEN g[<<r[1], half>>]
                                ELSE g[<<r[1] + half, half>>]
           P(g) == g = [r \in Pairs |-> at(g, r)]
           h == [r \in Pairs |-> r[1]]
           search == CHOOSE g : P(g)
<1>1. PP_AUTO_REC(1..TableSize, TableSize) = search[<<1, TableSize>>]
  BY DEF PP_AUTO_REC
<1>2. ASSUME NEW r \in Pairs
      PROVE  /\ r[1] \in 1..256 /\ r[2] \in 1..256 /\ r = <<r[1], r[2]>>
             /\ r[2] # 1 => /\ r[2] \div 2 \in 1..256 /\ r[2] \div 2 < r[2]
                            /\ <<r[1], r[2] \div 2>> \in Pairs
                            /\ r[1] + (r[2] \div 2) - 1 \in 1..TableSize
  <2>1. r[1] \in 1..256 /\ r[2] \in 1..256 /\ r = <<r[1], r[2]>> /\ r[1] + r[2] - 1 <= 256
    BY DEF TableSize
  <2>2. PICK a \in 1..256, b \in 1..256 : a = r[1] /\ b = r[2]
    BY <2>1
  <2>3. ASSUME b # 1 PROVE b \div 2 \in 1..256 /\ b \div 2 < b /\ a + (b \div 2) - 1 \in 1..256
    BY <2>1, <2>2, <2>3, SMTT(30)
  <2>4. ASSUME b # 1 PROVE <<a, b \div 2>> \in Pairs
    BY <2>3, <2>4 DEF TableSize
  <2> QED
    BY <2>1, <2>2, <2>3, <2>4 DEF TableSize
<1>3. ASSUME NEW g, NEW r \in Pairs, r[2] # 1 PROVE at(g, r) = g[<<r[1], r[2] \div 2>>]
  BY <1>2, <1>3
<1>4. ASSUME NEW g, NEW r \in Pairs, r[2] = 1 PROVE at(g, r) = r[1]
  BY <1>4
<1>5. <<1, TableSize>> \in Pairs
  BY DEF TableSize
<1> HIDE DEF at
<1>6. P(h)
  <2>1. ASSUME NEW r \in Pairs PROVE h[r] = at(h, r)
    <3>1. CASE r[2] = 1
      BY <1>4, <3>1
    <3>2. CASE r[2] # 1
      <4>1. h[<<r[1], r[2] \div 2>>] = r[1]
        BY <1>2, <3>2
      <4> QED
        BY <1>3, <3>2, <4>1
    <3> QED
      BY <3>1, <3>2
  <2> QED
    BY <2>1
<1>7. P(search)
  BY <1>6
<1> HIDE DEF search
<1>8. \A r \in Pairs : search[r] = at(search, r)
  BY <1>7, Zenon
<1> DEFINE Wrong == {r[2] : r \in {q \in Pairs : search[q] # q[1]}}
<1>9. Wrong = {}
  <2> SUFFICES ASSUME Wrong # {}
               PROVE  FALSE
    OBVIOUS
  <2>1. Wrong \subseteq Nat
    BY <1>2
  <2>2. PICK b \in Wrong : \A d \in Wrong : b <= d
    <3> HIDE DEF Wrong
    <3> QED
      BY <2>1, LeastNumber
  <2>3. PICK r \in Pairs : r[2] = b /\ search[r] # r[1]
    BY <2>2
  <2>4. b # 1
    BY <1>4, <1>8, <2>3
  <2>5. PICK q \in Pairs : q = <<r[1], b \div 2>>
    BY <1>2, <2>3, <2>4
  <2>6. search[r] = search[q] /\ q[1] = r[1] /\ q[2] < b
    <3>1. q = <<r[1], r[2] \div 2>> /\ r[2] # 1
      BY <2>3, <2>4, <2>5
    <3>2. search[r] = at(search, r) /\ at(search, r) = search[<<r[1], r[2] \div 2>>]
      BY <1>3, <1>8, <3>1
    <3>3. q[1] = r[1] /\ q[2] = b \div 2 /\ b \div 2 < b
      BY <1>2, <2>3, <3>1
    <3> QED
      BY <3>1, <3>2, <3>3
  <2>7. q[2] \in Wrong
    BY <2>3, <2>5, <2>6
  <2>8. b <= q[2] /\ b \in Nat /\ q[2] \in Nat
    BY <2>1, <2>2, <2>7
  <2> QED
    BY <2>6, <2>8
<1>10. search[<<1, TableSize>>] = 1
  BY <1>5, <1>9
<1> QED
  BY <1>1, <1>10

(* Two functions that are computed alike are equal. *)
LEMMA Agree ==
  ASSUME NEW L \in Nat, NEW g, NEW h, g[0] = h[0], \A k \in 1..L : g[k - 1] = h[k - 1] => g[k] = h[k]
  PROVE  \A k \in 0..L : g[k] = h[k]
<1> DEFINE T == {k \in Nat : k <= L => g[k] = h[k]}
<1>1. 0 \in T
  OBVIOUS
<1>2. ASSUME NEW k \in Nat, k \in T PROVE k + 1 \in T
  <2>1. CASE k + 1 <= L
    <3>1. g[k] = h[k] /\ k + 1 \in 1..L /\ (k + 1) - 1 = k
      BY <1>2, <2>1
    <3> QED
      BY <3>1
  <2> QED
    BY <2>1
<1>3. Nat \subseteq T
  <2> HIDE DEF T
  <2> QED
    BY <1>1, <1>2, SetInduction
<1> QED
  BY <1>3

ComputedAlike(g, h, L) == g[0] = h[0] /\ \A k \in 1..L : g[k - 1] = h[k - 1] => g[k] = h[k]
LEMMA AgreeAtLast ==
  ASSUME NEW L, NEW g, NEW h
  PROVE  L \in Nat /\ ComputedAlike(g, h, L) => g[L] = h[L]
<1> SUFFICES ASSUME L \in Nat, ComputedAlike(g, h, L)
             PROVE  g[L] = h[L]
  OBVIOUS
<1>1. \A k \in 0..L : g[k] = h[k]
  BY Agree DEF ComputedAlike
<1> QED
  BY <1>1

(* A fold that puts every element before the others reverses a list. *)
LEMMA FoldReverses ==
  ASSUME NEW S, NEW s \in Seq(S), Len(s) \in 1..TableSize
  PROVE  PP_SEQ_REVERSE(s) = [i \in 1..Len(s) |-> s[Len(s) + 1 - i]]
<1> DEFINE L == Len(s)
           elems == {s[i] : i \in DOMAIN s}
           op == [t \in Seq(elems) \X elems |-> PP_SEQ_REVERSE_O(t[1], t[2])]
           rev(k) == [i \in 1..k |-> s[k + 1 - i]]
           P(g) == g = [k \in 0..L |-> IF k = 0 THEN L ELSE PP_DEC(g[k - 1])]
           Q(g) == g = [k \in 0..L |-> IF k = 0 THEN <<>>
                                       ELSE op[<<g[k - 1], PP_SEQ_HEAD(SubSeq(s, k, L))>>]]
           left == CHOOSE g : P(g)
           after == CHOOSE g : Q(g)
           last == CHOOSE k \in 1..L : PP_BOOL(left[k]) = 0
<1>1. L \in 1..256 /\ DOMAIN s = 1..L /\ L \in Nat
  BY DEF TableSize
<1>2. PP_SEQ_REVERSE(s) = IF 1 + last - 1 <= TableSize THEN after[last] ELSE <<>>
  <2>1. {n \in 1..TableSize : PP_SEQ_FOLD_LEFT_P(n, {})} = 1..TableSize
    BY DEF PP_SEQ_FOLD_LEFT_P
  <2>2. PP_SEQ_SIZE(s) = L
    BY SizeCounts DEF TableSize
  <2>3. PP_SEQ_REVERSE(s) = PP_SEQ_FOLD_LEFT(op, <<>>, s, {})
    BY DEF PP_SEQ_REVERSE
  <2> HIDE DEF op
  <2>4. PP_SEQ_FOLD_LEFT(op, <<>>, s, {}) = PP_SEQ_FOLD_LEFT_I(op, <<>>, s, L, 1)
    BY <2>1, <2>2, FirstFree, Zenon DEF PP_SEQ_FOLD_LEFT
  <2>5. PP_SEQ_FOLD_LEFT_I(op, <<>>, s, L, 1) = IF 1 + last - 1 <= TableSize THEN after[last] ELSE <<>>
    BY DEF PP_SEQ_FOLD_LEFT_I
  <2> QED
    BY <2>3, <2>4, <2>5
<1> HIDE DEF L
<1>3. \A k \in 0..L : left[k] = L - k
  <2> DEFINE h == [k \in 0..L |-> L - k]
  <2>1. P(h)
    <3>1. ASSUME NEW k \in 0..L PROVE h[k] = IF k = 0 THEN L ELSE PP_DEC(h[k - 1])
      <4>1. CASE k = 0
        BY <1>1, <4>1
      <4>2. CASE k # 0
        <5>1. k - 1 \in 0..L /\ L - (k - 1) # 0 /\ (L - (k - 1)) - 1 = L - k
          BY <1>1, <4>2
        <5>2. h[k - 1] = L - (k - 1)
          BY <5>1
        <5> QED
          BY <4>2, <5>1, <5>2 DEF PP_DEC
      <4> QED
        BY <4>1, <4>2
    <3> QED
      BY <3>1
  <2>2. P(left)
    BY <2>1
  <2> HIDE DEF left
  <2>3. \A k \in 0..L : left[k] = IF k = 0 THEN L ELSE PP_DEC(left[k - 1])
    BY <2>2, Zenon
  <2>4. \A k \in 0..L : h[k] = IF k = 0 THEN L ELSE PP_DEC(h[k - 1])
    BY <2>1, Zenon
  <2>5. h[0] = L - 0
    BY <1>1
  <2>6. \A k \in 0..L : h[k] = L - k
    OBVIOUS
  <2> HIDE DEF h
  <2>7. left[0] = h[0]
    BY <1>1, <2>3, <2>4
  <2>8. ASSUME NEW k \in 1..L, left[k - 1] = h[k - 1] PROVE left[k] = h[k]
    BY <1>1, <2>3, <2>4, <2>8
  <2>9. \A k \in 0..L : left[k] = h[k]
    <3>1. L \in Nat
      BY <1>1
    <3>2. \A k \in 1..L : left[k - 1] = h[k - 1] => left[k] = h[k]
      BY <2>8
    <3> QED
      BY <2>7, <3>1, <3>2, Agree, ZenonT(60)
  <2> QED
    BY <2>6, <2>9
<1>4. last = L
  <2>1. ASSUME NEW k \in 1..L PROVE PP_BOOL(left[k]) = 0 <=> k = L
    <3>1. left[k] = L - k
      BY <1>1, <1>3
    <3> QED
      BY <1>1, <3>1 DEF PP_BOOL
  <2> HIDE DEF left
  <2>2. L \in 1..L
    BY <1>1
  <2> QED
    BY <2>1, <2>2
<1>5. ASSUME NEW k \in 1..L PROVE op[<<rev(k - 1), PP_SEQ_HEAD(SubSeq(s, k, L))>>] = rev(k)
  <2>1. PP_SEQ_HEAD(SubSeq(s, k, L)) = s[k]
    <3>1. SubSeq(s, k, L)[1] = s[k]
      BY <1>1
    <3> DEFINE t == SubSeq(s, k, L)
    <3> HIDE DEF t
    <3>2. t[1] = s[k]
      BY <3>1 DEF t
    <3>3. PP_SEQ_HEAD(t) = t[1]
      BY DEF PP_SEQ_HEAD, PP_SEQ_ELEM
    <3> QED
      BY <3>2, <3>3 DEF t
  <2>2. s[k] \in elems
    BY <1>1
  <2>3. rev(k - 1) \in Seq(elems)
    <3>1. ASSUME NEW i \in 1..(k - 1) PROVE s[(k - 1) + 1 - i] \in elems
      BY <1>1
    <3> HIDE DEF elems
    <3>2. k - 1 \in Nat
      OBVIOUS
    <3>3. rev(k - 1) \in [1..(k - 1) -> elems]
      BY <3>1
    <3> QED
      BY <3>2, <3>3
  <2>4. op[<<rev(k - 1), s[k]>>] = <<s[k]>> \o rev(k - 1)
    <3> HIDE DEF elems, rev
    <3> QED
      BY <2>2, <2>3 DEF PP_SEQ_REVERSE_O
  <2>5. <<s[k]>> \o rev(k - 1) = rev(k)
    <3>1. Len(rev(k - 1)) = k - 1
      BY <2>3
    <3> QED
      BY <1>1, <3>1
  <2> QED
    BY <2>1, <2>4, <2>5
<1>6. \A k \in 0..L : after[k] = rev(k)
  <2> HIDE DEF op
  <2> DEFINE more(a, k) == op[<<a, PP_SEQ_HEAD(SubSeq(s, k, L))>>]
  <2> DEFINE h == [k \in 0..L |-> rev(k)]
  <2>0. rev(0) = <<>>
    OBVIOUS
  <2> HIDE DEF rev
  <2>1. Q(h)
    <3>1. ASSUME NEW k \in 0..L
          PROVE  h[k] = IF k = 0 THEN <<>> ELSE op[<<h[k - 1], PP_SEQ_HEAD(SubSeq(s, k, L))>>]
      <4>1. CASE k = 0
        BY <2>0, <4>1
      <4>2. CASE k # 0
        <5>1. k - 1 \in 0..L /\ k \in 1..L
          BY <1>1, <4>2
        <5>2. h[k - 1] = rev(k - 1)
          BY <5>1
        <5> QED
          BY <1>5, <4>2, <5>1, <5>2
      <4> QED
        BY <4>1, <4>2
    <3> QED
      BY <3>1
  <2>2. Q(after)
    BY <2>1
  <2> HIDE DEF after
  <2>3. \A k \in 0..L : after[k] = IF k = 0 THEN <<>>
                                   ELSE more(after[k - 1], k)
    BY <2>2, Zenon
  <2>4. \A k \in 0..L : h[k] = IF k = 0 THEN <<>> ELSE more(h[k - 1], k)
    BY <2>1, Zenon
  <2>5. \A k \in 0..L : h[k] = rev(k)
    OBVIOUS
  <2> HIDE DEF h, more
  <2>6. after[0] = h[0]
    BY <1>1, <2>3, <2>4
  <2>7. ASSUME NEW k \in 1..L, after[k - 1] = h[k - 1] PROVE after[k] = h[k]
    BY <1>1, <2>3, <2>4, <2>7
  <2>8. \A k \in 0..L : after[k] = h[k]
    <3>1. L \in Nat
      BY <1>1
    <3>2. \A k \in 1..L : after[k - 1] = h[k - 1] => after[k] = h[k]
      BY <2>7
    <3> QED
      BY <2>6, <3>1, <3>2, Agree, ZenonT(60)
  <2> QED
    BY <2>5, <2>8
<1> HIDE DEF left, after, last, rev
<1>7. after[last] = rev(L)
  BY <1>1, <1>4, <1>6
<1>8. 1 + last - 1 <= TableSize
  BY <1>1, <1>4 DEF TableSize
<1>9. PP_SEQ_REVERSE(s) = rev(L)
  BY <1>2, <1>7, <1>8
<1> QED
  BY <1>9 DEF rev, L

(* PP_REVERSEARGS gives the arguments of a call in the opposite order. *)
LEMMA ArgsReversed ==
  ASSUME NEW S, NEW args \in Seq(S), Len(args) \in 1..MaxArgs
  PROVE  /\ PP_VARIADIC_SIZE(args) = Len(args)
         /\ PP_REVERSEARGS(args) = [i \in 1..Len(args) |-> args[Len(args) + 1 - i]]
         /\ Len(PP_REVERSEARGS(args)) = Len(args) /\ PP_REVERSEARGS(args) \in Seq(S)
<1>1. Len(args) \in 1..8
  BY DEF MaxArgs
<1>2. PP_VARIADIC_SIZE(args) = Len(args)
  BY <1>1 DEF PP_VARIADIC_SIZE, MaxArgs
<1>3. PP_TUPLE_TO_SEQ(args) = args
  BY <1>2 DEF PP_TUPLE_TO_SEQ
<1> DEFINE rev == [i \in 1..Len(args) |-> args[Len(args) + 1 - i]]
<1>4. PP_SEQ_REVERSE(args) = rev
  BY <1>1, FoldReverses DEF TableSize
<1>5. rev \in Seq(S) /\ Len(rev) = Len(args)
  <2>1. ASSUME NEW i \in 1..Len(args) PROVE args[Len(args) + 1 - i] \in S
    BY <1>1
  <2> QED
    BY <1>1, <2>1
<1> HIDE DEF rev
<1>6. PP_SEQ_SIZE(rev) = Len(args)
  <2>1. Len(rev) \in 0..TableSize
    <3>1. PICK k \in 1..8 : k = Len(args)
      BY <1>1
    <3>2. Len(rev) = k
      BY <1>5, <3>1
    <3> QED
      BY <3>2 DEF TableSize
  <2> QED
    BY <1>5, <2>1, SizeCounts
<1>7. PP_SEQ_ENUM(rev) = rev
  BY <1>5, <1>6 DEF PP_SEQ_ENUM, PP_SEQ_ELEM
<1>8. PP_REVERSEARGS(args) = rev
  BY <1>3, <1>4, <1>7 DEF PP_REVERSEARGS
<1> QED
  BY <1>2, <1>5, <1>8 DEF rev

(* A machine after k pushes of a list of words, from an empty stack. *)
Pushed(w, n, s, k) ==
  /\ w \in Machines /\ w.r = [n.r EXCEPT !["esp"] = StackTop - 4 * k]
  /\ w.fl = n.fl /\ w.sys = n.sys
  /\ \A a \in Memory : a >= StackTop => w.mem[a] = n.mem[a]
  /\ \A j \in 1..k : Read32(w, StackTop - 4 * j) = s[j]

LEMMA PushesOneMore ==
  ASSUME NEW n \in Machines, NEW s, NEW k \in 0..8, NEW w, Pushed(w, n, s, k), s[k + 1] \in Words
  PROVE  Pushed(pushl_mem(w, s[k + 1]), n, s, k + 1)
<1> DEFINE p == pushl_mem(w, s[k + 1])
           e == StackTop - 4 * k
<1>1. e \in 8..40 /\ e - 4 \in 0..84 /\ e - 4 = StackTop - 4 * (k + 1)
  BY DEF StackTop
<1>2. w \in Machines /\ w.r.esp = e
  BY Parts DEF Pushed, Gprs
<1>3. /\ p \in Machines /\ p.r = [w.r EXCEPT !["esp"] = e - 4] /\ p.fl = w.fl /\ p.sys = w.sys
      /\ \A b \in Memory : b \notin WordAt(e - 4) => p.mem[b] = w.mem[b]
      /\ Read32(p, e - 4) = s[k + 1]
  <2>1. w.r.esp \in 4..88
    BY <1>1, <1>2
  <2> QED
    BY <1>2, <2>1, Pushes
<1> HIDE DEF p, e
<1>4. p.r = [n.r EXCEPT !["esp"] = e - 4]
  BY <1>3 DEF Pushed
<1>5. ASSUME NEW a \in Memory, a >= StackTop PROVE p.mem[a] = n.mem[a]
  <2>1. a \notin WordAt(e - 4)
    BY <1>1, <1>5 DEF WordAt, StackTop, Memory
  <2> QED
    BY <1>3, <1>5, <2>1 DEF Pushed
<1>6. ASSUME NEW j \in 1..(k + 1) PROVE Read32(p, StackTop - 4 * j) = s[j]
  <2>1. CASE j = k + 1
    BY <1>1, <1>3, <2>1
  <2>2. CASE j # k + 1
    <3>1. j \in 1..k
      BY <2>2
    <3>2. PICK a \in 0..84 : a = StackTop - 4 * j /\ a >= e
      BY <3>1 DEF StackTop, e
    <3>3. \A b \in WordAt(a) : p.mem[b] = w.mem[b]
      <4>1. ASSUME NEW b \in WordAt(a) PROVE b \in Memory /\ b \notin WordAt(e - 4)
        BY <1>1, <3>2 DEF WordAt, Memory
      <4> QED
        BY <1>3, <4>1
    <3>4. Read32(p, a) = Read32(w, a)
      BY <3>3, ReadsSame
    <3> QED
      BY <3>1, <3>2, <3>4 DEF Pushed
  <2> QED
    BY <2>1, <2>2
<1> QED
  BY <1>1, <1>3, <1>4, <1>5, <1>6 DEF Pushed, p, e

LEMMA ParamsPushed ==
  ASSUME NEW n \in Machines, n.r.esp = StackTop, NEW args \in Seq(Words), Len(args) \in 1..MaxArgs
  PROVE  Pushed(PushParams(n, args), n, PP_REVERSEARGS(args), Len(args))
<1>1. PICK rev : rev = PP_REVERSEARGS(args)
  OBVIOUS
<1>2. rev \in Seq(Words) /\ Len(rev) = Len(args) /\ Len(rev) \in 1..8 /\ Len(rev) \in Nat
  BY <1>1, ArgsReversed DEF MaxArgs
<1> DEFINE L == Len(rev)
           at(g, i) == IF i = 0 THEN n ELSE pushl_mem(g[i - 1], rev[i])
           P(g) == g = [i \in 0..L |-> at(g, i)]
           pushed == CHOOSE g : P(g)
<1>3. PushParams(n, args) = pushed[L]
  BY <1>1 DEF PushParams
<1>4. \E g : P(g)
  <2> DEFINE Is(g, k) == \A i \in 0..k : g[i] = at(g, i)
             T == {k \in Nat : \E g : Is(g, k)}
  <2>1. 0 \in T
    <3> DEFINE g == [i \in {0} |-> n]
    <3>1. Is(g, 0)
      OBVIOUS
    <3> QED
      BY <3>1
  <2>2. ASSUME NEW k \in Nat, k \in T PROVE k + 1 \in T
    <3>1. PICK g : Is(g, k)
      BY <2>2
    <3> DEFINE h == [i \in 0..(k + 1) |-> IF i = k + 1 THEN pushl_mem(g[k], rev[k + 1]) ELSE g[i]]
    <3>2. ASSUME NEW i \in 0..(k + 1) PROVE h[i] = at(h, i)
      <4>1. CASE i = 0
        BY <3>1, <4>1
      <4>2. CASE i # 0
        <5>1. i - 1 \in 0..(k + 1) /\ i - 1 # k + 1
          BY <4>2
        <5>2. h[i - 1] = g[i - 1]
          BY <5>1
        <5>3. CASE i = k + 1
          BY <4>2, <5>2, <5>3
        <5>4. CASE i # k + 1
          BY <3>1, <4>2, <5>2, <5>4
        <5> QED
          BY <5>3, <5>4
      <4> QED
        BY <4>1, <4>2
    <3> HIDE DEF h
    <3>3. Is(h, k + 1)
      BY <3>2
    <3> QED
      BY <3>3
  <2>3. L \in T
    <3>1. Nat \subseteq T
      <4> HIDE DEF T
      <4> QED
        BY <2>1, <2>2, SetInduction
    <3> QED
      BY <1>2, <3>1
  <2>4. PICK g : Is(g, L)
    BY <2>3
  <2> DEFINE h == [i \in 0..L |-> g[i]]
  <2>5. ASSUME NEW i \in 0..L PROVE h[i] = at(h, i)
    <3>1. CASE i = 0
      BY <2>4, <3>1
    <3>2. CASE i # 0
      <4>1. i - 1 \in 0..L
        BY <1>2, <3>2
      <4> QED
        BY <2>4, <3>2, <4>1
    <3> QED
      BY <3>1, <3>2
  <2>6. P(h)
    <3> HIDE DEF at
    <3> QED
      BY <2>5
  <2> HIDE DEF h, P
  <2> QED
    BY <2>6
<1>5. P(pushed)
  <2> HIDE DEF P
  <2> QED
    BY <1>4
<1> HIDE DEF pushed
<1>6. \A i \in 0..L : pushed[i] = at(pushed, i)
  <2> HIDE DEF at
  <2> QED
    BY <1>5, Zenon
<1> HIDE DEF L
<1> DEFINE U == {k \in Nat : k <= L => Pushed(pushed[k], n, rev, k)}
<1>7. 0 \in U
  <2>1. pushed[0] = n
    BY <1>2, <1>6 DEF L
  <2>2. n.r = [n.r EXCEPT !["esp"] = StackTop - 4 * 0]
    BY Parts DEF StackTop
  <2> QED
    BY <2>1, <2>2 DEF Pushed
<1>8. ASSUME NEW k \in Nat, k \in U PROVE k + 1 \in U
  <2> SUFFICES ASSUME k + 1 <= L
               PROVE  Pushed(pushed[k + 1], n, rev, k + 1)
    OBVIOUS
  <2>1. k \in 0..8 /\ k + 1 \in 0..L /\ k + 1 # 0 /\ (k + 1) - 1 = k /\ rev[k + 1] \in Words /\ k <= L
    BY <1>2 DEF L
  <2>2. pushed[k + 1] = pushl_mem(pushed[k], rev[k + 1])
    BY <1>6, <2>1
  <2>3. Pushed(pushed[k], n, rev, k)
    BY <1>8, <2>1
  <2> QED
    BY <2>1, <2>2, <2>3, PushesOneMore
<1>9. Pushed(pushed[L], n, rev, L)
  <2>1. Nat \subseteq U
    <3> HIDE DEF U
    <3> QED
      BY <1>7, <1>8, SetInduction
  <2>2. L \in U /\ L <= L
    BY <1>2, <2>1 DEF L
  <2> QED
    BY <2>2
<1> QED
  BY <1>1, <1>2, <1>3, <1>9 DEF L

(* What a function finds when it is entered. *)
LEMMA FunctionCalled ==
  ASSUME NEW n \in Machines, n.r.esp = StackTop, NEW args \in Seq(Words), Len(args) \in 1..MaxArgs
  PROVE  LET w == CASM_FUNCCALL(n, args)
             e == 36 - 4 * Len(args)
         IN  /\ w \in Machines /\ w.r = [n.r EXCEPT !["esp"] = e]
             /\ w.fl = n.fl /\ w.sys = n.sys
             /\ \A a \in Memory : a >= StackTop => w.mem[a] = n.mem[a]
             /\ \A i \in DOMAIN args : Read32(w, e + 4 * i) = args[i]
             /\ Read32(w, e) = CASM_RET_EIP
<1>1. PICK L \in 1..8 : L = Len(args)
  BY DEF MaxArgs
<1>2. PICK rev : rev = PP_REVERSEARGS(args)
  OBVIOUS
<1>3. PICK p : p = PushParams(n, args)
  OBVIOUS
<1>4. Pushed(p, n, rev, L)
  BY <1>1, <1>2, <1>3, ParamsPushed
<1> DEFINE e == 36 - 4 * L
           w == pushl_mem(p, CASM_RET_EIP)
<1>5. e \in 4..32 /\ e \in 0..84 /\ e + 4 = StackTop - 4 * L /\ StackTop = 40
  BY DEF StackTop
<1>6. p \in Machines /\ p.r.esp = e + 4
  BY <1>4, <1>5, Parts DEF Pushed, Gprs
<1>7. /\ w \in Machines /\ w.r = [p.r EXCEPT !["esp"] = e] /\ w.fl = p.fl /\ w.sys = p.sys
      /\ \A b \in Memory : b \notin WordAt(e) => w.mem[b] = p.mem[b]
      /\ Read32(w, e) = CASM_RET_EIP
  <2>1. p.r.esp \in 4..88 /\ p.r.esp - 4 = e
    BY <1>5, <1>6
  <2>2. CASM_RET_EIP \in Words
    BY WidthNumbers
  <2> HIDE DEF w, e
  <2>3. /\ pushl_mem(p, CASM_RET_EIP) \in Machines
        /\ pushl_mem(p, CASM_RET_EIP).r = [p.r EXCEPT !["esp"] = e]
        /\ pushl_mem(p, CASM_RET_EIP).fl = p.fl /\ pushl_mem(p, CASM_RET_EIP).sys = p.sys
    BY <1>6, <2>1, <2>2, Pushes
  <2>4. /\ \A b \in Memory : b \notin WordAt(e) => pushl_mem(p, CASM_RET_EIP).mem[b] = p.mem[b]
        /\ Read32(pushl_mem(p, CASM_RET_EIP), e) = CASM_RET_EIP
    BY <1>6, <2>1, <2>2, Pushes
  <2> QED
    BY <2>3, <2>4 DEF w
<1>8. CASM_FUNCCALL(n, args) = w
  BY <1>3 DEF CASM_FUNCCALL
<1> HIDE DEF w, e
<1>9. w.r = [n.r EXCEPT !["esp"] = e] /\ w.fl = n.fl /\ w.sys = n.sys
  BY <1>4, <1>7 DEF Pushed
<1>10. ASSUME NEW a \in Memory, a >= StackTop PROVE w.mem[a] = n.mem[a]
  <2>1. a \notin WordAt(e)
    BY <1>5, <1>10 DEF WordAt, Memory
  <2> QED
    BY <1>4, <1>7, <1>10, <2>1 DEF Pushed
<1>11. ASSUME NEW i \in DOMAIN args PROVE Read32(w, e + 4 * i) = args[i]
  <2>1. i \in 1..L
    BY <1>1
  <2>2. PICK j \in 1..L : j = L + 1 - i
    BY <2>1
  <2>3. rev[j] = args[i]
    <3>1. rev = [k \in 1..L |-> args[L + 1 - k]]
      BY <1>1, <1>2, ArgsReversed
    <3>2. rev[j] = args[L + 1 - j] /\ L + 1 - j = i
      BY <2>1, <2>2, <3>1
    <3> QED
      BY <3>2
  <2>4. PICK a \in 0..84 : a = e + 4 * i /\ a = StackTop - 4 * j /\ a >= e + 4
    <3>1. e + 4 * i \in 0..84 /\ e + 4 * i = StackTop - 4 * j /\ e + 4 * i >= e + 4
      <4>1. PICK q \in 1..8 : q = i /\ q <= L
        BY <2>1
      <4>2. j = L + 1 - q
        BY <2>2, <4>1
      <4>3. /\ 36 - 4 * L + 4 * q \in 0..84 /\ 36 - 4 * L + 4 * q = 40 - 4 * (L + 1 - q)
            /\ 36 - 4 * L + 4 * q >= 36 - 4 * L + 4
        <5>1. PICK l \in 1..8 : l = L /\ q <= l
          BY <1>1, <4>1
        <5>2. /\ 36 - 4 * l + 4 * q \in 0..84 /\ 36 - 4 * l + 4 * q = 40 - 4 * (l + 1 - q)
              /\ 36 - 4 * l + 4 * q >= 36 - 4 * l + 4
          BY <5>1
        <5> QED
          BY <5>1, <5>2
      <4> QED
        BY <4>1, <4>2, <4>3 DEF e, StackTop
    <3> QED
      BY <3>1
  <2>5. \A b \in WordAt(a) : w.mem[b] = p.mem[b]
    <3>1. ASSUME NEW b \in WordAt(a) PROVE b \in Memory /\ b \notin WordAt(e)
      BY <1>5, <2>4 DEF WordAt, Memory
    <3> QED
      BY <1>7, <3>1
  <2>6. Read32(w, a) = Read32(p, a)
    BY <2>5, ReadsSame
  <2> QED
    BY <1>4, <2>3, <2>4, <2>6 DEF Pushed
<1> QED
  BY <1>1, <1>7, <1>8, <1>9, <1>10, <1>11 DEF e

(* The caller finds its stack as it was. *)
LEMMA ParamsRemoved ==
  ASSUME NEW tos \in {36, 40}, NEW n \in Machines, NEW args \in Seq(Words), Len(args) \in 1..MaxArgs,
         n.r.esp = tos - 4 * Len(args)
  PROVE  LET w == RemoveParams(n, args)
         IN  /\ w \in Machines /\ w.r = [n.r EXCEPT !["esp"] = tos]
             /\ w.fl = n.fl /\ w.sys = n.sys /\ w.mem = n.mem
<1>1. PICK rev : rev = PP_REVERSEARGS(args)
  OBVIOUS
<1>2. rev \in Seq(Words) /\ Len(rev) = Len(args) /\ Len(rev) \in 1..8
  BY <1>1, ArgsReversed DEF MaxArgs
<1>3. PICK sizes : sizes = PP_FOREACH([arg \in Nat |-> 4], rev)
  OBVIOUS
<1> DEFINE L == Len(rev)
<1>4. sizes = [i \in 1..L |-> 4]
  <2>1. PP_VARIADIC_SIZE(rev) = L
    <3>1. PICK k \in 1..8 : k = Len(rev)
      BY <1>2
    <3>2. k <= MaxArgs
      BY DEF MaxArgs
    <3> QED
      BY <3>1, <3>2 DEF PP_VARIADIC_SIZE
  <2>2. ASSUME NEW i \in 1..L PROVE [arg \in Nat |-> 4][rev[i]] = 4
    <3>1. rev[i] \in Words
      BY <1>2
    <3> QED
      BY <3>1, WidthNumbers DEF Words
  <2> QED
    BY <1>3, <2>1, <2>2 DEF PP_FOREACH
<1>5. Len(sizes) = L
  BY <1>2, <1>4
<1> DEFINE at(g, i) == IF i = 0 THEN n ELSE addl_imm_esp(g[i - 1], sizes[i])
           P(g) == g = [i \in 0..L |-> at(g, i)]
           removed == CHOOSE g : P(g)
           h == [i \in 0..L |-> [n EXCEPT !.r = [n.r EXCEPT !["esp"] = tos - 4 * L + 4 * i]]]
<1>6. RemoveParams(n, args) = removed[L]
  <2>1. RemoveParams(n, args) =
          (CHOOSE g : g = [i \in 0..Len(sizes) |-> IF i = 0 THEN n ELSE addl_imm_esp(g[i - 1], sizes[i])])[Len(sizes)]
    BY ONLY <1>1, <1>3 DEF RemoveParams
  <2> QED
    BY ONLY <1>5, <2>1
<1>7. ASSUME NEW i \in 0..L
      PROVE  /\ h[i] \in Machines /\ h[i].r = [n.r EXCEPT !["esp"] = tos - 4 * L + 4 * i]
             /\ h[i].fl = n.fl /\ h[i].sys = n.sys /\ h[i].mem = n.mem
  <2>1. tos - 4 * L + 4 * i \in Words
    <3>1. tos - 4 * L + 4 * i \in 0..1024
      <4>1. PICK k \in 1..8 : k = L
        BY <1>2
      <4>2. i \in 0..k
        BY <4>1
      <4>3. tos - 4 * k + 4 * i \in 0..1024
        BY <4>2
      <4> QED
        BY <4>1, <4>3
    <3>2. PICK v : v = tos - 4 * L + 4 * i
      OBVIOUS
    <3>3. v \in 0..1024
      BY <3>1, <3>2
    <3>4. v \in Words
      BY ONLY <3>3, Small, ZenonT(60)
    <3> QED
      BY <3>2, <3>4
  <2>2. PICK v \in Words : v = tos - 4 * L + 4 * i
    BY <2>1
  <2>3. [n.r EXCEPT !["esp"] = v] \in [Gprs -> Words]
    BY Parts DEF Gprs
  <2>4. h[i] = [n EXCEPT !.r = [n.r EXCEPT !["esp"] = v]]
    BY <2>2
  <2> QED
    BY <2>2, <2>3, <2>4, RegsTyped
<1>8. ASSUME NEW i \in 0..L PROVE h[i] = at(h, i)
  <2>1. CASE i = 0
    <3>1. n.r = [n.r EXCEPT !["esp"] = tos - 4 * L + 4 * i]
      <4>1. n.r.esp = tos - 4 * L + 4 * i
        BY <1>2, <2>1
      <4>2. n.r \in [Gprs -> Words]
        BY Parts
      <4> QED
        BY <4>1, <4>2
    <3>2. h[i] = [n EXCEPT !.r = n.r]
      BY <3>1
    <3>3. h[i] = n
      BY <3>2 DEF Machines
    <3> QED
      BY <2>1, <3>3
  <2>2. CASE i # 0
    <3>1. i - 1 \in 0..L /\ i \in 1..L
      BY <1>2, <2>2
    <3>2. PICK q \in Machines : q = h[i - 1]
      BY <1>7, <3>1
    <3>3. PICK d \in 0..40 : d = tos - 4 * L + 4 * (i - 1) /\ d + 4 = tos - 4 * L + 4 * i
      <4>1. PICK k \in 1..8 : k = L
        BY <1>2
      <4>2. i \in 1..k
        BY <3>1, <4>1
      <4>3. tos - 4 * k + 4 * (i - 1) \in 0..40 /\ (tos - 4 * k + 4 * (i - 1)) + 4 = tos - 4 * k + 4 * i
        BY <4>2
      <4> QED
        BY <4>1, <4>3
    <3>4. q = [n EXCEPT !.r = [n.r EXCEPT !["esp"] = d]] /\ sizes[i] = 4
      BY <1>4, <3>1, <3>2, <3>3
    <3>5. q.r.esp = d
      <4>1. n.r \in [Gprs -> Words] /\ "esp" \in Gprs
        BY Parts DEF Gprs
      <4> QED
        BY <3>4, <4>1 DEF Machines
    <3>6. Wrap(d + 4) = d + 4
      <4>1. d + 4 \in 0..1024
        OBVIOUS
      <4> QED
        BY <4>1, Small, WrapsNot, ZenonT(60)
    <3>7. addl_imm_esp(q, 4) = [q EXCEPT !.r["esp"] = d + 4]
      BY <3>5, <3>6 DEF addl_imm_esp, SetReg
    <3>8. [q EXCEPT !.r["esp"] = d + 4] = [n EXCEPT !.r = [n.r EXCEPT !["esp"] = d + 4]]
      <4>1. [[n.r EXCEPT !["esp"] = d] EXCEPT !["esp"] = d + 4] = [n.r EXCEPT !["esp"] = d + 4]
        BY Parts
      <4> QED
        BY <3>4, <4>1 DEF Machines
    <3>9. at(h, i) = addl_imm_esp(q, 4)
      BY <2>2, <3>2, <3>4
    <3>10. h[i] = [n EXCEPT !.r = [n.r EXCEPT !["esp"] = d + 4]]
      BY <3>3
    <3> QED
      BY <3>7, <3>8, <3>9, <3>10
  <2> QED
    BY <2>1, <2>2
<1>9. P(removed)
  <2>1. P(h)
    <3> DEFINE u(i) == at(h, i)
    <3>1. \A i \in 0..L : h[i] = u(i)
      BY <1>8
    <3> QED
      BY <3>1
  <2> QED
    BY <2>1
<1> HIDE DEF removed
<1>10. \A i \in 0..L : removed[i] = at(removed, i)
  <2> HIDE DEF at
  <2> QED
    BY <1>9, Zenon
<1> HIDE DEF h
<1>11. removed[0] = h[0]
  BY <1>2, <1>8, <1>10
<1>12. ASSUME NEW i \in 1..L, removed[i - 1] = h[i - 1] PROVE removed[i] = h[i]
  BY <1>2, <1>8, <1>10, <1>12
<1>13. removed[L] = h[L]
  <2> HIDE DEF L, at
  <2>1. L \in Nat /\ L \in 0..L
    BY <1>2 DEF L
  <2>2. \A i \in 1..L : removed[i - 1] = h[i - 1] => removed[i] = h[i]
    BY <1>12
  <2>3. ComputedAlike(removed, h, L)
    BY <1>11, <2>2 DEF ComputedAlike
  <2> QED
    BY ONLY <2>1, <2>3, AgreeAtLast, ZenonT(60)
<1>14. L \in 0..L /\ tos - 4 * L + 4 * L = tos
  BY <1>2
<1> HIDE DEF L
<1>15. /\ h[L] \in Machines /\ h[L].r = [n.r EXCEPT !["esp"] = tos]
       /\ h[L].fl = n.fl /\ h[L].sys = n.sys /\ h[L].mem = n.mem
  BY <1>7, <1>14
<1> QED
  BY <1>6, <1>13, <1>15

(* The memory from an address up, but for some of it, is as it was. *)
Frame(n, e, lo, X) == \A a \in Memory : a >= lo /\ a \notin X => n.mem[a] = e.mem[a]
(* One word of memory is written. *)
Wrote(w, n, a, v) ==
  /\ Read32(w, a) = v
  /\ \A b \in Memory : b \notin WordAt(a) => w.mem[b] = n.mem[b]

LEMMA WroteElsewhere ==
  ASSUME NEW n, NEW w, NEW a, NEW v, NEW b,
         a \in 0..84, b \in 0..84
  PROVE  Wrote(w, n, a, v) /\ (b + 4 <= a \/ a + 4 <= b) => Read32(w, b) = Read32(n, b)
<1> SUFFICES ASSUME Wrote(w, n, a, v) /\ (b + 4 <= a \/ a + 4 <= b) PROVE Read32(w, b) = Read32(n, b)
  OBVIOUS
<1>1. ASSUME NEW d \in WordAt(b) PROVE w.mem[d] = n.mem[d]
  <2>1. d \in Memory /\ d \notin WordAt(a)
    BY DEF WordAt, Memory
  <2> QED
    BY <2>1 DEF Wrote
<1> QED
  BY <1>1, ReadsSame

LEMMA WroteBelow ==
  ASSUME NEW n, NEW w, NEW e, NEW a, NEW v, NEW lo, NEW X,
         a \in 0..84, lo \in 0..84
  PROVE  Wrote(w, n, a, v) /\ Frame(n, e, lo, X) /\ a + 4 <= lo => Frame(w, e, lo, X)
<1> SUFFICES ASSUME Wrote(w, n, a, v) /\ Frame(n, e, lo, X) /\ a + 4 <= lo PROVE Frame(w, e, lo, X)
  OBVIOUS
<1>1. ASSUME NEW d \in Memory, d >= lo, d \notin X PROVE w.mem[d] = e.mem[d]
  <2>1. d \notin WordAt(a)
    BY <1>1 DEF WordAt, Memory
  <2> QED
    BY <1>1, <2>1 DEF Wrote, Frame
<1> QED
  BY <1>1 DEF Frame

LEMMA WroteInside ==
  ASSUME NEW n, NEW w, NEW e, NEW a, NEW v, NEW lo, NEW X,
         a \in 0..84, lo \in 0..84
  PROVE  Wrote(w, n, a, v) /\ Frame(n, e, lo, X) /\ WordAt(a) \subseteq X => Frame(w, e, lo, X)
<1> SUFFICES ASSUME Wrote(w, n, a, v) /\ Frame(n, e, lo, X) /\ WordAt(a) \subseteq X PROVE Frame(w, e, lo, X)
  OBVIOUS
<1>1. ASSUME NEW d \in Memory, d >= lo, d \notin X PROVE w.mem[d] = e.mem[d]
  <2>1. d \notin WordAt(a)
    BY <1>1
  <2> QED
    BY <1>1, <2>1 DEF Wrote, Frame
<1> QED
  BY <1>1 DEF Frame

LEMMA FrameReads ==
  ASSUME NEW n, NEW e, NEW lo, NEW X, NEW b,
         lo \in 0..84, b \in 0..84
  PROVE  Frame(n, e, lo, X) /\ b >= lo /\ WordAt(b) \cap X = {} => Read32(n, b) = Read32(e, b)
<1> SUFFICES ASSUME Frame(n, e, lo, X) /\ b >= lo /\ WordAt(b) \cap X = {} PROVE Read32(n, b) = Read32(e, b)
  OBVIOUS
<1>1. ASSUME NEW d \in WordAt(b) PROVE n.mem[d] = e.mem[d]
  <2>1. d \in Memory /\ d >= lo /\ d \notin X
    BY DEF WordAt, Memory
  <2> QED
    BY <2>1 DEF Frame
<1> QED
  BY <1>1, ReadsSame

LEMMA FrameMore ==
  ASSUME NEW n, NEW e, NEW lo, NEW hi, NEW X, NEW Y,
         lo \in 0..84, hi \in 0..84
  PROVE  Frame(n, e, lo, X) /\ lo <= hi /\ X \subseteq Y => Frame(n, e, hi, Y)
<1> SUFFICES ASSUME Frame(n, e, lo, X) /\ lo <= hi /\ X \subseteq Y PROVE Frame(n, e, hi, Y)
  OBVIOUS
<1>1. ASSUME NEW d \in Memory, d >= hi, d \notin Y PROVE n.mem[d] = e.mem[d]
  <2>1. d >= lo
    BY <1>1 DEF Memory
  <2> QED
    BY <1>1, <2>1 DEF Frame
<1> QED
  BY <1>1 DEF Frame

(* What the stores and the moves of the stack pointer do. *)
LEMMA Stores ==
  ASSUME NEW n \in Machines, NEW a \in 0..84, NEW v \in Words
  PROVE  LET w == Write32(n, a, v)
         IN  w \in Machines /\ w.r = n.r /\ w.fl = n.fl /\ w.sys = n.sys /\ Wrote(w, n, a, v)
  BY WritesWord DEF Wrote
LEMMA Pushing ==
  ASSUME NEW n \in Machines, n.r.esp \in 4..88, NEW v \in Words
  PROVE  LET w == pushl_mem(n, v)
         IN  /\ w \in Machines /\ w.r = [n.r EXCEPT !["esp"] = n.r.esp - 4]
             /\ w.fl = n.fl /\ w.sys = n.sys /\ Wrote(w, n, n.r.esp - 4, v)
<1>1. /\ pushl_mem(n, v) \in Machines
      /\ pushl_mem(n, v).r = [n.r EXCEPT !["esp"] = n.r.esp - 4]
      /\ pushl_mem(n, v).fl = n.fl /\ pushl_mem(n, v).sys = n.sys
  BY Pushes
<1>2. Wrote(pushl_mem(n, v), n, n.r.esp - 4, v)
  BY Pushes DEF Wrote
<1> QED
  BY <1>1, <1>2

(* A function is entered: its frame, and what the harness set up for it. *)
Called(e, c) ==
  /\ e \in Machines
  /\ e.r.ebx = 5 /\ e.r.esi = 6 /\ e.r.edi = 7
  /\ c.args \in Seq(Words) /\ Len(c.args) \in 1..5
  /\ e.r.esp = 36 - 4 * Len(c.args)
  /\ \A i \in DOMAIN c.args : Read32(e, e.r.esp + 4 * i) = c.args[i]
  /\ Read32(e, e.r.esp) = CASM_RET_EIP
  /\ Read32(e, SmpLock) \in {0, 1}

(* A function has returned: the stack is left to the caller with its
   registers and its memory, and control is where it came from. *)
LeftFrame(n, e, X) ==
  /\ n \in Machines
  /\ n.r.esp = e.r.esp + 4 /\ n.r.eip = CASM_RET_EIP
  /\ n.r.ebx = 5 /\ n.r.esi = 6 /\ n.r.edi = 7
  /\ Frame(n, e, e.r.esp + 4, X)

(* ret, from a stack that is as it was on entry. *)
LEMMA ReturnsTo ==
  ASSUME NEW n \in Machines, NEW e, NEW X, NEW k \in 0..84, n.r.esp = k, e.r.esp = k,
         n.r.ebx = 5, n.r.esi = 6, n.r.edi = 7, Read32(n, k) = CASM_RET_EIP,
         Frame(n, e, k, X), NEW op \in {"ret", "retu32", "retu64"}
  PROVE  LeftFrame(Return(n, op), e, X) /\ Return(n, op).mem = n.mem
<1> DEFINE w == popl(n, "eip")
<1>1. Return(n, op) = w
  BY DEF Return
<1>2. w \in Machines /\ w.r = [n.r EXCEPT !["esp"] = k + 4, !["eip"] = CASM_RET_EIP] /\ w.mem = n.mem
  <2>1. "eip" \in Gprs /\ "eip" # "esp"
    BY DEF Gprs
  <2> QED
    BY <2>1, Pops
<1> HIDE DEF w
<1>3. w.r.esp = k + 4 /\ w.r.eip = CASM_RET_EIP /\ w.r.ebx = 5 /\ w.r.esi = 6 /\ w.r.edi = 7
  <2>1. n.r \in [Gprs -> Words]
    BY Parts
  <2> QED
    BY <1>2, <2>1 DEF Gprs
<1>4. Frame(w, e, k + 4, X)
  <2>1. ASSUME NEW d \in Memory, d >= k + 4, d \notin X PROVE w.mem[d] = e.mem[d]
    <3>1. d >= k
      BY <2>1 DEF Memory
    <3> QED
      BY <1>2, <2>1, <3>1 DEF Frame
  <2> QED
    BY <2>1 DEF Frame
<1> QED
  BY <1>1, <1>2, <1>3, <1>4 DEF LeftFrame

(* One register is set. *)
Sets(w, n, reg, v) ==
  w \in Machines /\ w.r = [n.r EXCEPT ![reg] = v] /\ w.mem = n.mem /\ w.fl = n.fl
(* One word is stored. *)
Puts(w, n, a, v) == w \in Machines /\ w.r = n.r /\ w.fl = n.fl /\ Wrote(w, n, a, v)

LEMMA SameMemory ==
  ASSUME NEW n, NEW w, w.mem = n.mem
  PROVE  /\ \A b : Read32(w, b) = Read32(n, b)
         /\ \A e, lo, X : Frame(n, e, lo, X) => Frame(w, e, lo, X)
  BY DEF Read32, Read16, Frame

LEMMA MoveFromStack ==
  ASSUME NEW n, NEW k, NEW a, NEW reg,
         n \in Machines, a \in 0..84, reg \in Gprs
  PROVE  n.r.esp + k = a => Sets(Exec(n, <<"movl_mesp", k, reg>>), n, reg, Read32(n, a))
<1> SUFFICES ASSUME n.r.esp + k = a
             PROVE  Sets(Exec(n, <<"movl_mesp", k, reg>>), n, reg, Read32(n, a))
  OBVIOUS
<1>1. Read32(n, a) \in Words
  BY Parts, ReadsWord
<1>2. Exec(n, <<"movl_mesp", k, reg>>) = SetReg(n, reg, Read32(n, a))
  BY ExecMoves DEF movl_mesp, At
<1> QED
  BY <1>1, <1>2, Loads DEF Sets
LEMMA MoveToEsi ==
  ASSUME NEW n, NEW k, NEW a,
         n \in Machines, a \in 0..84
  PROVE  n.r.esp + k = a => Sets(Exec(n, <<"movl_mesp_esi", k>>), n, "esi", Read32(n, a))
<1> SUFFICES ASSUME n.r.esp + k = a
             PROVE  Sets(Exec(n, <<"movl_mesp_esi", k>>), n, "esi", Read32(n, a))
  OBVIOUS
<1>1. Read32(n, a) \in Words /\ "esi" \in Gprs
  BY Parts, ReadsWord DEF Gprs
<1>2. Exec(n, <<"movl_mesp_esi", k>>) = SetReg(n, "esi", Read32(n, a))
  BY ExecMoves DEF movl_mesp_esi, At
<1> QED
  BY <1>1, <1>2, Loads DEF Sets
LEMMA MoveToEcx ==
  ASSUME NEW n \in Machines, NEW src \in Gprs
  PROVE  Sets(Exec(n, <<"movl_to_ecx", src>>), n, "ecx", n.r[src])
<1>1. n.r[src] \in Words /\ "ecx" \in Gprs
  BY Parts DEF Gprs
<1>2. Exec(n, <<"movl_to_ecx", src>>) = SetReg(n, "ecx", n.r[src])
  BY ExecMoves DEF movl_to_ecx
<1> QED
  BY <1>1, <1>2, Loads DEF Sets
LEMMA MoveThroughEcx ==
  ASSUME NEW n \in Machines, NEW a \in 0..84, n.r.ecx = a
  PROVE  Sets(Exec(n, <<"movl_self", 0, "ecx">>), n, "ecx", Read32(n, a))
<1>1. Read32(n, a) \in Words /\ "ecx" \in Gprs
  BY Parts, ReadsWord DEF Gprs
<1>2. At(n, "ecx", 0) = a
  <2>1. a + 0 = a
    OBVIOUS
  <2> QED
    BY <2>1 DEF At
<1>3. Exec(n, <<"movl_self", 0, "ecx">>) = movl_self(n, 0, "ecx")
  BY ExecMoves
<1>4. movl_self(n, 0, "ecx") = SetReg(n, "ecx", Read32(n, a))
  BY <1>2 DEF movl_self
<1> QED
  BY <1>1, <1>3, <1>4, Loads DEF Sets
LEMMA StoreThroughEsi ==
  ASSUME NEW n \in Machines, NEW a \in 0..84, n.r.esi = a, NEW reg \in Gprs
  PROVE  Puts(Exec(n, <<"movl_reg_mesi", 0, reg>>), n, a, n.r[reg])
<1>1. n.r[reg] \in Words
  BY Parts
<1>2. At(n, "esi", 0) = a
  BY DEF At
<1>3. Exec(n, <<"movl_reg_mesi", 0, reg>>) = Write32(n, a, n.r[reg])
  BY <1>2, ExecMoves, ZenonT(60) DEF movl_reg_mesi
<1>4. PICK v \in Words : v = n.r[reg]
  BY <1>1
<1>5. Puts(Write32(n, a, v), n, a, v)
  BY Stores DEF Puts
<1> QED
  BY <1>3, <1>4, <1>5
LEMMA PushReg ==
  ASSUME NEW n \in Machines, NEW a \in 0..84, n.r.esp = a + 4, NEW reg \in Gprs
  PROVE  LET w == Exec(n, <<"pushl", reg>>)
         IN  /\ w \in Machines /\ w.r = [n.r EXCEPT !["esp"] = a] /\ w.fl = n.fl
             /\ Wrote(w, n, a, n.r[reg])
<1>1. n.r[reg] \in Words /\ n.r.esp \in 4..88 /\ n.r.esp - 4 = a
  BY Parts
<1>2. Exec(n, <<"pushl", reg>>) = pushl_mem(n, n.r[reg])
  BY ExecStackMoves
<1> QED
  BY <1>1, <1>2, Pushing
LEMMA PopReg ==
  ASSUME NEW n \in Machines, NEW a \in 0..84, n.r.esp = a, NEW reg \in Gprs, reg # "esp"
  PROVE  LET w == Exec(n, <<"popl", reg>>)
         IN  /\ w \in Machines /\ w.r = [n.r EXCEPT !["esp"] = a + 4, ![reg] = Read32(n, a)]
             /\ w.fl = n.fl /\ w.mem = n.mem
<1>1. Exec(n, <<"popl", reg>>) = popl(n, reg)
  BY ExecStackMoves
<1> QED
  BY <1>1, Pops

(* xmhfhw_cpu_cpuid: what it is asked, and how far it has come. *)
CpuidAsked(e) == cpuid([e EXCEPT !.r.eax = Read32(e, 20), !.r.ecx = Read32(e, EcxVar)])
CpuidEntered(e) ==
  /\ e \in Machines /\ e.r.esp = 16 /\ e.r.ebx = 5 /\ e.r.esi = 6 /\ e.r.edi = 7
  /\ Read32(e, 16) = CASM_RET_EIP /\ Read32(e, 20) \in 0..2
  /\ Read32(e, 24) = 40 /\ Read32(e, 28) = 44 /\ Read32(e, 32) = 48 /\ Read32(e, 36) = 52
CpuidOut == 40..55
CpuidAt(n, e, p) ==
  /\ n \in Machines /\ Frame(n, e, 16, CpuidOut) /\ n.r.edi = 7
  /\ p \in {1, 19} => n.r.esp = 16 /\ n.r.esi = 6 /\ n.r.ebx = 5
  /\ p \in {2, 18} => n.r.esp = 12 /\ n.r.ebx = 5
  /\ p = 2 => n.r.esi = 6
  /\ p \in 2..18 => Read32(n, 12) = 6
  /\ p \in 3..17 => n.r.esp = 8 /\ Read32(n, 8) = 5
  /\ p \in 3..6 => n.r.ebx = 5
  /\ p \in 1..6 => Read32(n, 48) = Read32(e, 48)
  /\ p \in 4..6 => n.r.eax = Read32(e, 20)
  /\ p = 5 => n.r.ecx = 48
  /\ p = 6 => n.r.ecx = Read32(e, 48)
  /\ p \in 7..11 => n.r.eax = CpuidAsked(e).r.eax
  /\ p \in 7..8 => n.r.ebx = CpuidAsked(e).r.ebx
  /\ p \in 7..10 => n.r.ecx = CpuidAsked(e).r.ecx
  /\ p \in 7..14 => n.r.edx = CpuidAsked(e).r.edx
  /\ p = 8 => n.r.esi = 44
  /\ p = 10 => n.r.esi = 48
  /\ p = 13 => n.r.esi = 40
  /\ p = 16 => n.r.esi = 52
  /\ p \in 12..13 => n.r.ecx = CpuidAsked(e).r.eax
  /\ p \in 15..16 => n.r.ecx = CpuidAsked(e).r.edx
  /\ p \in 9..19 => Read32(n, 44) = CpuidAsked(e).r.ebx
  /\ p \in 11..19 => Read32(n, 48) = CpuidAsked(e).r.ecx
  /\ p \in 14..19 => Read32(n, 40) = CpuidAsked(e).r.eax
  /\ p \in 17..19 => Read32(n, 52) = CpuidAsked(e).r.edx

(* The answer depends on the registers that are asked. *)
LEMMA CpuidAnswers ==
  ASSUME NEW n \in Machines, NEW e \in Machines, n.r.eax = Read32(e, 20), n.r.ecx = Read32(e, EcxVar),
         n.r.ebx = e.r.ebx, Read32(e, 20) \in 0..2
  PROVE  LET w == cpuid(n)
         IN  /\ w \in Machines /\ w.mem = n.mem
             /\ w.r.esp = n.r.esp /\ w.r.esi = n.r.esi /\ w.r.edi = n.r.edi
             /\ w.r.eax = CpuidAsked(e).r.eax /\ w.r.ebx = CpuidAsked(e).r.ebx
             /\ w.r.ecx = CpuidAsked(e).r.ecx /\ w.r.edx = CpuidAsked(e).r.edx
<1> DEFINE k == [e EXCEPT !.r.eax = Read32(e, 20), !.r.ecx = Read32(e, EcxVar)]
<1>1. n.r \in [Gprs -> Words] /\ e.r \in [Gprs -> Words]
  BY Parts
<1>2. k.r = [e.r EXCEPT !["eax"] = Read32(e, 20), !["ecx"] = Read32(e, EcxVar)]
  BY DEF Machines
<1>3. k.r.eax = n.r.eax /\ k.r.ecx = n.r.ecx /\ k.r.ebx = n.r.ebx
  BY <1>1, <1>2 DEF Gprs
<1>4. k.r \in [Gprs -> Words]
  <2>1. n.r.eax \in Words /\ n.r.ecx \in Words
    BY <1>1 DEF Gprs
  <2> QED
    BY <1>1, <1>2, <2>1 DEF Gprs
<1>5. k = [e EXCEPT !.r = k.r]
  BY <1>2 DEF Machines
<1>6. k \in Machines
  BY <1>4, <1>5, RegsTyped
<1>7. CpuidAsked(e) = cpuid(k)
  BY DEF CpuidAsked
<1> HIDE DEF k
<1>8. 0 \in Words /\ 1 \in Words /\ 2 \in Words /\ 3 \in Words /\ 2^5 + 2^26 \in Words /\ 2^26 + 2^5 \in Words /\ 2^12 \in Words
  <2>1. 2^5 = 32 /\ 2^12 = 4096
    BY SMT
  <2>2. 2^26 = 67108864
    BY SMT
  <2> QED
    BY <2>1, <2>2, WidthNumbers DEF Words
<1>9. ASSUME NEW h \in Machines
      PROVE  LET w == cpuid(h)
             IN  /\ h.r.eax = 0 => w = [h EXCEPT !.r = [h.r EXCEPT !["ebx"] = 1, !["ecx"] = 3, !["edx"] = 2]]
                 /\ h.r.eax = 1 => w = [h EXCEPT !.r = [h.r EXCEPT !["ecx"] = 2^5 + 2^26, !["edx"] = 2^12]]
                 /\ h.r.eax = 2 => w = [h EXCEPT !.r = [h.r EXCEPT !["ebx"] = 0, !["edx"] = 0]]
  <2>1. h.r \in [Gprs -> Words]
    BY Parts
  <2>2. CASE h.r.eax = 0
    <3>1. cpuid(h) = [h EXCEPT !.r.ebx = INTEL_STRING.ebx, !.r.ecx = INTEL_STRING.ecx, !.r.edx = INTEL_STRING.edx]
      BY <2>2 DEF cpuid
    <3>2. [h EXCEPT !.r.ebx = 1, !.r.ecx = 3, !.r.edx = 2]
            = [h EXCEPT !.r = [h.r EXCEPT !["ebx"] = 1, !["ecx"] = 3, !["edx"] = 2]]
      BY <2>1 DEF Machines
    <3> QED
      BY <2>2, <3>1, <3>2 DEF INTEL_STRING
  <2>3. CASE h.r.eax = 1
    <3>1. cpuid(h) = [h EXCEPT !.r.ecx = 2 ^ FeatureVMX + 2 ^ FeatureXSAVE, !.r.edx = 2 ^ FeatureMTRR]
      BY <2>3 DEF cpuid
    <3>2. PICK x, y : x = 2^5 + 2^26 /\ y = 2^12
      OBVIOUS
    <3>3. [h EXCEPT !.r.ecx = x, !.r.edx = y] = [h EXCEPT !.r = [h.r EXCEPT !["ecx"] = x, !["edx"] = y]]
      BY <2>1 DEF Machines
    <3> QED
      BY <2>3, <3>1, <3>2, <3>3 DEF FeatureVMX, FeatureXSAVE, FeatureMTRR
  <2>4. CASE h.r.eax = 2
    <3>1. cpuid(h) = [h EXCEPT !.r.ebx = 0, !.r.edx = 0]
      BY <2>4 DEF cpuid
    <3>2. [h EXCEPT !.r.ebx = 0, !.r.edx = 0] = [h EXCEPT !.r = [h.r EXCEPT !["ebx"] = 0, !["edx"] = 0]]
      BY <2>1 DEF Machines
    <3> QED
      BY <2>4, <3>1, <3>2
  <2> QED
    BY <2>2, <2>3, <2>4
<1> DEFINE w == cpuid(n)
           u == cpuid(k)
<1>10. n.r.eax = 0 \/ n.r.eax = 1 \/ n.r.eax = 2
  OBVIOUS
<1>11. CASE n.r.eax = 0
  <2> DEFINE a(h) == [h.r EXCEPT !["ebx"] = 1, !["ecx"] = 3, !["edx"] = 2]
  <2>1. w = [n EXCEPT !.r = a(n)] /\ u = [k EXCEPT !.r = a(k)]
    BY <1>3, <1>6, <1>9, <1>11
  <2>2. a(n) \in [Gprs -> Words] /\ a(k) \in [Gprs -> Words]
    BY <1>1, <1>4, <1>8 DEF Gprs
  <2>3. /\ a(n).esp = n.r.esp /\ a(n).esi = n.r.esi /\ a(n).edi = n.r.edi /\ a(n).eax = a(k).eax
        /\ a(n).ebx = a(k).ebx /\ a(n).ecx = a(k).ecx /\ a(n).edx = a(k).edx
    BY <1>1, <1>3, <1>4 DEF Gprs
  <2> HIDE DEF a, w, u
  <2>4. w \in Machines /\ w.r = a(n) /\ w.mem = n.mem /\ u.r = a(k)
    BY <1>6, <2>1, <2>2, RegsTyped
  <2> QED
    BY <1>7, <2>3, <2>4 DEF w, u
<1>12. CASE n.r.eax = 1
  <2> DEFINE a(h) == [h.r EXCEPT !["ecx"] = 2^5 + 2^26, !["edx"] = 2^12]
  <2>1. w = [n EXCEPT !.r = a(n)] /\ u = [k EXCEPT !.r = a(k)]
    BY <1>3, <1>6, <1>9, <1>12
  <2>2. a(n) \in [Gprs -> Words] /\ a(k) \in [Gprs -> Words]
    BY <1>1, <1>4, <1>8 DEF Gprs
  <2>3. /\ a(n).esp = n.r.esp /\ a(n).esi = n.r.esi /\ a(n).edi = n.r.edi /\ a(n).eax = a(k).eax
        /\ a(n).ebx = a(k).ebx /\ a(n).ecx = a(k).ecx /\ a(n).edx = a(k).edx
    BY <1>1, <1>3, <1>4 DEF Gprs
  <2> HIDE DEF a, w, u
  <2>4. w \in Machines /\ w.r = a(n) /\ w.mem = n.mem /\ u.r = a(k)
    BY <1>6, <2>1, <2>2, RegsTyped
  <2> QED
    BY <1>7, <2>3, <2>4 DEF w, u
<1>13. CASE n.r.eax = 2
  <2> DEFINE a(h) == [h.r EXCEPT !["ebx"] = 0, !["edx"] = 0]
  <2>1. w = [n EXCEPT !.r = a(n)] /\ u = [k EXCEPT !.r = a(k)]
    BY <1>3, <1>6, <1>9, <1>13
  <2>2. a(n) \in [Gprs -> Words] /\ a(k) \in [Gprs -> Words]
    BY <1>1, <1>4, <1>8 DEF Gprs
  <2>3. /\ a(n).esp = n.r.esp /\ a(n).esi = n.r.esi /\ a(n).edi = n.r.edi /\ a(n).eax = a(k).eax
        /\ a(n).ebx = a(k).ebx /\ a(n).ecx = a(k).ecx /\ a(n).edx = a(k).edx
    BY <1>1, <1>3, <1>4 DEF Gprs
  <2> HIDE DEF a, w, u
  <2>4. w \in Machines /\ w.r = a(n) /\ w.mem = n.mem /\ u.r = a(k)
    BY <1>6, <2>1, <2>2, RegsTyped
  <2> QED
    BY <1>7, <2>3, <2>4 DEF w, u
<1> QED
  BY <1>10, <1>11, <1>12, <1>13

LEMMA CpuidProgram ==
  LET prog == Program["xmhfhw_cpu_cpuid"]
  IN  /\ DOMAIN prog = 1..19
      /\ prog[1] = <<"pushl", "esi">>
      /\ prog[2] = <<"pushl", "ebx">>
      /\ prog[3] = <<"movl_mesp", 12, "eax">>
      /\ prog[4] = <<"movl_mesp", 24, "ecx">>
      /\ prog[5] = <<"movl_self", 0, "ecx">>
      /\ prog[6] = <<"cpuid">>
      /\ prog[7] = <<"movl_mesp_esi", 20>>
      /\ prog[8] = <<"movl_reg_mesi", 0, "ebx">>
      /\ prog[9] = <<"movl_mesp_esi", 24>>
      /\ prog[10] = <<"movl_reg_mesi", 0, "ecx">>
      /\ prog[11] = <<"movl_to_ecx", "eax">>
      /\ prog[12] = <<"movl_mesp_esi", 16>>
      /\ prog[13] = <<"movl_reg_mesi", 0, "ecx">>
      /\ prog[14] = <<"movl_to_ecx", "edx">>
      /\ prog[15] = <<"movl_mesp_esi", 28>>
      /\ prog[16] = <<"movl_reg_mesi", 0, "ecx">>
      /\ prog[17] = <<"popl", "ebx">>
      /\ prog[18] = <<"popl", "esi">>
      /\ prog[19] = <<"ret">>
<1> DEFINE prog == xmhfhw_cpu_cpuid
<1>1. Program["xmhfhw_cpu_cpuid"] = prog
  BY DEF Program
<1>2. DOMAIN prog = 1..19
  BY DEF xmhfhw_cpu_cpuid
<1>3. prog[1] = <<"pushl", "esi">>
  BY DEF xmhfhw_cpu_cpuid
<1>4. prog[2] = <<"pushl", "ebx">>
  BY DEF xmhfhw_cpu_cpuid
<1>5. prog[3] = <<"movl_mesp", 12, "eax">>
  BY DEF xmhfhw_cpu_cpuid
<1>6. prog[4] = <<"movl_mesp", 24, "ecx">>
  BY DEF xmhfhw_cpu_cpuid
<1>7. prog[5] = <<"movl_self", 0, "ecx">>
  BY DEF xmhfhw_cpu_cpuid
<1>8. prog[6] = <<"cpuid">>
  BY DEF xmhfhw_cpu_cpuid
<1>9. prog[7] = <<"movl_mesp_esi", 20>>
  BY DEF xmhfhw_cpu_cpuid
<1>10. prog[8] = <<"movl_reg_mesi", 0, "ebx">>
  BY DEF xmhfhw_cpu_cpuid
<1>11. prog[9] = <<"movl_mesp_esi", 24>>
  BY DEF xmhfhw_cpu_cpuid
<1>12. prog[10] = <<"movl_reg_mesi", 0, "ecx">>
  BY DEF xmhfhw_cpu_cpuid
<1>13. prog[11] = <<"movl_to_ecx", "eax">>
  BY DEF xmhfhw_cpu_cpuid
<1>14. prog[12] = <<"movl_mesp_esi", 16>>
  BY DEF xmhfhw_cpu_cpuid
<1>15. prog[13] = <<"movl_reg_mesi", 0, "ecx">>
  BY DEF xmhfhw_cpu_cpuid
<1>16. prog[14] = <<"movl_to_ecx", "edx">>
  BY DEF xmhfhw_cpu_cpuid
<1>17. prog[15] = <<"movl_mesp_esi", 28>>
  BY DEF xmhfhw_cpu_cpuid
<1>18. prog[16] = <<"movl_reg_mesi", 0, "ecx">>
  BY DEF xmhfhw_cpu_cpuid
<1>19. prog[17] = <<"popl", "ebx">>
  BY DEF xmhfhw_cpu_cpuid
<1>20. prog[18] = <<"popl", "esi">>
  BY DEF xmhfhw_cpu_cpuid
<1>21. prog[19] = <<"ret">>
  BY DEF xmhfhw_cpu_cpuid
<1> HIDE DEF prog
<1> QED
  BY <1>1, <1>2, <1>3, <1>4, <1>5, <1>6, <1>7, <1>8, <1>9, <1>10, <1>11, <1>12, <1>13, <1>14, <1>15, <1>16, <1>17, <1>18, <1>19, <1>20, <1>21

LEMMA CpuidStep ==
  ASSUME NEW e, CpuidEntered(e), NEW n, NEW p \in 1..18, CpuidAt(n, e, p)
  PROVE  CpuidAt(Exec(n, Program["xmhfhw_cpu_cpuid"][p]), e, p + 1)
<1> DEFINE prog == Program["xmhfhw_cpu_cpuid"]
<1>1. n \in Machines /\ n.r \in [Gprs -> Words] /\ Frame(n, e, 16, CpuidOut)
  BY Parts DEF CpuidAt
<1>2. /\ \A a \in {16, 20, 24, 28, 32, 36} : Read32(n, a) = Read32(e, a)
  <2>1. ASSUME NEW a \in {16, 20, 24, 28, 32, 36} PROVE Read32(n, a) = Read32(e, a)
    <3>1. a \in 0..84 /\ a >= 16 /\ WordAt(a) \cap CpuidOut = {} /\ 16 \in 0..84
      BY DEF WordAt, CpuidOut
    <3> QED
      BY <1>1, <3>1, FrameReads
  <2> QED
    BY <2>1
<1>3. CASE p = 1
  <2> DEFINE w == Exec(n, <<"pushl", "esi">>)
  <2>1. prog[p] = <<"pushl", "esi">>
    BY <1>3, CpuidProgram
  <2>2. n.r.esp = 12 + 4 /\ 12 \in 0..84 /\ "esi" \in Gprs
    BY <1>3 DEF CpuidAt, Gprs
  <2>3. w \in Machines /\ w.r = [n.r EXCEPT !["esp"] = 12] /\ Wrote(w, n, 12, n.r.esi)
    BY <1>1, <2>2, PushReg
  <2> HIDE DEF w
  <2>4. Read32(w, 12) = n.r.esi
    BY <2>3 DEF Wrote
  <2>5. Read32(w, 8) = Read32(n, 8) /\ Read32(w, 40) = Read32(n, 40) /\ Read32(w, 44) = Read32(n, 44) /\ Read32(w, 48) = Read32(n, 48) /\ Read32(w, 52) = Read32(n, 52)
    <3>1. ASSUME NEW b \in {8, 40, 44, 48, 52} PROVE Read32(w, b) = Read32(n, b)
      <4>1. b \in 0..84 /\ (b + 4 <= 12 \/ 12 + 4 <= b)
        OBVIOUS
      <4> QED
        BY <2>2, <2>3, <4>1, WroteElsewhere
    <3> QED
      BY <3>1
  <2>6. Frame(w, e, 16, CpuidOut)
    <3>1. 12 \in 0..84 /\ 16 \in 0..84 /\ 12 + 4 <= 16
      OBVIOUS
    <3> QED
      BY <1>1, <2>3, <3>1, WroteBelow
  <2>7. CpuidAt(w, e, 2)
    BY <1>1, <1>2, <2>3, <2>4, <2>5, <2>6, <1>3 DEF CpuidAt, CpuidEntered, Gprs
  <2> QED
    BY <1>3, <2>1, <2>7 DEF w
<1>4. CASE p = 2
  <2> DEFINE w == Exec(n, <<"pushl", "ebx">>)
  <2>1. prog[p] = <<"pushl", "ebx">>
    BY <1>4, CpuidProgram
  <2>2. n.r.esp = 8 + 4 /\ 8 \in 0..84 /\ "ebx" \in Gprs
    BY <1>4 DEF CpuidAt, Gprs
  <2>3. w \in Machines /\ w.r = [n.r EXCEPT !["esp"] = 8] /\ Wrote(w, n, 8, n.r.ebx)
    BY <1>1, <2>2, PushReg
  <2> HIDE DEF w
  <2>4. Read32(w, 8) = n.r.ebx
    BY <2>3 DEF Wrote
  <2>5. Read32(w, 12) = Read32(n, 12) /\ Read32(w, 40) = Read32(n, 40) /\ Read32(w, 44) = Read32(n, 44) /\ Read32(w, 48) = Read32(n, 48) /\ Read32(w, 52) = Read32(n, 52)
    <3>1. ASSUME NEW b \in {12, 40, 44, 48, 52} PROVE Read32(w, b) = Read32(n, b)
      <4>1. b \in 0..84 /\ (b + 4 <= 8 \/ 8 + 4 <= b)
        OBVIOUS
      <4> QED
        BY <2>2, <2>3, <4>1, WroteElsewhere
    <3> QED
      BY <3>1
  <2>6. Frame(w, e, 16, CpuidOut)
    <3>1. 8 \in 0..84 /\ 16 \in 0..84 /\ 8 + 4 <= 16
      OBVIOUS
    <3> QED
      BY <1>1, <2>3, <3>1, WroteBelow
  <2>7. CpuidAt(w, e, 3)
    BY <1>1, <1>2, <2>3, <2>4, <2>5, <2>6, <1>4 DEF CpuidAt, CpuidEntered, Gprs
  <2> QED
    BY <1>4, <2>1, <2>7 DEF w
<1>5. CASE p = 3
  <2> DEFINE w == Exec(n, <<"movl_mesp", 12, "eax">>)
  <2>1. prog[p] = <<"movl_mesp", 12, "eax">>
    BY <1>5, CpuidProgram
  <2>2. n.r.esp + 12 = 20 /\ 20 \in 0..84 /\ "eax" \in Gprs
    BY <1>5 DEF CpuidAt, Gprs
  <2>3. w \in Machines /\ w.r = [n.r EXCEPT !["eax"] = Read32(n, 20)] /\ w.mem = n.mem
    <3>1. Sets(w, n, "eax", Read32(n, 20))
      BY <1>1, <2>2, MoveFromStack
    <3> QED
      BY <3>1 DEF Sets
  <2> HIDE DEF w
  <2>4. Frame(w, e, 16, CpuidOut) /\ \A b : Read32(w, b) = Read32(n, b)
    BY <1>1, <2>3, SameMemory
  <2>7. CpuidAt(w, e, 4)
    BY <1>1, <1>2, <2>3, <2>4, <1>5 DEF CpuidAt, CpuidEntered, Gprs
  <2> QED
    BY <1>5, <2>1, <2>7 DEF w
<1>6. CASE p = 4
  <2> DEFINE w == Exec(n, <<"movl_mesp", 24, "ecx">>)
  <2>1. prog[p] = <<"movl_mesp", 24, "ecx">>
    BY <1>6, CpuidProgram
  <2>2. n.r.esp + 24 = 32 /\ 32 \in 0..84 /\ "ecx" \in Gprs
    BY <1>6 DEF CpuidAt, Gprs
  <2>3. w \in Machines /\ w.r = [n.r EXCEPT !["ecx"] = Read32(n, 32)] /\ w.mem = n.mem
    <3>1. Sets(w, n, "ecx", Read32(n, 32))
      BY <1>1, <2>2, MoveFromStack
    <3> QED
      BY <3>1 DEF Sets
  <2> HIDE DEF w
  <2>4. Frame(w, e, 16, CpuidOut) /\ \A b : Read32(w, b) = Read32(n, b)
    BY <1>1, <2>3, SameMemory
  <2>7. CpuidAt(w, e, 5)
    BY <1>1, <1>2, <2>3, <2>4, <1>6 DEF CpuidAt, CpuidEntered, Gprs
  <2> QED
    BY <1>6, <2>1, <2>7 DEF w
<1>7. CASE p = 5
  <2> DEFINE w == Exec(n, <<"movl_self", 0, "ecx">>)
  <2>1. prog[p] = <<"movl_self", 0, "ecx">>
    BY <1>7, CpuidProgram
  <2>2. n.r.ecx = 48 /\ 48 \in 0..84
    BY <1>7 DEF CpuidAt
  <2>3. w \in Machines /\ w.r = [n.r EXCEPT !["ecx"] = Read32(n, 48)] /\ w.mem = n.mem
    <3>1. Sets(w, n, "ecx", Read32(n, 48))
      BY <1>1, <2>2, MoveThroughEcx
    <3> QED
      BY <3>1 DEF Sets
  <2> HIDE DEF w
  <2>4. Frame(w, e, 16, CpuidOut) /\ \A b : Read32(w, b) = Read32(n, b)
    BY <1>1, <2>3, SameMemory
  <2>7. CpuidAt(w, e, 6)
    BY <1>1, <1>2, <2>3, <2>4, <1>7 DEF CpuidAt, CpuidEntered, Gprs
  <2> QED
    BY <1>7, <2>1, <2>7 DEF w
<1>8. CASE p = 6
  <2> DEFINE w == Exec(n, <<"cpuid">>)
  <2>1. prog[p] = <<"cpuid">>
    BY <1>8, CpuidProgram
  <2>2. /\ n.r.eax = Read32(e, 20) /\ n.r.ecx = Read32(e, EcxVar) /\ n.r.ebx = e.r.ebx
        /\ Read32(e, 20) \in 0..2 /\ e \in Machines /\ w = cpuid(n)
    <3>1. w = cpuid(n)
      BY ExecSystems
    <3>2. n.r.eax = Read32(e, 20) /\ n.r.ecx = Read32(e, 48) /\ n.r.ebx = 5
      BY <1>8 DEF CpuidAt
    <3>3. Read32(e, 20) \in 0..2 /\ e \in Machines /\ e.r.ebx = 5 /\ EcxVar = 48
      BY DEF CpuidEntered, EcxVar
    <3> HIDE DEF w
    <3> QED
      BY <3>1, <3>2, <3>3
  <2> HIDE DEF w
  <2>3. /\ w \in Machines /\ w.mem = n.mem
        /\ w.r.esp = n.r.esp /\ w.r.esi = n.r.esi /\ w.r.edi = n.r.edi
        /\ w.r.eax = CpuidAsked(e).r.eax /\ w.r.ebx = CpuidAsked(e).r.ebx
        /\ w.r.ecx = CpuidAsked(e).r.ecx /\ w.r.edx = CpuidAsked(e).r.edx
    BY <1>1, <2>2, CpuidAnswers
  <2> HIDE DEF w
  <2>4. Frame(w, e, 16, CpuidOut) /\ \A b : Read32(w, b) = Read32(n, b)
    BY <1>1, <2>3, SameMemory
  <2>7. CpuidAt(w, e, 7)
    BY <1>1, <1>2, <2>3, <2>4, <1>8 DEF CpuidAt, CpuidEntered, Gprs
  <2> QED
    BY <1>8, <2>1, <2>7 DEF w
<1>9. CASE p = 7
  <2> DEFINE w == Exec(n, <<"movl_mesp_esi", 20>>)
  <2>1. prog[p] = <<"movl_mesp_esi", 20>>
    BY <1>9, CpuidProgram
  <2>2. n.r.esp + 20 = 28 /\ 28 \in 0..84
    BY <1>9 DEF CpuidAt
  <2>3. w \in Machines /\ w.r = [n.r EXCEPT !["esi"] = Read32(n, 28)] /\ w.mem = n.mem
    <3>1. Sets(w, n, "esi", Read32(n, 28))
      BY <1>1, <2>2, MoveToEsi
    <3> QED
      BY <3>1 DEF Sets
  <2> HIDE DEF w
  <2>4. Frame(w, e, 16, CpuidOut) /\ \A b : Read32(w, b) = Read32(n, b)
    BY <1>1, <2>3, SameMemory
  <2>7. CpuidAt(w, e, 8)
    BY <1>1, <1>2, <2>3, <2>4, <1>9 DEF CpuidAt, CpuidEntered, Gprs
  <2> QED
    BY <1>9, <2>1, <2>7 DEF w
<1>10. CASE p = 8
  <2> DEFINE w == Exec(n, <<"movl_reg_mesi", 0, "ebx">>)
  <2>1. prog[p] = <<"movl_reg_mesi", 0, "ebx">>
    BY <1>10, CpuidProgram
  <2>2. n.r.esi = 44 /\ 44 \in 0..84 /\ "ebx" \in Gprs
    BY <1>10 DEF CpuidAt, Gprs
  <2>3. w \in Machines /\ w.r = n.r /\ Wrote(w, n, 44, n.r.ebx)
    BY <1>1, <2>2, StoreThroughEsi DEF Puts
  <2> HIDE DEF w
  <2>4. Read32(w, 44) = n.r.ebx
    BY <2>3 DEF Wrote
  <2>5. Read32(w, 8) = Read32(n, 8) /\ Read32(w, 12) = Read32(n, 12) /\ Read32(w, 40) = Read32(n, 40) /\ Read32(w, 48) = Read32(n, 48) /\ Read32(w, 52) = Read32(n, 52)
    <3>1. ASSUME NEW b \in {8, 12, 40, 48, 52} PROVE Read32(w, b) = Read32(n, b)
      <4>1. b \in 0..84 /\ (b + 4 <= 44 \/ 44 + 4 <= b)
        OBVIOUS
      <4> QED
        BY <2>2, <2>3, <4>1, WroteElsewhere
    <3> QED
      BY <3>1
  <2>6. Frame(w, e, 16, CpuidOut)
    <3>1. 44 \in 0..84 /\ 16 \in 0..84 /\ WordAt(44) \subseteq CpuidOut
      BY DEF WordAt, CpuidOut
    <3> QED
      BY <1>1, <2>3, <3>1, WroteInside
  <2>7. CpuidAt(w, e, 9)
    BY <1>1, <1>2, <2>3, <2>4, <2>5, <2>6, <1>10 DEF CpuidAt, CpuidEntered, Gprs
  <2> QED
    BY <1>10, <2>1, <2>7 DEF w
<1>11. CASE p = 9
  <2> DEFINE w == Exec(n, <<"movl_mesp_esi", 24>>)
  <2>1. prog[p] = <<"movl_mesp_esi", 24>>
    BY <1>11, CpuidProgram
  <2>2. n.r.esp + 24 = 32 /\ 32 \in 0..84
    BY <1>11 DEF CpuidAt
  <2>3. w \in Machines /\ w.r = [n.r EXCEPT !["esi"] = Read32(n, 32)] /\ w.mem = n.mem
    <3>1. Sets(w, n, "esi", Read32(n, 32))
      BY <1>1, <2>2, MoveToEsi
    <3> QED
      BY <3>1 DEF Sets
  <2> HIDE DEF w
  <2>4. Frame(w, e, 16, CpuidOut) /\ \A b : Read32(w, b) = Read32(n, b)
    BY <1>1, <2>3, SameMemory
  <2>7. CpuidAt(w, e, 10)
    BY <1>1, <1>2, <2>3, <2>4, <1>11 DEF CpuidAt, CpuidEntered, Gprs
  <2> QED
    BY <1>11, <2>1, <2>7 DEF w
<1>12. CASE p = 10
  <2> DEFINE w == Exec(n, <<"movl_reg_mesi", 0, "ecx">>)
  <2>1. prog[p] = <<"movl_reg_mesi", 0, "ecx">>
    BY <1>12, CpuidProgram
  <2>2. n.r.esi = 48 /\ 48 \in 0..84 /\ "ecx" \in Gprs
    BY <1>12 DEF CpuidAt, Gprs
  <2>3. w \in Machines /\ w.r = n.r /\ Wrote(w, n, 48, n.r.ecx)
    BY <1>1, <2>2, StoreThroughEsi DEF Puts
  <2> HIDE DEF w
  <2>4. Read32(w, 48) = n.r.ecx
    BY <2>3 DEF Wrote
  <2>5. Read32(w, 8) = Read32(n, 8) /\ Read32(w, 12) = Read32(n, 12) /\ Read32(w, 40) = Read32(n, 40) /\ Read32(w, 44) = Read32(n, 44) /\ Read32(w, 52) = Read32(n, 52)
    <3>1. ASSUME NEW b \in {8, 12, 40, 44, 52} PROVE Read32(w, b) = Read32(n, b)
      <4>1. b \in 0..84 /\ (b + 4 <= 48 \/ 48 + 4 <= b)
        OBVIOUS
      <4> QED
        BY <2>2, <2>3, <4>1, WroteElsewhere
    <3> QED
      BY <3>1
  <2>6. Frame(w, e, 16, CpuidOut)
    <3>1. 48 \in 0..84 /\ 16 \in 0..84 /\ WordAt(48) \subseteq CpuidOut
      BY DEF WordAt, CpuidOut
    <3> QED
      BY <1>1, <2>3, <3>1, WroteInside
  <2>7. CpuidAt(w, e, 11)
    BY <1>1, <1>2, <2>3, <2>4, <2>5, <2>6, <1>12 DEF CpuidAt, CpuidEntered, Gprs
  <2> QED
    BY <1>12, <2>1, <2>7 DEF w
<1>13. CASE p = 11
  <2> DEFINE w == Exec(n, <<"movl_to_ecx", "eax">>)
  <2>1. prog[p] = <<"movl_to_ecx", "eax">>
    BY <1>13, CpuidProgram
  <2>2. "eax" \in Gprs
    BY DEF Gprs
  <2>3. w \in Machines /\ w.r = [n.r EXCEPT !["ecx"] = n.r.eax] /\ w.mem = n.mem
    <3>1. Sets(w, n, "ecx", n.r.eax)
      BY <1>1, <2>2, MoveToEcx
    <3> QED
      BY <3>1 DEF Sets
  <2> HIDE DEF w
  <2>4. Frame(w, e, 16, CpuidOut) /\ \A b : Read32(w, b) = Read32(n, b)
    BY <1>1, <2>3, SameMemory
  <2>7. CpuidAt(w, e, 12)
    BY <1>1, <1>2, <2>3, <2>4, <1>13 DEF CpuidAt, CpuidEntered, Gprs
  <2> QED
    BY <1>13, <2>1, <2>7 DEF w
<1>14. CASE p = 12
  <2> DEFINE w == Exec(n, <<"movl_mesp_esi", 16>>)
  <2>1. prog[p] = <<"movl_mesp_esi", 16>>
    BY <1>14, CpuidProgram
  <2>2. n.r.esp + 16 = 24 /\ 24 \in 0..84
    BY <1>14 DEF CpuidAt
  <2>3. w \in Machines /\ w.r = [n.r EXCEPT !["esi"] = Read32(n, 24)] /\ w.mem = n.mem
    <3>1. Sets(w, n, "esi", Read32(n, 24))
      BY <1>1, <2>2, MoveToEsi
    <3> QED
      BY <3>1 DEF Sets
  <2> HIDE DEF w
  <2>4. Frame(w, e, 16, CpuidOut) /\ \A b : Read32(w, b) = Read32(n, b)
    BY <1>1, <2>3, SameMemory
  <2>7. CpuidAt(w, e, 13)
    BY <1>1, <1>2, <2>3, <2>4, <1>14 DEF CpuidAt, CpuidEntered, Gprs
  <2> QED
    BY <1>14, <2>1, <2>7 DEF w
<1>15. CASE p = 13
  <2> DEFINE w == Exec(n, <<"movl_reg_mesi", 0, "ecx">>)
  <2>1. prog[p] = <<"movl_reg_mesi", 0, "ecx">>
    BY <1>15, CpuidProgram
  <2>2. n.r.esi = 40 /\ 40 \in 0..84 /\ "ecx" \in Gprs
    BY <1>15 DEF CpuidAt, Gprs
  <2>3. w \in Machines /\ w.r = n.r /\ Wrote(w, n, 40, n.r.ecx)
    BY <1>1, <2>2, StoreThroughEsi DEF Puts
  <2> HIDE DEF w
  <2>4. Read32(w, 40) = n.r.ecx
    BY <2>3 DEF Wrote
  <2>5. Read32(w, 8) = Read32(n, 8) /\ Read32(w, 12) = Read32(n, 12) /\ Read32(w, 44) = Read32(n, 44) /\ Read32(w, 48) = Read32(n, 48) /\ Read32(w, 52) = Read32(n, 52)
    <3>1. ASSUME NEW b \in {8, 12, 44, 48, 52} PROVE Read32(w, b) = Read32(n, b)
      <4>1. b \in 0..84 /\ (b + 4 <= 40 \/ 40 + 4 <= b)
        OBVIOUS
      <4> QED
        BY <2>2, <2>3, <4>1, WroteElsewhere
    <3> QED
      BY <3>1
  <2>6. Frame(w, e, 16, CpuidOut)
    <3>1. 40 \in 0..84 /\ 16 \in 0..84 /\ WordAt(40) \subseteq CpuidOut
      BY DEF WordAt, CpuidOut
    <3> QED
      BY <1>1, <2>3, <3>1, WroteInside
  <2>7. CpuidAt(w, e, 14)
    BY <1>1, <1>2, <2>3, <2>4, <2>5, <2>6, <1>15 DEF CpuidAt, CpuidEntered, Gprs
  <2> QED
    BY <1>15, <2>1, <2>7 DEF w
<1>16. CASE p = 14
  <2> DEFINE w == Exec(n, <<"movl_to_ecx", "edx">>)
  <2>1. prog[p] = <<"movl_to_ecx", "edx">>
    BY <1>16, CpuidProgram
  <2>2. "edx" \in Gprs
    BY DEF Gprs
  <2>3. w \in Machines /\ w.r = [n.r EXCEPT !["ecx"] = n.r.edx] /\ w.mem = n.mem
    <3>1. Sets(w, n, "ecx", n.r.edx)
      BY <1>1, <2>2, MoveToEcx
    <3> QED
      BY <3>1 DEF Sets
  <2> HIDE DEF w
  <2>4. Frame(w, e, 16, CpuidOut) /\ \A b : Read32(w, b) = Read32(n, b)
    BY <1>1, <2>3, SameMemory
  <2>7. CpuidAt(w, e, 15)
    BY <1>1, <1>2, <2>3, <2>4, <1>16 DEF CpuidAt, CpuidEntered, Gprs
  <2> QED
    BY <1>16, <2>1, <2>7 DEF w
<1>17. CASE p = 15
  <2> DEFINE w == Exec(n, <<"movl_mesp_esi", 28>>)
  <2>1. prog[p] = <<"movl_mesp_esi", 28>>
    BY <1>17, CpuidProgram
  <2>2. n.r.esp + 28 = 36 /\ 36 \in 0..84
    BY <1>17 DEF CpuidAt
  <2>3. w \in Machines /\ w.r = [n.r EXCEPT !["esi"] = Read32(n, 36)] /\ w.mem = n.mem
    <3>1. Sets(w, n, "esi", Read32(n, 36))
      BY <1>1, <2>2, MoveToEsi
    <3> QED
      BY <3>1 DEF Sets
  <2> HIDE DEF w
  <2>4. Frame(w, e, 16, CpuidOut) /\ \A b : Read32(w, b) = Read32(n, b)
    BY <1>1, <2>3, SameMemory
  <2>7. CpuidAt(w, e, 16)
    BY <1>1, <1>2, <2>3, <2>4, <1>17 DEF CpuidAt, CpuidEntered, Gprs
  <2> QED
    BY <1>17, <2>1, <2>7 DEF w
<1>18. CASE p = 16
  <2> DEFINE w == Exec(n, <<"movl_reg_mesi", 0, "ecx">>)
  <2>1. prog[p] = <<"movl_reg_mesi", 0, "ecx">>
    BY <1>18, CpuidProgram
  <2>2. n.r.esi = 52 /\ 52 \in 0..84 /\ "ecx" \in Gprs
    BY <1>18 DEF CpuidAt, Gprs
  <2>3. w \in Machines /\ w.r = n.r /\ Wrote(w, n, 52, n.r.ecx)
    BY <1>1, <2>2, StoreThroughEsi DEF Puts
  <2> HIDE DEF w
  <2>4. Read32(w, 52) = n.r.ecx
    BY <2>3 DEF Wrote
  <2>5. Read32(w, 8) = Read32(n, 8) /\ Read32(w, 12) = Read32(n, 12) /\ Read32(w, 40) = Read32(n, 40) /\ Read32(w, 44) = Read32(n, 44) /\ Read32(w, 48) = Read32(n, 48)
    <3>1. ASSUME NEW b \in {8, 12, 40, 44, 48} PROVE Read32(w, b) = Read32(n, b)
      <4>1. b \in 0..84 /\ (b + 4 <= 52 \/ 52 + 4 <= b)
        OBVIOUS
      <4> QED
        BY <2>2, <2>3, <4>1, WroteElsewhere
    <3> QED
      BY <3>1
  <2>6. Frame(w, e, 16, CpuidOut)
    <3>1. 52 \in 0..84 /\ 16 \in 0..84 /\ WordAt(52) \subseteq CpuidOut
      BY DEF WordAt, CpuidOut
    <3> QED
      BY <1>1, <2>3, <3>1, WroteInside
  <2>7. CpuidAt(w, e, 17)
    BY <1>1, <1>2, <2>3, <2>4, <2>5, <2>6, <1>18 DEF CpuidAt, CpuidEntered, Gprs
  <2> QED
    BY <1>18, <2>1, <2>7 DEF w
<1>19. CASE p = 17
  <2> DEFINE w == Exec(n, <<"popl", "ebx">>)
  <2>1. prog[p] = <<"popl", "ebx">>
    BY <1>19, CpuidProgram
  <2>2. n.r.esp = 8 /\ 8 \in 0..84 /\ "ebx" \in Gprs /\ "ebx" # "esp"
    BY <1>19 DEF CpuidAt, Gprs
  <2>3. w \in Machines /\ w.r = [n.r EXCEPT !["esp"] = 8 + 4, !["ebx"] = Read32(n, 8)] /\ w.mem = n.mem
    BY <1>1, <2>2, PopReg, ZenonT(60)
  <2> HIDE DEF w
  <2>4. Frame(w, e, 16, CpuidOut) /\ \A b : Read32(w, b) = Read32(n, b)
    BY <1>1, <2>3, SameMemory
  <2>7. CpuidAt(w, e, 18)
    BY <1>1, <1>2, <2>3, <2>4, <1>19 DEF CpuidAt, CpuidEntered, Gprs
  <2> QED
    BY <1>19, <2>1, <2>7 DEF w
<1>20. CASE p = 18
  <2> DEFINE w == Exec(n, <<"popl", "esi">>)
  <2>1. prog[p] = <<"popl", "esi">>
    BY <1>20, CpuidProgram
  <2>2. n.r.esp = 12 /\ 12 \in 0..84 /\ "esi" \in Gprs /\ "esi" # "esp"
    BY <1>20 DEF CpuidAt, Gprs
  <2>3. w \in Machines /\ w.r = [n.r EXCEPT !["esp"] = 12 + 4, !["esi"] = Read32(n, 12)] /\ w.mem = n.mem
    BY <1>1, <2>2, PopReg, ZenonT(60)
  <2> HIDE DEF w
  <2>4. Frame(w, e, 16, CpuidOut) /\ \A b : Read32(w, b) = Read32(n, b)
    BY <1>1, <2>3, SameMemory
  <2>7. CpuidAt(w, e, 19)
    BY <1>1, <1>2, <2>3, <2>4, <1>20 DEF CpuidAt, CpuidEntered, Gprs
  <2> QED
    BY <1>20, <2>1, <2>7 DEF w
<1> QED
  BY <1>3, <1>4, <1>5, <1>6, <1>7, <1>8, <1>9, <1>10, <1>11, <1>12, <1>13, <1>14, <1>15, <1>16, <1>17, <1>18, <1>19, <1>20

(* The stack pointer is at s; memory from lo up and the registers of the
   caller are as they were on entry. *)
Deep(n, e, lo, s) ==
  /\ n \in Machines /\ n.r.esp = s
  /\ n.r.ebx = 5 /\ n.r.esi = 6 /\ n.r.edi = 7
  /\ Frame(n, e, lo, {})

LEMMA DeepQuiet ==
  ASSUME NEW n, NEW w, NEW e, NEW lo, NEW s,
         w \in Machines
  PROVE  Deep(n, e, lo, s) /\ Same(w, n) => Deep(w, e, lo, s)
  BY DEF Deep, Same, Frame
LEMMA DeepSets ==
  ASSUME NEW n, NEW w, NEW e, NEW lo, NEW s, NEW reg, NEW v, reg \in Scratch
  PROVE  Deep(n, e, lo, s) /\ Sets(w, n, reg, v) => Deep(w, e, lo, s) /\ w.r[reg] = v
<1> SUFFICES ASSUME Deep(n, e, lo, s), Sets(w, n, reg, v) PROVE Deep(w, e, lo, s) /\ w.r[reg] = v
  OBVIOUS
<1>1. n.r \in [Gprs -> Words] /\ reg \in Gprs
  BY Parts DEF Deep, Scratch, Gprs
<1>2. /\ w.r.esp = n.r.esp /\ w.r.ebx = n.r.ebx /\ w.r.esi = n.r.esi /\ w.r.edi = n.r.edi
      /\ w.r[reg] = v
  BY <1>1 DEF Sets, Scratch, Gprs
<1> QED
  BY <1>2 DEF Deep, Frame, Sets
LEMMA DeepPuts ==
  ASSUME NEW n, NEW w, NEW e, NEW lo, NEW s, NEW a, NEW v,
         lo \in 0..84, a \in 0..84
  PROVE  Deep(n, e, lo, s) /\ Puts(w, n, a, v) /\ a + 4 <= lo => Deep(w, e, lo, s)
<1> SUFFICES ASSUME Deep(n, e, lo, s), Puts(w, n, a, v), a + 4 <= lo PROVE Deep(w, e, lo, s)
  OBVIOUS
<1>1. Frame(w, e, lo, {})
  BY WroteBelow DEF Deep, Puts
<1> QED
  BY <1>1 DEF Deep, Puts
LEMMA DeepAdd ==
  ASSUME NEW n, NEW e, NEW lo, NEW s, NEW k,
         s \in 0..84, k \in 0..16
  PROVE  Deep(n, e, lo, s) => Deep(addl_imm_esp(n, k), e, lo, s + k)
<1> SUFFICES ASSUME Deep(n, e, lo, s) PROVE Deep(addl_imm_esp(n, k), e, lo, s + k)
  OBVIOUS
<1> DEFINE w == addl_imm_esp(n, k)
<1>1. n \in Machines /\ n.r.esp = s /\ n.r.esp \in 0..88 /\ n.r \in [Gprs -> Words]
  BY Parts DEF Deep
<1>2. w \in Machines /\ w.r = [n.r EXCEPT !["esp"] = s + k] /\ w.mem = n.mem
  BY <1>1, AddEsp
<1> HIDE DEF w
<1>3. w.r.esp = s + k /\ w.r.ebx = n.r.ebx /\ w.r.esi = n.r.esi /\ w.r.edi = n.r.edi
  BY <1>1, <1>2 DEF Gprs
<1>4. Deep(w, e, lo, s + k)
  BY <1>2, <1>3 DEF Deep, Frame
<1> QED
  BY <1>4 DEF w
LEMMA DeepSub ==
  ASSUME NEW n, NEW e, NEW lo, NEW s, NEW k,
         s \in 0..84, k \in 0..16
  PROVE  Deep(n, e, lo, s) /\ k <= s => Deep(subl_imm_esp(n, k), e, lo, s - k)
<1> SUFFICES ASSUME Deep(n, e, lo, s), k <= s PROVE Deep(subl_imm_esp(n, k), e, lo, s - k)
  OBVIOUS
<1> DEFINE w == subl_imm_esp(n, k)
<1>1. n \in Machines /\ n.r.esp = s /\ n.r.esp \in k..88 /\ n.r \in [Gprs -> Words]
  BY Parts DEF Deep
<1>2. w \in Machines /\ w.r = [n.r EXCEPT !["esp"] = s - k] /\ w.mem = n.mem
  BY <1>1, SubEsp
<1> HIDE DEF w
<1>3. w.r.esp = s - k /\ w.r.ebx = n.r.ebx /\ w.r.esi = n.r.esi /\ w.r.edi = n.r.edi
  BY <1>1, <1>2 DEF Gprs
<1>4. Deep(w, e, lo, s - k)
  BY <1>2, <1>3 DEF Deep, Frame
<1> QED
  BY <1>4 DEF w
LEMMA DeepPush ==
  ASSUME NEW n, NEW e, NEW lo, NEW s, NEW v,
         lo \in 0..84, s \in 4..84, v \in Words
  PROVE  Deep(n, e, lo, s) /\ s <= lo =>
           /\ Deep(pushl_mem(n, v), e, lo, s - 4) /\ Wrote(pushl_mem(n, v), n, s - 4, v)
           /\ pushl_mem(n, v).r.eax = n.r.eax /\ pushl_mem(n, v).fl = n.fl
<1> SUFFICES ASSUME Deep(n, e, lo, s), s <= lo
             PROVE  /\ Deep(pushl_mem(n, v), e, lo, s - 4) /\ Wrote(pushl_mem(n, v), n, s - 4, v)
                    /\ pushl_mem(n, v).r.eax = n.r.eax /\ pushl_mem(n, v).fl = n.fl
  OBVIOUS
<1> DEFINE w == pushl_mem(n, v)
<1>1. n \in Machines /\ n.r.esp = s /\ n.r.esp \in 4..88 /\ n.r \in [Gprs -> Words]
  BY Parts DEF Deep
<1>2. w \in Machines /\ w.r = [n.r EXCEPT !["esp"] = s - 4] /\ w.fl = n.fl /\ Wrote(w, n, s - 4, v)
  BY <1>1, Pushing
<1> HIDE DEF w
<1>3. w.r.esp = s - 4 /\ w.r.eax = n.r.eax /\ w.r.ebx = n.r.ebx /\ w.r.esi = n.r.esi /\ w.r.edi = n.r.edi
  BY <1>1, <1>2 DEF Gprs
<1>4. Frame(w, e, lo, {})
  <2>1. PICK a \in 0..84 : a = s - 4 /\ a + 4 <= lo
    OBVIOUS
  <2>2. Wrote(w, n, a, v) /\ Frame(n, e, lo, {})
    BY <1>2, <2>1 DEF Deep
  <2> QED
    BY <2>1, <2>2, WroteBelow
<1>5. Deep(w, e, lo, s - 4)
  BY <1>2, <1>3, <1>4 DEF Deep
<1> QED
  BY <1>2, <1>3, <1>5 DEF w
LEMMA DeepPop ==
  ASSUME NEW n, NEW e, NEW lo, NEW s, NEW reg,
         s \in 0..84, reg \in Scratch
  PROVE  Deep(n, e, lo, s) =>
           Deep(popl(n, reg), e, lo, s + 4) /\ popl(n, reg).r[reg] = Read32(n, s)
<1> SUFFICES ASSUME Deep(n, e, lo, s)
             PROVE  Deep(popl(n, reg), e, lo, s + 4) /\ popl(n, reg).r[reg] = Read32(n, s)
  OBVIOUS
<1> DEFINE w == popl(n, reg)
<1>1. n \in Machines /\ n.r.esp = s /\ n.r.esp \in 0..84 /\ n.r \in [Gprs -> Words] /\ reg \in Gprs /\ reg # "esp"
  BY Parts DEF Deep, Scratch, Gprs
<1>2. w \in Machines /\ w.r = [n.r EXCEPT !["esp"] = s + 4, ![reg] = Read32(n, s)] /\ w.mem = n.mem
  BY <1>1, Pops
<1> HIDE DEF w
<1>3. w.r.esp = s + 4 /\ w.r.ebx = n.r.ebx /\ w.r.esi = n.r.esi /\ w.r.edi = n.r.edi /\ w.r[reg] = Read32(n, s)
  BY <1>1, <1>2 DEF Gprs, Scratch
<1>4. Deep(w, e, lo, s + 4)
  BY <1>2, <1>3 DEF Deep, Frame
<1> QED
  BY <1>3, <1>4 DEF w
LEMMA DeepReturns ==
  ASSUME NEW n, NEW e, NEW k, NEW op,
         k \in 0..84, op \in {"ret", "retu32", "retu64"}
  PROVE  Deep(n, e, k, k) /\ e.r.esp = k /\ Read32(e, k) = CASM_RET_EIP =>
           LeftFrame(Return(n, op), e, {})
<1> SUFFICES ASSUME Deep(n, e, k, k), e.r.esp = k, Read32(e, k) = CASM_RET_EIP
             PROVE  LeftFrame(Return(n, op), e, {})
  OBVIOUS
<1>1. Frame(n, e, k, {}) /\ k >= k /\ WordAt(k) \cap {} = {}
  BY DEF Deep
<1>2. Read32(n, k) = Read32(e, k)
  BY <1>1, FrameReads
<1> QED
  BY <1>1, <1>2, ReturnsTo DEF Deep

(* A write of a descriptor below an address. *)
LEMMA DeepDescriptor ==
  ASSUME NEW n, NEW e, NEW lo, NEW s, NEW gap, NEW limit, NEW base,
         lo \in 0..84, s \in 0..76, gap \in {2, 4}, limit \in Words, base \in Words
  PROVE  Deep(n, e, lo, s) /\ s + 8 <= lo => Deep(Write32(Write16(n, s, limit), s + gap, base), e, lo, s)
<1> SUFFICES ASSUME Deep(n, e, lo, s), s + 8 <= lo
             PROVE  Deep(Write32(Write16(n, s, limit), s + gap, base), e, lo, s)
  OBVIOUS
<1> DEFINE u == Write16(n, s, limit)
<1>1. s \in 0..86 /\ limit \in Nat /\ n \in Machines
  BY WidthNumbers DEF Words, Deep
<1>2. u \in Machines /\ u.r = n.r /\ \A b \in Memory : b # s /\ b # s + 1 => u.mem[b] = n.mem[b]
  BY <1>1, WritesHalf
<1> HIDE DEF u
<1>3. Deep(u, e, lo, s)
  <2>1. ASSUME NEW d \in Memory, d >= lo PROVE u.mem[d] = e.mem[d]
    <3>1. d # s /\ d # s + 1
      BY <2>1 DEF Memory
    <3> QED
      BY <1>2, <2>1, <3>1 DEF Deep, Frame
  <2> QED
    BY <1>2, <2>1 DEF Deep, Frame
<1>4. PICK a \in 0..84 : a = s + gap /\ a + 4 <= lo
  OBVIOUS
<1>5. Puts(Write32(u, a, base), u, a, base)
  BY <1>2, Stores DEF Puts
<1> QED
  BY <1>3, <1>4, <1>5, DeepPuts DEF u

(* What the functions with parameters of their own find on entry. *)
Entered(e, s) ==
  /\ e \in Machines /\ e.r.esp = s /\ e.r.ebx = 5 /\ e.r.esi = 6 /\ e.r.edi = 7
  /\ Read32(e, s) = CASM_RET_EIP

(* getgdtbase, getidtbase: room for a descriptor. *)
DescriptorFns == {"getgdtbase", "getidtbase"}
DescriptorAt(n, e, p) ==
  /\ p \in {1, 5} => Deep(n, e, 32, 32)
  /\ p \in 2..4 => Deep(n, e, 32, 24)

LEMMA DescriptorProgram ==
  ASSUME NEW f \in DescriptorFns
  PROVE  /\ DOMAIN Program[f] = 1..5
         /\ Program[f][1] = <<"subl_imm_esp", 8>>
         /\ Program[f][2] = <<"sgdt_mesp", 0>> \/ Program[f][2] = <<"sidt_mesp", 0>>
         /\ Program[f][3] = <<"movl_mesp", 2, "eax">>
         /\ Program[f][4] = <<"addl_imm_esp", 8>>
         /\ Program[f][5] = <<"retu32">>
<1>1. Program["getgdtbase"] = <<<<"subl_imm_esp", 8>>, <<"sgdt_mesp", 0>>, <<"movl_mesp", 2, "eax">>,
    <<"addl_imm_esp", 8>>, <<"retu32">>>>
  BY DEF Program, getgdtbase
<1>2. Program["getidtbase"] = <<<<"subl_imm_esp", 8>>, <<"sidt_mesp", 0>>, <<"movl_mesp", 2, "eax">>,
    <<"addl_imm_esp", 8>>, <<"retu32">>>>
  BY DEF Program, getidtbase
<1>3. CASE f = "getgdtbase"
  BY <1>1, <1>3
<1>4. CASE f = "getidtbase"
  BY <1>2, <1>4
<1> QED
  BY <1>3, <1>4 DEF DescriptorFns

LEMMA DescriptorStep ==
  ASSUME NEW e, NEW n, NEW f \in DescriptorFns, NEW p \in 1..4, DescriptorAt(n, e, p)
  PROVE  DescriptorAt(Exec(n, Program[f][p]), e, p + 1)
<1> DEFINE prog == Program[f]
<1>1. 8 \in 0..16 /\ 24 \in 0..84 /\ 32 \in 0..84
  OBVIOUS
<1>2. CASE p = 1
  <2>1. Deep(n, e, 32, 32)
    BY <1>2 DEF DescriptorAt
  <2>2. Exec(n, prog[1]) = subl_imm_esp(n, 8)
    BY DescriptorProgram, ExecOperations
  <2>3. Deep(subl_imm_esp(n, 8), e, 32, 32 - 8)
    BY <1>1, <2>1, DeepSub
  <2> QED
    BY <1>2, <2>2, <2>3 DEF DescriptorAt
<1>3. CASE p = 2
  <2>1. Deep(n, e, 32, 24)
    BY <1>3 DEF DescriptorAt
  <2>2. At(n, "esp", 0) = 24
    BY <2>1 DEF At, Deep
  <2>3. n.sys.gdtr.limit \in Words /\ n.sys.gdtr.base \in Words /\ n.sys.idtr.limit \in Words /\ n.sys.idtr.base \in Words
    BY <2>1, SysParts DEF Deep
  <2>4. 24 \in 0..76 /\ 24 + 8 <= 32 /\ 2 \in {2, 4} /\ 4 \in {2, 4} /\ 32 \in 0..84
    OBVIOUS
  <2>5. Deep(sgdt_mesp(n, 0), e, 32, 24)
    <3>1. Deep(Write32(Write16(n, 24, n.sys.gdtr.limit), 24 + 2, n.sys.gdtr.base), e, 32, 24)
      BY <2>1, <2>3, <2>4, DeepDescriptor
    <3> QED
      BY <2>2, <3>1 DEF sgdt_mesp
  <2>6. Deep(sidt_mesp(n, 0), e, 32, 24)
    <3>1. Deep(Write32(Write16(n, 24, n.sys.idtr.limit), 24 + 4, n.sys.idtr.base), e, 32, 24)
      BY <2>1, <2>3, <2>4, DeepDescriptor
    <3> QED
      BY <2>2, <3>1 DEF sidt_mesp
  <2>7. Exec(n, prog[2]) = sgdt_mesp(n, 0) \/ Exec(n, prog[2]) = sidt_mesp(n, 0)
    <3>1. Exec(n, <<"sgdt_mesp", 0>>) = sgdt_mesp(n, 0) /\ Exec(n, <<"sidt_mesp", 0>>) = sidt_mesp(n, 0)
      BY ExecSystems
    <3>2. prog[2] = <<"sgdt_mesp", 0>> \/ prog[2] = <<"sidt_mesp", 0>>
      BY DescriptorProgram
    <3> QED
      BY <3>1, <3>2
  <2>8. Deep(Exec(n, prog[2]), e, 32, 24)
    BY <2>5, <2>6, <2>7
  <2> QED
    BY <1>3, <2>8 DEF DescriptorAt
<1>4. CASE p = 3
  <2>1. Deep(n, e, 32, 24)
    BY <1>4 DEF DescriptorAt
  <2>2. n \in Machines /\ n.r.esp + 2 = 26 /\ 26 \in 0..84 /\ "eax" \in Gprs /\ "eax" \in Scratch
    BY <2>1 DEF Deep, Gprs, Scratch
  <2>3. Sets(Exec(n, <<"movl_mesp", 2, "eax">>), n, "eax", Read32(n, 26))
    BY <2>2, MoveFromStack
  <2>4. prog[3] = <<"movl_mesp", 2, "eax">>
    BY DescriptorProgram
  <2>5. Deep(Exec(n, <<"movl_mesp", 2, "eax">>), e, 32, 24)
    BY <2>1, <2>2, <2>3, DeepSets
  <2> QED
    BY <1>4, <2>4, <2>5 DEF DescriptorAt
<1>5. CASE p = 4
  <2>1. Deep(n, e, 32, 24)
    BY <1>5 DEF DescriptorAt
  <2>2. Exec(n, prog[4]) = addl_imm_esp(n, 8)
    BY DescriptorProgram, ExecOperations
  <2>3. Deep(addl_imm_esp(n, 8), e, 32, 24 + 8)
    BY <1>1, <2>1, DeepAdd
  <2> QED
    BY <1>5, <2>2, <2>3 DEF DescriptorAt
<1> QED
  BY <1>2, <1>3, <1>4, <1>5

(* read_eflags, write_eflags: one word on the stack. *)
EflagsFns == {"read_eflags", "write_eflags"}
EflagsAt(n, e, p) ==
  /\ p \in {1, 3} => Deep(n, e, 32, 32)
  /\ p = 2 => Deep(n, e, 32, 28)
LEMMA EflagsProgram ==
  /\ DOMAIN Program["read_eflags"] = 1..3 /\ Program["read_eflags"][1] = <<"pushfl">>
  /\ Program["read_eflags"][2] = <<"popl", "eax">> /\ Program["read_eflags"][3] = <<"retu32">>
  /\ DOMAIN Program["write_eflags"] = 1..3 /\ Program["write_eflags"][1] = <<"pushl_mesp", 4>>
  /\ Program["write_eflags"][2] = <<"popfl">> /\ Program["write_eflags"][3] = <<"ret">>
<1>1. Program["read_eflags"] = <<<<"pushfl">>, <<"popl", "eax">>, <<"retu32">>>>
  BY DEF Program, read_eflags
<1>2. Program["write_eflags"] = <<<<"pushl_mesp", 4>>, <<"popfl">>, <<"ret">>>>
  BY DEF Program, write_eflags
<1> QED
  BY <1>1, <1>2
LEMMA EflagsStep ==
  ASSUME NEW e, NEW n, NEW f \in EflagsFns, NEW p \in 1..2, EflagsAt(n, e, p)
  PROVE  EflagsAt(Exec(n, Program[f][p]), e, p + 1)
<1>1. CASE p = 1
  <2>1. Deep(n, e, 32, 32) /\ n \in Machines /\ n.r.esp = 32
    BY <1>1 DEF EflagsAt, Deep
  <2>2. PICK v : v \in Words /\ Exec(n, Program[f][1]) = pushl_mem(n, v)
    <3>1. CASE f = "read_eflags"
      <4>1. Exec(n, Program[f][1]) = pushl_mem(n, n.fl)
        BY <3>1, EflagsProgram, ExecStackMoves DEF pushfl
      <4> QED
        BY <2>1, <4>1, Parts
    <3>2. CASE f = "write_eflags"
      <4>1. Exec(n, Program[f][1]) = pushl_mesp(n, 4)
        BY <3>2, EflagsProgram, ExecStackMoves
      <4>2. At(n, "esp", 4) = 36 /\ 36 \in 0..84
        BY <2>1 DEF At
      <4>3. pushl_mesp(n, 4) = pushl_mem(n, Read32(n, 36))
        BY <4>2 DEF pushl_mesp
      <4>4. Read32(n, 36) \in Words
        BY <2>1, <4>2, Parts, ReadsWord
      <4> QED
        BY <4>1, <4>3, <4>4
    <3> QED
      BY <3>1, <3>2 DEF EflagsFns
  <2>3. 32 \in 0..84 /\ 32 \in 4..84 /\ 32 <= 32
    OBVIOUS
  <2>4. Deep(pushl_mem(n, v), e, 32, 32 - 4)
    BY <2>1, <2>2, <2>3, DeepPush
  <2> QED
    BY <1>1, <2>2, <2>4 DEF EflagsAt
<1>2. CASE p = 2
  <2>1. Deep(n, e, 32, 28) /\ n \in Machines /\ n.r.esp = 28 /\ 28 \in 0..84
    BY <1>2 DEF EflagsAt, Deep
  <2>2. Deep(Exec(n, Program[f][2]), e, 32, 32)
    <3>1. CASE f = "read_eflags"
      <4>1. Exec(n, Program[f][2]) = popl(n, "eax")
        BY <3>1, EflagsProgram, ExecStackMoves
      <4>2. "eax" \in Scratch
        BY DEF Scratch
      <4>3. Deep(popl(n, "eax"), e, 32, 28 + 4)
        BY <2>1, <4>2, DeepPop
      <4> QED
        BY <4>1, <4>3
    <3>2. CASE f = "write_eflags"
      <4>1. Exec(n, Program[f][2]) = popfl(n)
        BY <3>2, EflagsProgram, ExecStackMoves
      <4> DEFINE u == addl_imm_esp(n, 4)
                 v == Read32(n, 28)
      <4>2. Deep(u, e, 32, 28 + 4)
        <5>1. 4 \in 0..16
          OBVIOUS
        <5> QED
          BY <2>1, <5>1, DeepAdd
      <4>3. v \in Words
        BY <2>1, Parts, ReadsWord
      <4>4. popfl(n) = [u EXCEPT !.fl = v]
        BY <2>1 DEF popfl
      <4> HIDE DEF u, v
      <4>5. [u EXCEPT !.fl = v] \in Machines /\ Same([u EXCEPT !.fl = v], u)
        BY <4>2, <4>3, SetsFlags DEF Deep
      <4>6. Deep([u EXCEPT !.fl = v], e, 32, 28 + 4)
        BY <4>2, <4>5, DeepQuiet
      <4> QED
        BY <4>1, <4>4, <4>6
    <3> QED
      BY <3>1, <3>2 DEF EflagsFns
  <2> QED
    BY <1>2, <2>2 DEF EflagsAt
<1> QED
  BY <1>1, <1>2

(* xmhfhw_cpu_loadGDT, xmhfhw_cpu_loadIDT: the address of the descriptor. *)
LoadFns == {"xmhfhw_cpu_loadGDT", "xmhfhw_cpu_loadIDT"}
LoadAt(n, e, p) == Deep(n, e, 32, 32) /\ (p = 2 => n.r.ecx = Desc)
LEMMA LoadProgram ==
  ASSUME NEW f \in LoadFns
  PROVE  /\ DOMAIN Program[f] = 1..3 /\ Program[f][1] = <<"movl_mesp", 4, "ecx">>
         /\ Program[f][2] = <<"lgdt_mecx", 0>> \/ Program[f][2] = <<"lidt_mecx", 0>>
         /\ Program[f][3] = <<"ret">>
<1>1. Program["xmhfhw_cpu_loadGDT"] = <<<<"movl_mesp", 4, "ecx">>, <<"lgdt_mecx", 0>>, <<"ret">>>>
  BY DEF Program, FromArg
<1>2. Program["xmhfhw_cpu_loadIDT"] = <<<<"movl_mesp", 4, "ecx">>, <<"lidt_mecx", 0>>, <<"ret">>>>
  BY DEF Program, FromArg
<1>3. CASE f = "xmhfhw_cpu_loadGDT"
  BY <1>1, <1>3
<1>4. CASE f = "xmhfhw_cpu_loadIDT"
  BY <1>2, <1>4
<1> QED
  BY <1>3, <1>4 DEF LoadFns
LEMMA LoadStep ==
  ASSUME NEW e, Read32(e, 36) = Desc, NEW n, NEW f \in LoadFns, NEW p \in 1..2, LoadAt(n, e, p)
  PROVE  LoadAt(Exec(n, Program[f][p]), e, p + 1)
<1>0. Deep(n, e, 32, 32) /\ n \in Machines /\ n.r.esp = 32
  BY DEF LoadAt, Deep
<1>1. CASE p = 1
  <2>1. n.r.esp + 4 = 36 /\ 36 \in 0..84 /\ 32 \in 0..84 /\ 36 >= 32 /\ "ecx" \in Gprs /\ "ecx" \in Scratch
    BY <1>0 DEF Gprs, Scratch
  <2>2. Sets(Exec(n, <<"movl_mesp", 4, "ecx">>), n, "ecx", Read32(n, 36))
    BY <1>0, <2>1, MoveFromStack
  <2>3. Read32(n, 36) = Read32(e, 36)
    <3>1. Frame(n, e, 32, {}) /\ WordAt(36) \cap {} = {}
      BY <1>0 DEF Deep
    <3> QED
      BY <2>1, <3>1, FrameReads
  <2>4. Program[f][1] = <<"movl_mesp", 4, "ecx">>
    BY LoadProgram
  <2> DEFINE w == Exec(n, Program[f][1])
  <2>5. Sets(w, n, "ecx", Desc)
    BY <2>2, <2>3, <2>4
  <2> HIDE DEF w
  <2>6. Deep(w, e, 32, 32) /\ w.r["ecx"] = Desc
    BY <1>0, <2>1, <2>5, DeepSets
  <2> QED
    BY <1>1, <2>6 DEF LoadAt, w
<1>2. CASE p = 2
  <2>1. n.r.ecx = 56
    BY <1>2 DEF LoadAt, Desc
  <2> DEFINE d == [limit |-> Read16(n, 56), base |-> Read32(n, 56 + 2)]
  <2>2. d \in [limit : Words, base : Words]
    <3>1. 56 \in 0..86 /\ 56 + 2 \in 0..84 /\ n.mem \in [Memory -> Bytes]
      BY <1>0, Parts
    <3>2. Read16(n, 56) \in Words /\ Read32(n, 56 + 2) \in Words
      BY <3>1, ReadsHalf, ReadsWord
    <3> QED
      BY <3>2
  <2>3. At(n, "ecx", 0) = 56
    BY <2>1 DEF At
  <2>4. Exec(n, Program[f][2]) = lgdt_mecx(n, 0) \/ Exec(n, Program[f][2]) = lidt_mecx(n, 0)
    <3>1. Exec(n, <<"lgdt_mecx", 0>>) = lgdt_mecx(n, 0) /\ Exec(n, <<"lidt_mecx", 0>>) = lidt_mecx(n, 0)
      BY ExecSystems
    <3>2. Program[f][2] = <<"lgdt_mecx", 0>> \/ Program[f][2] = <<"lidt_mecx", 0>>
      BY LoadProgram
    <3> QED
      BY <3>1, <3>2
  <2>5. lgdt_mecx(n, 0) = [n EXCEPT !.sys.gdtr = d] /\ lidt_mecx(n, 0) = [n EXCEPT !.sys.idtr = d]
    BY <2>3 DEF lgdt_mecx, lidt_mecx
  <2> HIDE DEF d
  <2>6. n.sys \in SysStates
    BY <1>0, Parts
  <2>7. [n.sys EXCEPT !.gdtr = d] \in SysStates /\ [n.sys EXCEPT !.idtr = d] \in SysStates
    BY <2>2, <2>6 DEF SysStates
  <2>8. /\ [n EXCEPT !.sys.gdtr = d] = [n EXCEPT !.sys = [n.sys EXCEPT !.gdtr = d]]
        /\ [n EXCEPT !.sys.idtr = d] = [n EXCEPT !.sys = [n.sys EXCEPT !.idtr = d]]
    BY <1>0 DEF Machines
  <2>9. \E sys \in SysStates : Exec(n, Program[f][2]) = [n EXCEPT !.sys = sys]
    BY <2>4, <2>5, <2>7, <2>8
  <2>10. PICK w : w = Exec(n, Program[f][2]) /\ w \in Machines /\ Same(w, n)
    BY <1>0, <2>9, SetsSys
  <2>11. Deep(w, e, 32, 32)
    BY <1>0, <2>10, DeepQuiet
  <2> QED
    BY <1>2, <2>10, <2>11 DEF LoadAt
<1> QED
  BY <1>1, <1>2

LEMMA XorSets == ASSUME NEW n \in Machines PROVE Sets(xorl(n, "eax"), n, "eax", 0)
<1>1. "eax" \in Gprs /\ 0 \in Words
  BY WidthNumbers DEF Gprs, Words
<1>2. n.r \in [Gprs -> Words]
  BY Parts
<1>3. [n.r EXCEPT !["eax"] = 0] \in [Gprs -> Words]
  BY <1>1, <1>2
<1>4. xorl(n, "eax") = [n EXCEPT !.r = [n.r EXCEPT !["eax"] = 0]]
  BY DEF xorl, Machines
<1>5. PICK regs \in [Gprs -> Words] : regs = [n.r EXCEPT !["eax"] = 0]
  BY <1>3
<1> DEFINE w == [n EXCEPT !.r = regs]
<1>6. w \in Machines /\ w.r = regs /\ w.fl = n.fl /\ w.mem = n.mem
  BY RegsTyped
<1> HIDE DEF w
<1>7. Sets(w, n, "eax", 0)
  BY <1>5, <1>6 DEF Sets
<1> QED
  BY <1>4, <1>5, <1>7 DEF w
LEMMA StoreOnStack ==
  ASSUME NEW n, NEW k, NEW a,
         n \in Machines, a \in 0..84
  PROVE  n.r.esp + k = a =>
           /\ Puts(Exec(n, <<"movl_eax_mesp", k>>), n, a, n.r.eax)
           /\ Puts(Exec(n, <<"movl_imm_mesp", 0, k>>), n, a, 0)
<1> SUFFICES ASSUME n.r.esp + k = a
             PROVE  /\ Puts(Exec(n, <<"movl_eax_mesp", k>>), n, a, n.r.eax)
                    /\ Puts(Exec(n, <<"movl_imm_mesp", 0, k>>), n, a, 0)
  OBVIOUS
<1>1. n.r.eax \in Words /\ 0 \in Words
  BY Parts, WidthNumbers DEF Words, Gprs
<1>2. Exec(n, <<"movl_eax_mesp", k>>) = movl_eax_mesp(n, k)
  BY ExecMoves
<1>3. Exec(n, <<"movl_imm_mesp", 0, k>>) = movl_imm_mesp(n, 0, k)
  BY ExecMoves
<1>4. At(n, "esp", k) = a
  BY DEF At
<1>5. movl_eax_mesp(n, k) = Write32(n, a, n.r.eax) /\ movl_imm_mesp(n, 0, k) = Write32(n, a, 0)
  BY <1>4 DEF movl_eax_mesp, movl_imm_mesp
<1>6. ASSUME NEW v \in Words PROVE Puts(Write32(n, a, v), n, a, v)
  BY Stores DEF Puts
<1> QED
  BY <1>1, <1>2, <1>3, <1>5, <1>6

(* vmx_invept: room for the operand. *)
InveptAt(n, e, p) ==
  /\ p \in {1, 16} => Deep(n, e, 20, 20)
  /\ p \in 2..15 => Deep(n, e, 20, 4)
LEMMA InveptProgram ==
  LET prog == Program["vmx_invept"]
  IN  /\ DOMAIN prog = 1..16
      /\ prog[1] = <<"subl_imm_esp", 16>>
      /\ prog[2] = <<"movl_mesp", 20, "edx">>
      /\ prog[3] = <<"movl_mesp", 28, "eax">>
      /\ prog[4] = <<"movl_eax_mesp", 0>>
      /\ prog[5] = <<"movl_mesp", 32, "eax">>
      /\ prog[6] = <<"movl_eax_mesp", 4>>
      /\ prog[7] = <<"movl_imm_mesp", 0, 8>>
      /\ prog[8] = <<"movl_imm_mesp", 0, 12>>
      /\ prog[9] = <<"invept_mesp_edx">>
      /\ prog[10] = <<"jc", 14>>
      /\ prog[11] = <<"jz", 14>>
      /\ prog[12] = <<"xorl", "eax">>
      /\ prog[13] = <<"jmplabel", 15>>
      /\ prog[14] = <<"movl_imm", 1, "eax">>
      /\ prog[15] = <<"addl_imm_esp", 16>>
      /\ prog[16] = <<"retu32">>
<1> DEFINE prog == vmx_invept
<1>1. Program["vmx_invept"] = prog
  BY DEF Program
<1>2. DOMAIN prog = 1..16
  BY DEF vmx_invept
<1>3. prog[1] = <<"subl_imm_esp", 16>>
  BY DEF vmx_invept
<1>4. prog[2] = <<"movl_mesp", 20, "edx">>
  BY DEF vmx_invept
<1>5. prog[3] = <<"movl_mesp", 28, "eax">>
  BY DEF vmx_invept
<1>6. prog[4] = <<"movl_eax_mesp", 0>>
  BY DEF vmx_invept
<1>7. prog[5] = <<"movl_mesp", 32, "eax">>
  BY DEF vmx_invept
<1>8. prog[6] = <<"movl_eax_mesp", 4>>
  BY DEF vmx_invept
<1>9. prog[7] = <<"movl_imm_mesp", 0, 8>>
  BY DEF vmx_invept
<1>10. prog[8] = <<"movl_imm_mesp", 0, 12>>
  BY DEF vmx_invept
<1>11. prog[9] = <<"invept_mesp_edx">>
  BY DEF vmx_invept
<1>12. prog[10] = <<"jc", 14>>
  BY DEF vmx_invept
<1>13. prog[11] = <<"jz", 14>>
  BY DEF vmx_invept
<1>14. prog[12] = <<"xorl", "eax">>
  BY DEF vmx_invept
<1>15. prog[13] = <<"jmplabel", 15>>
  BY DEF vmx_invept
<1>16. prog[14] = <<"movl_imm", 1, "eax">>
  BY DEF vmx_invept
<1>17. prog[15] = <<"addl_imm_esp", 16>>
  BY DEF vmx_invept
<1>18. prog[16] = <<"retu32">>
  BY DEF vmx_invept
<1> HIDE DEF prog
<1> QED
  BY <1>1, <1>2, <1>3, <1>4, <1>5, <1>6, <1>7, <1>8, <1>9, <1>10, <1>11, <1>12, <1>13, <1>14, <1>15, <1>16, <1>17, <1>18
LEMMA InveptStep ==
  ASSUME NEW e, NEW n, NEW p \in (1..15) \ {10, 11, 13}, InveptAt(n, e, p)
  PROVE  InveptAt(Exec(n, Program["vmx_invept"][p]), e, p + 1)
<1> DEFINE prog == Program["vmx_invept"]
<1>1. 16 \in 0..16 /\ 4 \in 0..84 /\ 20 \in 0..84 /\ "eax" \in Gprs /\ "edx" \in Gprs /\ "eax" \in Scratch /\ "edx" \in Scratch
  BY DEF Gprs, Scratch
<1>3. CASE p = 1
  <2>1. Deep(n, e, 20, 20) /\ n \in Machines /\ n.r.esp = 20
    BY <1>3 DEF InveptAt, Deep
  <2>2. prog[1] = <<"subl_imm_esp", 16>>
    BY InveptProgram
  <2> DEFINE w == Exec(n, <<"subl_imm_esp", 16>>)
  <2>3. w = subl_imm_esp(n, 16)
    BY ExecOperations
  <2>4. Deep(subl_imm_esp(n, 16), e, 20, 20 - 16)
    BY <1>1, <2>1, DeepSub
  <2>5. Deep(w, e, 20, 4)
    BY <2>3, <2>4
  <2>6. Deep(Exec(n, prog[1]), e, 20, 4)
    BY <2>2, <2>5 DEF w
  <2> QED
    BY <1>3, <2>6 DEF InveptAt
<1>4. CASE p = 2
  <2>1. Deep(n, e, 20, 4) /\ n \in Machines /\ n.r.esp = 4
    BY <1>4 DEF InveptAt, Deep
  <2>2. prog[2] = <<"movl_mesp", 20, "edx">>
    BY InveptProgram
  <2> DEFINE w == Exec(n, <<"movl_mesp", 20, "edx">>)
  <2>3. n.r.esp + 20 = 24 /\ 24 \in 0..84
    BY <2>1
  <2>4. Sets(w, n, "edx", Read32(n, 24))
    BY <1>1, <2>1, <2>3, MoveFromStack
  <2> HIDE DEF w
  <2>5. Deep(w, e, 20, 4)
    BY <1>1, <2>1, <2>4, DeepSets
  <2>6. Deep(Exec(n, prog[2]), e, 20, 4)
    BY <2>2, <2>5 DEF w
  <2> QED
    BY <1>4, <2>6 DEF InveptAt
<1>5. CASE p = 3
  <2>1. Deep(n, e, 20, 4) /\ n \in Machines /\ n.r.esp = 4
    BY <1>5 DEF InveptAt, Deep
  <2>2. prog[3] = <<"movl_mesp", 28, "eax">>
    BY InveptProgram
  <2> DEFINE w == Exec(n, <<"movl_mesp", 28, "eax">>)
  <2>3. n.r.esp + 28 = 32 /\ 32 \in 0..84
    BY <2>1
  <2>4. Sets(w, n, "eax", Read32(n, 32))
    BY <1>1, <2>1, <2>3, MoveFromStack
  <2> HIDE DEF w
  <2>5. Deep(w, e, 20, 4)
    BY <1>1, <2>1, <2>4, DeepSets
  <2>6. Deep(Exec(n, prog[3]), e, 20, 4)
    BY <2>2, <2>5 DEF w
  <2> QED
    BY <1>5, <2>6 DEF InveptAt
<1>6. CASE p = 4
  <2>1. Deep(n, e, 20, 4) /\ n \in Machines /\ n.r.esp = 4
    BY <1>6 DEF InveptAt, Deep
  <2>2. prog[4] = <<"movl_eax_mesp", 0>>
    BY InveptProgram
  <2> DEFINE w == Exec(n, <<"movl_eax_mesp", 0>>)
  <2>3. n.r.esp + 0 = 4 /\ 4 \in 0..84 /\ 4 + 4 <= 20
    BY <2>1
  <2>4. Puts(w, n, 4, n.r.eax)
    BY <2>1, <2>3, StoreOnStack
  <2> HIDE DEF w
  <2>5. Deep(w, e, 20, 4)
    BY <1>1, <2>1, <2>3, <2>4, DeepPuts
  <2>6. Deep(Exec(n, prog[4]), e, 20, 4)
    BY <2>2, <2>5 DEF w
  <2> QED
    BY <1>6, <2>6 DEF InveptAt
<1>7. CASE p = 5
  <2>1. Deep(n, e, 20, 4) /\ n \in Machines /\ n.r.esp = 4
    BY <1>7 DEF InveptAt, Deep
  <2>2. prog[5] = <<"movl_mesp", 32, "eax">>
    BY InveptProgram
  <2> DEFINE w == Exec(n, <<"movl_mesp", 32, "eax">>)
  <2>3. n.r.esp + 32 = 36 /\ 36 \in 0..84
    BY <2>1
  <2>4. Sets(w, n, "eax", Read32(n, 36))
    BY <1>1, <2>1, <2>3, MoveFromStack
  <2> HIDE DEF w
  <2>5. Deep(w, e, 20, 4)
    BY <1>1, <2>1, <2>4, DeepSets
  <2>6. Deep(Exec(n, prog[5]), e, 20, 4)
    BY <2>2, <2>5 DEF w
  <2> QED
    BY <1>7, <2>6 DEF InveptAt
<1>8. CASE p = 6
  <2>1. Deep(n, e, 20, 4) /\ n \in Machines /\ n.r.esp = 4
    BY <1>8 DEF InveptAt, Deep
  <2>2. prog[6] = <<"movl_eax_mesp", 4>>
    BY InveptProgram
  <2> DEFINE w == Exec(n, <<"movl_eax_mesp", 4>>)
  <2>3. n.r.esp + 4 = 8 /\ 8 \in 0..84 /\ 8 + 4 <= 20
    BY <2>1
  <2>4. Puts(w, n, 8, n.r.eax)
    BY <2>1, <2>3, StoreOnStack
  <2> HIDE DEF w
  <2>5. Deep(w, e, 20, 4)
    BY <1>1, <2>1, <2>3, <2>4, DeepPuts
  <2>6. Deep(Exec(n, prog[6]), e, 20, 4)
    BY <2>2, <2>5 DEF w
  <2> QED
    BY <1>8, <2>6 DEF InveptAt
<1>9. CASE p = 7
  <2>1. Deep(n, e, 20, 4) /\ n \in Machines /\ n.r.esp = 4
    BY <1>9 DEF InveptAt, Deep
  <2>2. prog[7] = <<"movl_imm_mesp", 0, 8>>
    BY InveptProgram
  <2> DEFINE w == Exec(n, <<"movl_imm_mesp", 0, 8>>)
  <2>3. n.r.esp + 8 = 12 /\ 12 \in 0..84 /\ 12 + 4 <= 20
    BY <2>1
  <2>4. Puts(w, n, 12, 0)
    BY <2>1, <2>3, StoreOnStack
  <2> HIDE DEF w
  <2>5. Deep(w, e, 20, 4)
    BY <1>1, <2>1, <2>3, <2>4, DeepPuts
  <2>6. Deep(Exec(n, prog[7]), e, 20, 4)
    BY <2>2, <2>5 DEF w
  <2> QED
    BY <1>9, <2>6 DEF InveptAt
<1>10. CASE p = 8
  <2>1. Deep(n, e, 20, 4) /\ n \in Machines /\ n.r.esp = 4
    BY <1>10 DEF InveptAt, Deep
  <2>2. prog[8] = <<"movl_imm_mesp", 0, 12>>
    BY InveptProgram
  <2> DEFINE w == Exec(n, <<"movl_imm_mesp", 0, 12>>)
  <2>3. n.r.esp + 12 = 16 /\ 16 \in 0..84 /\ 16 + 4 <= 20
    BY <2>1
  <2>4. Puts(w, n, 16, 0)
    BY <2>1, <2>3, StoreOnStack
  <2> HIDE DEF w
  <2>5. Deep(w, e, 20, 4)
    BY <1>1, <2>1, <2>3, <2>4, DeepPuts
  <2>6. Deep(Exec(n, prog[8]), e, 20, 4)
    BY <2>2, <2>5 DEF w
  <2> QED
    BY <1>10, <2>6 DEF InveptAt
<1>11. CASE p = 9
  <2>1. Deep(n, e, 20, 4) /\ n \in Machines /\ n.r.esp = 4
    BY <1>11 DEF InveptAt, Deep
  <2>2. prog[9] = <<"invept_mesp_edx">>
    BY InveptProgram
  <2> DEFINE w == Exec(n, <<"invept_mesp_edx">>)
  <2>3. w = n
    BY ExecOthers
  <2>5. Deep(w, e, 20, 4)
    BY <2>1, <2>3
  <2>6. Deep(Exec(n, prog[9]), e, 20, 4)
    BY <2>2, <2>5 DEF w
  <2> QED
    BY <1>11, <2>6 DEF InveptAt
<1>14. CASE p = 12
  <2>1. Deep(n, e, 20, 4) /\ n \in Machines /\ n.r.esp = 4
    BY <1>14 DEF InveptAt, Deep
  <2>2. prog[12] = <<"xorl", "eax">>
    BY InveptProgram
  <2> DEFINE w == Exec(n, <<"xorl", "eax">>)
  <2>3. w = xorl(n, "eax")
    BY ExecOperations
  <2> HIDE DEF w
  <2>4. Sets(w, n, "eax", 0)
    BY <2>1, <2>3, XorSets
  <2>5. Deep(w, e, 20, 4)
    BY <1>1, <2>1, <2>4, DeepSets
  <2>6. Deep(Exec(n, prog[12]), e, 20, 4)
    BY <2>2, <2>5 DEF w
  <2> QED
    BY <1>14, <2>6 DEF InveptAt
<1>16. CASE p = 14
  <2>1. Deep(n, e, 20, 4) /\ n \in Machines /\ n.r.esp = 4
    BY <1>16 DEF InveptAt, Deep
  <2>2. prog[14] = <<"movl_imm", 1, "eax">>
    BY InveptProgram
  <2> DEFINE w == Exec(n, <<"movl_imm", 1, "eax">>)
  <2>3. w = SetReg(n, "eax", 1)
    BY ExecMoves DEF movl_imm
  <2> HIDE DEF w
  <2>4. Sets(w, n, "eax", 1)
    <3>1. 1 \in Words
      BY WidthNumbers DEF Words
    <3> QED
      BY <1>1, <2>1, <2>3, <3>1, Loads DEF Sets
  <2>5. Deep(w, e, 20, 4)
    BY <1>1, <2>1, <2>4, DeepSets
  <2>6. Deep(Exec(n, prog[14]), e, 20, 4)
    BY <2>2, <2>5 DEF w
  <2> QED
    BY <1>16, <2>6 DEF InveptAt
<1>17. CASE p = 15
  <2>1. Deep(n, e, 20, 4) /\ n \in Machines /\ n.r.esp = 4
    BY <1>17 DEF InveptAt, Deep
  <2>2. prog[15] = <<"addl_imm_esp", 16>>
    BY InveptProgram
  <2> DEFINE w == Exec(n, <<"addl_imm_esp", 16>>)
  <2>3. w = addl_imm_esp(n, 16)
    BY ExecOperations
  <2>4. Deep(addl_imm_esp(n, 16), e, 20, 4 + 16)
    BY <1>1, <2>1, DeepAdd
  <2>5. Deep(w, e, 20, 20)
    BY <2>3, <2>4
  <2>6. Deep(Exec(n, prog[15]), e, 20, 20)
    BY <2>2, <2>5 DEF w
  <2> QED
    BY <1>17, <2>6 DEF InveptAt
<1> QED
  BY <1>3, <1>4, <1>5, <1>6, <1>7, <1>8, <1>9, <1>10, <1>11, <1>14, <1>16, <1>17

(* xmhfhw_cpu_reloadcs: the return address moves, to make room for the
   code segment. *)
ReloadAt(n, e, p) ==
  /\ p = 1 => Deep(n, e, 32, 32)
  /\ p = 2 => Deep(n, e, 32, 36) /\ n.r.eax = CASM_RET_EIP
  /\ p = 3 => Deep(n, e, 36, 32) /\ n.r.eax = CASM_RET_EIP
  /\ p = 4 => Deep(n, e, 36, 28) /\ Read32(n, 28) = CASM_RET_EIP
LEMMA ReloadProgram ==
  LET prog == Program["xmhfhw_cpu_reloadcs"]
  IN  /\ DOMAIN prog = 1..4 /\ prog[1] = <<"popl", "eax">> /\ prog[2] = <<"pushl_mesp", 0>>
      /\ prog[3] = <<"pushl", "eax">> /\ prog[4] = <<"lret">>
<1>1. Program["xmhfhw_cpu_reloadcs"] = <<<<"popl", "eax">>, <<"pushl_mesp", 0>>, <<"pushl", "eax">>, <<"lret">>>>
  BY DEF Program, reloadcs
<1> QED
  BY <1>1
LEMMA ReloadStep ==
  ASSUME NEW e, Read32(e, 32) = CASM_RET_EIP, NEW n, NEW p \in 1..3, ReloadAt(n, e, p)
  PROVE  ReloadAt(Exec(n, Program["xmhfhw_cpu_reloadcs"][p]), e, p + 1)
<1> DEFINE prog == Program["xmhfhw_cpu_reloadcs"]
<1>1. /\ 28 \in 0..84 /\ 32 \in 0..84 /\ 36 \in 0..84 /\ 32 \in 4..84 /\ 36 \in 4..84
      /\ "eax" \in Scratch /\ CASM_RET_EIP \in Words
  BY WidthNumbers DEF Scratch
<1>2. CASE p = 1
  <2>1. Deep(n, e, 32, 32)
    BY <1>2 DEF ReloadAt
  <2> DEFINE w == popl(n, "eax")
  <2>2. Exec(n, prog[1]) = w
    BY ReloadProgram, ExecStackMoves
  <2>3. Deep(w, e, 32, 32 + 4) /\ w.r["eax"] = Read32(n, 32)
    BY <1>1, <2>1, DeepPop
  <2>4. Read32(n, 32) = Read32(e, 32)
    <3>1. Frame(n, e, 32, {}) /\ WordAt(32) \cap {} = {} /\ 32 >= 32
      BY <2>1 DEF Deep
    <3> QED
      BY <1>1, <3>1, FrameReads
  <2> HIDE DEF w
  <2>5. ReloadAt(w, e, 2)
    BY <2>3, <2>4 DEF ReloadAt
  <2> QED
    BY <1>2, <2>2, <2>5
<1>3. CASE p = 2
  <2>1. Deep(n, e, 32, 36) /\ n.r.eax = CASM_RET_EIP /\ n \in Machines /\ n.r.esp = 36
    BY <1>3 DEF ReloadAt, Deep
  <2>2. Deep(n, e, 36, 36)
    <3>1. 32 <= 36 /\ {} \subseteq {} /\ Frame(n, e, 32, {})
      BY <2>1 DEF Deep
    <3>2. Frame(n, e, 36, {})
      BY <1>1, <3>1, FrameMore
    <3> QED
      BY <2>1, <3>2 DEF Deep
  <2>3. At(n, "esp", 0) = 36
    BY <2>1 DEF At
  <2>4. PICK v \in Words : v = Read32(n, 36)
    BY <1>1, <2>1, Parts, ReadsWord
  <2> DEFINE w == pushl_mem(n, v)
  <2>5. Exec(n, prog[2]) = w
    <3>1. Exec(n, prog[2]) = pushl_mesp(n, 0)
      BY ReloadProgram, ExecStackMoves
    <3> QED
      BY <2>3, <2>4, <3>1 DEF pushl_mesp
  <2>6. Deep(w, e, 36, 36 - 4) /\ w.r.eax = n.r.eax
    <3>1. 36 <= 36
      OBVIOUS
    <3> QED
      BY <1>1, <2>2, <3>1, DeepPush
  <2> HIDE DEF w
  <2>7. ReloadAt(w, e, 3)
    BY <2>1, <2>6 DEF ReloadAt
  <2> QED
    BY <1>3, <2>5, <2>7
<1>4. CASE p = 3
  <2>1. Deep(n, e, 36, 32) /\ n.r.eax = CASM_RET_EIP
    BY <1>4 DEF ReloadAt
  <2> DEFINE w == pushl_mem(n, CASM_RET_EIP)
  <2>2. Exec(n, prog[3]) = w
    <3>1. Exec(n, prog[3]) = pushl_mem(n, n.r["eax"])
      BY ReloadProgram, ExecStackMoves
    <3> QED
      BY <2>1, <3>1
  <2>3. Deep(w, e, 36, 32 - 4) /\ Wrote(w, n, 32 - 4, CASM_RET_EIP)
    <3>1. 32 <= 36
      OBVIOUS
    <3> QED
      BY <1>1, <2>1, <3>1, DeepPush
  <2> HIDE DEF w
  <2>4. ReloadAt(w, e, 4)
    BY <2>3 DEF ReloadAt, Wrote
  <2> QED
    BY <1>4, <2>2, <2>4
<1> QED
  BY <1>2, <1>3, <1>4
LEMMA ReloadReturns ==
  ASSUME NEW e, e.r.esp = 32, NEW n, ReloadAt(n, e, 4)
  PROVE  LeftFrame(Return(n, "lret"), e, {})
<1> DEFINE near == popl(n, "eip")
           far == addl_imm_esp(near, 4)
           cs == popl_mem(near)
<1>1. n \in Machines /\ n.r.esp = 28 /\ Read32(n, 28) = CASM_RET_EIP /\ n.r \in [Gprs -> Words] /\ n.r.esp \in 0..84
      /\ n.r.ebx = 5 /\ n.r.esi = 6 /\ n.r.edi = 7 /\ Frame(n, e, 36, {})
  BY Parts DEF ReloadAt, Deep
<1>2. Return(n, "lret") = [far EXCEPT !.sys.sel["cs"] = cs]
  BY DEF Return
<1>3. near \in Machines /\ near.r = [n.r EXCEPT !["esp"] = 28 + 4, !["eip"] = CASM_RET_EIP] /\ near.mem = n.mem
  <2>1. "eip" \in Gprs /\ "eip" # "esp"
    BY DEF Gprs
  <2> QED
    BY <1>1, <2>1, Pops
<1> HIDE DEF near
<1>4. near.r.esp = 32 /\ near.r.eip = CASM_RET_EIP /\ near.r.ebx = 5 /\ near.r.esi = 6 /\ near.r.edi = 7
  BY <1>1, <1>3 DEF Gprs
<1>5. far \in Machines /\ far.r = [near.r EXCEPT !["esp"] = 32 + 4] /\ far.mem = near.mem
  <2>1. 4 \in 0..16 /\ near.r.esp \in 0..88
    BY <1>4
  <2>2. far \in Machines /\ far.r = [near.r EXCEPT !["esp"] = near.r.esp + 4] /\ far.mem = near.mem
    BY <1>3, <2>1, AddEsp
  <2> QED
    BY <1>4, <2>2
<1>6. near.r \in [Gprs -> Words]
  BY <1>3, Parts
<1> HIDE DEF far
<1>7. far.r.esp = 36 /\ far.r.eip = CASM_RET_EIP /\ far.r.ebx = 5 /\ far.r.esi = 6 /\ far.r.edi = 7
  BY <1>4, <1>5, <1>6 DEF Gprs
<1>8. cs \in Words
  <2>1. 32 \in 0..84
    OBVIOUS
  <2> QED
    BY <1>3, <1>4, <2>1, Parts, ReadsWord DEF popl_mem
<1> HIDE DEF cs
<1>9. PICK sys \in SysStates : [far EXCEPT !.sys.sel["cs"] = cs] = [far EXCEPT !.sys = sys]
  <2> DEFINE sel == [far.sys.sel EXCEPT !["cs"] = cs]
  <2>1. far.sys \in SysStates
    BY <1>5, Parts
  <2>2. sel \in [Selectors -> Words]
    BY <1>8, <2>1 DEF SysStates, Selectors
  <2> HIDE DEF sel
  <2>3. [far.sys EXCEPT !.sel = sel] \in SysStates
    BY <2>1, <2>2 DEF SysStates
  <2>4. [far EXCEPT !.sys.sel["cs"] = cs] = [far EXCEPT !.sys = [far.sys EXCEPT !.sel = sel]]
    BY <1>5, <2>1 DEF Machines, SysStates, sel
  <2> QED
    BY <2>3, <2>4
<1>10. PICK w : w = [far EXCEPT !.sys = sys] /\ w \in Machines /\ w.r = far.r /\ w.mem = far.mem
  BY <1>5, SysTyped
<1>11. Frame(w, e, 36, {})
  BY <1>1, <1>3, <1>5, <1>10 DEF Frame
<1>12. LeftFrame(w, e, {})
  <2>1. e.r.esp + 4 = 36
    OBVIOUS
  <2> QED
    BY <1>7, <1>10, <1>11, <2>1 DEF LeftFrame
<1> QED
  BY <1>2, <1>9, <1>10, <1>12

(* The bit of a lock. *)
LEMMA LockBit ==
  ASSUME NEW v, v \in {0, 1}
  PROVE  Bit(v, 0) = v /\ SetBit(v, 0) = 1 /\ ClearBit(v, 0) = 0
<1>1. 2^0 = 1
  BY Powers
<1>2. Bit(v, 0) = v
  <2>1. Bit(v, 0) = (v \div 1) % 2
    BY <1>1 DEF Bit
  <2>2. (0 \div 1) % 2 = 0 /\ (1 \div 1) % 2 = 1
    BY SMT
  <2> QED
    BY <2>1, <2>2
<1> QED
  BY <1>1, <1>2 DEF SetBit, ClearBit
LEMMA CarryIs ==
  ASSUME NEW n \in Machines, NEW b \in {0, 1}
  PROVE  LET w == CarryFrom(n, b)
         IN  w \in Machines /\ w.r = n.r /\ w.mem = n.mem /\ w.sys = n.sys /\ Bit(w.fl, EFLAGS_CF) = b
<1>1. n.fl \in Words
  BY Parts
<1>2. PICK fl \in Words : fl = (IF b = 1 THEN SetBit(n.fl, EFLAGS_CF) ELSE ClearBit(n.fl, EFLAGS_CF)) /\ Bit(fl, EFLAGS_CF) = b
  <2>1. /\ SetBit(n.fl, EFLAGS_CF) \in Words /\ Bit(SetBit(n.fl, EFLAGS_CF), EFLAGS_CF) = 1
        /\ ClearBit(n.fl, EFLAGS_CF) \in Words /\ Bit(ClearBit(n.fl, EFLAGS_CF), EFLAGS_CF) = 0
    BY <1>1, Flags
  <2> QED
    BY <2>1
<1>3. CarryFrom(n, b) = [n EXCEPT !.fl = fl]
  BY <1>2 DEF CarryFrom
<1> DEFINE w == [n EXCEPT !.fl = fl]
<1>4. w \in Machines /\ w.r = n.r /\ w.fl = fl /\ w.sys = n.sys /\ w.mem = n.mem
  BY FlagsTyped
<1> HIDE DEF w
<1>5. w \in Machines /\ w.r = n.r /\ w.mem = n.mem /\ w.sys = n.sys /\ Bit(w.fl, EFLAGS_CF) = b
  BY <1>2, <1>4
<1> QED
  BY <1>3, <1>5 DEF w

(* The instructions on the word of a lock. *)
LEMMA LockInsns ==
  ASSUME NEW n \in Machines, n.r.ecx = 64, NEW v, v \in {0, 1}, Read32(n, 64) = v
  PROVE  LET t == Exec(n, <<"btl_imm_mecx", 0, 0>>)
             r == Exec(n, <<"btrl_imm_mecx", 0, 0>>)
             s == Exec(n, <<"btsl_imm_mecx", 0, 0>>)
         IN  /\ t \in Machines /\ t.r = n.r /\ t.mem = n.mem /\ Bit(t.fl, EFLAGS_CF) = v
             /\ r \in Machines /\ r.r = n.r /\ Wrote(r, n, 64, 0) /\ Bit(r.fl, EFLAGS_CF) = v
             /\ s \in Machines /\ s.r = n.r /\ Wrote(s, n, 64, 1)
<1>1. At(n, "ecx", 0) = 64
  BY DEF At
<1> DEFINE t == CarryFrom(n, v)
<1>2. btl_imm_mecx(n, 0, 0) = t
  BY <1>1, LockBit DEF btl_imm_mecx
<1>3. t \in Machines /\ t.r = n.r /\ t.mem = n.mem /\ Bit(t.fl, EFLAGS_CF) = v
  BY CarryIs
<1> HIDE DEF t
<1>4. btrl_imm_mecx(n, 0, 0) = Write32(t, 64, 0) /\ btsl_imm_mecx(n, 0, 0) = Write32(t, 64, 1)
  BY <1>1, <1>2, LockBit DEF btrl_imm_mecx, btsl_imm_mecx
<1>5. ASSUME NEW x, x \in {0, 1}
      PROVE  /\ Write32(t, 64, x) \in Machines /\ Write32(t, 64, x).r = n.r /\ Wrote(Write32(t, 64, x), n, 64, x)
             /\ Bit(Write32(t, 64, x).fl, EFLAGS_CF) = v
  <2> DEFINE w == Write32(t, 64, x)
  <2>1. 64 \in 0..84 /\ x \in Words
    BY <1>5, WidthNumbers DEF Words
  <2>2. w \in Machines /\ w.r = t.r /\ w.fl = t.fl /\ Wrote(w, t, 64, x)
    BY <1>3, <2>1, Stores
  <2> HIDE DEF w
  <2>3. Wrote(w, n, 64, x)
    BY <1>3, <2>2 DEF Wrote
  <2> QED
    BY <1>3, <2>2, <2>3 DEF w
<1>6. Exec(n, <<"btl_imm_mecx", 0, 0>>) = t
  BY <1>2, ExecOperations
<1>7. Exec(n, <<"btrl_imm_mecx", 0, 0>>) = Write32(t, 64, 0)
  BY <1>4, ExecOperations
<1>8. Exec(n, <<"btsl_imm_mecx", 0, 0>>) = Write32(t, 64, 1)
  BY <1>4, ExecOperations
<1> QED
  BY <1>3, <1>5, <1>6, <1>7, <1>8

(* spin_lock, spin_unlock: what they write is the word of the lock. *)
LockOut == 64..67
AtLock(n, e) ==
  /\ n \in Machines /\ n.r.esp = 32
  /\ n.r.ebx = 5 /\ n.r.esi = 6 /\ n.r.edi = 7
  /\ Frame(n, e, 32, LockOut)
  /\ Read32(n, 64) \in {0, 1}
LockAt(n, e, p) ==
  /\ AtLock(n, e)
  /\ p \in 2..7 => n.r.ecx = 64
  /\ p \in 1..5 => Read32(n, 64) = Read32(e, 64)
  /\ p \in 4..7 => Read32(e, 64) = 1
  /\ p \in 6..7 => Read32(n, 64) = 0
  /\ p = 3 => Bit(n.fl, EFLAGS_CF) = Read32(e, 64)
  /\ p = 6 => Bit(n.fl, EFLAGS_CF) = 1
UnlockAt(n, e, p) ==
  /\ AtLock(n, e)
  /\ p = 2 => n.r.ecx = 64
  /\ p = 3 => Read32(n, 64) = 1

LEMMA LockProgram ==
  LET prog == Program["spin_lock"]
  IN  /\ DOMAIN prog = 1..7 /\ prog[1] = <<"movl_mesp", 4, "ecx">> /\ prog[2] = <<"btl_imm_mecx", 0, 0>>
      /\ prog[3] = <<"jnc", 2>> /\ prog[4] = <<"lock">> /\ prog[5] = <<"btrl_imm_mecx", 0, 0>>
      /\ prog[6] = <<"jnc", 2>> /\ prog[7] = <<"ret">>
<1>1. Program["spin_lock"] = <<<<"movl_mesp", 4, "ecx">>, <<"btl_imm_mecx", 0, 0>>, <<"jnc", 2>>, <<"lock">>,
    <<"btrl_imm_mecx", 0, 0>>, <<"jnc", 2>>, <<"ret">>>>
  BY DEF Program, spin_lock
<1> QED
  BY <1>1
LEMMA UnlockProgram ==
  LET prog == Program["spin_unlock"]
  IN  /\ DOMAIN prog = 1..3 /\ prog[1] = <<"movl_mesp", 4, "ecx">>
      /\ prog[2] = <<"btsl_imm_mecx", 0, 0>> /\ prog[3] = <<"ret">>
<1>1. Program["spin_unlock"] = <<<<"movl_mesp", 4, "ecx">>, <<"btsl_imm_mecx", 0, 0>>, <<"ret">>>>
  BY DEF Program, spin_unlock, FromArg
<1> QED
  BY <1>1

(* Both load the address of the lock first. *)
LEMMA LockAddress ==
  ASSUME NEW e, Read32(e, 36) = 64, NEW n, AtLock(n, e)
  PROVE  LET w == Exec(n, <<"movl_mesp", 4, "ecx">>)
         IN  AtLock(w, e) /\ w.r.ecx = 64 /\ Read32(w, 64) = Read32(n, 64)
<1> DEFINE w == Exec(n, <<"movl_mesp", 4, "ecx">>)
<1>1. n \in Machines /\ n.r.esp + 4 = 36 /\ 36 \in 0..84 /\ 32 \in 0..84 /\ 36 >= 32 /\ "ecx" \in Gprs /\ n.r \in [Gprs -> Words]
  BY Parts DEF Gprs, AtLock
<1>2. Sets(w, n, "ecx", Read32(n, 36))
  BY <1>1, MoveFromStack
<1>3. Read32(n, 36) = 64
  <2>1. Frame(n, e, 32, LockOut) /\ WordAt(36) \cap LockOut = {}
    BY DEF AtLock, WordAt, LockOut
  <2> QED
    BY <1>1, <2>1, FrameReads
<1> HIDE DEF w
<1>4. w \in Machines /\ w.r = [n.r EXCEPT !["ecx"] = 64] /\ w.mem = n.mem
  BY <1>2, <1>3 DEF Sets
<1>5. Frame(w, e, 32, LockOut) /\ Read32(w, 64) = Read32(n, 64)
  BY <1>4, SameMemory DEF AtLock
<1>6. w.r.ecx = 64 /\ w.r.esp = n.r.esp /\ w.r.ebx = n.r.ebx /\ w.r.esi = n.r.esi /\ w.r.edi = n.r.edi
  BY <1>1, <1>4 DEF Gprs
<1>7. AtLock(w, e)
  BY <1>4, <1>5, <1>6 DEF AtLock
<1> QED
  BY <1>5, <1>6, <1>7 DEF w
LEMMA LockWritten ==
  ASSUME NEW e, NEW n, AtLock(n, e), NEW w, NEW v, v \in {0, 1}, w \in Machines, w.r = n.r, Wrote(w, n, 64, v)
  PROVE  AtLock(w, e) /\ Read32(w, 64) = v
<1>1. Frame(w, e, 32, LockOut)
  <2>1. 64 \in 0..84 /\ 32 \in 0..84 /\ WordAt(64) \subseteq LockOut
    BY DEF WordAt, LockOut
  <2>2. Frame(n, e, 32, LockOut)
    BY DEF AtLock
  <2> QED
    BY <2>1, <2>2, WroteInside
<1> QED
  BY <1>1 DEF AtLock, Wrote

LEMMA LockStep ==
  ASSUME NEW e, Read32(e, 36) = 64, NEW n, NEW p \in {1, 2, 4, 5}, LockAt(n, e, p)
  PROVE  LockAt(Exec(n, Program["spin_lock"][p]), e, p + 1)
<1> DEFINE prog == Program["spin_lock"]
<1>0. AtLock(n, e) /\ n \in Machines
  BY DEF LockAt, AtLock
<1>1. CASE p = 1
  <2>1. PICK w : w = Exec(n, prog[1]) /\ w = Exec(n, <<"movl_mesp", 4, "ecx">>)
    BY LockProgram
  <2>2. AtLock(w, e) /\ w.r.ecx = 64 /\ Read32(w, 64) = Read32(n, 64)
    BY <1>0, <2>1, LockAddress
  <2>3. LockAt(w, e, 2)
    BY <1>1, <2>2 DEF LockAt
  <2> QED
    BY <1>1, <2>1, <2>3
<1>2. CASE p = 2
  <2>1. PICK w : w = Exec(n, prog[2]) /\ w = Exec(n, <<"btl_imm_mecx", 0, 0>>)
    BY LockProgram
  <2>2. PICK v : v = Read32(n, 64) /\ v \in {0, 1} /\ n.r.ecx = 64 /\ v = Read32(e, 64)
    BY <1>2 DEF LockAt, AtLock
  <2>3. w \in Machines /\ w.r = n.r /\ w.mem = n.mem /\ Bit(w.fl, EFLAGS_CF) = v
    BY <1>0, <2>1, <2>2, LockInsns
  <2>4. Frame(w, e, 32, LockOut) /\ Read32(w, 64) = Read32(n, 64)
    BY <1>0, <2>3, SameMemory DEF AtLock
  <2>5. AtLock(w, e)
    BY <1>0, <2>3, <2>4 DEF AtLock
  <2>6. LockAt(w, e, 3)
    BY <2>2, <2>3, <2>4, <2>5 DEF LockAt
  <2> QED
    BY <1>2, <2>1, <2>6
<1>3. CASE p = 4
  <2>1. Exec(n, prog[4]) = n
    BY LockProgram, ExecSystems
  <2>2. LockAt(n, e, 5)
    BY <1>3 DEF LockAt
  <2> QED
    BY <1>3, <2>1, <2>2
<1>4. CASE p = 5
  <2>1. PICK w : w = Exec(n, prog[5]) /\ w = Exec(n, <<"btrl_imm_mecx", 0, 0>>)
    BY LockProgram
  <2>2. PICK v : v = Read32(n, 64) /\ v \in {0, 1} /\ n.r.ecx = 64 /\ v = Read32(e, 64) /\ v = 1
    BY <1>4 DEF LockAt, AtLock
  <2>3. w \in Machines /\ w.r = n.r /\ Wrote(w, n, 64, 0) /\ Bit(w.fl, EFLAGS_CF) = v
    BY <1>0, <2>1, <2>2, LockInsns
  <2>4. AtLock(w, e) /\ Read32(w, 64) = 0
    <3>1. 0 \in {0, 1}
      OBVIOUS
    <3> QED
      BY <1>0, <2>3, <3>1, LockWritten
  <2>5. LockAt(w, e, 6)
    BY <2>2, <2>3, <2>4 DEF LockAt
  <2> QED
    BY <1>4, <2>1, <2>5
<1> QED
  BY <1>1, <1>2, <1>3, <1>4
LEMMA LockJump ==
  ASSUME NEW e, NEW n, NEW p \in {3, 6}, LockAt(n, e, p)
  PROVE  LockAt(n, e, IF Taken(n, "jnc") THEN 2 ELSE p + 1)
<1>1. Taken(n, "jnc") = ~(Bit(n.fl, EFLAGS_CF) = 1)
  BY DEF Taken, Flag
<1>2. AtLock(n, e)
  BY DEF LockAt
<1>3. CASE p = 3 /\ Read32(e, 64) = 1
  <2>1. ~Taken(n, "jnc")
    BY <1>1, <1>3 DEF LockAt
  <2>2. LockAt(n, e, 4)
    BY <1>3 DEF LockAt
  <2> QED
    BY <1>3, <2>1, <2>2
<1>4. CASE p = 3 /\ Read32(e, 64) # 1
  <2>1. Bit(n.fl, EFLAGS_CF) # 1
    BY <1>4 DEF LockAt
  <2>2. Taken(n, "jnc")
    BY <1>1, <2>1
  <2>3. LockAt(n, e, 2)
    BY <1>4 DEF LockAt
  <2> QED
    BY <1>4, <2>2, <2>3
<1>5. CASE p = 6
  <2>1. ~Taken(n, "jnc")
    BY <1>1, <1>5 DEF LockAt
  <2>2. LockAt(n, e, 7)
    BY <1>5 DEF LockAt
  <2> QED
    BY <1>5, <2>1, <2>2
<1> QED
  BY <1>3, <1>4, <1>5
LEMMA UnlockStep ==
  ASSUME NEW e, Read32(e, 36) = 64, NEW n, NEW p \in 1..2, UnlockAt(n, e, p)
  PROVE  UnlockAt(Exec(n, Program["spin_unlock"][p]), e, p + 1)
<1> DEFINE prog == Program["spin_unlock"]
<1>0. AtLock(n, e) /\ n \in Machines
  BY DEF UnlockAt, AtLock
<1>1. CASE p = 1
  <2>1. PICK w : w = Exec(n, prog[1]) /\ w = Exec(n, <<"movl_mesp", 4, "ecx">>)
    BY UnlockProgram
  <2>2. AtLock(w, e) /\ w.r.ecx = 64
    BY <1>0, <2>1, LockAddress
  <2>3. UnlockAt(w, e, 2)
    BY <2>2 DEF UnlockAt
  <2> QED
    BY <1>1, <2>1, <2>3
<1>2. CASE p = 2
  <2>1. PICK w : w = Exec(n, prog[2]) /\ w = Exec(n, <<"btsl_imm_mecx", 0, 0>>)
    BY UnlockProgram
  <2>2. PICK v : v = Read32(n, 64) /\ v \in {0, 1} /\ n.r.ecx = 64
    BY <1>2 DEF UnlockAt, AtLock
  <2>3. w \in Machines /\ w.r = n.r /\ Wrote(w, n, 64, 1)
    BY <1>0, <2>1, <2>2, LockInsns
  <2>4. AtLock(w, e) /\ Read32(w, 64) = 1
    <3>1. 1 \in {0, 1}
      OBVIOUS
    <3> QED
      BY <1>0, <2>3, <3>1, LockWritten
  <2>5. UnlockAt(w, e, 3)
    BY <2>4 DEF UnlockAt
  <2> QED
    BY <1>2, <2>1, <2>5
<1> QED
  BY <1>1, <1>2
LEMMA LockReturns ==
  ASSUME NEW e, e.r.esp = 32, Read32(e, 32) = CASM_RET_EIP, NEW n, AtLock(n, e)
  PROVE  LeftFrame(Return(n, "ret"), e, LockOut) /\ Read32(Return(n, "ret"), 64) = Read32(n, 64)
<1> DEFINE w == Return(n, "ret")
<1>1. 32 \in 0..84 /\ 32 >= 32 /\ Frame(n, e, 32, LockOut) /\ WordAt(32) \cap LockOut = {}
  BY DEF AtLock, WordAt, LockOut
<1>2. Read32(n, 32) = CASM_RET_EIP
  BY <1>1, FrameReads
<1>3. LeftFrame(w, e, LockOut) /\ w.mem = n.mem
  BY <1>1, <1>2, ReturnsTo DEF AtLock
<1>4. Read32(w, 64) = Read32(n, 64)
  BY <1>3, SameMemory
<1> QED
  BY <1>3, <1>4

(* The end of xmhfhw_cpu_cpuid. *)
LEMMA CpuidReturns ==
  ASSUME NEW e, CpuidEntered(e), NEW n, CpuidAt(n, e, 19)
  PROVE  LET w == Return(n, "ret")
         IN  /\ LeftFrame(w, e, CpuidOut)
             /\ Read32(w, EaxVar) = CpuidAsked(e).r.eax /\ Read32(w, EbxVar) = CpuidAsked(e).r.ebx
             /\ Read32(w, EcxVar) = CpuidAsked(e).r.ecx /\ Read32(w, EdxVar) = CpuidAsked(e).r.edx
<1> DEFINE w == Return(n, "ret")
<1>1. /\ n \in Machines /\ n.r.esp = 16 /\ n.r.ebx = 5 /\ n.r.esi = 6 /\ n.r.edi = 7 /\ Frame(n, e, 16, CpuidOut)
      /\ e.r.esp = 16 /\ Read32(e, 16) = CASM_RET_EIP
  BY DEF CpuidAt, CpuidEntered
<1>2. 16 \in 0..84 /\ 16 >= 16 /\ WordAt(16) \cap CpuidOut = {}
  BY DEF WordAt, CpuidOut
<1>3. Read32(n, 16) = CASM_RET_EIP
  BY <1>1, <1>2, FrameReads
<1>4. LeftFrame(w, e, CpuidOut) /\ w.mem = n.mem
  BY <1>1, <1>2, <1>3, ReturnsTo
<1> HIDE DEF w
<1>5. /\ Read32(n, 40) = CpuidAsked(e).r.eax /\ Read32(n, 44) = CpuidAsked(e).r.ebx
      /\ Read32(n, 48) = CpuidAsked(e).r.ecx /\ Read32(n, 52) = CpuidAsked(e).r.edx
  BY DEF CpuidAt
<1>6. \A b : Read32(w, b) = Read32(n, b)
  BY <1>4, SameMemory
<1> QED
  BY <1>4, <1>5, <1>6 DEF EaxVar, EbxVar, EcxVar, EdxVar, w

(* sysmemaccess_copy: what it is called with, and how far it has come. *)
CopyEntered(e) ==
  /\ e \in Machines /\ e.r.esp = 24 /\ e.r.ebx = 5 /\ e.r.esi = 6 /\ e.r.edi = 7
  /\ Read32(e, 24) = CASM_RET_EIP
  /\ Read32(e, 28) = 84 /\ Read32(e, 32) = 80 /\ Read32(e, 36) = 4
CopyOut == 84..87
CopyAt(n, e, p) ==
  /\ n \in Machines /\ Frame(n, e, 24, CopyOut) /\ n.r.ebx = 5
  /\ p \in {1, 10} => n.r.esp = 24
  /\ p \in {2, 9} => n.r.esp = 20
  /\ p \in 3..8 => n.r.esp = 16
  /\ p \in 2..9 => Read32(n, 20) = 6
  /\ p \in 3..8 => Read32(n, 16) = 7
  /\ p \in {1, 2, 3, 4, 10} => n.r.esi = 6
  /\ p \in {1, 2, 3, 9, 10} => n.r.edi = 7
  /\ p \in 4..7 => n.r.edi = 84
  /\ p \in 5..7 => n.r.esi = 80
  /\ p \in 6..7 => n.r.ecx = 4
  /\ p = 7 => Bit(n.fl, EFLAGS_DF) = 0
  /\ p \in 8..10 => Read32(n, 84) = Read32(e, 80)

(* The copy of one word. *)
LEMMA CopiesWord ==
  ASSUME NEW n \in Machines, n.r.esi = 80, n.r.edi = 84, n.r.ecx = 4, Bit(n.fl, EFLAGS_DF) = 0
  PROVE  LET w == rep_movsb(n)
         IN  /\ w \in Machines /\ w.r = [n.r EXCEPT !["edi"] = 88, !["esi"] = 84]
             /\ Wrote(w, n, 84, Read32(n, 80))
<1> DEFINE mem == [a \in Memory |-> IF a \in 84..87 THEN n.mem[a - 4] ELSE n.mem[a]]
           r == [n.r EXCEPT !["edi"] = 88, !["esi"] = 84]
           w == rep_movsb(n)
<1>1. n.mem \in [Memory -> Bytes] /\ n.r \in [Gprs -> Words] /\ DOMAIN n.mem = Memory
  BY Parts
<1>2. Wrap(84 + 4) = 88 /\ Wrap(80 + 4) = 84
  <2>1. 88 \in 0..1024 /\ 84 \in 0..1024
    OBVIOUS
  <2>2. 88 \in Words /\ 84 \in Words
    BY <2>1, Small
  <2> QED
    BY <2>2, WrapsNot
<1>3. [a \in Memory |-> IF a \in 84..(84 + 4 - 1) THEN n.mem[80 + (a - 84)] ELSE n.mem[a]] = mem
  BY DEF Memory
<1>4. ~Flag(n, EFLAGS_DF)
  BY DEF Flag
<1>5. w = [n EXCEPT !.mem = mem, !.r = r]
  <2>1. w = [n EXCEPT !.mem = [a \in Memory |-> IF a \in n.r.edi..(n.r.edi + n.r.ecx - 1)
                                  THEN n.mem[n.r.esi + (a - n.r.edi)] ELSE n.mem[a]],
                      !.r.edi = Wrap(n.r.edi + n.r.ecx), !.r.esi = Wrap(n.r.esi + n.r.ecx)]
    BY <1>1, <1>4 DEF rep_movsb, Machines
  <2> DEFINE new == [a \in Memory |-> IF a \in n.r.edi..(n.r.edi + n.r.ecx - 1)
                                  THEN n.mem[n.r.esi + (a - n.r.edi)] ELSE n.mem[a]]
  <2>2. new = mem
    BY <1>3
  <2>3. Wrap(n.r.edi + n.r.ecx) = 88 /\ Wrap(n.r.esi + n.r.ecx) = 84
    BY <1>2
  <2> HIDE DEF w
  <2>4. w = [n EXCEPT !.mem = new, !.r.edi = Wrap(n.r.edi + n.r.ecx), !.r.esi = Wrap(n.r.esi + n.r.ecx)]
    BY <2>1
  <2> HIDE DEF new, mem
  <2>5. w = [n EXCEPT !.mem = mem, !.r.edi = 88, !.r.esi = 84]
    BY <2>2, <2>3, <2>4
  <2> QED
    BY <1>1, <2>5, ZenonT(60) DEF Machines, mem
<1>6. mem \in [Memory -> Bytes]
  <2>1. ASSUME NEW a \in Memory PROVE mem[a] \in Bytes
    <3>1. a - 4 \in Memory \/ a \notin 84..87
      BY DEF Memory
    <3> QED
      BY <1>1, <3>1
  <2> QED
    BY <2>1
<1>7. r \in [Gprs -> Words]
  <2>1. 88 \in 0..1024 /\ 84 \in 0..1024
    OBVIOUS
  <2>2. 88 \in Words /\ 84 \in Words
    BY <2>1, Small
  <2> QED
    BY <1>1, <2>2
<1>8. mem[84] = n.mem[80] /\ mem[85] = n.mem[81] /\ mem[86] = n.mem[82] /\ mem[87] = n.mem[83]
  BY DEF Memory
<1>9. \A b \in Memory : b \notin WordAt(84) => mem[b] = n.mem[b]
  BY DEF WordAt
<1> HIDE DEF mem, r, w
<1>10. w \in Machines /\ w.r = r /\ w.mem = mem
  BY <1>5, <1>6, <1>7 DEF Machines
<1>11. Read32(w, 84) = Read32(n, 80)
  BY <1>8, <1>10 DEF Read32, Read16
<1>12. Wrote(w, n, 84, Read32(n, 80))
  BY <1>9, <1>10, <1>11 DEF Wrote
<1> QED
  BY <1>10, <1>12 DEF w, r
LEMMA ClearsDirection ==
  ASSUME NEW n \in Machines
  PROVE  LET w == cld(n)
         IN  w \in Machines /\ w.r = n.r /\ w.mem = n.mem /\ Bit(w.fl, EFLAGS_DF) = 0
<1>1. n.fl \in Words
  BY Parts
<1>2. PICK fl \in Words : fl = ClearBit(n.fl, EFLAGS_DF) /\ Bit(fl, EFLAGS_DF) = 0
  BY <1>1, Flags
<1> DEFINE w == [n EXCEPT !.fl = fl]
<1>3. w \in Machines /\ w.r = n.r /\ w.fl = fl /\ w.mem = n.mem
  BY FlagsTyped
<1>4. cld(n) = w
  BY <1>2 DEF cld
<1> HIDE DEF w
<1> QED
  BY <1>2, <1>3, <1>4

LEMMA CopyProgram ==
  LET prog == Program["sysmemaccess_copy"]
  IN  /\ DOMAIN prog = 1..10
      /\ prog[1] = <<"pushl", "esi">>
      /\ prog[2] = <<"pushl", "edi">>
      /\ prog[3] = <<"movl_mesp", 12, "edi">>
      /\ prog[4] = <<"movl_mesp_esi", 16>>
      /\ prog[5] = <<"movl_mesp", 20, "ecx">>
      /\ prog[6] = <<"cld">>
      /\ prog[7] = <<"rep_movsb">>
      /\ prog[8] = <<"popl", "edi">>
      /\ prog[9] = <<"popl", "esi">>
      /\ prog[10] = <<"ret">>
<1>1. Program["sysmemaccess_copy"] = <<<<"pushl", "esi">>, <<"pushl", "edi">>, <<"movl_mesp", 12, "edi">>, <<"movl_mesp_esi", 16>>, <<"movl_mesp", 20, "ecx">>,
    <<"cld">>, <<"rep_movsb">>, <<"popl", "edi">>, <<"popl", "esi">>, <<"ret">>>>
  BY DEF Program, sysmemaccess_copy
<1> QED
  BY <1>1
LEMMA CopyStep ==
  ASSUME NEW e, CopyEntered(e), NEW n, NEW p \in 1..9, CopyAt(n, e, p)
  PROVE  CopyAt(Exec(n, Program["sysmemaccess_copy"][p]), e, p + 1)
<1> DEFINE prog == Program["sysmemaccess_copy"]
<1>1. n \in Machines /\ n.r \in [Gprs -> Words] /\ Frame(n, e, 24, CopyOut)
  BY Parts DEF CopyAt
<1>2. \A a \in {24, 28, 32, 36, 80} : Read32(n, a) = Read32(e, a)
  <2>1. ASSUME NEW a \in {24, 28, 32, 36, 80} PROVE Read32(n, a) = Read32(e, a)
    <3>1. a \in 0..84 /\ a >= 24 /\ WordAt(a) \cap CopyOut = {} /\ 24 \in 0..84
      BY DEF WordAt, CopyOut
    <3> QED
      BY <1>1, <3>1, FrameReads
  <2> QED
    BY <2>1
<1>3. CASE p = 1
  <2> DEFINE w == Exec(n, <<"pushl", "esi">>)
  <2>1. prog[p] = <<"pushl", "esi">>
    BY <1>3, CopyProgram
  <2>2. n.r.esp = 20 + 4 /\ 20 \in 0..84 /\ "esi" \in Gprs
    BY <1>3 DEF CopyAt, Gprs
  <2>3. w \in Machines /\ w.r = [n.r EXCEPT !["esp"] = 20] /\ Wrote(w, n, 20, n.r.esi)
    BY <1>1, <2>2, PushReg
  <2> HIDE DEF w
  <2>4. Read32(w, 20) = n.r.esi
    BY <2>3 DEF Wrote
  <2>5. Read32(w, 16) = Read32(n, 16) /\ Read32(w, 84) = Read32(n, 84)
    <3>1. ASSUME NEW b \in {16, 84} PROVE Read32(w, b) = Read32(n, b)
      <4>1. b \in 0..84 /\ (b + 4 <= 20 \/ 20 + 4 <= b) /\ 20 \in 0..84
        OBVIOUS
      <4> QED
        BY <2>3, <4>1, WroteElsewhere
    <3> QED
      BY <3>1
  <2>6. Frame(w, e, 24, CopyOut)
    <3>1. 20 \in 0..84 /\ 24 \in 0..84 /\ 20 + 4 <= 24
      OBVIOUS
    <3> QED
      BY <1>1, <2>3, <3>1, WroteBelow
  <2>7. CopyAt(w, e, 2)
    BY <1>1, <1>2, <2>3, <2>4, <2>5, <2>6, <1>3 DEF CopyAt, CopyEntered, Gprs
  <2> QED
    BY <1>3, <2>1, <2>7 DEF w
<1>4. CASE p = 2
  <2> DEFINE w == Exec(n, <<"pushl", "edi">>)
  <2>1. prog[p] = <<"pushl", "edi">>
    BY <1>4, CopyProgram
  <2>2. n.r.esp = 16 + 4 /\ 16 \in 0..84 /\ "edi" \in Gprs
    BY <1>4 DEF CopyAt, Gprs
  <2>3. w \in Machines /\ w.r = [n.r EXCEPT !["esp"] = 16] /\ Wrote(w, n, 16, n.r.edi)
    BY <1>1, <2>2, PushReg
  <2> HIDE DEF w
  <2>4. Read32(w, 16) = n.r.edi
    BY <2>3 DEF Wrote
  <2>5. Read32(w, 20) = Read32(n, 20) /\ Read32(w, 84) = Read32(n, 84)
    <3>1. ASSUME NEW b \in {20, 84} PROVE Read32(w, b) = Read32(n, b)
      <4>1. b \in 0..84 /\ (b + 4 <= 16 \/ 16 + 4 <= b) /\ 16 \in 0..84
        OBVIOUS
      <4> QED
        BY <2>3, <4>1, WroteElsewhere
    <3> QED
      BY <3>1
  <2>6. Frame(w, e, 24, CopyOut)
    <3>1. 16 \in 0..84 /\ 24 \in 0..84 /\ 16 + 4 <= 24
      OBVIOUS
    <3> QED
      BY <1>1, <2>3, <3>1, WroteBelow
  <2>7. CopyAt(w, e, 3)
    BY <1>1, <1>2, <2>3, <2>4, <2>5, <2>6, <1>4 DEF CopyAt, CopyEntered, Gprs
  <2> QED
    BY <1>4, <2>1, <2>7 DEF w
<1>5. CASE p = 3
  <2> DEFINE w == Exec(n, <<"movl_mesp", 12, "edi">>)
  <2>1. prog[p] = <<"movl_mesp", 12, "edi">>
    BY <1>5, CopyProgram
  <2>2. n.r.esp + 12 = 28 /\ 28 \in 0..84 /\ "edi" \in Gprs
    BY <1>5 DEF CopyAt, Gprs
  <2>3. w \in Machines /\ w.r = [n.r EXCEPT !["edi"] = Read32(n, 28)] /\ w.mem = n.mem
    <3>1. Sets(w, n, "edi", Read32(n, 28))
      BY <1>1, <2>2, MoveFromStack
    <3> QED
      BY <3>1 DEF Sets
  <2> HIDE DEF w
  <2>4. Frame(w, e, 24, CopyOut) /\ \A b : Read32(w, b) = Read32(n, b)
    BY <1>1, <2>3, SameMemory
  <2>7. CopyAt(w, e, 4)
    BY <1>1, <1>2, <2>3, <2>4, <1>5 DEF CopyAt, CopyEntered, Gprs
  <2> QED
    BY <1>5, <2>1, <2>7 DEF w
<1>6. CASE p = 4
  <2> DEFINE w == Exec(n, <<"movl_mesp_esi", 16>>)
  <2>1. prog[p] = <<"movl_mesp_esi", 16>>
    BY <1>6, CopyProgram
  <2>2. n.r.esp + 16 = 32 /\ 32 \in 0..84 /\ "esi" \in Gprs
    BY <1>6 DEF CopyAt, Gprs
  <2>3. w \in Machines /\ w.r = [n.r EXCEPT !["esi"] = Read32(n, 32)] /\ w.mem = n.mem
    <3>1. Sets(w, n, "esi", Read32(n, 32))
      BY <1>1, <2>2, MoveToEsi
    <3> QED
      BY <3>1 DEF Sets
  <2> HIDE DEF w
  <2>4. Frame(w, e, 24, CopyOut) /\ \A b : Read32(w, b) = Read32(n, b)
    BY <1>1, <2>3, SameMemory
  <2>7. CopyAt(w, e, 5)
    BY <1>1, <1>2, <2>3, <2>4, <1>6 DEF CopyAt, CopyEntered, Gprs
  <2> QED
    BY <1>6, <2>1, <2>7 DEF w
<1>7. CASE p = 5
  <2> DEFINE w == Exec(n, <<"movl_mesp", 20, "ecx">>)
  <2>1. prog[p] = <<"movl_mesp", 20, "ecx">>
    BY <1>7, CopyProgram
  <2>2. n.r.esp + 20 = 36 /\ 36 \in 0..84 /\ "ecx" \in Gprs
    BY <1>7 DEF CopyAt, Gprs
  <2>3. w \in Machines /\ w.r = [n.r EXCEPT !["ecx"] = Read32(n, 36)] /\ w.mem = n.mem
    <3>1. Sets(w, n, "ecx", Read32(n, 36))
      BY <1>1, <2>2, MoveFromStack
    <3> QED
      BY <3>1 DEF Sets
  <2> HIDE DEF w
  <2>4. Frame(w, e, 24, CopyOut) /\ \A b : Read32(w, b) = Read32(n, b)
    BY <1>1, <2>3, SameMemory
  <2>7. CopyAt(w, e, 6)
    BY <1>1, <1>2, <2>3, <2>4, <1>7 DEF CopyAt, CopyEntered, Gprs
  <2> QED
    BY <1>7, <2>1, <2>7 DEF w
<1>8. CASE p = 6
  <2> DEFINE w == Exec(n, <<"cld">>)
  <2>1. prog[p] = <<"cld">>
    BY <1>8, CopyProgram
  <2>2. w = cld(n)
    BY ExecMoves
  <2> HIDE DEF w
  <2>3. w \in Machines /\ w.r = n.r /\ w.mem = n.mem /\ Bit(w.fl, EFLAGS_DF) = 0
    BY <1>1, <2>2, ClearsDirection
  <2>4. Frame(w, e, 24, CopyOut) /\ \A b : Read32(w, b) = Read32(n, b)
    BY <1>1, <2>3, SameMemory
  <2>7. CopyAt(w, e, 7)
    BY <1>1, <1>2, <2>3, <2>4, <1>8 DEF CopyAt, CopyEntered, Gprs
  <2> QED
    BY <1>8, <2>1, <2>7 DEF w
<1>9. CASE p = 7
  <2> DEFINE w == Exec(n, <<"rep_movsb">>)
  <2>1. prog[p] = <<"rep_movsb">>
    BY <1>9, CopyProgram
  <2>2. w = rep_movsb(n)
    BY ExecMoves
  <2> HIDE DEF w
  <2>3. /\ w \in Machines /\ w.r = [n.r EXCEPT !["edi"] = 88, !["esi"] = 84]
        /\ Wrote(w, n, 84, Read32(n, 80))
    <3>1. n.r.esi = 80 /\ n.r.edi = 84 /\ n.r.ecx = 4 /\ Bit(n.fl, EFLAGS_DF) = 0
      BY <1>9 DEF CopyAt
    <3> QED
      BY <1>1, <2>2, <3>1, CopiesWord
  <2>4. Read32(w, 84) = Read32(n, 80)
    BY <2>3 DEF Wrote
  <2>5. Read32(w, 16) = Read32(n, 16) /\ Read32(w, 20) = Read32(n, 20)
    <3>1. ASSUME NEW b \in {16, 20} PROVE Read32(w, b) = Read32(n, b)
      <4>1. b \in 0..84 /\ (b + 4 <= 84 \/ 84 + 4 <= b) /\ 84 \in 0..84
        OBVIOUS
      <4> QED
        BY <2>3, <4>1, WroteElsewhere
    <3> QED
      BY <3>1
  <2>6. Frame(w, e, 24, CopyOut)
    <3>1. 84 \in 0..84 /\ 24 \in 0..84 /\ WordAt(84) \subseteq CopyOut
      BY DEF WordAt, CopyOut
    <3> QED
      BY <1>1, <2>3, <3>1, WroteInside
  <2>7. CopyAt(w, e, 8)
    BY <1>1, <1>2, <2>3, <2>4, <2>5, <2>6, <1>9 DEF CopyAt, CopyEntered, Gprs
  <2> QED
    BY <1>9, <2>1, <2>7 DEF w
<1>10. CASE p = 8
  <2> DEFINE w == Exec(n, <<"popl", "edi">>)
  <2>1. prog[p] = <<"popl", "edi">>
    BY <1>10, CopyProgram
  <2>2. n.r.esp = 16 /\ 16 \in 0..84 /\ "edi" \in Gprs /\ "edi" # "esp"
    BY <1>10 DEF CopyAt, Gprs
  <2>3. w \in Machines /\ w.r = [n.r EXCEPT !["esp"] = 16 + 4, !["edi"] = Read32(n, 16)] /\ w.mem = n.mem
    BY <1>1, <2>2, PopReg
  <2> HIDE DEF w
  <2>4. Frame(w, e, 24, CopyOut) /\ \A b : Read32(w, b) = Read32(n, b)
    BY <1>1, <2>3, SameMemory
  <2>7. CopyAt(w, e, 9)
    BY <1>1, <1>2, <2>3, <2>4, <1>10 DEF CopyAt, CopyEntered, Gprs
  <2> QED
    BY <1>10, <2>1, <2>7 DEF w
<1>11. CASE p = 9
  <2> DEFINE w == Exec(n, <<"popl", "esi">>)
  <2>1. prog[p] = <<"popl", "esi">>
    BY <1>11, CopyProgram
  <2>2. n.r.esp = 20 /\ 20 \in 0..84 /\ "esi" \in Gprs /\ "esi" # "esp"
    BY <1>11 DEF CopyAt, Gprs
  <2>3. w \in Machines /\ w.r = [n.r EXCEPT !["esp"] = 20 + 4, !["esi"] = Read32(n, 20)] /\ w.mem = n.mem
    BY <1>1, <2>2, PopReg
  <2> HIDE DEF w
  <2>4. Frame(w, e, 24, CopyOut) /\ \A b : Read32(w, b) = Read32(n, b)
    BY <1>1, <2>3, SameMemory
  <2>7. CopyAt(w, e, 10)
    BY <1>1, <1>2, <2>3, <2>4, <1>11 DEF CopyAt, CopyEntered, Gprs
  <2> QED
    BY <1>11, <2>1, <2>7 DEF w
<1> QED
  BY <1>3, <1>4, <1>5, <1>6, <1>7, <1>8, <1>9, <1>10, <1>11
LEMMA CopyReturns ==
  ASSUME NEW e, CopyEntered(e), NEW n, CopyAt(n, e, 10)
  PROVE  LeftFrame(Return(n, "ret"), e, CopyOut) /\ Read32(Return(n, "ret"), 84) = Read32(e, 80)
<1> DEFINE w == Return(n, "ret")
<1>1. /\ n \in Machines /\ n.r.esp = 24 /\ n.r.ebx = 5 /\ n.r.esi = 6 /\ n.r.edi = 7 /\ Frame(n, e, 24, CopyOut)
      /\ e.r.esp = 24 /\ Read32(e, 24) = CASM_RET_EIP /\ Read32(n, 84) = Read32(e, 80)
  BY DEF CopyAt, CopyEntered
<1>2. 24 \in 0..84 /\ 24 >= 24 /\ WordAt(24) \cap CopyOut = {}
  BY DEF WordAt, CopyOut
<1>3. Read32(n, 24) = CASM_RET_EIP
  BY <1>1, <1>2, FrameReads
<1>4. LeftFrame(w, e, CopyOut) /\ w.mem = n.mem
  BY <1>1, <1>2, <1>3, ReturnsTo
<1> HIDE DEF w
<1>5. Read32(w, 84) = Read32(n, 84)
  BY <1>4, SameMemory
<1> QED
  BY <1>1, <1>4, <1>5 DEF w

(* slab_entrystub: its code, part by part. *)
StubHead ==
  <<<<"pushl_mesp", 4>>, <<"call_c_1p">>, <<"addl_imm_esp", 4>>,
    <<"movl_mesp", 4, "eax">>, <<"cmpl_imm_meax", 8, 0>>, <<"je", 12>>,
    <<"cmpl_imm_meax", 4, 0>>, <<"je", 18>>, <<"cmpl_imm_meax", 6, 0>>,
    <<"je", 24>>, <<"jmplabel", 30>>>>
StubTail == <<<<"ret">>, <<"hlt">>>>
StubInsns ==
  {<<"pushl_mesp", 4>>,
   <<"call_c_1p">>,
   <<"addl_imm_esp", 4>>,
   <<"movl_mesp", 4, "eax">>,
   <<"cmpl_imm_meax", 8, 0>>,
   <<"je", 12>>,
   <<"cmpl_imm_meax", 4, 0>>,
   <<"je", 18>>,
   <<"cmpl_imm_meax", 6, 0>>,
   <<"je", 24>>,
   <<"jmplabel", 30>>,
   <<"movl_imm_meax", 9, 0>>,
   <<"movl_imm_meax", 5, 0>>,
   <<"movl_imm_meax", 7, 0>>,
   <<"movl_meax", 4, "edx">>,
   <<"movl_meax", 8, "ecx">>,
   <<"movl_reg_meax", 4, "ecx">>,
   <<"movl_reg_meax", 8, "edx">>,
   <<"jmpsentinel">>,
   <<"ret">>,
   <<"hlt">>}
StubA == StubHead \o SwapAndLeave(9)
StubB == StubA \o SwapAndLeave(5)
StubC == StubB \o SwapAndLeave(7)
LEMMA Joined ==
  ASSUME NEW S, NEW a, NEW b, a \in Seq(S), b \in Seq(S)
  PROVE  /\ a \o b \in Seq(S) /\ Len(a \o b) = Len(a) + Len(b)
         /\ \A i \in 1..Len(a) : (a \o b)[i] = a[i]
         /\ \A i \in 1..Len(b) : (a \o b)[Len(a) + i] = b[i]
  OBVIOUS
LEMMA StubProgram ==
  LET prog == Program["slab_entrystub"]
  IN  /\ DOMAIN prog = 1..31
      /\ \A i \in 1..11 : prog[i] = StubHead[i]
      /\ \A q \in 1..6 : prog[11 + q] = SwapAndLeave(9)[q]
      /\ \A q \in 1..6 : prog[17 + q] = SwapAndLeave(5)[q]
      /\ \A q \in 1..6 : prog[23 + q] = SwapAndLeave(7)[q]
      /\ prog[30] = <<"ret">> /\ prog[31] = <<"hlt">>
<1>1. /\ StubHead \in Seq(StubInsns) /\ Len(StubHead) = 11
      /\ StubTail \in Seq(StubInsns) /\ Len(StubTail) = 2
  <2>1. StubHead \in Seq(StubInsns)
    BY DEF StubHead, StubInsns
  <2>2. Len(StubHead) = 11
    BY DEF StubHead
  <2>3. StubTail \in Seq(StubInsns) /\ Len(StubTail) = 2
    BY DEF StubTail, StubInsns
  <2> QED
    BY <2>1, <2>2, <2>3
<1>2. ASSUME NEW y \in {5, 7, 9} PROVE SwapAndLeave(y) \in Seq(StubInsns) /\ Len(SwapAndLeave(y)) = 6
  <2>1. <<"movl_imm_meax", y, 0>> \in StubInsns
    BY DEF StubInsns
  <2>2. <<"movl_meax", 4, "edx">> \in StubInsns /\ <<"movl_meax", 8, "ecx">> \in StubInsns
    BY DEF StubInsns
  <2>3. <<"movl_reg_meax", 4, "ecx">> \in StubInsns /\ <<"movl_reg_meax", 8, "edx">> \in StubInsns /\ <<"jmpsentinel">> \in StubInsns
    BY DEF StubInsns
  <2> QED
    BY <2>1, <2>2, <2>3 DEF SwapAndLeave
<1> DEFINE s9 == SwapAndLeave(9)
           s5 == SwapAndLeave(5)
           s7 == SwapAndLeave(7)
<1>3. Program["slab_entrystub"] = StubC \o StubTail
  BY DEF Program, slab_entrystub, StubHead, StubTail, StubA, StubB, StubC, CALL_uVT_uVU_PROG_TO_VfT_PROG, CALL_EXCEPTION,
         CALL_INTERCEPT, RET_uVT_uVU_PROG_TO_VfT_PROG, RET_EXCEPTION, RET_INTERCEPT
<1> DEFINE prog == Program["slab_entrystub"]
<1>4. /\ s9 \in Seq(StubInsns) /\ Len(s9) = 6 /\ s5 \in Seq(StubInsns) /\ Len(s5) = 6
      /\ s7 \in Seq(StubInsns) /\ Len(s7) = 6
  BY <1>2
<1>9. /\ StubHead \in Seq(StubInsns) /\ StubTail \in Seq(StubInsns)
      /\ s9 \in Seq(StubInsns) /\ s5 \in Seq(StubInsns) /\ s7 \in Seq(StubInsns)
  BY <1>1, <1>4
<1>10. /\ StubA \in Seq(StubInsns) /\ Len(StubA) = 17
       /\ (\A i \in 1..11 : StubA[i] = StubHead[i]) /\ \A i \in 1..6 : StubA[11 + i] = s9[i]
  <2>1. StubHead \in Seq(StubInsns) /\ s9 \in Seq(StubInsns) /\ StubA = StubHead \o s9
    BY <1>9 DEF StubA
  <2> HIDE DEF prog
  <2>2. /\ StubHead \o s9 \in Seq(StubInsns) /\ Len(StubHead \o s9) = Len(StubHead) + Len(s9)
        /\ (\A i \in 1..Len(StubHead) : (StubHead \o s9)[i] = StubHead[i])
        /\ \A i \in 1..Len(s9) : (StubHead \o s9)[Len(StubHead) + i] = s9[i]
    BY <2>1, Joined
  <2>3. /\ StubA \in Seq(StubInsns) /\ Len(StubA) = Len(StubHead) + Len(s9)
        /\ (\A i \in 1..Len(StubHead) : StubA[i] = StubHead[i])
        /\ \A i \in 1..Len(s9) : StubA[Len(StubHead) + i] = s9[i]
    BY <2>1, <2>2, Zenon
  <2>4. PICK i, j : i = 11 /\ j = 6 /\ Len(StubHead) = i /\ Len(s9) = j
    BY <1>1, <1>4
  <2>5. /\ Len(StubA) = i + j
        /\ (\A k \in 1..i : StubA[k] = StubHead[k])
        /\ \A k \in 1..j : StubA[i + k] = s9[k]
    BY <2>3, <2>4, Zenon
  <2>6. i = 11 /\ j = 6 /\ StubA \in Seq(StubInsns)
    BY <2>3, <2>4
  <2> QED
    BY <2>5, <2>6
<1>11. /\ StubB \in Seq(StubInsns) /\ Len(StubB) = 23
       /\ (\A i \in 1..17 : StubB[i] = StubA[i]) /\ \A i \in 1..6 : StubB[17 + i] = s5[i]
  <2>1. StubA \in Seq(StubInsns) /\ s5 \in Seq(StubInsns) /\ StubB = StubA \o s5
    BY <1>9, <1>10 DEF StubB
  <2> HIDE DEF prog
  <2>2. /\ StubA \o s5 \in Seq(StubInsns) /\ Len(StubA \o s5) = Len(StubA) + Len(s5)
        /\ (\A i \in 1..Len(StubA) : (StubA \o s5)[i] = StubA[i])
        /\ \A i \in 1..Len(s5) : (StubA \o s5)[Len(StubA) + i] = s5[i]
    BY <2>1, Joined
  <2>3. /\ StubB \in Seq(StubInsns) /\ Len(StubB) = Len(StubA) + Len(s5)
        /\ (\A i \in 1..Len(StubA) : StubB[i] = StubA[i])
        /\ \A i \in 1..Len(s5) : StubB[Len(StubA) + i] = s5[i]
    BY <2>1, <2>2, Zenon
  <2>4. PICK i, j : i = 17 /\ j = 6 /\ Len(StubA) = i /\ Len(s5) = j
    BY <1>4, <1>10
  <2>5. /\ Len(StubB) = i + j
        /\ (\A k \in 1..i : StubB[k] = StubA[k])
        /\ \A k \in 1..j : StubB[i + k] = s5[k]
    BY <2>3, <2>4, Zenon
  <2>6. i = 17 /\ j = 6 /\ StubB \in Seq(StubInsns)
    BY <2>3, <2>4
  <2> QED
    BY <2>5, <2>6
<1>12. /\ StubC \in Seq(StubInsns) /\ Len(StubC) = 29
       /\ (\A i \in 1..23 : StubC[i] = StubB[i]) /\ \A i \in 1..6 : StubC[23 + i] = s7[i]
  <2>1. StubB \in Seq(StubInsns) /\ s7 \in Seq(StubInsns) /\ StubC = StubB \o s7
    BY <1>9, <1>11 DEF StubC
  <2> HIDE DEF prog
  <2>2. /\ StubB \o s7 \in Seq(StubInsns) /\ Len(StubB \o s7) = Len(StubB) + Len(s7)
        /\ (\A i \in 1..Len(StubB) : (StubB \o s7)[i] = StubB[i])
        /\ \A i \in 1..Len(s7) : (StubB \o s7)[Len(StubB) + i] = s7[i]
    BY <2>1, Joined
  <2>3. /\ StubC \in Seq(StubInsns) /\ Len(StubC) = Len(StubB) + Len(s7)
        /\ (\A i \in 1..Len(StubB) : StubC[i] = StubB[i])
        /\ \A i \in 1..Len(s7) : StubC[Len(StubB) + i] = s7[i]
    BY <2>1, <2>2, Zenon
  <2>4. PICK i, j : i = 23 /\ j = 6 /\ Len(StubB) = i /\ Len(s7) = j
    BY <1>4, <1>11
  <2>5. /\ Len(StubC) = i + j
        /\ (\A k \in 1..i : StubC[k] = StubB[k])
        /\ \A k \in 1..j : StubC[i + k] = s7[k]
    BY <2>3, <2>4, Zenon
  <2>6. i = 23 /\ j = 6 /\ StubC \in Seq(StubInsns)
    BY <2>3, <2>4
  <2> QED
    BY <2>5, <2>6
<1>13. /\ prog \in Seq(StubInsns) /\ Len(prog) = 31
       /\ (\A i \in 1..29 : prog[i] = StubC[i]) /\ \A i \in 1..2 : prog[29 + i] = StubTail[i]
  <2>1. StubC \in Seq(StubInsns) /\ StubTail \in Seq(StubInsns) /\ prog = StubC \o StubTail
    BY <1>9, <1>12, <1>3 
  <2> HIDE DEF prog
  <2>2. /\ StubC \o StubTail \in Seq(StubInsns) /\ Len(StubC \o StubTail) = Len(StubC) + Len(StubTail)
        /\ (\A i \in 1..Len(StubC) : (StubC \o StubTail)[i] = StubC[i])
        /\ \A i \in 1..Len(StubTail) : (StubC \o StubTail)[Len(StubC) + i] = StubTail[i]
    BY <2>1, Joined
  <2>3. /\ prog \in Seq(StubInsns) /\ Len(prog) = Len(StubC) + Len(StubTail)
        /\ (\A i \in 1..Len(StubC) : prog[i] = StubC[i])
        /\ \A i \in 1..Len(StubTail) : prog[Len(StubC) + i] = StubTail[i]
    BY <2>1, <2>2, Zenon
  <2>4. PICK i, j : i = 29 /\ j = 2 /\ Len(StubC) = i /\ Len(StubTail) = j
    BY <1>1, <1>12
  <2>5. /\ Len(prog) = i + j
        /\ (\A k \in 1..i : prog[k] = StubC[k])
        /\ \A k \in 1..j : prog[i + k] = StubTail[k]
    BY <2>3, <2>4, Zenon
  <2>6. i = 29 /\ j = 2 /\ prog \in Seq(StubInsns)
    BY <2>3, <2>4
  <2> QED
    BY <2>5, <2>6
<1> HIDE DEF prog
<1>14. DOMAIN prog = 1..31 /\ prog[30] = <<"ret">> /\ prog[31] = <<"hlt">>
  <2>1. DOMAIN prog = 1..31
    BY <1>13
  <2>2. prog[29 + 1] = StubTail[1] /\ prog[29 + 2] = StubTail[2]
    BY <1>13
  <2> QED
    BY <2>1, <2>2 DEF StubTail
<1>15. \A i \in 1..11 : prog[i] = StubHead[i]
  <2>1. ASSUME NEW i \in 1..11 PROVE prog[i] = StubHead[i]
    <3>1. i \in 1..29 /\ i \in 1..23 /\ i \in 1..17
      OBVIOUS
    <3>2. prog[i] = StubC[i]
      BY <1>13, <3>1
    <3>3. StubC[i] = StubB[i]
      BY <1>12, <3>1
    <3>4. StubB[i] = StubA[i]
      BY <1>11, <3>1
    <3>5. StubA[i] = StubHead[i]
      BY <1>10
    <3> QED
      BY <3>2, <3>3, <3>4, <3>5
  <2> QED
    BY <2>1
<1>16. \A q \in 1..6 : prog[11 + q] = s9[q] /\ prog[17 + q] = s5[q] /\ prog[23 + q] = s7[q]
  <2>1. ASSUME NEW q \in 1..6 PROVE prog[11 + q] = s9[q] /\ prog[17 + q] = s5[q] /\ prog[23 + q] = s7[q]
    <3>1. PICK x, y, z : x = 11 + q /\ y = 17 + q /\ z = 23 + q
      OBVIOUS
    <3>2. x \in 1..29 /\ x \in 1..23 /\ x \in 1..17 /\ y \in 1..29 /\ y \in 1..23 /\ z \in 1..29
      BY <3>1
    <3>3. StubA[x] = s9[q] /\ StubB[y] = s5[q] /\ StubC[z] = s7[q]
      BY <1>10, <1>11, <1>12, <3>1
    <3>4. prog[x] = StubC[x] /\ prog[y] = StubC[y] /\ prog[z] = StubC[z]
      BY <1>13, <3>2
    <3>5. StubC[x] = StubB[x] /\ StubC[y] = StubB[y] /\ StubB[x] = StubA[x]
      BY <1>11, <1>12, <3>2
    <3> QED
      BY <3>1, <3>3, <3>4, <3>5
  <2> QED
    BY <2>1
<1> QED
  BY <1>14, <1>15, <1>16 DEF s9, s5, s7, prog

(* slab_entrystub: what it is called with, and how far it has come.  The
   return address that slab_main leaves is what the stub takes for the
   parameters, so that every access it makes there is undefined, and the
   pushed parameter is what it returns to. *)
StubEntered(e) ==
  /\ e \in Machines /\ e.r.esp = 32 /\ e.r.ebx = 5 /\ e.r.esi = 6 /\ e.r.edi = 7
  /\ Read32(e, 32) = CASM_RET_EIP /\ Read32(e, 36) = 68
StubAt(n, e, p) ==
  /\ p = 1 => Deep(n, e, 32, 32)
  /\ p = 3 => Deep(n, e, 32, 24)
  /\ p \in {2} \cup (4..30) => Deep(n, e, 32, 28)
  /\ p \in 2..30 => Read32(n, 28) = 68
  /\ p \in 5..30 => n.r.eax = CASM_RET_EIP
  /\ p # 31

LEMMA DeepReads ==
  ASSUME NEW n, NEW e, NEW lo, NEW s, NEW b, lo \in 0..84, b \in 0..84
  PROVE  Deep(n, e, lo, s) /\ b >= lo => Read32(n, b) = Read32(e, b)
<1> SUFFICES ASSUME Deep(n, e, lo, s), b >= lo PROVE Read32(n, b) = Read32(e, b)
  OBVIOUS
<1>1. Frame(n, e, lo, {}) /\ WordAt(b) \cap {} = {}
  BY DEF Deep
<1> QED
  BY <1>1, FrameReads

(* The instructions before the comparisons. *)
LEMMA StubBegins ==
  ASSUME NEW e, StubEntered(e), NEW n, NEW p \in {1, 3, 4}, StubAt(n, e, p)
  PROVE  StubAt(Exec(n, Program["slab_entrystub"][p]), e, p + 1)
<1> DEFINE prog == Program["slab_entrystub"]
<1>1. 24 \in 0..84 /\ 28 \in 0..84 /\ 32 \in 0..84 /\ 32 \in 4..84 /\ 36 \in 0..84 /\ 36 >= 32
      /\ "eax" \in Scratch /\ "eax" \in Gprs
  BY DEF Scratch, Gprs
<1>2. CASE p = 1
  <2>1. Deep(n, e, 32, 32) /\ n.r.esp = 32 /\ n \in Machines
    BY <1>2 DEF StubAt, Deep
  <2>2. prog[1] = <<"pushl_mesp", 4>>
    BY StubProgram DEF StubHead
  <2>3. Read32(n, 36) = 68 /\ 68 \in Words
    BY <1>1, <2>1, DeepReads, Small DEF StubEntered
  <2>4. At(n, "esp", 4) = 36
    BY <2>1 DEF At
  <2>5. Exec(n, <<"pushl_mesp", 4>>) = pushl_mesp(n, 4)
    BY ExecStackMoves
  <2>6. pushl_mesp(n, 4) = pushl_mem(n, 68)
    BY <2>3, <2>4 DEF pushl_mesp
  <2> DEFINE w == pushl_mem(n, 68)
  <2>7. Deep(w, e, 32, 32 - 4) /\ Wrote(w, n, 32 - 4, 68)
    <3>1. 32 <= 32
      OBVIOUS
    <3> QED
      BY <1>1, <2>1, <2>3, <3>1, DeepPush
  <2> HIDE DEF w
  <2>8. StubAt(w, e, 2)
    BY <2>7 DEF StubAt, Wrote
  <2> QED
    BY <1>2, <2>2, <2>5, <2>6, <2>8 DEF w
<1>3. CASE p = 3
  <2>1. Deep(n, e, 32, 24) /\ n.r.esp = 24 /\ n \in Machines /\ Read32(n, 28) = 68
    BY <1>3 DEF StubAt, Deep
  <2>2. prog[3] = <<"addl_imm_esp", 4>>
    BY StubProgram DEF StubHead
  <2> DEFINE w == addl_imm_esp(n, 4)
  <2>3. Exec(n, <<"addl_imm_esp", 4>>) = w
    BY ExecOperations
  <2>4. 4 \in 0..16 /\ n.r.esp \in 0..88
    BY <2>1
  <2>5. Deep(w, e, 32, 24 + 4)
    BY <1>1, <2>1, <2>4, DeepAdd
  <2>6. w.mem = n.mem
    BY <2>1, <2>4, AddEsp
  <2> HIDE DEF w
  <2>7. Read32(w, 28) = 68
    BY <2>1, <2>6, SameMemory
  <2>8. StubAt(w, e, 4)
    BY <2>5, <2>7 DEF StubAt
  <2> QED
    BY <1>3, <2>2, <2>3, <2>8
<1>4. CASE p = 4
  <2>1. Deep(n, e, 32, 28) /\ n.r.esp = 28 /\ n \in Machines /\ Read32(n, 28) = 68
    BY <1>4 DEF StubAt, Deep
  <2>2. prog[4] = <<"movl_mesp", 4, "eax">>
    BY StubProgram DEF StubHead
  <2> DEFINE w == Exec(n, <<"movl_mesp", 4, "eax">>)
  <2>3. n.r.esp + 4 = 32
    BY <2>1
  <2>4. Sets(w, n, "eax", Read32(n, 32))
    BY <1>1, <2>1, <2>3, MoveFromStack
  <2>5. Read32(n, 32) = CASM_RET_EIP
    <3>1. 32 >= 32
      OBVIOUS
    <3> QED
      BY <1>1, <2>1, <3>1, DeepReads DEF StubEntered
  <2> HIDE DEF w
  <2>6. Deep(w, e, 32, 28) /\ w.r["eax"] = CASM_RET_EIP
    BY <1>1, <2>1, <2>4, <2>5, DeepSets
  <2>7. Read32(w, 28) = 68
    BY <2>1, <2>4, SameMemory DEF Sets
  <2>8. StubAt(w, e, 5)
    BY <2>6, <2>7 DEF StubAt
  <2> QED
    BY <1>4, <2>2, <2>8 DEF w
<1> QED
  BY <1>2, <1>3, <1>4

(* The accesses through eax: undefined, and whatever they bring changes
   nothing but a flag, ecx or edx. *)
StrayAt == {5, 7, 9} \cup (12..16) \cup (18..22) \cup (24..28)
StrayInsn(i) ==
  \/ i[1] \in {"cmpl_imm_meax", "movl_imm_meax"} /\ i[3] = 0
  \/ i[1] = "movl_meax" /\ i[2] \in {4, 8} /\ i[3] \in {"ecx", "edx"}
  \/ i[1] = "movl_reg_meax" /\ i[2] \in {4, 8}
LEMMA StrayInsns ==
  ASSUME NEW p \in StrayAt
  PROVE  StrayInsn(Program["slab_entrystub"][p])
<1> DEFINE prog == Program["slab_entrystub"]
<1>1. CASE p \in {5, 7, 9}
  <2>1. /\ prog[5] = <<"cmpl_imm_meax", 8, 0>> /\ prog[7] = <<"cmpl_imm_meax", 4, 0>>
        /\ prog[9] = <<"cmpl_imm_meax", 6, 0>>
    BY StubProgram DEF StubHead
  <2>2. \A v : StrayInsn(<<"cmpl_imm_meax", v, 0>>)
    BY DEF StrayInsn
  <2> QED
    BY <1>1, <2>1, <2>2
<1>2. \A y : \A q \in 1..5 : StrayInsn(SwapAndLeave(y)[q])
  BY DEF StrayInsn, SwapAndLeave
<1>3. CASE p \in 12..16
  <2>1. p - 11 \in 1..5 /\ p - 11 \in 1..6 /\ 11 + (p - 11) = p
    BY <1>3
  <2> QED
    BY <1>2, <2>1, StubProgram
<1>4. CASE p \in 18..22
  <2>1. p - 17 \in 1..5 /\ p - 17 \in 1..6 /\ 17 + (p - 17) = p
    BY <1>4
  <2> QED
    BY <1>2, <2>1, StubProgram
<1>5. CASE p \in 24..28
  <2>1. p - 23 \in 1..5 /\ p - 23 \in 1..6 /\ 23 + (p - 23) = p
    BY <1>5
  <2> QED
    BY <1>2, <2>1, StubProgram
<1> QED
  BY <1>1, <1>3, <1>4, <1>5 DEF StrayAt
LEMMA Strays ==
  ASSUME NEW n, n.r.eax = CASM_RET_EIP, NEW i, StrayInsn(i)
  PROVE  i[1] \in ThroughEax /\ Stray(n, i)
<1>1. PICK k \in {0, 4, 8} : Address(n, i) = CASM_RET_EIP + k
  BY DEF StrayInsn, Address, At
<1>2. CASM_RET_EIP \in Nat /\ CASM_RET_EIP > 87
  BY DEF CASM_RET_EIP
<1>3. PICK a : a = Address(n, i)
  OBVIOUS
<1>4. a \in Nat /\ a > 87
  BY <1>1, <1>2, <1>3
<1>5. a \in WordAt(a) /\ a \notin Memory
  BY <1>4 DEF WordAt, Memory
<1>6. i[1] \in ThroughEax
  BY DEF StrayInsn, ThroughEax
<1> QED
  BY <1>3, <1>5, <1>6 DEF Stray
LEMMA StrayBrings ==
  ASSUME NEW n, n \in Machines, NEW i, StrayInsn(i), NEW w, w \in Undefined(n, i)
  PROVE  \/ w = n
         \/ \E fl \in Words : w = [n EXCEPT !.fl = fl]
         \/ \E reg \in {"ecx", "edx"}, v \in Words : Sets(w, n, reg, v)
<1>1. CASE i[1] = "cmpl_imm_meax"
  <2>1. Undefined(n, i) = {n, [n EXCEPT !.fl = SetBit(@, EFLAGS_ZF)]}
    BY <1>1 DEF Undefined
  <2>2. SetBit(n.fl, EFLAGS_ZF) \in Words
    BY Parts, Flags
  <2> QED
    BY <2>1, <2>2
<1>2. CASE i[1] = "movl_meax"
  <2>1. Undefined(n, i) = {SetReg(n, i[3], v) : v \in Values} /\ i[3] \in {"ecx", "edx"}
    BY <1>2 DEF Undefined, StrayInsn
  <2>2. PICK reg \in {"ecx", "edx"}, v \in Values : w = SetReg(n, reg, v)
    BY <2>1
  <2>3. reg \in Gprs /\ v \in Words
    BY ValuesAssumption DEF Gprs, Words
  <2>4. Sets(w, n, reg, v)
    BY <2>2, <2>3, Loads DEF Sets
  <2> QED
    BY <2>3, <2>4
<1>3. CASE i[1] \notin {"cmpl_imm_meax", "movl_meax"}
  BY <1>3 DEF Undefined
<1> QED
  BY <1>1, <1>2, <1>3
LEMMA StubStrays ==
  ASSUME NEW e, StubEntered(e), NEW n, NEW p \in StrayAt, StubAt(n, e, p)
  PROVE  LET i == Program["slab_entrystub"][p]
         IN  /\ i[1] \in ThroughEax /\ Stray(n, i)
             /\ \A w \in Undefined(n, i) : StubAt(w, e, p + 1)
<1> DEFINE i == Program["slab_entrystub"][p]
<1>1. StrayInsn(i)
  BY StrayInsns
<1> HIDE DEF i
<1>2. p \in 5..28 /\ p + 1 \in 5..30
  BY DEF StrayAt
<1>3. Deep(n, e, 32, 28) /\ Read32(n, 28) = 68 /\ n.r.eax = CASM_RET_EIP /\ n \in Machines
  BY <1>2 DEF StubAt, Deep
<1>4. i[1] \in ThroughEax /\ Stray(n, i)
  BY <1>1, <1>3, Strays
<1>5. ASSUME NEW w, Deep(w, e, 32, 28), w.mem = n.mem, w.r.eax = CASM_RET_EIP
      PROVE  StubAt(w, e, p + 1)
  <2>1. Read32(w, 28) = 68
    BY <1>3, <1>5, SameMemory
  <2>2. PICK q \in 5..30 : q = p + 1
    BY <1>2
  <2>3. StubAt(w, e, q)
    BY <1>5, <2>1 DEF StubAt
  <2> QED
    BY <2>2, <2>3
<1>6. ASSUME NEW w \in Undefined(n, i) PROVE StubAt(w, e, p + 1)
  <2>1. CASE w = n
    BY <1>3, <1>5, <2>1
  <2>2. ASSUME NEW fl \in Words, w = [n EXCEPT !.fl = fl] PROVE StubAt(w, e, p + 1)
    <3>1. w \in Machines /\ w.r = n.r /\ w.mem = n.mem
      BY <1>3, <2>2, FlagsTyped
    <3>2. Deep(w, e, 32, 28)
      BY <1>3, <3>1 DEF Deep, Frame
    <3> QED
      BY <1>3, <1>5, <3>1, <3>2
  <2>3. ASSUME NEW reg \in {"ecx", "edx"}, NEW v \in Words, Sets(w, n, reg, v) PROVE StubAt(w, e, p + 1)
    <3>1. reg \in Scratch
      BY DEF Scratch
    <3>2. Deep(w, e, 32, 28)
      BY <1>3, <2>3, <3>1, DeepSets
    <3>3. n.r \in [Gprs -> Words]
      BY <1>3, Parts
    <3>4. w.r.eax = CASM_RET_EIP /\ w.mem = n.mem
      BY <1>3, <2>3, <3>3 DEF Sets, Gprs
    <3> QED
      BY <1>5, <3>2, <3>4
  <2> QED
    BY <1>1, <1>3, <2>1, <2>2, <2>3, StrayBrings
<1> QED
  BY <1>4, <1>6 DEF i

(* The branches go to one of the swaps, or on. *)
LEMMA StubJump ==
  ASSUME NEW e, NEW n, NEW p \in {6, 8, 10, 11}, StubAt(n, e, p), NEW q \in 5..30
  PROVE  StubAt(n, e, q)
<1>1. p \in 5..30
  OBVIOUS
<1> QED
  BY <1>1 DEF StubAt

(* The call of slab_main: it keeps the registers it must keep, and eax and
   edx come back with any value. *)
ReturnedFromC(n, x, y) == SetReg(SetReg(pushl_mem(n, CASM_RET_EIP), "eax", x), "edx", y)
LEMMA StubCalls ==
  ASSUME NEW e, NEW n, StubAt(n, e, 2), NEW x, NEW y, x \in Words, y \in Words
  PROVE  StubAt(ReturnedFromC(n, x, y), e, 3)
<1> DEFINE a == pushl_mem(n, CASM_RET_EIP)
           c == SetReg(a, "eax", x)
           d == SetReg(c, "edx", y)
<1>1. /\ Deep(n, e, 32, 28) /\ CASM_RET_EIP \in Words /\ 28 \in 4..84 /\ 32 \in 0..84 /\ 28 <= 32
      /\ Read32(n, 28) = 68
  BY WidthNumbers DEF StubAt
<1>2. Deep(a, e, 32, 28 - 4) /\ Wrote(a, n, 28 - 4, CASM_RET_EIP)
  BY <1>1, DeepPush
<1> HIDE DEF a
<1>3. Deep(a, e, 32, 24) /\ Wrote(a, n, 24, CASM_RET_EIP) /\ a \in Machines
  BY <1>2 DEF Deep
<1>4. Read32(a, 28) = 68
  <2>1. 24 \in 0..84 /\ 28 \in 0..84 /\ 24 + 4 <= 28
    OBVIOUS
  <2> QED
    BY <1>1, <1>3, <2>1, WroteElsewhere
<1>5. "eax" \in Gprs /\ "edx" \in Gprs /\ "eax" \in Scratch /\ "edx" \in Scratch
  BY DEF Gprs, Scratch
<1>6. Sets(c, a, "eax", x)
  BY <1>3, <1>5, Loads DEF Sets
<1> HIDE DEF c
<1>7. Deep(c, e, 32, 24) /\ c \in Machines
  BY <1>3, <1>5, <1>6, DeepSets DEF Sets
<1>8. Sets(d, c, "edx", y)
  BY <1>5, <1>7, Loads DEF Sets
<1> HIDE DEF d
<1>9. Deep(d, e, 32, 24)
  BY <1>5, <1>7, <1>8, DeepSets
<1>10. Read32(d, 28) = 68
  <2>1. d.mem = a.mem
    BY <1>6, <1>8 DEF Sets
  <2> QED
    BY <1>4, <2>1, SameMemory
<1>11. StubAt(d, e, 3)
  BY <1>9, <1>10 DEF StubAt
<1> QED
  BY <1>11 DEF a, c, d, ReturnedFromC

(* The return: to the parameter, with the caller's frame as it was. *)
StubLeft(n, e) ==
  /\ n \in Machines /\ n.r.esp = 32 /\ n.r.eip = 68
  /\ n.r.ebx = 5 /\ n.r.esi = 6 /\ n.r.edi = 7
  /\ Frame(n, e, 32, {})
LEMMA StubReturns ==
  ASSUME NEW e, NEW n, StubAt(n, e, 30)
  PROVE  StubLeft(Return(n, "ret"), e)
<1> DEFINE w == popl(n, "eip")
<1>1. Return(n, "ret") = w
  BY DEF Return
<1>2. Deep(n, e, 32, 28) /\ Read32(n, 28) = 68 /\ n \in Machines /\ n.r.esp = 28
  BY DEF StubAt, Deep
<1>3. w \in Machines /\ w.r = [n.r EXCEPT !["esp"] = 28 + 4, !["eip"] = 68] /\ w.mem = n.mem
  <2>1. "eip" \in Gprs /\ "eip" # "esp" /\ n.r.esp \in 0..84
    BY <1>2 DEF Gprs
  <2>2. w.r = [n.r EXCEPT !["esp"] = n.r.esp + 4, !["eip"] = Read32(n, n.r.esp)] /\ w \in Machines /\ w.mem = n.mem
    BY <1>2, <2>1, Pops
  <2> QED
    BY <1>2, <2>2
<1> HIDE DEF w
<1>4. w.r.esp = 32 /\ w.r.eip = 68 /\ w.r.ebx = 5 /\ w.r.esi = 6 /\ w.r.edi = 7
  <2>1. n.r \in [Gprs -> Words]
    BY <1>2, Parts
  <2> QED
    BY <1>2, <1>3, <2>1 DEF Gprs, Deep
<1>5. Frame(w, e, 32, {})
  BY <1>2, <1>3 DEF Deep, Frame
<1> QED
  BY <1>1, <1>3, <1>4, <1>5 DEF StubLeft

(* Every function that is called, with the arguments it is called with. *)
WordFns == DescriptorFns \cup EflagsFns \cup {"xmhfhw_cpu_reloadcs"}
LockFns == {"spin_lock", "spin_unlock"}
Shape(f, a) ==
  \/ f \in QuietFns /\ a \in Seq(Words) /\ Len(a) \in 1..3
  \/ f = "xmhfhw_cpu_cpuid" /\ \E op \in 0..2 : a = <<op, 40, 44, 48, 52>>
  \/ f = "vmx_invept" /\ a = <<1, 2, 3, 4>>
  \/ f = "sysmemaccess_copy" /\ a = <<84, 80, 4>>
  \/ f \in WordFns /\ a \in Seq(Words) /\ Len(a) = 1
  \/ f \in LoadFns /\ a = <<56>>
  \/ f \in LockFns /\ a = <<64>>
  \/ f = "slab_entrystub" /\ a = <<68>>
LEMMA OneWord ==
  ASSUME NEW S, S \subseteq Words, NEW a, a \in One(S)
  PROVE  a \in Seq(Words) /\ Len(a) = 1
<1>1. PICK v \in S : a = <<v>>
  BY DEF One
<1>2. v \in Words
  OBVIOUS
<1> QED
  BY <1>1, <1>2
LEMMA TwoWords ==
  ASSUME NEW x, NEW y, x \in Words, y \in Words
  PROVE  <<x, y>> \in Seq(Words) /\ Len(<<x, y>>) = 2
  OBVIOUS
LEMMA ThreeWords ==
  ASSUME NEW x, NEW y, NEW z, x \in Words, y \in Words, z \in Words
  PROVE  <<x, y, z>> \in Seq(Words) /\ Len(<<x, y, z>>) = 3
  OBVIOUS
LEMMA CallShapes == \A c \in Calls : Shape(c.fn, c.args)
<1>0. Values \subseteq Words
  BY ValuesAssumption DEF Words
<1>1. /\ {0} \subseteq Words /\ {0, PCI_CONFIG_ADDR_PORT} \subseteq Words /\ (0..7) \subseteq Words
      /\ {SysmemDst} \subseteq Words /\ (0..3) \subseteq Words /\ {1} \subseteq Words /\ {16} \subseteq Words
      /\ \A v \in 0..9 : v \in Words
  <2>1. 3320 \in Words /\ 84 \in Words /\ \A v \in 0..16 : v \in Words
    BY WidthNumbers DEF Words
  <2> QED
    BY <2>1 DEF PCI_CONFIG_ADDR_PORT, SysmemDst

<1> DEFINE Ok(T) == \A c \in T : Shape(c.fn, c.args)
<1>2. ASSUME NEW fns, NEW S, fns \subseteq QuietFns \cup WordFns, S \subseteq Words PROVE Ok(With(fns, One(S)))
  <2>1. ASSUME NEW c \in With(fns, One(S)) PROVE Shape(c.fn, c.args)
    <3>1. c.fn \in QuietFns \cup WordFns /\ c.args \in One(S)
      BY <1>2 DEF With
    <3>2. c.args \in Seq(Words) /\ Len(c.args) = 1
      BY <1>2, <3>1, OneWord
    <3> QED
      BY <3>1, <3>2 DEF Shape
  <2> QED
    BY <2>1
<1>3. Ok(drv_bsrl_cpuid)
  <2>1. Ok(With({"bsrl"}, One(Values)))
    <3>1. {"bsrl"} \subseteq QuietFns \cup WordFns
      BY DEF QuietFns
    <3> QED
      BY <1>0, <1>2, <3>1
  <2>2. ASSUME NEW c \in With({"xmhfhw_cpu_cpuid"}, {<<op, EaxVar, EbxVar, EcxVar, EdxVar>> : op \in 0..2})
        PROVE  Shape(c.fn, c.args)
    BY DEF With, Shape, EaxVar, EbxVar, EcxVar, EdxVar
  <2> QED
    BY <2>1, <2>2 DEF drv_bsrl_cpuid
<1>4. Ok(drv_intr_descriptors)
  <2>1. Ok(With({"xmhfhw_cpu_disable_intr", "enable_intr", "getgdtbase", "getidtbase"}, One({0})))
    <3>1. {"xmhfhw_cpu_disable_intr", "enable_intr", "getgdtbase", "getidtbase"} \subseteq QuietFns \cup WordFns
      BY DEF QuietFns, WordFns, DescriptorFns, EflagsFns
    <3> QED
      BY <1>1, <1>2, <3>1
  <2> QED
    BY <2>1 DEF drv_intr_descriptors
<1>5. Ok(drv_ports_in)
  <2>1. Ok(With({"inb", "inw", "inl"}, One({0, PCI_CONFIG_ADDR_PORT})))
    <3>1. {"inb", "inw", "inl"} \subseteq QuietFns \cup WordFns
      BY DEF QuietFns, WordFns, DescriptorFns, EflagsFns
    <3> QED
      BY <1>1, <1>2, <3>1
  <2> QED
    BY <2>1 DEF drv_ports_in
<1>6. Ok(drv_invept)
  <2>1. ASSUME NEW c \in With({"vmx_invept"}, {<<1, 2, 3, 4>>}) PROVE Shape(c.fn, c.args)
    BY DEF With, One, Shape, QuietFns
  <2> QED
    BY <2>1 DEF drv_invept
<1>7. Ok(drv_loads)
  <2>1. Ok(With({"xmhfhw_cpu_loadTR"}, One(Values)))
    <3>1. {"xmhfhw_cpu_loadTR"} \subseteq QuietFns \cup WordFns
      BY DEF QuietFns, WordFns, DescriptorFns, EflagsFns
    <3> QED
      BY <1>0, <1>2, <3>1
  <2>2. ASSUME NEW c \in With({"xmhfhw_cpu_loadGDT", "xmhfhw_cpu_loadIDT"}, One({Desc})) PROVE Shape(c.fn, c.args)
    BY DEF With, One, Shape, LoadFns, Desc
  <2> QED
    BY <2>1, <2>2 DEF drv_loads
<1>8. Ok(drv_ports_out)
  <2>1. ASSUME NEW c \in With({"outb", "outw", "outl"}, {<<9, p>> : p \in {0, PCI_CONFIG_ADDR_PORT}}) PROVE Shape(c.fn, c.args)
    <3>1. c.fn \in {"outb", "outw", "outl"}
      BY DEF With
    <3>2. PICK p \in {0, PCI_CONFIG_ADDR_PORT} : c.args = <<9, p>>
      BY DEF With
    <3>3. c.args \in Seq(Words) /\ Len(c.args) = 2
      <4>1. 9 \in Words /\ p \in Words
        BY <1>1
      <4> QED
        BY <3>2, <4>1, TwoWords, ThreeWords
    <3> QED
      BY <3>1, <3>3 DEF Shape, QuietFns
  <2> QED
    BY <2>1 DEF drv_ports_out
<1>9. Ok(drv_msr_tsc)
  <2>1. Ok(With({"rdmsr64"}, One(0..7)))
    <3>1. {"rdmsr64"} \subseteq QuietFns \cup WordFns
      BY DEF QuietFns, WordFns, DescriptorFns, EflagsFns
    <3> QED
      BY <1>1, <1>2, <3>1
  <2>2. Ok(With({"cpu_relax", "rdtsc64"}, One({0})))
    <3>1. {"cpu_relax", "rdtsc64"} \subseteq QuietFns \cup WordFns
      BY DEF QuietFns, WordFns, DescriptorFns, EflagsFns
    <3> QED
      BY <1>1, <1>2, <3>1
  <2> QED
    BY <2>1, <2>2 DEF drv_msr_tsc
<1>10. Ok(drv_readcr)
  <2>1. Ok(With({"read_cr0", "read_cr2", "read_cr3", "read_cr4"}, One({0})))
    <3>1. {"read_cr0", "read_cr2", "read_cr3", "read_cr4"} \subseteq QuietFns \cup WordFns
      BY DEF QuietFns, WordFns, DescriptorFns, EflagsFns
    <3> QED
      BY <1>1, <1>2, <3>1
  <2> QED
    BY <2>1 DEF drv_readcr
<1>11. Ok(drv_readseg)
  <2>1. Ok(With({"read_segreg_cs", "read_segreg_ds", "read_segreg_es", "read_segreg_fs", "read_segreg_gs", "read_segreg_ss"}, One({0})))
    <3>1. {"read_segreg_cs", "read_segreg_ds", "read_segreg_es", "read_segreg_fs", "read_segreg_gs", "read_segreg_ss"} \subseteq QuietFns \cup WordFns
      BY DEF QuietFns, WordFns, DescriptorFns, EflagsFns
    <3> QED
      BY <1>1, <1>2, <3>1
  <2> QED
    BY <2>1 DEF drv_readseg
<1>12. Ok(drv_readmisc)
  <2>1. Ok(With({"read_eflags", "read_esp", "read_rsp", "read_tr_sel"}, One({0})))
    <3>1. {"read_eflags", "read_esp", "read_rsp", "read_tr_sel"} \subseteq QuietFns \cup WordFns
      BY DEF QuietFns, WordFns, DescriptorFns, EflagsFns
    <3> QED
      BY <1>1, <1>2, <3>1
  <2> QED
    BY <2>1 DEF drv_readmisc
<1>13. Ok(drv_spin)
  <2>1. ASSUME NEW c \in With({"spin_lock", "spin_unlock"}, One({SmpLock})) PROVE Shape(c.fn, c.args)
    BY DEF With, One, Shape, LockFns, SmpLock
  <2> QED
    BY <2>1 DEF drv_spin
<1>14. Ok(drv_vmx)
  <2>1. Ok(With({"vmclear", "vmptrld", "vmxon"}, One({SysmemDst})))
    <3>1. {"vmclear", "vmptrld", "vmxon"} \subseteq QuietFns \cup WordFns
      BY DEF QuietFns, WordFns, DescriptorFns, EflagsFns
    <3> QED
      BY <1>1, <1>2, <3>1
  <2>2. Ok(With({"vmread"}, One(0..3)))
    <3>1. {"vmread"} \subseteq QuietFns \cup WordFns
      BY DEF QuietFns, WordFns, DescriptorFns, EflagsFns
    <3> QED
      BY <1>1, <1>2, <3>1
  <2>3. ASSUME NEW c \in With({"vmwrite"}, {<<e, 7>> : e \in 0..3}) PROVE Shape(c.fn, c.args)
    <3>1. c.fn \in {"vmwrite"}
      BY DEF With
    <3>2. PICK e \in 0..3 : c.args = <<e, 7>>
      BY DEF With
    <3>3. c.args \in Seq(Words) /\ Len(c.args) = 2
      <4>1. e \in Words /\ 7 \in Words
        BY <1>1
      <4> QED
        BY <3>2, <4>1, TwoWords, ThreeWords
    <3> QED
      BY <3>1, <3>3 DEF Shape, QuietFns
  <2> QED
    BY <2>1, <2>2, <2>3 DEF drv_vmx
<1>15. Ok(drv_write)
  <2>1. Ok(With({"write_cr0", "write_cr3", "write_cr4", "write_eflags"}, One(Values)))
    <3>1. {"write_cr0", "write_cr3", "write_cr4", "write_eflags"} \subseteq QuietFns \cup WordFns
      BY DEF QuietFns, WordFns, DescriptorFns, EflagsFns
    <3> QED
      BY <1>0, <1>2, <3>1
  <2>2. Ok(With({"wbinvd"}, One({0})))
    <3>1. {"wbinvd"} \subseteq QuietFns \cup WordFns
      BY DEF QuietFns, WordFns, DescriptorFns, EflagsFns
    <3> QED
      BY <1>1, <1>2, <3>1
  <2>3. ASSUME NEW c \in With({"wrmsr64"}, {<<n, 8, 9>> : n \in {1, 2, 5, 6}}) PROVE Shape(c.fn, c.args)
    <3>1. c.fn \in {"wrmsr64"}
      BY DEF With
    <3>2. PICK n \in {1, 2, 5, 6} : c.args = <<n, 8, 9>>
      BY DEF With
    <3>3. c.args \in Seq(Words) /\ Len(c.args) = 3
      <4>1. n \in Words /\ 8 \in Words /\ 9 \in Words
        BY <1>1
      <4> QED
        BY <3>2, <4>1, TwoWords, ThreeWords
    <3> QED
      BY <3>1, <3>3 DEF Shape, QuietFns
  <2> QED
    BY <2>1, <2>2, <2>3 DEF drv_write
<1>16. Ok(drv_xcr)
  <2>1. Ok(With({"xgetbv"}, One({1})))
    <3>1. {"xgetbv"} \subseteq QuietFns \cup WordFns
      BY DEF QuietFns, WordFns, DescriptorFns, EflagsFns
    <3> QED
      BY <1>1, <1>2, <3>1
  <2>2. ASSUME NEW c \in With({"xsetbv"}, {<<1, 3, 4>>}) PROVE Shape(c.fn, c.args)
    <3>1. c.fn = "xsetbv" /\ c.args = <<1, 3, 4>>
      BY DEF With
    <3>2. 1 \in Words /\ 3 \in Words /\ 4 \in Words
      BY <1>1
    <3>3. c.args \in Seq(Words) /\ Len(c.args) = 3
      BY <3>1, <3>2, ThreeWords
    <3> QED
      BY <3>1, <3>3 DEF Shape, QuietFns
  <2> QED
    BY <2>1, <2>2 DEF drv_xcr
<1>17. Ok(drv_sysmemaccess_bcopy)
  <2>1. ASSUME NEW c \in With({"sysmemaccess_copy"}, {<<SysmemDst, SysmemSrc, 4>>}) PROVE Shape(c.fn, c.args)
    BY DEF With, One, Shape, SysmemDst, SysmemSrc
  <2> QED
    BY <2>1 DEF drv_sysmemaccess_bcopy
<1>18. Ok(drv_other)
  <2>1. Ok(With({"hlt"}, One({0})))
    <3>1. {"hlt"} \subseteq QuietFns \cup WordFns
      BY DEF QuietFns, WordFns, DescriptorFns, EflagsFns
    <3> QED
      BY <1>1, <1>2, <3>1
  <2>2. Ok(With({"xmhfhw_cpu_reloadcs", "xmhfhw_cpu_reloaddsregs"}, One({16})))
    <3>1. {"xmhfhw_cpu_reloadcs", "xmhfhw_cpu_reloaddsregs"} \subseteq QuietFns \cup WordFns
      BY DEF QuietFns, WordFns, DescriptorFns, EflagsFns
    <3> QED
      BY <1>1, <1>2, <3>1
  <2> QED
    BY <2>1, <2>2 DEF drv_other
<1>19. Ok(drv_slab)
  <2>1. ASSUME NEW c \in With({"slab_entrystub"}, One({SlabParams})) PROVE Shape(c.fn, c.args)
    BY DEF With, One, Shape, SlabParams
  <2> QED
    BY <2>1 DEF drv_slab
<1> HIDE DEF Ok
<1>20. Ok(Calls)
  <2>1. ASSUME NEW c \in Calls PROVE Shape(c.fn, c.args)
    <3>1. \/ c \in drv_bsrl_cpuid \/ c \in drv_intr_descriptors \/ c \in drv_ports_in \/ c \in drv_invept \/ c \in drv_loads
          \/ c \in drv_ports_out \/ c \in drv_msr_tsc \/ c \in drv_readcr \/ c \in drv_readseg \/ c \in drv_readmisc
          \/ c \in drv_spin \/ c \in drv_vmx \/ c \in drv_write \/ c \in drv_xcr \/ c \in drv_sysmemaccess_bcopy
          \/ c \in drv_other \/ c \in drv_slab
      BY DEF Calls
    <3> QED
      BY <3>1, <1>3, <1>4, <1>5, <1>6, <1>7, <1>8, <1>9, <1>10, <1>11, <1>12, <1>13, <1>14, <1>15, <1>16, <1>17, <1>18, <1>19 DEF Ok
  <2> QED
    BY <2>1 DEF Ok
<1> QED
  BY <1>20 DEF Ok

(* How far a call has come, for every function: what it found on entry, and
   what holds before its next instruction. *)
Outline(n, e, f, p) ==
  \/ /\ f \in QuietFns /\ p \in DOMAIN Program[f]
     /\ e.r.esp \in {24, 28, 32} /\ Entered(e, e.r.esp) /\ Deep(n, e, e.r.esp, e.r.esp)
  \/ f \in DescriptorFns /\ p \in 1..5 /\ Entered(e, 32) /\ DescriptorAt(n, e, p)
  \/ f \in EflagsFns /\ p \in 1..3 /\ Entered(e, 32) /\ EflagsAt(n, e, p)
  \/ f \in LoadFns /\ p \in 1..3 /\ Entered(e, 32) /\ Read32(e, 36) = Desc /\ LoadAt(n, e, p)
  \/ f = "vmx_invept" /\ p \in 1..16 /\ Entered(e, 20) /\ InveptAt(n, e, p)
  \/ f = "xmhfhw_cpu_reloadcs" /\ p \in 1..4 /\ Entered(e, 32) /\ ReloadAt(n, e, p)
  \/ f = "xmhfhw_cpu_cpuid" /\ p \in 1..19 /\ CpuidEntered(e) /\ CpuidAt(n, e, p)
  \/ f = "spin_lock" /\ p \in 1..7 /\ Entered(e, 32) /\ Read32(e, 36) = 64 /\ LockAt(n, e, p)
  \/ f = "spin_unlock" /\ p \in 1..3 /\ Entered(e, 32) /\ Read32(e, 36) = 64 /\ UnlockAt(n, e, p)
  \/ f = "sysmemaccess_copy" /\ p \in 1..10 /\ CopyEntered(e) /\ CopyAt(n, e, p)
  \/ f = "slab_entrystub" /\ p \in 1..31 /\ StubEntered(e) /\ StubAt(n, e, p)

(* What a function that has returned leaves. *)
SilentFns == QuietFns \cup WordFns \cup LoadFns \cup {"vmx_invept"}
Done(n, e, f) ==
  \/ f \in SilentFns /\ LeftFrame(n, e, {})
  \/ /\ f = "xmhfhw_cpu_cpuid" /\ LeftFrame(n, e, CpuidOut)
     /\ Read32(n, EaxVar) = CpuidAsked(e).r.eax /\ Read32(n, EbxVar) = CpuidAsked(e).r.ebx
     /\ Read32(n, EcxVar) = CpuidAsked(e).r.ecx /\ Read32(n, EdxVar) = CpuidAsked(e).r.edx
  \/ f = "spin_lock" /\ LeftFrame(n, e, LockOut) /\ Read32(e, 64) = 1 /\ Read32(n, 64) = 0
  \/ f = "spin_unlock" /\ LeftFrame(n, e, LockOut) /\ Read32(n, 64) = 1
  \/ f = "sysmemaccess_copy" /\ LeftFrame(n, e, CopyOut) /\ Read32(n, 84) = Read32(e, 80)
  \/ f = "slab_entrystub" /\ StubLeft(n, e)

(* What an entry stub leaves that goes back through the sentinel, or that an
   undefined access stops. *)
Gone(n, e, f) == f = "slab_entrystub" /\ n \in Machines /\ Frame(n, e, 32, {})

(* What the next instruction does, whatever it is. *)
Moves(n, e, f, p) ==
  LET i == Program[f][p]
  IN  /\ Plain(i) /\ (i[1] = "bsrl_mesp_eax" => bsrl_ends(n, i[2])) => Outline(Exec(n, i), e, f, p + 1)
      /\ i[1] \in ThroughEax =>
           /\ Stray(n, i) /\ Gone(n, e, f)
           /\ \A w \in Undefined(n, i) : Outline(w, e, f, p + 1)
      /\ i[1] \in Branches => Outline(n, e, f, IF Taken(n, i[1]) THEN i[2] ELSE p + 1)
      /\ i[1] = "call_c_1p" => \A x, y \in Words : Outline(ReturnedFromC(n, x, y), e, f, p + 1)
      /\ i[1] \in Returns => Done(Return(n, i[1]), e, f)
      /\ i[1] = "jmpsentinel" => Gone(n, e, f)

(* An instruction that is neither a jump nor a return. *)
LEMMA PlainMoves ==
  ASSUME NEW n, NEW e, NEW f, NEW p
  PROVE  Plain(Program[f][p]) /\ Outline(Exec(n, Program[f][p]), e, f, p + 1) => Moves(n, e, f, p)
  BY DEF Moves, Plain
LEMMA JumpMoves ==
  ASSUME NEW n, NEW e, NEW f, NEW p, NEW op, NEW t
  PROVE  /\ Program[f][p] = <<op, t>> /\ op \in Branches
         /\ Outline(n, e, f, IF Taken(n, op) THEN t ELSE p + 1)
         => Moves(n, e, f, p)
<1> SUFFICES ASSUME Program[f][p] = <<op, t>>, op \in Branches,
                    Outline(n, e, f, IF Taken(n, op) THEN t ELSE p + 1)
             PROVE  Moves(n, e, f, p)
  OBVIOUS
<1>1. Program[f][p][1] = op /\ Program[f][p][2] = t
  OBVIOUS
<1>2. op \notin Returns \cup ThroughEax \cup {"call_c_1p", "jmpsentinel"}
  BY DEF Branches, Returns, ThroughEax
<1> QED
  BY <1>1, <1>2 DEF Moves, Plain
LEMMA ReturnMoves ==
  ASSUME NEW n, NEW e, NEW f, NEW p
  PROVE  Program[f][p][1] \in Returns /\ Done(Return(n, Program[f][p][1]), e, f) => Moves(n, e, f, p)
<1> SUFFICES ASSUME Program[f][p][1] \in Returns, Done(Return(n, Program[f][p][1]), e, f)
             PROVE  Moves(n, e, f, p)
  OBVIOUS
<1>1. Program[f][p][1] \notin Branches \cup ThroughEax \cup {"call_c_1p", "jmpsentinel"}
  BY DEF Branches, Returns, ThroughEax
<1> QED
  BY <1>1 DEF Moves, Plain
(* The functions one by one. *)
LEMMA CpuidMoves ==
  ASSUME NEW n, NEW e, NEW p, CpuidEntered(e), p \in 1..19, CpuidAt(n, e, p)
  PROVE  Moves(n, e, "xmhfhw_cpu_cpuid", p)
<1>1. CASE p \in 1..18
  <2>1. CpuidAt(Exec(n, Program["xmhfhw_cpu_cpuid"][p]), e, p + 1)
    BY <1>1, CpuidStep
  <2>2. p + 1 \in 1..19
    BY <1>1
  <2>3. Plain(Program["xmhfhw_cpu_cpuid"][p])
    BY <1>1, CpuidProgram DEF Plain, Branches, Returns, ThroughEax
  <2> QED
    BY <2>1, <2>2, <2>3, PlainMoves DEF Outline
<1>2. CASE p = 19
  <2>1. Program["xmhfhw_cpu_cpuid"][p][1] = "ret"
    BY <1>2, CpuidProgram
  <2>2. Done(Return(n, "ret"), e, "xmhfhw_cpu_cpuid")
    BY <1>2, CpuidReturns DEF Done
  <2> QED
    BY <2>1, <2>2, ReturnMoves DEF Returns
<1> QED
  BY <1>1, <1>2
LEMMA CopyMoves ==
  ASSUME NEW n, NEW e, NEW p, CopyEntered(e), p \in 1..10, CopyAt(n, e, p)
  PROVE  Moves(n, e, "sysmemaccess_copy", p)
<1>1. CASE p \in 1..9
  <2>1. CopyAt(Exec(n, Program["sysmemaccess_copy"][p]), e, p + 1)
    BY <1>1, CopyStep
  <2>2. p + 1 \in 1..10
    BY <1>1
  <2>3. Plain(Program["sysmemaccess_copy"][p])
    BY <1>1, CopyProgram DEF Plain, Branches, Returns, ThroughEax
  <2> QED
    BY <2>1, <2>2, <2>3, PlainMoves DEF Outline
<1>2. CASE p = 10
  <2>1. Program["sysmemaccess_copy"][p][1] = "ret"
    BY <1>2, CopyProgram
  <2>2. Done(Return(n, "ret"), e, "sysmemaccess_copy")
    BY <1>2, CopyReturns DEF Done
  <2> QED
    BY <2>1, <2>2, ReturnMoves DEF Returns
<1> QED
  BY <1>1, <1>2
(* A function that has put the stack back returns. *)
LEMMA SilentReturns ==
  ASSUME NEW n, NEW e, NEW f, NEW p, NEW k, NEW op, k \in 0..84, op \in {"ret", "retu32", "retu64"}
  PROVE  /\ f \in SilentFns /\ Entered(e, k) /\ Deep(n, e, k, k) /\ Program[f][p][1] = op
         => Moves(n, e, f, p)
<1> SUFFICES ASSUME f \in SilentFns, Entered(e, k), Deep(n, e, k, k), Program[f][p][1] = op
             PROVE  Moves(n, e, f, p)
  OBVIOUS
<1>1. e.r.esp = k /\ Read32(e, k) = CASM_RET_EIP
  BY DEF Entered
<1>2. LeftFrame(Return(n, op), e, {})
  BY <1>1, DeepReturns
<1>3. Done(Return(n, op), e, f)
  BY <1>2 DEF Done
<1>4. op \in Returns
  BY DEF Returns
<1> QED
  BY <1>3, <1>4, ReturnMoves
LEMMA DescriptorMoves ==
  ASSUME NEW n, NEW e, NEW p, NEW f, f \in DescriptorFns, Entered(e, 32), p \in 1..5, DescriptorAt(n, e, p)
  PROVE  Moves(n, e, f, p)
<1>1. CASE p \in 1..4
  <2>1. DescriptorAt(Exec(n, Program[f][p]), e, p + 1)
    BY <1>1, DescriptorStep
  <2>2. p + 1 \in 1..5
    BY <1>1
  <2>3. Plain(Program[f][p])
    BY <1>1, DescriptorProgram DEF Plain, Branches, Returns, ThroughEax
  <2> QED
    BY <2>1, <2>2, <2>3, PlainMoves DEF Outline
<1>2. CASE p = 5
  <2>1. Program[f][p][1] = "retu32" /\ f \in SilentFns
    BY <1>2, DescriptorProgram DEF SilentFns, WordFns
  <2>2. Deep(n, e, 32, 32)
    BY <1>2 DEF DescriptorAt
  <2> QED
    BY <2>1, <2>2, SilentReturns
<1> QED
  BY <1>1, <1>2
LEMMA EflagsMoves ==
  ASSUME NEW n, NEW e, NEW p, NEW f, f \in EflagsFns, Entered(e, 32), p \in 1..3, EflagsAt(n, e, p)
  PROVE  Moves(n, e, f, p)
<1>1. CASE p \in 1..2
  <2>1. EflagsAt(Exec(n, Program[f][p]), e, p + 1)
    BY <1>1, EflagsStep
  <2>2. p + 1 \in 1..3
    BY <1>1
  <2>3. Plain(Program[f][p])
    BY <1>1, EflagsProgram DEF Plain, Branches, Returns, ThroughEax, EflagsFns
  <2> QED
    BY <2>1, <2>2, <2>3, PlainMoves DEF Outline
<1>2. CASE p = 3
  <2>1. Program[f][p][1] \in {"ret", "retu32"} /\ f \in SilentFns
    BY <1>2, EflagsProgram DEF SilentFns, WordFns, EflagsFns
  <2>2. Deep(n, e, 32, 32)
    BY <1>2 DEF EflagsAt
  <2> QED
    BY <2>1, <2>2, SilentReturns
<1> QED
  BY <1>1, <1>2
LEMMA LoadMoves ==
  ASSUME NEW n, NEW e, NEW p, NEW f, f \in LoadFns, Entered(e, 32), Read32(e, 36) = Desc,
         p \in 1..3, LoadAt(n, e, p)
  PROVE  Moves(n, e, f, p)
<1>1. CASE p \in 1..2
  <2>1. LoadAt(Exec(n, Program[f][p]), e, p + 1)
    BY <1>1, LoadStep
  <2>2. p + 1 \in 1..3
    BY <1>1
  <2>3. Plain(Program[f][p])
    BY <1>1, LoadProgram DEF Plain, Branches, Returns, ThroughEax
  <2> QED
    BY <2>1, <2>2, <2>3, PlainMoves DEF Outline
<1>2. CASE p = 3
  <2>1. Program[f][p][1] = "ret" /\ f \in SilentFns
    BY <1>2, LoadProgram DEF SilentFns
  <2>2. Deep(n, e, 32, 32)
    BY <1>2 DEF LoadAt
  <2> QED
    BY <2>1, <2>2, SilentReturns
<1> QED
  BY <1>1, <1>2
LEMMA ReloadMoves ==
  ASSUME NEW n, NEW e, NEW p, Entered(e, 32), p \in 1..4, ReloadAt(n, e, p)
  PROVE  Moves(n, e, "xmhfhw_cpu_reloadcs", p)
<1>0. Read32(e, 32) = CASM_RET_EIP /\ e.r.esp = 32
  BY DEF Entered
<1>1. CASE p \in 1..3
  <2>1. ReloadAt(Exec(n, Program["xmhfhw_cpu_reloadcs"][p]), e, p + 1)
    BY <1>0, <1>1, ReloadStep
  <2>2. p + 1 \in 1..4
    BY <1>1
  <2>3. Plain(Program["xmhfhw_cpu_reloadcs"][p])
    BY <1>1, ReloadProgram DEF Plain, Branches, Returns, ThroughEax
  <2> QED
    BY <2>1, <2>2, <2>3, PlainMoves DEF Outline
<1>2. CASE p = 4
  <2>1. Program["xmhfhw_cpu_reloadcs"][p][1] = "lret"
    BY <1>2, ReloadProgram
  <2>2. LeftFrame(Return(n, "lret"), e, {})
    BY <1>0, <1>2, ReloadReturns
  <2>3. Done(Return(n, "lret"), e, "xmhfhw_cpu_reloadcs")
    BY <2>2 DEF Done, SilentFns, WordFns
  <2> QED
    BY <2>1, <2>3, ReturnMoves DEF Returns
<1> QED
  BY <1>1, <1>2

LEMMA InveptMoves ==
  ASSUME NEW n, NEW e, NEW p, Entered(e, 20), p \in 1..16, InveptAt(n, e, p)
  PROVE  Moves(n, e, "vmx_invept", p)
<1>1. CASE p \in (1..15) \ {10, 11, 13}
  <2>1. InveptAt(Exec(n, Program["vmx_invept"][p]), e, p + 1)
    BY <1>1, InveptStep
  <2>2. p + 1 \in 1..16
    BY <1>1
  <2>3. Plain(Program["vmx_invept"][p])
    BY <1>1, InveptProgram DEF Plain, Branches, Returns, ThroughEax
  <2> QED
    BY <2>1, <2>2, <2>3, PlainMoves DEF Outline
<1>2. CASE p \in {10, 11, 13}
  <2>1. PICK op, t : Program["vmx_invept"][p] = <<op, t>> /\ op \in {"jc", "jz", "jmplabel"} /\ t \in 14..15
    <3>1. CASE p = 10
      BY <3>1, InveptProgram
    <3>2. CASE p = 11
      BY <3>2, InveptProgram
    <3>3. CASE p = 13
      BY <3>3, InveptProgram
    <3> QED
      BY <1>2, <3>1, <3>2, <3>3
  <2>2. InveptAt(n, e, t) /\ InveptAt(n, e, p + 1)
    BY <1>2, <2>1 DEF InveptAt
  <2>3. t \in 1..16 /\ p + 1 \in 1..16
    BY <1>2, <2>1
  <2>4. Outline(n, e, "vmx_invept", t) /\ Outline(n, e, "vmx_invept", p + 1)
    BY <2>2, <2>3 DEF Outline
  <2>5. op \in Branches
    BY <2>1 DEF Branches
  <2>6. Outline(n, e, "vmx_invept", IF Taken(n, op) THEN t ELSE p + 1)
    BY <2>4
  <2> QED
    BY <2>1, <2>5, <2>6, JumpMoves
<1>3. CASE p = 16
  <2>1. Program["vmx_invept"][p][1] = "retu32" /\ "vmx_invept" \in SilentFns
    BY <1>3, InveptProgram DEF SilentFns
  <2>2. Deep(n, e, 20, 20)
    BY <1>3 DEF InveptAt
  <2> QED
    BY <2>1, <2>2, SilentReturns
<1> QED
  BY <1>1, <1>2, <1>3
LEMMA LockMoves ==
  ASSUME NEW n, NEW e, NEW p, Entered(e, 32), Read32(e, 36) = 64, p \in 1..7, LockAt(n, e, p)
  PROVE  Moves(n, e, "spin_lock", p)
<1>0. Read32(e, 32) = CASM_RET_EIP /\ e.r.esp = 32
  BY DEF Entered
<1>1. CASE p \in {1, 2, 4, 5}
  <2>1. LockAt(Exec(n, Program["spin_lock"][p]), e, p + 1)
    BY <1>1, LockStep
  <2>2. p + 1 \in 1..7
    BY <1>1
  <2>3. Plain(Program["spin_lock"][p])
    BY <1>1, LockProgram DEF Plain, Branches, Returns, ThroughEax
  <2> QED
    BY <2>1, <2>2, <2>3, PlainMoves DEF Outline
<1>2. CASE p \in {3, 6}
  <2>1. LockAt(n, e, IF Taken(n, "jnc") THEN 2 ELSE p + 1)
    BY <1>2, LockJump
  <2>2. 2 \in 1..7 /\ p + 1 \in 1..7
    BY <1>2
  <2>3. Program["spin_lock"][p] = <<"jnc", 2>>
    BY <1>2, LockProgram
  <2>4. (IF Taken(n, "jnc") THEN 2 ELSE p + 1) \in 1..7
    BY <2>2
  <2>5. Outline(n, e, "spin_lock", IF Taken(n, "jnc") THEN 2 ELSE p + 1)
    BY <2>1, <2>4 DEF Outline
  <2>6. "jnc" \in Branches
    BY DEF Branches
  <2> QED
    BY <2>3, <2>5, <2>6, JumpMoves
<1>3. CASE p = 7
  <2>1. Program["spin_lock"][p][1] = "ret"
    BY <1>3, LockProgram
  <2>2. AtLock(n, e) /\ Read32(e, 64) = 1 /\ Read32(n, 64) = 0
    BY <1>3 DEF LockAt
  <2>3. LeftFrame(Return(n, "ret"), e, LockOut) /\ Read32(Return(n, "ret"), 64) = Read32(n, 64)
    BY <1>0, <2>2, LockReturns
  <2>4. Done(Return(n, "ret"), e, "spin_lock")
    BY <2>2, <2>3 DEF Done
  <2> QED
    BY <2>1, <2>4, ReturnMoves DEF Returns
<1> QED
  BY <1>1, <1>2, <1>3
LEMMA UnlockMoves ==
  ASSUME NEW n, NEW e, NEW p, Entered(e, 32), Read32(e, 36) = 64, p \in 1..3, UnlockAt(n, e, p)
  PROVE  Moves(n, e, "spin_unlock", p)
<1>0. Read32(e, 32) = CASM_RET_EIP /\ e.r.esp = 32
  BY DEF Entered
<1>1. CASE p \in 1..2
  <2>1. UnlockAt(Exec(n, Program["spin_unlock"][p]), e, p + 1)
    BY <1>1, UnlockStep
  <2>2. p + 1 \in 1..3
    BY <1>1
  <2>3. Plain(Program["spin_unlock"][p])
    BY <1>1, UnlockProgram DEF Plain, Branches, Returns, ThroughEax
  <2> QED
    BY <2>1, <2>2, <2>3, PlainMoves DEF Outline
<1>2. CASE p = 3
  <2>1. Program["spin_unlock"][p][1] = "ret"
    BY <1>2, UnlockProgram
  <2>2. AtLock(n, e) /\ Read32(n, 64) = 1
    BY <1>2 DEF UnlockAt
  <2>3. LeftFrame(Return(n, "ret"), e, LockOut) /\ Read32(Return(n, "ret"), 64) = Read32(n, 64)
    BY <1>0, <2>2, LockReturns
  <2>4. Done(Return(n, "ret"), e, "spin_unlock")
    BY <2>2, <2>3 DEF Done
  <2> QED
    BY <2>1, <2>4, ReturnMoves DEF Returns
<1> QED
  BY <1>1, <1>2
LEMMA QuietMoves ==
  ASSUME NEW n, NEW e, NEW f, NEW p, f \in QuietFns, p \in DOMAIN Program[f],
         e.r.esp \in {24, 28, 32}, Entered(e, e.r.esp), Deep(n, e, e.r.esp, e.r.esp)
  PROVE  Moves(n, e, f, p)
<1>1. PICK k \in 2..7 :
        /\ DOMAIN Program[f] = 1..k
        /\ \A q \in 1..(k - 1) : Quiet(Program[f][q]) \/ (Program[f][q][1] \in Branches /\ Program[f][q][2] \in 1..k)
        /\ Program[f][k][1] \in {"ret", "retu32", "retu64"}
  BY QuietFunctions DEF QuietProgram
<1>2. \A q \in 1..k : Outline(n, e, f, q)
  BY <1>1 DEF Outline
<1>3. CASE p = k
  <2>1. f \in SilentFns /\ Program[f][p][1] \in {"ret", "retu32", "retu64"}
    BY <1>1, <1>3 DEF SilentFns
  <2>2. e.r.esp \in 0..84
    OBVIOUS
  <2> QED
    BY <2>1, <2>2, SilentReturns
<1>4. CASE p \in 1..(k - 1) /\ Quiet(Program[f][p])
  <2> DEFINE i == Program[f][p]
  <2>1. p + 1 \in 1..k
    BY <1>1, <1>4
  <2>2. n \in Machines /\ n.r.esp \in 16..36
    BY DEF Deep
  <2>3. Plain(i)
    BY <1>4 DEF Quiet
  <2>4. ASSUME i[1] = "bsrl_mesp_eax" => bsrl_ends(n, i[2])
        PROVE  Outline(Exec(n, i), e, f, p + 1)
    <3>1. Exec(n, i) \in Machines /\ Same(Exec(n, i), n)
      BY <1>4, <2>2, <2>4 DEF Quiet
    <3>2. Deep(Exec(n, i), e, e.r.esp, e.r.esp)
      BY <3>1, DeepQuiet
    <3> QED
      BY <1>1, <2>1, <3>2 DEF Outline
  <2> QED
    BY <2>3, <2>4 DEF Moves, Plain
<1>5. CASE p \in 1..(k - 1) /\ Program[f][p][1] \in Branches /\ Program[f][p][2] \in 1..k
  <2>1. p + 1 \in 1..k
    BY <1>1, <1>5
  <2>2. Outline(n, e, f, IF Taken(n, Program[f][p][1]) THEN Program[f][p][2] ELSE p + 1)
    BY <1>2, <1>5, <2>1
  <2>3. Program[f][p][1] \notin Returns \cup ThroughEax \cup {"call_c_1p", "jmpsentinel"}
    BY <1>5 DEF Branches, Returns, ThroughEax
  <2> QED
    BY <1>5, <2>2, <2>3 DEF Moves, Plain
<1> QED
  BY <1>1, <1>3, <1>4, <1>5
(* The instructions of the stub. *)
LEMMA StubHas ==
  LET prog == Program["slab_entrystub"]
  IN  /\ \A p \in {1, 3, 4} : Plain(prog[p])
      /\ \A p \in {6, 8, 10, 11} : prog[p][1] \in Branches /\ prog[p][2] \in 12..30
      /\ prog[2] = <<"call_c_1p">> /\ prog[30] = <<"ret">>
      /\ \A p \in {17, 23, 29} : prog[p] = <<"jmpsentinel">>
<1> DEFINE prog == Program["slab_entrystub"]
<1>1. \A i \in 1..11 : prog[i] = StubHead[i]
  BY StubProgram
<1>2. \A p \in {1, 3, 4} : Plain(prog[p])
  <2>1. \A p \in {1, 3, 4} : Plain(StubHead[p])
    BY DEF StubHead, Plain, Branches, Returns, ThroughEax
  <2> QED
    BY <1>1, <2>1
<1>3. \A p \in {6, 8, 10, 11} : prog[p][1] \in Branches /\ prog[p][2] \in 12..30
  <2>1. \A p \in {6, 8, 10, 11} : StubHead[p][1] \in Branches /\ StubHead[p][2] \in 12..30
    BY DEF StubHead, Branches
  <2> QED
    BY <1>1, <2>1
<1>4. prog[2] = <<"call_c_1p">> /\ prog[30] = <<"ret">>
  <2>1. StubHead[2] = <<"call_c_1p">>
    BY DEF StubHead
  <2> QED
    BY <1>1, <2>1, StubProgram
<1>5. \A y : SwapAndLeave(y)[6] = <<"jmpsentinel">>
  BY DEF SwapAndLeave
<1>6. prog[17] = <<"jmpsentinel">> /\ prog[23] = <<"jmpsentinel">> /\ prog[29] = <<"jmpsentinel">>
  <2>1. 6 \in 1..6 /\ 11 + 6 = 17 /\ 17 + 6 = 23 /\ 23 + 6 = 29
    OBVIOUS
  <2>2. prog[11 + 6] = SwapAndLeave(9)[6] /\ prog[17 + 6] = SwapAndLeave(5)[6] /\ prog[23 + 6] = SwapAndLeave(7)[6]
    BY StubProgram
  <2> QED
    BY <1>5, <2>1, <2>2
<1> QED
  BY <1>2, <1>3, <1>4, <1>6

LEMMA StubMoves ==
  ASSUME NEW n, NEW e, NEW p, StubEntered(e), p \in 1..31, StubAt(n, e, p)
  PROVE  Moves(n, e, "slab_entrystub", p)
<1> DEFINE i == Program["slab_entrystub"][p]
<1>0. p # 31
  BY DEF StubAt
<1>1. CASE p \in {1, 3, 4}
  <2>1. StubAt(Exec(n, i), e, p + 1)
    BY <1>1, StubBegins
  <2>2. p + 1 \in 1..31
    BY <1>1
  <2>3. Plain(i)
    BY <1>1, StubHas
  <2> QED
    BY <2>1, <2>2, <2>3, PlainMoves DEF Outline
<1>2. CASE p \in {6, 8, 10, 11}
  <2>1. i[1] \in Branches /\ i[2] \in 12..30
    BY <1>2, StubHas
  <2>2. PICK q \in 5..30 : q = IF Taken(n, i[1]) THEN i[2] ELSE p + 1
    BY <1>2, <2>1
  <2>3. StubAt(n, e, q)
    BY <1>2, StubJump
  <2>4. q \in 1..31
    OBVIOUS
  <2>5. Outline(n, e, "slab_entrystub", q)
    BY <2>3, <2>4 DEF Outline
  <2>6. i[1] \notin Returns \cup ThroughEax \cup {"call_c_1p", "jmpsentinel"}
    BY <2>1 DEF Branches, Returns, ThroughEax
  <2> QED
    BY <2>1, <2>2, <2>5, <2>6 DEF Moves, Plain
<1>3. CASE p = 2
  <2>1. i[1] = "call_c_1p"
    BY <1>3, StubHas
  <2>2. ASSUME NEW x \in Words, NEW y \in Words
        PROVE  Outline(ReturnedFromC(n, x, y), e, "slab_entrystub", p + 1)
    <3>1. StubAt(ReturnedFromC(n, x, y), e, 3)
      BY <1>3, StubCalls
    <3>2. p + 1 = 3 /\ 3 \in 1..31
      BY <1>3
    <3> QED
      BY <3>1, <3>2 DEF Outline
  <2>3. "call_c_1p" \notin Branches \cup Returns \cup ThroughEax /\ "call_c_1p" # "jmpsentinel"
    BY DEF Branches, Returns, ThroughEax
  <2> QED
    BY <2>1, <2>2, <2>3 DEF Moves, Plain
<1>4. CASE p \in {17, 23, 29}
  <2>1. i[1] = "jmpsentinel"
    BY <1>4, StubHas
  <2>2. Deep(n, e, 32, 28)
    BY <1>4 DEF StubAt
  <2>3. Gone(n, e, "slab_entrystub")
    BY <2>2 DEF Gone, Deep
  <2>4. "jmpsentinel" \notin Branches \cup Returns \cup ThroughEax /\ "jmpsentinel" # "call_c_1p"
    BY DEF Branches, Returns, ThroughEax
  <2> QED
    BY <2>1, <2>3, <2>4 DEF Moves, Plain
<1>5. CASE p = 30
  <2>1. i[1] = "ret"
    BY <1>5, StubHas
  <2>2. StubLeft(Return(n, "ret"), e)
    BY <1>5, StubReturns
  <2>3. Done(Return(n, "ret"), e, "slab_entrystub")
    BY <2>2 DEF Done
  <2> QED
    BY <2>1, <2>3, ReturnMoves DEF Returns
<1>6. CASE p \in StrayAt
  <2>1. i[1] \in ThroughEax /\ Stray(n, i) /\ \A w \in Undefined(n, i) : StubAt(w, e, p + 1)
    BY <1>6, StubStrays
  <2>2. p + 1 \in 1..31 /\ p \in 5..28
    BY <1>6 DEF StrayAt
  <2>3. \A w \in Undefined(n, i) : Outline(w, e, "slab_entrystub", p + 1)
    BY <2>1, <2>2 DEF Outline
  <2>4. Deep(n, e, 32, 28)
    BY <2>2 DEF StubAt
  <2>5. Gone(n, e, "slab_entrystub")
    BY <2>4 DEF Gone, Deep
  <2>6. i[1] \notin Branches \cup Returns \cup {"call_c_1p", "jmpsentinel"}
    BY <2>1 DEF Branches, Returns, ThroughEax
  <2> QED
    BY <2>1, <2>3, <2>5, <2>6 DEF Moves, Plain
<1>7. p \in {1, 3, 4} \/ p \in {6, 8, 10, 11} \/ p = 2 \/ p \in {17, 23, 29} \/ p = 30 \/ p \in StrayAt
  BY <1>0 DEF StrayAt
<1> QED
  BY <1>1, <1>2, <1>3, <1>4, <1>5, <1>6, <1>7
(* Every instruction of every function keeps the outline. *)
LEMMA OutlineMoves ==
  ASSUME NEW n, NEW e, NEW f, NEW p, Outline(n, e, f, p)
  PROVE  Moves(n, e, f, p)
<1>1. CASE /\ f \in QuietFns /\ p \in DOMAIN Program[f]
           /\ e.r.esp \in {24, 28, 32} /\ Entered(e, e.r.esp) /\ Deep(n, e, e.r.esp, e.r.esp)
  BY <1>1, QuietMoves
<1>2. CASE f \in DescriptorFns /\ p \in 1..5 /\ Entered(e, 32) /\ DescriptorAt(n, e, p)
  BY <1>2, DescriptorMoves
<1>3. CASE f \in EflagsFns /\ p \in 1..3 /\ Entered(e, 32) /\ EflagsAt(n, e, p)
  BY <1>3, EflagsMoves
<1>4. CASE f \in LoadFns /\ p \in 1..3 /\ Entered(e, 32) /\ Read32(e, 36) = Desc /\ LoadAt(n, e, p)
  BY <1>4, LoadMoves
<1>5. CASE f = "vmx_invept" /\ p \in 1..16 /\ Entered(e, 20) /\ InveptAt(n, e, p)
  BY <1>5, InveptMoves
<1>6. CASE f = "xmhfhw_cpu_reloadcs" /\ p \in 1..4 /\ Entered(e, 32) /\ ReloadAt(n, e, p)
  BY <1>6, ReloadMoves
<1>7. CASE f = "xmhfhw_cpu_cpuid" /\ p \in 1..19 /\ CpuidEntered(e) /\ CpuidAt(n, e, p)
  BY <1>7, CpuidMoves
<1>8. CASE f = "spin_lock" /\ p \in 1..7 /\ Entered(e, 32) /\ Read32(e, 36) = 64 /\ LockAt(n, e, p)
  BY <1>8, LockMoves
<1>9. CASE f = "spin_unlock" /\ p \in 1..3 /\ Entered(e, 32) /\ Read32(e, 36) = 64 /\ UnlockAt(n, e, p)
  BY <1>9, UnlockMoves
<1>10. CASE f = "sysmemaccess_copy" /\ p \in 1..10 /\ CopyEntered(e) /\ CopyAt(n, e, p)
  BY <1>10, CopyMoves
<1>11. CASE f = "slab_entrystub" /\ p \in 1..31 /\ StubEntered(e) /\ StubAt(n, e, p)
  BY <1>11, StubMoves
<1> QED
  BY <1>1, <1>2, <1>3, <1>4, <1>5, <1>6, <1>7, <1>8, <1>9, <1>10, <1>11 DEF Outline
(* A function that is called with arguments of its shape begins. *)
LEMMA DeepBegins ==
  ASSUME NEW e, NEW s, Entered(e, s)
  PROVE  Deep(e, e, s, s)
  BY DEF Entered, Deep, Frame
LEMMA CallBegins ==
  ASSUME NEW e, NEW c, Called(e, c), Shape(c.fn, c.args)
  PROVE  Outline(e, e, c.fn, 1)
<1> DEFINE k == Len(c.args)
<1>0. /\ c.args \in Seq(Words) /\ k \in 1..5 /\ e.r.esp = 36 - 4 * k
      /\ \A i \in 1..k : Read32(e, e.r.esp + 4 * i) = c.args[i]
      /\ Entered(e, e.r.esp)
  <2>1. DOMAIN c.args = 1..k
    BY DEF Called
  <2>2. Entered(e, e.r.esp)
    BY DEF Called, Entered
  <2> QED
    BY <2>1, <2>2 DEF Called
<1>1. CASE c.fn \in QuietFns /\ c.args \in Seq(Words) /\ Len(c.args) \in 1..3
  <2>0. k \in 1..3
    BY <1>1
  <2> HIDE DEF k
  <2>1. e.r.esp \in {24, 28, 32}
    <3>1. k = 1 \/ k = 2 \/ k = 3
      BY <2>0
    <3>2. e.r.esp = 36 - 4 * k
      BY <1>0
    <3> QED
      BY <3>1, <3>2
  <2>2. 1 \in DOMAIN Program[c.fn]
    BY <1>1, QuietFunctions DEF QuietProgram
  <2> QED
    BY <1>0, <1>1, <2>1, <2>2, DeepBegins DEF Outline
<1>2. CASE c.fn = "xmhfhw_cpu_cpuid" /\ \E op \in 0..2 : c.args = <<op, 40, 44, 48, 52>>
  <2>1. PICK op \in 0..2 : c.args = <<op, 40, 44, 48, 52>>
    BY <1>2
  <2>2. k = 5 /\ c.args[1] = op /\ c.args[2] = 40 /\ c.args[3] = 44 /\ c.args[4] = 48 /\ c.args[5] = 52
    BY <2>1
  <2> HIDE DEF k
  <2>3. /\ Read32(e, 20) = op /\ Read32(e, 24) = 40 /\ Read32(e, 28) = 44 /\ Read32(e, 32) = 48
        /\ Read32(e, 36) = 52 /\ e.r.esp = 16
    <3>1. e.r.esp = 16
      BY <1>0, <2>2
    <3>2. \A i \in 1..5 : Read32(e, 16 + 4 * i) = c.args[i]
      BY <1>0, <2>2, <3>1
    <3>3. /\ Read32(e, 16 + 4 * 1) = c.args[1] /\ Read32(e, 16 + 4 * 2) = c.args[2]
          /\ Read32(e, 16 + 4 * 3) = c.args[3] /\ Read32(e, 16 + 4 * 4) = c.args[4]
          /\ Read32(e, 16 + 4 * 5) = c.args[5]
      BY <3>2
    <3> QED
      BY <2>2, <3>1, <3>3
  <2>4. CpuidEntered(e)
    BY <1>0, <2>1, <2>3 DEF CpuidEntered, Entered
  <2>5. CpuidAt(e, e, 1)
    BY <2>4 DEF CpuidAt, CpuidEntered, Frame
  <2> QED
    BY <1>2, <2>4, <2>5 DEF Outline
<1>3. CASE c.fn = "vmx_invept" /\ c.args = <<1, 2, 3, 4>>
  <2>1. e.r.esp = 20
    BY <1>0, <1>3
  <2>2. InveptAt(e, e, 1)
    BY <1>0, <2>1, DeepBegins DEF InveptAt
  <2> QED
    BY <1>0, <1>3, <2>1, <2>2 DEF Outline
<1>4. CASE c.fn = "sysmemaccess_copy" /\ c.args = <<84, 80, 4>>
  <2>2. k = 3 /\ c.args[1] = 84 /\ c.args[2] = 80 /\ c.args[3] = 4
    BY <1>4
  <2> HIDE DEF k
  <2>3. /\ Read32(e, 28) = 84 /\ Read32(e, 32) = 80 /\ Read32(e, 36) = 4 /\ e.r.esp = 24
    <3>1. e.r.esp = 24
      BY <1>0, <2>2
    <3>2. \A i \in 1..3 : Read32(e, 24 + 4 * i) = c.args[i]
      BY <1>0, <2>2, <3>1
    <3>3. /\ Read32(e, 24 + 4 * 1) = c.args[1] /\ Read32(e, 24 + 4 * 2) = c.args[2]
          /\ Read32(e, 24 + 4 * 3) = c.args[3]
      BY <3>2
    <3> QED
      BY <2>2, <3>1, <3>3
  <2>4. CopyEntered(e)
    BY <1>0, <2>3 DEF CopyEntered, Entered
  <2>5. CopyAt(e, e, 1)
    BY <2>4 DEF CopyAt, CopyEntered, Frame
  <2> QED
    BY <1>4, <2>4, <2>5 DEF Outline
<1>5. ASSUME k = 1
      PROVE  Entered(e, 32) /\ Read32(e, 36) = c.args[1] /\ Deep(e, e, 32, 32)
  <2> HIDE DEF k
  <2>1. e.r.esp = 32
    BY <1>0, <1>5
  <2>2. Read32(e, e.r.esp + 4 * 1) = c.args[1]
    BY <1>0, <1>5
  <2>3. Read32(e, 36) = c.args[1]
    BY <2>1, <2>2
  <2> QED
    BY <1>0, <2>1, <2>3, DeepBegins
<1>6. CASE c.fn \in WordFns /\ c.args \in Seq(Words) /\ Len(c.args) = 1
  <2>1. CASE c.fn \in DescriptorFns
    <3>1. DescriptorAt(e, e, 1)
      BY <1>5, <1>6 DEF DescriptorAt
    <3> QED
      BY <1>5, <1>6, <2>1, <3>1 DEF Outline
  <2>2. CASE c.fn \in EflagsFns
    <3>1. EflagsAt(e, e, 1)
      BY <1>5, <1>6 DEF EflagsAt
    <3> QED
      BY <1>5, <1>6, <2>2, <3>1 DEF Outline
  <2>3. CASE c.fn = "xmhfhw_cpu_reloadcs"
    <3>1. ReloadAt(e, e, 1)
      BY <1>5, <1>6 DEF ReloadAt
    <3> QED
      BY <1>5, <1>6, <2>3, <3>1 DEF Outline
  <2> QED
    BY <1>6, <2>1, <2>2, <2>3 DEF WordFns
<1>7. CASE c.fn \in LoadFns /\ c.args = <<56>>
  <2>1. k = 1 /\ c.args[1] = Desc
    BY <1>7 DEF Desc
  <2>2. LoadAt(e, e, 1)
    BY <1>5, <2>1 DEF LoadAt
  <2> QED
    BY <1>5, <1>7, <2>1, <2>2 DEF Outline
<1>8. CASE c.fn \in LockFns /\ c.args = <<64>>
  <2>1. k = 1 /\ c.args[1] = 64
    BY <1>8
  <2>2. Read32(e, 64) \in {0, 1}
    BY DEF Called, SmpLock
  <2>3. AtLock(e, e)
    BY <1>5, <2>1, <2>2 DEF AtLock, Entered, Frame
  <2>4. LockAt(e, e, 1) /\ UnlockAt(e, e, 1)
    BY <2>3 DEF LockAt, UnlockAt
  <2> QED
    BY <1>5, <1>8, <2>1, <2>4 DEF Outline, LockFns
<1>9. CASE c.fn = "slab_entrystub" /\ c.args = <<68>>
  <2>1. k = 1 /\ c.args[1] = 68
    BY <1>9
  <2>2. StubEntered(e)
    BY <1>5, <2>1 DEF StubEntered, Entered
  <2>3. StubAt(e, e, 1)
    BY <1>5, <2>1 DEF StubAt
  <2> QED
    BY <1>9, <2>2, <2>3 DEF Outline
<1> QED
  BY <1>1, <1>2, <1>3, <1>4, <1>6, <1>7, <1>8, <1>9 DEF Shape

(* What an outline says of every function. *)
LEMMA OutlineTyped ==
  ASSUME NEW n, NEW e, NEW f, NEW p, Outline(n, e, f, p)
  PROVE  n \in Machines /\ p \in DOMAIN Program[f]
<1>1. CASE /\ f \in QuietFns /\ p \in DOMAIN Program[f]
           /\ e.r.esp \in {24, 28, 32} /\ Entered(e, e.r.esp) /\ Deep(n, e, e.r.esp, e.r.esp)
  BY <1>1 DEF Deep
<1>2. CASE f \in DescriptorFns /\ p \in 1..5 /\ Entered(e, 32) /\ DescriptorAt(n, e, p)
  BY <1>2, DescriptorProgram DEF DescriptorAt, Deep
<1>3. CASE f \in EflagsFns /\ p \in 1..3 /\ Entered(e, 32) /\ EflagsAt(n, e, p)
  BY <1>3, EflagsProgram DEF EflagsAt, Deep, EflagsFns
<1>4. CASE f \in LoadFns /\ p \in 1..3 /\ Entered(e, 32) /\ Read32(e, 36) = Desc /\ LoadAt(n, e, p)
  BY <1>4, LoadProgram DEF LoadAt, Deep
<1>5. CASE f = "vmx_invept" /\ p \in 1..16 /\ Entered(e, 20) /\ InveptAt(n, e, p)
  BY <1>5, InveptProgram DEF InveptAt, Deep
<1>6. CASE f = "xmhfhw_cpu_reloadcs" /\ p \in 1..4 /\ Entered(e, 32) /\ ReloadAt(n, e, p)
  BY <1>6, ReloadProgram DEF ReloadAt, Deep
<1>7. CASE f = "xmhfhw_cpu_cpuid" /\ p \in 1..19 /\ CpuidEntered(e) /\ CpuidAt(n, e, p)
  BY <1>7, CpuidProgram DEF CpuidAt
<1>8. CASE f = "spin_lock" /\ p \in 1..7 /\ Entered(e, 32) /\ Read32(e, 36) = 64 /\ LockAt(n, e, p)
  BY <1>8, LockProgram DEF LockAt, AtLock
<1>9. CASE f = "spin_unlock" /\ p \in 1..3 /\ Entered(e, 32) /\ Read32(e, 36) = 64 /\ UnlockAt(n, e, p)
  BY <1>9, UnlockProgram DEF UnlockAt, AtLock
<1>10. CASE f = "sysmemaccess_copy" /\ p \in 1..10 /\ CopyEntered(e) /\ CopyAt(n, e, p)
  BY <1>10, CopyProgram DEF CopyAt
<1>11. CASE f = "slab_entrystub" /\ p \in 1..31 /\ StubEntered(e) /\ StubAt(n, e, p)
  <2>1. p \in DOMAIN Program[f]
    BY <1>11, StubProgram
  <2>2. Deep(n, e, 32, 32) \/ Deep(n, e, 32, 28) \/ Deep(n, e, 32, 24)
    <3>1. p = 1 \/ p = 3 \/ p \in {2} \cup (4..30)
      BY <1>11 DEF StubAt
    <3> QED
      BY <1>11, <3>1 DEF StubAt
  <2> QED
    BY <2>1, <2>2 DEF Deep
<1> QED
  BY <1>1, <1>2, <1>3, <1>4, <1>5, <1>6, <1>7, <1>8, <1>9, <1>10, <1>11 DEF Outline
(* What a function that has returned leaves, and where. *)
OutOf(f) ==
  CASE f = "xmhfhw_cpu_cpuid" -> CpuidOut
    [] f \in LockFns -> LockOut
    [] f = "sysmemaccess_copy" -> CopyOut
    [] OTHER -> {}
LEMMA SilentOut ==
  ASSUME NEW f, f \in SilentFns
  PROVE  OutOf(f) = {} /\ f \notin LockFns \cup {"xmhfhw_cpu_cpuid", "sysmemaccess_copy"}
<1>1. f \notin LockFns \cup {"xmhfhw_cpu_cpuid", "sysmemaccess_copy"}
  BY DEF SilentFns, QuietFns, WordFns, DescriptorFns, EflagsFns, LoadFns, LockFns
<1> QED
  BY <1>1 DEF OutOf
LEMMA DoneLeft ==
  ASSUME NEW n, NEW e, NEW f, Done(n, e, f)
  PROVE  IF f = "slab_entrystub" THEN StubLeft(n, e) ELSE LeftFrame(n, e, OutOf(f))
<1>1. OutOf("xmhfhw_cpu_cpuid") = CpuidOut /\ OutOf("sysmemaccess_copy") = CopyOut
      /\ OutOf("spin_lock") = LockOut /\ OutOf("spin_unlock") = LockOut
  BY DEF OutOf, LockFns
<1>2. "slab_entrystub" \notin SilentFns
  BY DEF SilentFns, QuietFns, WordFns, DescriptorFns, EflagsFns, LoadFns
<1> QED
  BY <1>1, <1>2, SilentOut DEF Done
LEMMA DoneLock ==
  ASSUME NEW n, NEW e, NEW f, Done(n, e, f), f # "slab_entrystub",
         e.r.esp \in 16..32, Read32(e, 64) \in {0, 1}
  PROVE  Read32(n, 64) \in {0, 1}
<1>1. ASSUME NEW X, LeftFrame(n, e, X), WordAt(64) \cap X = {} PROVE Read32(n, 64) \in {0, 1}
  <2>1. Frame(n, e, e.r.esp + 4, X) /\ e.r.esp + 4 \in 0..84 /\ 64 >= e.r.esp + 4
    BY <1>1 DEF LeftFrame
  <2> QED
    BY <1>1, <2>1, FrameReads
<1>2. WordAt(64) \cap {} = {} /\ WordAt(64) \cap CpuidOut = {} /\ WordAt(64) \cap CopyOut = {}
  BY DEF WordAt, CpuidOut, CopyOut
<1> QED
  BY <1>1, <1>2 DEF Done
(* The machine the harness starts with. *)
LEMMA WordStored ==
  ASSUME NEW n, NEW a, NEW v
  PROVE  n \in Machines /\ a \in 0..84 /\ v \in Words =>
           /\ Write32(n, a, v) \in Machines /\ Write32(n, a, v).r = n.r
           /\ Read32(Write32(n, a, v), a) = v
  BY WritesWord
LEMMA HalfStored ==
  ASSUME NEW n, NEW a, NEW v
  PROVE  n \in Machines /\ a \in 0..86 /\ v \in Nat =>
           Write16(n, a, v) \in Machines /\ Write16(n, a, v).r = n.r
  BY WritesHalf
(* The address of the local APIC fits a word. *)
LEMMA ApicBaseTyped == MMIO_APIC_BASE \in Words
<1>1. PICK k \in Nat : k = 65248 % Half /\ k <= 65248 /\ k <= Half - 1
  BY WidthNumbers, Widths
<1>2. PICK v \in Nat : v = k * Half
  BY WidthNumbers
<1>3. v <= Word - 1
  <2>1. CASE Half = 16384 /\ Word = 16384 * 16384
    <3>1. k <= 16383
      BY <1>1, <2>1
    <3>2. k * 16384 <= 16384 * 16384 - 1
      BY <3>1
    <3>3. v = k * 16384
      BY <1>2, <2>1
    <3> QED
      BY <2>1, <3>2, <3>3
  <2>2. CASE Half = 65536 /\ Word = 65536 * 65536
    <3>1. k * 65536 <= 65536 * 65536 - 1
      BY <1>1
    <3>2. v = k * 65536
      BY <1>2, <2>2
    <3> QED
      BY <2>2, <3>1, <3>2
  <2> QED
    BY <2>1, <2>2, Widths
<1>4. MMIO_APIC_BASE = v
  BY <1>1, <1>2 DEF MMIO_APIC_BASE
<1> QED
  BY <1>3, <1>4, WidthNumbers DEF Words

LEMMA InitSysTyped == InitSys \in SysStates
<1>1. 0 \in Words /\ 130 \in Words /\ 3338 \in Words
  BY Widths DEF Words
<1>4. MMIO_APIC_BASE \in Words
  BY ApicBaseTyped
<1>2. InitSys.msr \in [DOMAIN Msr -> Words \X Words]
  BY <1>1, <1>4 DEF InitSys
<1>3. InitSys.sel \in [Selectors -> Words] /\ InitSys.vmcs \in [DOMAIN Vmcs -> Words]
  BY <1>1 DEF InitSys
<1> QED
  BY <1>1, <1>2, <1>3 DEF InitSys, SysStates
LEMMA InitMachine == InitMem \in Machines /\ InitMem.r.esp = StackTop /\ Read32(InitMem, SmpLock) = 1
<1> DEFINE zero == [r |-> InitRegs, fl |-> 0, sys |-> InitSys, mem |-> [a \in Memory |-> 0]]
           m1 == Write32(zero, EcxVar, 7)
           m2 == Write32(m1, SysmemSrc, 259)
           m3 == Write16(m2, Desc, 47)
           m4 == Write32(m3, Desc + 2, 82220)
<1>1. /\ 0 \in Words /\ 7 \in Words /\ 259 \in Words /\ 82220 \in Words /\ 1 \in Words /\ StackTop \in Words
      /\ 0 \in Bytes /\ 47 \in Nat
  BY WidthNumbers DEF Words, Bytes, StackTop
<1>2. InitRegs \in [Gprs -> Words] /\ InitRegs.esp = StackTop
  BY <1>1 DEF InitRegs, Gprs
<1>3. zero \in Machines /\ zero.r = InitRegs
  BY <1>1, <1>2, InitSysTyped DEF Machines
<1>4. EcxVar \in 0..84 /\ SysmemSrc \in 0..84 /\ Desc \in 0..86 /\ Desc + 2 \in 0..84 /\ SmpLock \in 0..84
  BY DEF EcxVar, SysmemSrc, Desc, SmpLock
<1> HIDE DEF zero
<1>5. m1 \in Machines /\ m1.r = InitRegs
  BY <1>1, <1>3, <1>4, WordStored DEF m1
<1> HIDE DEF m1
<1>6. m2 \in Machines /\ m2.r = InitRegs
  BY <1>1, <1>4, <1>5, WordStored
<1> HIDE DEF m2
<1>7. m3 \in Machines /\ m3.r = InitRegs
  BY <1>1, <1>4, <1>6, HalfStored
<1> HIDE DEF m3
<1>8. m4 \in Machines /\ m4.r = InitRegs
  BY <1>1, <1>4, <1>7, WordStored
<1> HIDE DEF m4
<1>9. InitMem = Write32(m4, SmpLock, 1)
  BY DEF InitMem, m4, m3, m2, m1, zero
<1>10. Write32(m4, SmpLock, 1) \in Machines /\ Write32(m4, SmpLock, 1).r = InitRegs
       /\ Read32(Write32(m4, SmpLock, 1), SmpLock) = 1
  BY <1>1, <1>4, <1>8, WordStored
<1> QED
  BY <1>2, <1>9, <1>10
(* What the driver of the entry stub sets. *)
LEMMA ParamsSet ==
  ASSUME NEW n, NEW t, n \in Machines, t \in {0, 4, 6, 8}
  PROVE  LET w == SetParams(n, t)
         IN  /\ w \in Machines /\ w.r = n.r
             /\ Read32(w, 68) = t /\ Read32(w, 72) = 5 /\ Read32(w, 76) = 6
             /\ Read32(w, 64) = Read32(n, 64)
<1> DEFINE w1 == Write32(n, 68, t)
           w2 == Write32(w1, 72, 5)
           w3 == Write32(w2, 76, 6)
<1>1. t \in Words /\ 5 \in Words /\ 6 \in Words
  <2>1. t \in 0..1024 /\ 5 \in 0..1024 /\ 6 \in 0..1024
    OBVIOUS
  <2> QED
    BY <2>1, Small
<1>2. w1 \in Machines /\ w1.r = n.r /\ Wrote(w1, n, 68, t)
  BY <1>1, Stores
<1> HIDE DEF w1
<1>3. w2 \in Machines /\ w2.r = n.r /\ Wrote(w2, w1, 72, 5)
  BY <1>1, <1>2, Stores
<1> HIDE DEF w2
<1>4. w3 \in Machines /\ w3.r = n.r /\ Wrote(w3, w2, 76, 6)
  BY <1>1, <1>3, Stores
<1> HIDE DEF w3
<1>5. Read32(w1, 68) = t /\ Read32(w1, 64) = Read32(n, 64)
  <2>1. Read32(w1, 68) = t
    BY <1>2 DEF Wrote
  <2>2. Read32(w1, 64) = Read32(n, 64)
    <3>1. 64 \in 0..84 /\ 68 \in 0..84 /\ 64 + 4 <= 68
      OBVIOUS
    <3> QED
      BY <1>2, <3>1, WroteElsewhere
  <2> QED
    BY <2>1, <2>2
<1>6. Read32(w2, 68) = t /\ Read32(w2, 72) = 5 /\ Read32(w2, 64) = Read32(n, 64)
  <2>1. Read32(w2, 68) = Read32(w1, 68) /\ Read32(w2, 64) = Read32(w1, 64)
    BY <1>3, WroteElsewhere
  <2> QED
    BY <1>3, <1>5, <2>1 DEF Wrote
<1>7. Read32(w3, 68) = t /\ Read32(w3, 72) = 5 /\ Read32(w3, 76) = 6 /\ Read32(w3, 64) = Read32(n, 64)
  <2>1. Read32(w3, 68) = Read32(w2, 68) /\ Read32(w3, 72) = Read32(w2, 72) /\ Read32(w3, 64) = Read32(w2, 64)
    BY <1>4, WroteElsewhere
  <2> QED
    BY <1>4, <1>6, <2>1 DEF Wrote
<1>8. SetParams(n, t) = w3
  BY DEF SetParams, SlabParams, w3, w2, w1
<1> QED
  BY <1>4, <1>7, <1>8
LEMMA Establishes ==
  ASSUME NEW n, n \in Machines
  PROVE  LET w == cabi_establish(n)
         IN  /\ w \in Machines /\ w.mem = n.mem
             /\ w.r.esp = n.r.esp /\ w.r.ebx = 5 /\ w.r.esi = 6 /\ w.r.edi = 7
<1> DEFINE regs == [n.r EXCEPT !["ebx"] = 5, !["esi"] = 6, !["edi"] = 7]
<1>1. 5 \in Words /\ 6 \in Words /\ 7 \in Words
  <2>1. 5 \in 0..1024 /\ 6 \in 0..1024 /\ 7 \in 0..1024
    OBVIOUS
  <2> QED
    BY <2>1, Small
<1>2. n.r \in [Gprs -> Words]
  BY Parts
<1>3. regs \in [Gprs -> Words]
  BY <1>1, <1>2
<1>4. regs["esp"] = n.r.esp /\ regs["ebx"] = 5 /\ regs["esi"] = 6 /\ regs["edi"] = 7
  BY <1>2 DEF Gprs
<1>5. cabi_establish(n) = [n EXCEPT !.r = regs]
  BY DEF cabi_establish, Machines
<1> HIDE DEF regs
<1> DEFINE w == [n EXCEPT !.r = regs]
<1>6. w \in Machines /\ w.r = regs /\ w.mem = n.mem
  BY <1>3, RegsTyped
<1> HIDE DEF w
<1> QED
  BY <1>4, <1>5, <1>6 DEF w
(* The arguments of a call are one to five words. *)
LEMMA ShapeArgs ==
  ASSUME NEW f, NEW a, Shape(f, a)
  PROVE  a \in Seq(Words) /\ Len(a) \in 1..5
<1>1. \A v \in 0..84 : v \in Words
  BY Small
<1>2. CASE \E op \in 0..2 : a = <<op, 40, 44, 48, 52>>
  <2>1. PICK op \in 0..2 : a = <<op, 40, 44, 48, 52>>
    BY <1>2
  <2>2. op \in Words /\ 40 \in Words /\ 44 \in Words /\ 48 \in Words /\ 52 \in Words
    BY <1>1
  <2> QED
    BY <2>1, <2>2
<1>3. CASE a = <<1, 2, 3, 4>>
  <2>1. 1 \in Words /\ 2 \in Words /\ 3 \in Words /\ 4 \in Words
    BY <1>1
  <2> QED
    BY <1>3, <2>1
<1>4. CASE a = <<84, 80, 4>>
  <2>1. 84 \in Words /\ 80 \in Words /\ 4 \in Words
    BY <1>1
  <2> QED
    BY <1>4, <2>1
<1>5. CASE a \in {<<56>>, <<64>>, <<68>>}
  <2>1. PICK v \in {56, 64, 68} : a = <<v>>
    BY <1>5
  <2>2. v \in Words
    BY <1>1, <2>1
  <2> QED
    BY <2>1, <2>2
<1> QED
  BY <1>2, <1>3, <1>4, <1>5 DEF Shape
(* A call of the harness. *)
LEMMA CallCalled ==
  ASSUME NEW n, NEW c, NEW t, n \in Machines, n.r.esp = StackTop, Read32(n, SmpLock) \in {0, 1},
         c \in Calls, t \in CallTypes
  PROVE  LET set == IF c.fn = "slab_entrystub" THEN SetParams(n, t) ELSE n
         IN  Called(CASM_FUNCCALL(cabi_establish(set), c.args), [fn |-> c.fn, args |-> c.args])
<1> DEFINE set == IF c.fn = "slab_entrystub" THEN SetParams(n, t) ELSE n
           k == Len(c.args)
<1>0. t \in {0, 4, 6, 8} /\ SmpLock = 64 /\ StackTop = 40
  BY DEF CallTypes, CALL_FROM_VfT_PROG, CALL_EXCEPTION, CALL_INTERCEPT, CALL_uVT_uVU_PROG_TO_VfT_PROG,
         SmpLock, StackTop
<1>1. set \in Machines /\ set.r.esp = 40 /\ Read32(set, 64) \in {0, 1}
  BY <1>0, ParamsSet
<1> HIDE DEF set
<1> DEFINE v == cabi_establish(set)
<1>2. v \in Machines /\ v.mem = set.mem /\ v.r.esp = 40 /\ v.r.ebx = 5 /\ v.r.esi = 6 /\ v.r.edi = 7
  BY <1>1, Establishes
<1> HIDE DEF v
<1>3. \A b : Read32(v, b) = Read32(set, b)
  BY <1>2, SameMemory
<1>4. c.args \in Seq(Words) /\ k \in 1..5 /\ k \in 1..MaxArgs
  <2>1. c.args \in Seq(Words) /\ k \in 1..5
    BY CallShapes, ShapeArgs
  <2> HIDE DEF k
  <2> QED
    BY <2>1 DEF MaxArgs
<1> DEFINE w == CASM_FUNCCALL(v, c.args)
<1>5. /\ w \in Machines /\ w.r = [v.r EXCEPT !["esp"] = 36 - 4 * k]
      /\ \A a \in Memory : a >= StackTop => w.mem[a] = v.mem[a]
      /\ \A i \in DOMAIN c.args : Read32(w, (36 - 4 * k) + 4 * i) = c.args[i]
      /\ Read32(w, 36 - 4 * k) = CASM_RET_EIP
  <2>1. v.r.esp = StackTop
    BY <1>0, <1>2
  <2> QED
    BY <1>2, <1>4, <2>1, FunctionCalled, Zenon
<1> HIDE DEF w, k
<1>6. w.r.esp = 36 - 4 * k /\ w.r.ebx = 5 /\ w.r.esi = 6 /\ w.r.edi = 7
  <2>1. v.r \in [Gprs -> Words]
    BY <1>2, Parts
  <2> QED
    BY <1>2, <1>5, <2>1 DEF Gprs
<1>7. \A b \in 40..84 : Read32(w, b) = Read32(v, b)
  <2>1. ASSUME NEW b \in 40..84 PROVE Read32(w, b) = Read32(v, b)
    <3>1. \A x \in WordAt(b) : x \in Memory /\ x >= 40
      BY DEF WordAt, Memory
    <3>2. \A x \in WordAt(b) : w.mem[x] = v.mem[x]
      BY <1>0, <1>5, <3>1
    <3>3. b \in 0..84
      OBVIOUS
    <3> QED
      BY <3>2, <3>3, ReadsSame
  <2> QED
    BY <2>1
<1>8. Read32(w, 64) \in {0, 1}
  <2>1. 64 \in 40..84
    OBVIOUS
  <2> QED
    BY <1>1, <1>3, <1>7, <2>1
<1>9. Called(w, [fn |-> c.fn, args |-> c.args])
  <2> DEFINE d == [fn |-> c.fn, args |-> c.args]
  <2>1. d.fn = c.fn /\ d.args = c.args
    OBVIOUS
  <2> HIDE DEF d
  <2>2. Called(w, d)
    BY <1>0, <1>4, <1>5, <1>6, <1>8, <2>1 DEF Called, k
  <2> QED
    BY <2>2 DEF d
<1> QED
  BY <1>9 DEF w, v, set

(* What the shape of a call says of one function. *)
LEMMA ShapeOf ==
  ASSUME NEW a
  PROVE  /\ Shape("xmhfhw_cpu_cpuid", a) => \E op \in 0..2 : a = <<op, 40, 44, 48, 52>>
         /\ Shape("sysmemaccess_copy", a) => a = <<84, 80, 4>>
         /\ Shape("spin_lock", a) => a = <<64>>
         /\ Shape("spin_unlock", a) => a = <<64>>
         /\ Shape("slab_entrystub", a) => a = <<68>>
<1>1. {"xmhfhw_cpu_cpuid", "sysmemaccess_copy", "spin_lock", "spin_unlock", "slab_entrystub"}
        \cap (QuietFns \cup WordFns \cup LoadFns) = {}
  BY DEF QuietFns, WordFns, DescriptorFns, EflagsFns, LoadFns
<1>2. /\ "xmhfhw_cpu_cpuid" \notin LockFns /\ "sysmemaccess_copy" \notin LockFns /\ "slab_entrystub" \notin LockFns
  BY DEF LockFns
<1> QED
  BY <1>1, <1>2 DEF Shape
LEMMA DoneOf ==
  ASSUME NEW n, NEW e
  PROVE  /\ Done(n, e, "xmhfhw_cpu_cpuid") =>
              /\ Read32(n, EaxVar) = CpuidAsked(e).r.eax /\ Read32(n, EbxVar) = CpuidAsked(e).r.ebx
              /\ Read32(n, EcxVar) = CpuidAsked(e).r.ecx /\ Read32(n, EdxVar) = CpuidAsked(e).r.edx
         /\ Done(n, e, "spin_lock") => Read32(e, 64) = 1 /\ Read32(n, 64) = 0
         /\ Done(n, e, "spin_unlock") => Read32(n, 64) = 1
         /\ Done(n, e, "sysmemaccess_copy") => Read32(n, 84) = Read32(e, 80)
<1>1. {"xmhfhw_cpu_cpuid", "sysmemaccess_copy", "spin_lock", "spin_unlock"} \cap SilentFns = {}
  BY DEF SilentFns, QuietFns, WordFns, DescriptorFns, EflagsFns, LoadFns
<1> QED
  BY <1>1 DEF Done

(* The inductive invariant. *)
CallInv ==
  /\ m \in Machines /\ calls \in Nat
  /\ phase \in {"idle", "run", "returned", "done", "left", "stopped"}
  /\ phase = "idle" =>
       /\ call = NoCall /\ m.r.esp = StackTop /\ Read32(m, SmpLock) \in {0, 1}
       /\ calls > 0 => m.r.eip = CASM_RET_EIP /\ m.r.ebx = 5 /\ m.r.esi = 6 /\ m.r.edi = 7
  /\ phase = "done" =>
       /\ m.r.esp = StackTop - 4 /\ m.r.eip = SlabParams
       /\ m.r.ebx = 5 /\ m.r.esi = 6 /\ m.r.edi = 7
  /\ phase \notin {"idle", "done"} => calls > 0 /\ Called(entry, call) /\ Shape(call.fn, call.args)
  /\ phase = "run" => Outline(m, entry, call.fn, pc)
  /\ phase = "returned" => Done(m, entry, call.fn)
  /\ phase \in {"left", "stopped"} => Gone(m, entry, call.fn)

LEMMA CallInvInit == Init => CallInv
  BY InitMachine DEF Init, CallInv
LEMMA CalledEsp ==
  ASSUME NEW e, NEW c, Called(e, c)
  PROVE  /\ e.r.esp \in 16..32 /\ Read32(e, 64) \in {0, 1} /\ c.args \in Seq(Words)
         /\ Len(c.args) \in 1..MaxArgs /\ e.r.esp + 4 = StackTop - 4 * Len(c.args)
<1> DEFINE k == Len(c.args)
<1>1. c.args \in Seq(Words) /\ k \in 1..5 /\ e.r.esp = 36 - 4 * k /\ Read32(e, 64) \in {0, 1}
  BY DEF Called, SmpLock
<1> HIDE DEF k
<1>2. k \in 1..MaxArgs /\ e.r.esp \in 16..32 /\ e.r.esp + 4 = StackTop - 4 * k
  BY <1>1 DEF MaxArgs, StackTop
<1> QED
  BY <1>1, <1>2 DEF k
(* The parameter of the stub is taken off a stack that is one word too low. *)
LEMMA StubParamRemoved ==
  ASSUME NEW n \in Machines, n.r.esp = 32
  PROVE  LET w == RemoveParams(n, <<68>>)
         IN  w \in Machines /\ w.r = [n.r EXCEPT !["esp"] = 36] /\ w.mem = n.mem
<1>1. PICK args : args = <<68>>
  OBVIOUS
<1>2. 68 \in Words
  BY Small
<1>3. args \in Seq(Words) /\ Len(args) = 1
  BY <1>1, <1>2
<1>4. Len(args) \in 1..MaxArgs /\ n.r.esp = 36 - 4 * Len(args)
  BY <1>3 DEF MaxArgs
<1>5. 36 \in {36, 40}
  OBVIOUS
<1>6. LET w == RemoveParams(n, args)
      IN  w \in Machines /\ w.r = [n.r EXCEPT !["esp"] = 36] /\ w.mem = n.mem
  BY <1>3, <1>4, <1>5, ParamsRemoved
<1> QED
  BY <1>1, <1>6
LEMMA CallInvNext == CallInv /\ [Next]_vars => CallInv'
<1> SUFFICES ASSUME CallInv, [Next]_vars PROVE CallInv'
  OBVIOUS
<1>1. CASE Call
  <2>1. /\ phase = "idle" /\ m \in Machines /\ m.r.esp = StackTop /\ Read32(m, SmpLock) \in {0, 1}
        /\ calls \in Nat
    BY <1>1 DEF Call, CallInv
  <2>2. PICK c \in Calls, t \in CallTypes :
          /\ m' = CASM_FUNCCALL(cabi_establish(IF c.fn = "slab_entrystub" THEN SetParams(m, t) ELSE m), c.args)
          /\ entry' = m' /\ call' = [fn |-> c.fn, args |-> c.args]
    BY <1>1 DEF Call
  <2>3. Called(entry', call')
    BY <2>1, <2>2, CallCalled
  <2>4. Shape(call'.fn, call'.args)
    <3>1. call'.fn = c.fn /\ call'.args = c.args
      BY <2>2
    <3>2. Shape(c.fn, c.args)
      BY CallShapes
    <3> QED
      BY <3>1, <3>2
  <2>5. Outline(entry', entry', call'.fn, 1)
    BY <2>3, <2>4, CallBegins
  <2>6. phase' = "run" /\ pc' = 1 /\ calls' = calls + 1 /\ m' = entry'
    BY <1>1, <2>2 DEF Call
  <2>7. m' \in Machines
    BY <2>3, <2>6 DEF Called
  <2>8. calls' \in Nat /\ calls' > 0
    BY <2>1, <2>6
  <2> QED
    BY <2>3, <2>4, <2>5, <2>6, <2>7, <2>8 DEF CallInv
<1> DEFINE i == Program[call.fn][pc]
<1>2. ASSUME phase = "run"
      PROVE  /\ Moves(m, entry, call.fn, pc)
             /\ calls \in Nat /\ calls > 0 /\ Called(entry, call) /\ Shape(call.fn, call.args)
  BY <1>2, OutlineMoves DEF CallInv
<1>3. ASSUME phase = "run", phase' = "run", call' = call, entry' = entry, calls' = calls,
             Outline(m', entry, call.fn, pc')
      PROVE  CallInv'
  <2>1. m' \in Machines
    BY <1>3, OutlineTyped
  <2> QED
    BY <1>2, <1>3, <2>1 DEF CallInv
<1>4. CASE Execute
  <2>1. /\ phase = "run" /\ phase' = "run" /\ call' = call /\ entry' = entry /\ calls' = calls
        /\ m' = Exec(m, i) /\ pc' = pc + 1 /\ (i[1] = "bsrl_mesp_eax" => bsrl_ends(m, i[2]))
        /\ ~Stray(m, i) /\ i[1] \notin Branches \cup Returns \cup {"call_c_1p", "jmpsentinel"}
    BY <1>4 DEF Execute, Insn
  <2>2. Plain(i)
    BY <1>2, <2>1 DEF Moves, Plain
  <2>3. Outline(Exec(m, i), entry, call.fn, pc + 1)
    BY <1>2, <2>1, <2>2 DEF Moves
  <2> QED
    BY <1>3, <2>1, <2>3
<1>5. CASE Branch
  <2>1. /\ phase = "run" /\ phase' = "run" /\ call' = call /\ entry' = entry /\ calls' = calls
        /\ m' = m /\ pc' = (IF Taken(m, i[1]) THEN i[2] ELSE pc + 1) /\ i[1] \in Branches
    BY <1>5 DEF Branch, Insn
  <2>2. Outline(m, entry, call.fn, IF Taken(m, i[1]) THEN i[2] ELSE pc + 1)
    BY <1>2, <2>1 DEF Moves
  <2> QED
    BY <1>3, <2>1, <2>2
<1>6. CASE CallC
  <2>1. /\ phase = "run" /\ phase' = "run" /\ call' = call /\ entry' = entry /\ calls' = calls
        /\ pc' = pc + 1 /\ i[1] = "call_c_1p"
    BY <1>6 DEF CallC, Insn
  <2>2. PICK x \in Values, y \in Values : m' = ReturnedFromC(m, x, y)
    BY <1>6 DEF CallC, ReturnedFromC
  <2>3. x \in Words /\ y \in Words
    BY ValuesAssumption DEF Words
  <2>4. Outline(ReturnedFromC(m, x, y), entry, call.fn, pc + 1)
    BY <1>2, <2>1, <2>3 DEF Moves
  <2> QED
    BY <1>3, <2>1, <2>2, <2>4
<1>7. CASE FuncReturn
  <2>1. /\ phase = "run" /\ phase' = "returned" /\ call' = call /\ entry' = entry /\ calls' = calls
        /\ m' = Return(m, i[1]) /\ i[1] \in Returns
    BY <1>7 DEF FuncReturn, Insn
  <2>2. Done(Return(m, i[1]), entry, call.fn)
    BY <1>2, <2>1 DEF Moves
  <2>3. m' \in Machines
    BY <2>1, <2>2, DoneLeft DEF LeftFrame, StubLeft
  <2> QED
    BY <1>2, <2>1, <2>2, <2>3 DEF CallInv
<1>8. CASE JmpSentinel
  <2>1. /\ phase = "run" /\ phase' = "left" /\ call' = call /\ entry' = entry /\ calls' = calls
        /\ m' = m /\ i[1] = "jmpsentinel"
    BY <1>8 DEF JmpSentinel, Insn
  <2>2. Gone(m, entry, call.fn)
    BY <1>2, <2>1 DEF Moves
  <2>3. m' \in Machines
    BY <2>1, <2>2 DEF Gone
  <2> QED
    BY <1>2, <2>1, <2>2, <2>3 DEF CallInv
<1>9. CASE Teardown
  <2>1. /\ phase = "returned" /\ call' = NoCall /\ calls' = calls
        /\ phase' = (IF call.fn = "slab_entrystub" THEN "done" ELSE "idle")
        /\ m' = RemoveParams(m, call.args)
    BY <1>9 DEF Teardown
  <2>2. Done(m, entry, call.fn) /\ Called(entry, call) /\ calls \in Nat /\ calls > 0 /\ Shape(call.fn, call.args)
    BY <2>1 DEF CallInv
  <2>3. CASE call.fn = "slab_entrystub"
    <3>1. StubLeft(m, entry)
      BY <2>2, <2>3, DoneLeft
    <3>2. call.args = <<68>>
      BY <2>2, <2>3, ShapeOf
    <3>3. m' \in Machines /\ m'.r = [m.r EXCEPT !["esp"] = 36]
      BY <2>1, <3>1, <3>2, StubParamRemoved DEF StubLeft
    <3>4. m.r \in [Gprs -> Words]
      BY <3>1, Parts DEF StubLeft
    <3>5. m'.r.esp = 36 /\ m'.r.eip = 68 /\ m'.r.ebx = 5 /\ m'.r.esi = 6 /\ m'.r.edi = 7
      BY <3>1, <3>3, <3>4 DEF Gprs, StubLeft
    <3>6. 36 = StackTop - 4 /\ SlabParams = 68
      BY DEF StackTop, SlabParams
    <3> QED
      BY <2>1, <2>2, <2>3, <3>3, <3>5, <3>6 DEF CallInv
  <2>4. CASE call.fn # "slab_entrystub"
    <3>1. LeftFrame(m, entry, OutOf(call.fn))
      BY <2>2, <2>4, DoneLeft
    <3>2. /\ m \in Machines /\ m.r.esp = entry.r.esp + 4 /\ m.r.eip = CASM_RET_EIP
          /\ m.r.ebx = 5 /\ m.r.esi = 6 /\ m.r.edi = 7
      BY <3>1 DEF LeftFrame
    <3>3. /\ call.args \in Seq(Words) /\ Len(call.args) \in 1..MaxArgs /\ m.r.esp = StackTop - 4 * Len(call.args)
          /\ entry.r.esp \in 16..32 /\ Read32(entry, 64) \in {0, 1}
      BY <2>2, <3>2, CalledEsp
    <3>4. m' \in Machines /\ m'.r = [m.r EXCEPT !["esp"] = StackTop] /\ m'.mem = m.mem
      BY <2>1, <3>2, <3>3, ParamsRemoved DEF StackTop
    <3>5. m.r \in [Gprs -> Words]
      BY <3>2, Parts
    <3>6. m'.r.esp = StackTop /\ m'.r.eip = CASM_RET_EIP /\ m'.r.ebx = 5 /\ m'.r.esi = 6 /\ m'.r.edi = 7
      BY <3>2, <3>4, <3>5 DEF Gprs
    <3>7. Read32(m', SmpLock) \in {0, 1}
      <4>1. Read32(m, 64) \in {0, 1}
        BY <2>2, <2>4, <3>3, DoneLock
      <4>2. Read32(m', 64) = Read32(m, 64)
        BY <3>4, SameMemory
      <4> QED
        BY <4>1, <4>2 DEF SmpLock
    <3> QED
      BY <2>1, <2>2, <2>4, <3>4, <3>6, <3>7 DEF CallInv
  <2> QED
    BY <2>3, <2>4
<1>10. CASE StrayAccess
  <2>1. /\ phase = "run" /\ call' = call /\ entry' = entry /\ calls' = calls
        /\ Stray(m, i) /\ i[1] \in ThroughEax
    BY <1>10 DEF StrayAccess, Stray, Insn
  <2>2. Gone(m, entry, call.fn) /\ \A w \in Undefined(m, i) : Outline(w, entry, call.fn, pc + 1)
    BY <1>2, <2>1 DEF Moves
  <2>3. CASE phase' = "stopped" /\ m' = m
    BY <1>2, <2>1, <2>2, <2>3 DEF CallInv, Gone
  <2>4. CASE phase' = "run" /\ m' \in Undefined(m, i) /\ pc' = pc + 1
    BY <1>3, <2>1, <2>2, <2>4
  <2> QED
    BY <1>10, <2>3, <2>4 DEF StrayAccess, Insn
<1>11. CASE UNCHANGED vars
  BY <1>11 DEF vars, CallInv
<1> QED
  BY <1>1, <1>4, <1>5, <1>6, <1>7, <1>8, <1>9, <1>10, <1>11 DEF Next, Step
THEOREM CallInvariant == Spec => []CallInv
  BY CallInvInit, CallInvNext, PTL DEF Spec

(* Every register holds a word and every byte of memory a byte, whatever
   function runs: the operators of the CPU model stay within the width of
   the machine, and no function runs past its end. *)
THEOREM MachineTyped == Spec => []TypeOK
<1>1. CallInv => TypeOK
  <2> SUFFICES ASSUME CallInv PROVE TypeOK
    OBVIOUS
  <2>1. m \in Machines /\ phase \in {"idle", "run", "returned", "done", "left", "stopped"}
    BY DEF CallInv
  <2>2. phase = "run" => pc \in DOMAIN Program[call.fn]
    BY OutlineTyped DEF CallInv
  <2>3. m.r \in [Gprs -> Words] /\ m.fl \in Words /\ m.mem \in [Memory -> Bytes]
    BY <2>1, Parts
  <2> QED
    BY <2>1, <2>2, <2>3 DEF TypeOK, Words, Bytes
<1> QED
  BY <1>1, CallInvariant, PTL
(* A function that returns has restored ebx, esi and edi. *)
THEOREM SavedRegistersKept == Spec => []CalleeSavedPreserved
<1>1. CallInv => CalleeSavedPreserved
  <2> SUFFICES ASSUME CallInv, phase \in {"returned", "idle", "done"}, calls > 0
               PROVE  m.r.ebx = 5 /\ m.r.esi = 6 /\ m.r.edi = 7
    BY DEF CalleeSavedPreserved
  <2>1. CASE phase \in {"idle", "done"}
    BY <2>1 DEF CallInv
  <2>2. CASE phase = "returned"
    <3>1. StubLeft(m, entry) \/ LeftFrame(m, entry, OutOf(call.fn))
      BY <2>2, DoneLeft DEF CallInv
    <3> QED
      BY <3>1 DEF LeftFrame, StubLeft
  <2> QED
    BY <2>1, <2>2
<1> QED
  BY <1>1, CallInvariant, PTL
(* A function returns to its caller, which finds its stack as it was; the
   entry stub goes to its parameter and leaves the stack one word lower,
   because nothing takes the return address of slab_main off it. *)
THEOREM StackRestored == Spec => []StackBalanced
<1>1. CallInv => StackBalanced
  BY DEF CallInv, StackBalanced
<1> QED
  BY <1>1, CallInvariant, PTL
(* The macros that reverse and push the arguments put the i-th argument
   where functions look for it. *)
THEOREM ParamsFound == Spec => []ParamsInPlace
<1>1. CallInv => ParamsInPlace
  BY DEF CallInv, Called, ParamsInPlace
<1> QED
  BY <1>1, CallInvariant, PTL
(* A function that has returned, gone back through the sentinel or been
   stopped has written nothing above its return address but what its pointers name. *)
LEMMA OutPointersOf ==
  ASSUME Shape(call.fn, call.args)
  PROVE  OutOf(call.fn) \subseteq OutPointers
<1>1. CASE call.fn = "xmhfhw_cpu_cpuid"
  <2>1. PICK op \in 0..2 : call.args = <<op, 40, 44, 48, 52>>
    BY <1>1, ShapeOf
  <2>2. call.args[2] = 40 /\ call.args[3] = 44 /\ call.args[4] = 48 /\ call.args[5] = 52
    BY <2>1
  <2>3. OutPointers = UNION {WordAt(call.args[j]) : j \in 2..5}
    BY <1>1 DEF OutPointers
  <2>4. ASSUME NEW x \in 40..55 PROVE \E j \in 2..5 : x \in WordAt(call.args[j])
    <3>1. x \in 40..43 \/ x \in 44..47 \/ x \in 48..51 \/ x \in 52..55
      OBVIOUS
    <3>2. 2 \in 2..5 /\ 3 \in 2..5 /\ 4 \in 2..5 /\ 5 \in 2..5
      OBVIOUS
    <3> QED
      BY <2>2, <3>1, <3>2 DEF WordAt
  <2>5. OutOf(call.fn) = 40..55
    BY <1>1 DEF OutOf, CpuidOut, LockFns
  <2> QED
    BY <2>3, <2>4, <2>5
<1>2. CASE call.fn \in LockFns
  <2>1. call.args[1] = 64
    BY <1>2, ShapeOf DEF LockFns
  <2>2. OutPointers = WordAt(call.args[1])
    BY <1>2 DEF OutPointers, LockFns
  <2>3. OutOf(call.fn) = 64..67
    BY <1>2 DEF OutOf, LockOut, LockFns
  <2> QED
    BY <2>1, <2>2, <2>3 DEF WordAt
<1>3. CASE call.fn = "sysmemaccess_copy"
  <2>1. call.args[1] = 84 /\ call.args[3] = 4
    BY <1>3, ShapeOf
  <2>2. OutPointers = call.args[1]..(call.args[1] + call.args[3] - 1)
    BY <1>3 DEF OutPointers
  <2>3. OutOf(call.fn) = 84..87
    BY <1>3 DEF OutOf, CopyOut, LockFns
  <2> QED
    BY <2>1, <2>2, <2>3
<1>4. CASE call.fn \notin LockFns \cup {"xmhfhw_cpu_cpuid", "sysmemaccess_copy"}
  BY <1>4 DEF OutOf
<1> QED
  BY <1>1, <1>2, <1>3, <1>4
THEOREM MemoryFramed == Spec => []MemoryFrame
<1>1. CallInv => MemoryFrame
  <2> SUFFICES ASSUME CallInv, phase \in {"returned", "left", "stopped"}, NEW a \in Memory,
                      a >= entry.r.esp + 4, a \notin OutPointers
               PROVE  m.mem[a] = entry.mem[a]
    BY DEF MemoryFrame
  <2>1. Called(entry, call) /\ Shape(call.fn, call.args)
    BY DEF CallInv
  <2>2. ASSUME call.fn = "slab_entrystub", Frame(m, entry, 32, {}) PROVE m.mem[a] = entry.mem[a]
    <3>1. entry.r.esp = 32
      <4> DEFINE k == Len(call.args)
      <4>1. call.args = <<68>>
        BY <2>1, <2>2, ShapeOf
      <4>2. k = 1 /\ entry.r.esp = 36 - 4 * k
        BY <2>1, <4>1 DEF Called
      <4> HIDE DEF k
      <4> QED
        BY <4>2
    <3>2. a >= 32
      BY <3>1 DEF Memory
    <3> QED
      BY <2>2, <3>2 DEF Frame
  <2>3. CASE phase = "returned" /\ call.fn # "slab_entrystub"
    <3>1. Frame(m, entry, entry.r.esp + 4, OutOf(call.fn))
      BY <2>3, DoneLeft DEF CallInv, LeftFrame
    <3>2. a \notin OutOf(call.fn)
      BY <2>1, OutPointersOf
    <3> QED
      BY <3>1, <3>2 DEF Frame
  <2>4. CASE phase = "returned" /\ call.fn = "slab_entrystub"
    BY <2>2, <2>4, DoneLeft DEF CallInv, StubLeft
  <2>5. CASE phase \in {"left", "stopped"}
    BY <2>2, <2>5 DEF CallInv, Gone
  <2> QED
    BY <2>3, <2>4, <2>5
<1> QED
  BY <1>1, CallInvariant, PTL
(* What a function leaves in memory for its caller: the answers of cpuid,
   the lock taken or free, the word copied. *)
THEOREM OutputsLeft == Spec => []OutputsInMemory
<1>1. CallInv => OutputsInMemory
  <2> SUFFICES ASSUME CallInv, phase = "returned" PROVE OutputsInMemory
    BY DEF OutputsInMemory
  <2>1. Called(entry, call) /\ Shape(call.fn, call.args) /\ Done(m, entry, call.fn)
    BY DEF CallInv
  <2>2. CASE call.fn = "xmhfhw_cpu_cpuid"
    <3>1. PICK op \in 0..2 : call.args = <<op, 40, 44, 48, 52>>
      BY <2>1, <2>2, ShapeOf
    <3>2. Len(call.args) = 5
      BY <3>1
    <3>3. entry.r.esp = 16
      <4> DEFINE k == Len(call.args)
      <4>1. k = 5 /\ entry.r.esp = 36 - 4 * k
        BY <2>1, <3>2 DEF Called
      <4> HIDE DEF k
      <4> QED
        BY <4>1
    <3>4. Read32(entry, 20) = call.args[1]
      <4>1. 1 \in DOMAIN call.args
        BY <3>1
      <4>2. Read32(entry, entry.r.esp + 4 * 1) = call.args[1]
        BY <2>1, <4>1 DEF Called
      <4>3. 16 + 4 * 1 = 20
        OBVIOUS
      <4> QED
        BY <3>3, <4>2, <4>3
    <3>5. cpuid([entry EXCEPT !.r.eax = call.args[1], !.r.ecx = Read32(entry, EcxVar)]) = CpuidAsked(entry)
      BY <3>4 DEF CpuidAsked
    <3> QED
      BY <2>1, <2>2, <3>5, DoneOf DEF OutputsInMemory
  <2>3. CASE call.fn = "spin_lock"
    BY <2>1, <2>3, DoneOf DEF OutputsInMemory, SmpLock
  <2>4. CASE call.fn = "spin_unlock"
    BY <2>1, <2>4, DoneOf DEF OutputsInMemory, SmpLock
  <2>5. CASE call.fn = "sysmemaccess_copy"
    BY <2>1, <2>5, DoneOf DEF OutputsInMemory, SysmemDst, SysmemSrc
  <2>6. CASE call.fn \notin {"xmhfhw_cpu_cpuid", "spin_lock", "spin_unlock", "sysmemaccess_copy"}
    BY <2>6 DEF OutputsInMemory
  <2> QED
    BY <2>2, <2>3, <2>4, <2>5, <2>6
<1> QED
  BY <1>1, CallInvariant, PTL
===============================================================================
