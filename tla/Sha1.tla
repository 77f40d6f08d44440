-------------------------------- MODULE Sha1 --------------------------------
(***************************************************************************)
(* The hash of libxmhfcrypto (hashes/sha1/sha1.c): the compression of a    *)
(* block of 64 bytes, and the blocks that a message is cut into.  A word   *)
(* of 32 bits is the set of its bits that are one.                         *)
(***************************************************************************)
EXTENDS RegisterFields, Sequences
LOCAL Seqs == INSTANCE SequencesExt

CONSTANT Messages  \* [text: bytes, digest: five words, or <<>> when none is published]
ASSUME HashConstants == \A m \in Messages : \A i \in DOMAIN m.text : m.text[i] \in 0..255

Word32(high, low) == Bits(low) \cup {b + 16 : b \in Bits(high)}
Xor(x, y) == (x \ y) \cup (y \ x)
(* A bit is carried to when a lower bit is one in both, and between them
   every bit is one in either. *)
Carried(x, y) ==
  LET both == x \cap y
      either == x \cup y
  IN  {b \in 0..31 : \E j \in both : j < b /\ (j + 1)..(b - 1) \subseteq either}
Add(x, y) == Xor(Xor(x, y), Carried(x, y))
ROL(x, n) == {(b + n) % 32 : b \in x}
LOAD32H(bytes) == Word32(256 * bytes[1] + bytes[2], 256 * bytes[3] + bytes[4])
-----------------------------------------------------------------------------
(* The four kinds of rounds, twenty of each. *)
F0(x, y, z) == Xor(z, x \cap Xor(y, z))
F1(x, y, z) == Xor(Xor(x, y), z)
F2(x, y, z) == (x \cap y) \cup (z \cap (x \cup y))
Mixed(kind, x, y, z) ==
  CASE kind = 0 -> F0(x, y, z) [] kind \in {1, 3} -> F1(x, y, z) [] kind = 2 -> F2(x, y, z)
RoundConstant(kind) ==
  <<Word32(23170, 31129), Word32(28377, 60321), Word32(36635, 48348), Word32(51810, 49622)>>[kind + 1]

(* The schedule of 80 words from the 16 of the block. *)
Word32s == SUBSET (0..31)
Expanded(block) ==
  LET next[w \in Seq(Word32s)] ==
        LET i == Len(w) + 1
        IN  Append(w, ROL(Xor(Xor(w[i - 3], w[i - 8]), Xor(w[i - 14], w[i - 16])), 1))
      sixteen[w \in Seq(Word32s)] == Seqs!FoldLeft(LAMBDA u, i : next[u], w, [i \in 1..16 |-> i])
  IN  Seqs!FoldLeft(LAMBDA w, i : sixteen[w], [i \in 1..16 |-> LOAD32H(SubSeq(block, 4 * i - 3, 4 * i))], <<1, 2, 3, 4>>)
sha1_compress(state, block) ==
  LET W == Expanded(block)
      round[v \in [1..5 -> Word32s], i \in 0..79] ==
        <<Add(Add(Add(ROL(v[1], 5), Mixed(i \div 20, v[2], v[3], v[4])), Add(v[5], W[i + 1])),
              RoundConstant(i \div 20)),
          v[1], ROL(v[2], 30), v[3], v[4]>>
      twenty[v \in [1..5 -> Word32s], kind \in 0..3] ==
        Seqs!FoldLeft(LAMBDA u, i : round[u, 20 * kind + i], v, [i \in 1..20 |-> i - 1])
      last == Seqs!FoldLeft(LAMBDA v, kind : twenty[v, kind], state, <<0, 1, 2, 3>>)
  IN  [i \in 1..5 |-> Add(state[i], last[i])]
-----------------------------------------------------------------------------
(* The blocks: those of the message that are full, then the rest with a one
   bit, zeros and the length in bits, in a block of its own when the rest
   leaves no room for it. *)
Zeroes(n) == [i \in 1..n |-> 0]
LengthFits(rem) == 64 - rem >= 8
LengthBytes(len) == [i \in 1..8 |-> IF i > 4 THEN ((8 * len) \div 256^(8 - i)) % 256 ELSE 0]
LastBlocks(rest, len) ==
  LET rem == Len(rest) + 1
      block == Append(rest, 128)
  IN  IF LengthFits(rem)
      THEN <<block \o Zeroes(56 - rem) \o LengthBytes(len)>>
      ELSE <<block \o Zeroes(64 - rem), Zeroes(56) \o LengthBytes(len)>>
Blocks64(message) ==
  LET full == Len(message) \div 64
  IN  [k \in 1..full |-> SubSeq(message, 64 * k - 63, 64 * k)]
      \o LastBlocks(SubSeq(message, 64 * full + 1, Len(message)), Len(message))
InitialState ==
  <<Word32(26437, 8961), Word32(61389, 43913), Word32(39098, 56574), Word32(4146, 21622), Word32(50130, 57840)>>
sha1(message) ==
  LET compressed[h \in [1..5 -> Word32s], block \in Seq(0..255)] == sha1_compress(h, block)
  IN  Seqs!FoldLeft(LAMBDA h, block : compressed[h, block], InitialState, Blocks64(message))
-----------------------------------------------------------------------------
VARIABLES hashed, digest
hashVars == <<hashed, digest>>
NothingHashed == [text |-> <<>>, digest |-> <<>>, called |-> FALSE]
HashInit == hashed = NothingHashed /\ digest = <<>>
HashNext ==
  /\ hashed = NothingHashed
  /\ \E m \in Messages : /\ hashed' = [text |-> m.text, digest |-> m.digest, called |-> TRUE]
                         /\ digest' = sha1(m.text)
-----------------------------------------------------------------------------
(* The blocks that are compressed are, put together, the message padded as
   the standard (FIPS 180) says: the message, a one bit, as few zeros as
   fill the last block, the length in bits; and the digest of a message
   whose digest is published is that one. *)
Sha1Right ==
  LET text == hashed.text
      blocks == Blocks64(text)
      padded == Seqs!FlattenSeq(blocks)
  IN  hashed.called =>
        /\ \A k \in DOMAIN blocks : Len(blocks[k]) = 64
        /\ Len(padded) \in (Len(text) + 9)..(Len(text) + 72)
        /\ SubSeq(padded, 1, Len(text) + 1) = Append(text, 128)
        /\ \A i \in (Len(text) + 2)..(Len(padded) - 2) : padded[i] = 0
        /\ 256 * padded[Len(padded) - 1] + padded[Len(padded)] = 8 * Len(text)
        /\ hashed.digest # <<>> => digest = hashed.digest
=============================================================================
