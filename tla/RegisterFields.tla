--------------------------- MODULE RegisterFields ---------------------------
(***************************************************************************)
(* Registers as the pack_ and unpack_ macros of the hardware model headers *)
(* see them.  A register, and the value of a field, is the set of its bits *)
(* that are one, so that registers of 32 and of 64 bits need no large      *)
(* numbers; a layout maps the name of a field to its place.                *)
(***************************************************************************)
EXTENDS Integers

(* A field that starts at bit lo of the register. *)
Place(lo, width) == [lo |-> lo, width |-> width]

(* Mutants: a mask of one bit less, a high half that is not shifted down. *)
FieldNarrow(value, place) == {b - place.lo : b \in value \cap (place.lo..(place.lo + place.width - 2))}
HighWordUnshifted(value) == value \cap (32..63)

(* (value >> lo) & mask *)
Field(value, place) == {b - place.lo : b \in value \cap (place.lo..(place.lo + place.width - 1))}
Unpack(layout, value) == [f \in DOMAIN layout |-> Field(value, layout[f])]

(* The fields of s, masked to their width, shifted to their place; what is
   shifted out of 64 bits is lost. *)
Pack(layout, s) ==
  (0..63) \cap
    UNION {{b + layout[f].lo : b \in s[f] \cap (0..(layout[f].width - 1))} : f \in DOMAIN layout}

(* The bits of a number. *)
Bits(n) == {b \in 0..30 : (n \div 2^b) % 2 = 1}

(* A 64-bit register is two words. *)
LowWord(value)  == value \cap (0..31)
HighWord(value) == {b - 32 : b \in value \cap (32..63)}
Join(low, high) == low \cup {b + 32 : b \in high}
=============================================================================
