------------------------------ MODULE CasmArgs ------------------------------
(***************************************************************************)
(* The preprocessor machinery of hwm/include/xmhfhwm_casm.h that turns the *)
(* C argument list of a CASM call into the order in which the arguments    *)
(* are pushed.  A preprocessor sequence (a)(b)(c) and a macro argument     *)
(* list are both sequences here; the tables of 256 macros, one for each    *)
(* number, are the functions they tabulate, with their bounds.             *)
(***************************************************************************)
EXTENDS Naturals, Sequences

(* The tables end at 256; argument lists are counted up to eight. *)
TableSize == 256
MaxArgs == 8

PP_BOOL(x) == IF x = 0 THEN 0 ELSE 1
PP_DEC(x)  == IF x = 0 THEN 0 ELSE x - 1

(* The size of an argument list: the ninth argument counted from a list
   that ends in 8, 7, ..., 1. *)
PP_VARIADIC_SIZE(args) == IF Len(args) <= MaxArgs THEN Len(args) ELSE args[MaxArgs + 1]

(* Each element of a sequence, applied as arguments, takes the macro named
   for a size to the one named for the next; the name becomes a number in
   a second table. *)
PP_SEQ_SIZE_NEXT == [n \in 0..TableSize |-> n + 1]
PP_SEQ_SIZE_NUMBER == [n \in 0..TableSize |-> n]
PP_SEQ_SIZE(seq) ==
  LET name[k \in 0..Len(seq)] == IF k = 0 THEN 0 ELSE PP_SEQ_SIZE_NEXT[name[k - 1]]
  IN  PP_SEQ_SIZE_NUMBER[name[Len(seq)]]
PP_SEQ_ELEM(i, seq) == seq[i + 1]
PP_SEQ_HEAD(seq) == PP_SEQ_ELEM(0, seq)
PP_SEQ_ENUM(seq) == [i \in 1..PP_SEQ_SIZE(seq) |-> PP_SEQ_ELEM(i - 1, seq)]
PP_TUPLE_TO_SEQ(tuple) == [i \in 1..PP_VARIADIC_SIZE(tuple) |-> tuple[i]]

(* Binary search, by a tree of macros, of the first number that satisfies
   the predicate p, given as the set of the numbers that do. *)
PP_AUTO_REC(p, size) ==
  LET Ranges == {r \in (1..size) \X (1..size) : r[1] + r[2] - 1 <= size}  \* first number, width
      search[r \in Ranges] ==
        LET half == r[2] \div 2
        IN  IF r[2] = 1 THEN r[1]
            ELSE IF r[1] + half - 1 \in p THEN search[<<r[1], half>>]
                 ELSE search[<<r[1] + half, half>>]
  IN  search[<<1, size>>]

(* The fold levels that are being expanded may not be entered again: the
   fold starts at the first level that is free. *)
PP_SEQ_FOLD_LEFT_P(n, expanding) == n \notin expanding

(* Each level consumes one element and hands the rest and its size to the
   next one, until no element is left or the table of levels ends.  op is
   a function of the state and an element, a pair. *)
PP_SEQ_FOLD_LEFT_I(op, state, seq, size, level) ==
  LET left[k \in 0..size] == IF k = 0 THEN size ELSE PP_DEC(left[k - 1])
      after[k \in 0..size] ==
        IF k = 0 THEN state ELSE op[<<after[k - 1], PP_SEQ_HEAD(SubSeq(seq, k, size))>>]
      last == CHOOSE k \in 1..size : PP_BOOL(left[k]) = 0
  IN  IF level + last - 1 <= TableSize THEN after[last] ELSE <<>>
PP_SEQ_FOLD_LEFT(op, state, seq, expanding) ==
  LET free == {n \in 1..TableSize : PP_SEQ_FOLD_LEFT_P(n, expanding)}
  IN  PP_SEQ_FOLD_LEFT_I(op, state, seq, PP_SEQ_SIZE(seq), PP_AUTO_REC(free, TableSize))

PP_SEQ_REVERSE_O(state, elem) == <<elem>> \o state
PP_SEQ_REVERSE(seq) ==
  LET elems == {seq[i] : i \in DOMAIN seq}
  IN  PP_SEQ_FOLD_LEFT([s \in Seq(elems) \X elems |-> PP_SEQ_REVERSE_O(s[1], s[2])], <<>>, seq, {})

ReverseArgsNot(args) ==   \* mutant of PP_REVERSEARGS: the order of the list
  PP_SEQ_ENUM(PP_TUPLE_TO_SEQ(args))
PP_REVERSEARGS(args) == PP_SEQ_ENUM(PP_SEQ_REVERSE(PP_TUPLE_TO_SEQ(args)))

(* A macro, a function, applied to every argument from the first: the steps of a call
   that the arguments expand to, one after the other. *)
PP_FOREACH(macro, args) == [i \in 1..PP_VARIADIC_SIZE(args) |-> macro[args[i]]]
=============================================================================
