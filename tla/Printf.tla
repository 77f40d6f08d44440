------------------------------- MODULE Printf -------------------------------
(***************************************************************************)
(* Formatted output: kvprintf of libxmhfdebug (subr_prf.c) with sprintf    *)
(* and snprintf around it.                                                 *)
(*                                                                         *)
(* A format is a sequence of characters to copy and of directives; the     *)
(* text is a sequence of characters.  A directive is the tokens between    *)
(* its percent sign and its conversion, where a run of digits is one       *)
(* token, and the argument it takes.  Integers have the widths of          *)
(* ArgBits.  %n, which only stores a count, is left out.                   *)
(***************************************************************************)
EXTENDS Integers, Sequences
LOCAL Seqs == INSTANCE SequencesExt

CONSTANTS ArgBits,      \* bits of a char, a short, an int (and long, size_t, ptrdiff_t), a wide integer
          Formats       \* [format: items, radix: Int, size: Nat]
ASSUME FormatConstants == ArgBits.char < ArgBits.short /\ ArgBits.short < ArgBits.int /\ ArgBits.int < ArgBits.wide

Token(c, n) == [c |-> c, n |-> n]
Copied(c) == [kind |-> "copied", c |-> c]
(* An argument is a number, a string or both, with the names of its bits or
   the bytes that it points to. *)
NoArg == [n |-> 0, s |-> <<>>, null |-> TRUE, base |-> 10, names |-> <<>>, bytes |-> <<>>]
Number(v) == [NoArg EXCEPT !.n = v]
String(s) == [NoArg EXCEPT !.s = s, !.null = FALSE]
BitNames(v, base, names) == [NoArg EXCEPT !.n = v, !.base = base, !.names = names]
Bytes(bytes, separator) == [String(separator) EXCEPT !.bytes = bytes]
Directive(tokens, conv, arg) == [kind |-> "directive", tokens |-> tokens, conv |-> conv, arg |-> arg]

HexDigits == <<"0", "1", "2", "3", "4", "5", "6", "7", "8", "9", "a", "b", "c", "d", "e", "f">>
UpperDigits == <<"0", "1", "2", "3", "4", "5", "6", "7", "8", "9", "A", "B", "C", "D", "E", "F">>
hex2ascii(d) == HexDigits[d + 1]
imax(a, b) == IF a > b THEN a ELSE b
Repeat(c, n) == [i \in 1..imax(n, 0) |-> c]

(* The digits of a number, the most significant first; the code leaves them
   in a buffer in reverse order. *)
ksprintn(num, base, upper) ==
  LET digits == IF upper THEN UpperDigits ELSE HexDigits
      text[n \in Nat] ==
        IF n < base THEN <<digits[n + 1]>> ELSE Append(text[n \div base], digits[(n % base) + 1])
  IN  text[num]
-----------------------------------------------------------------------------
(* The flags, the width and the modifiers, token by token. *)
NoFlags ==
  [padc |-> " ", width |-> 0, dwidth |-> 0, dot |-> FALSE, sharp |-> FALSE, sign |-> FALSE,
   left |-> FALSE, mods |-> {}]
Twice(mods, once, twice) == IF once \in mods THEN (mods \ {once}) \cup {twice} ELSE mods \cup {once}
reswitch(f, t) ==
  CASE t.c = "." -> [f EXCEPT !.dot = TRUE]
    [] t.c = "#" -> [f EXCEPT !.sharp = TRUE]
    [] t.c = "+" -> [f EXCEPT !.sign = TRUE]
    [] t.c = "-" -> [f EXCEPT !.left = TRUE]
    [] t.c = "0" /\ ~f.dot -> [f EXCEPT !.padc = "0"]
    [] t.c \in {"number", "*"} /\ f.dot -> [f EXCEPT !.dwidth = t.n]
    [] t.c = "number" /\ ~f.dot -> [f EXCEPT !.width = t.n]
    [] t.c = "*" /\ ~f.dot ->
         IF t.n < 0 THEN [f EXCEPT !.left = ~@, !.width = -t.n] ELSE [f EXCEPT !.width = t.n]
    [] t.c = "h" -> [f EXCEPT !.mods = Twice(@, "h", "hh")]
    [] t.c = "l" -> [f EXCEPT !.mods = Twice(@, "l", "q")]
    [] t.c \in {"j", "q", "t", "z"} -> [f EXCEPT !.mods = @ \cup {t.c}]
    [] OTHER -> f

(* An argument as the modifiers read it.  A difference of pointers is signed
   where a number without sign is wanted. *)
Wrapped(v, bits) == v % 2^bits
SignedWrapped(v, bits) ==
  IF Wrapped(v, bits) >= 2^(bits - 1) THEN Wrapped(v, bits) - 2^bits ELSE Wrapped(v, bits)
ReadBits(mods) ==
  CASE mods \cap {"j", "q"} # {} -> ArgBits.wide
    [] mods \cap {"t", "l", "z"} # {} -> ArgBits.int
    [] "h" \in mods -> ArgBits.short
    [] "hh" \in mods -> ArgBits.char
    [] OTHER -> ArgBits.int
handle_nosign(mods, v) ==
  IF "t" \in mods /\ mods \cap {"j", "q"} = {}
  THEN Wrapped(SignedWrapped(v, ArgBits.int), ArgBits.wide)
  ELSE Wrapped(v, ReadBits(mods))
handle_sign(mods, v) == SignedWrapped(v, ReadBits(mods))

(* A number: padding, sign, prefix, zeros, digits, padding.  The zero flag
   makes the zeros fill the width. *)
number(f, value, base, upper) ==
  LET neg == f.sign /\ value < 0
      num == IF neg THEN -value ELSE value
      digits == ksprintn(num, base, upper)
      n == Len(digits)
      prefix == IF f.sharp /\ num # 0
                THEN CASE base = 8 -> <<"0">> [] base = 16 -> <<"0", "x">> [] OTHER -> <<>>
                ELSE <<>>
      tmp == Len(prefix) + (IF neg THEN 1 ELSE 0)
      dwidth == IF ~f.left /\ f.padc = "0" THEN f.width - tmp ELSE f.dwidth
      width == f.width - (tmp + imax(dwidth, n))
      spaces == Repeat(" ", width)
  IN  (IF f.left THEN <<>> ELSE spaces) \o (IF neg THEN <<"-">> ELSE <<>>) \o prefix
      \o Repeat("0", dwidth - n) \o digits \o (IF f.left THEN spaces ELSE <<>>)

(* A string, or as much of it as the precision lets through. *)
string(f, s) ==
  LET n == IF f.dot /\ f.dwidth < Len(s) THEN imax(f.dwidth, 0) ELSE Len(s)
      padding == Repeat(f.padc, f.width - n)
  IN  (IF f.left THEN <<>> ELSE padding) \o SubSeq(s, 1, n) \o (IF f.left THEN padding ELSE <<>>)

(* %b: a number and the names of its bits that are set; %D: bytes. *)
bitnames(arg) ==
  LET set == SelectSeq(arg.names, LAMBDA b : (arg.n \div 2^(b.bit - 1)) % 2 = 1)
      list == Seqs!FlattenSeq([i \in DOMAIN set |-> <<IF i = 1 THEN "<" ELSE ",">> \o set[i].name])
  IN  ksprintn(arg.n, arg.base, FALSE)
      \o (IF arg.n = 0 \/ set = <<>> THEN <<>> ELSE Append(list, ">"))
hexdump(f, arg) ==
  LET count == IF f.width = 0 THEN 16 ELSE f.width
      byte(i) == <<hex2ascii(arg.bytes[i] \div 16), hex2ascii(arg.bytes[i] % 16)>>
  IN  Seqs!FlattenSeq([i \in 1..count |-> byte(i) \o (IF i < count THEN arg.s ELSE <<>>)])
-----------------------------------------------------------------------------
(* What a directive prints; none for one that is not known. *)
Known == {"%", "b", "c", "D", "d", "i", "o", "p", "r", "s", "u", "X", "x", "y"}
FlagsOf(d) == Seqs!FoldLeft(reswitch, NoFlags, d.tokens)
Converted(d, radix) ==
  LET f == FlagsOf(d)
      signed(base) == number([f EXCEPT !.sign = TRUE], handle_sign(f.mods, d.arg.n), base, FALSE)
      unsigned(base, upper) == number([f EXCEPT !.sign = FALSE], handle_nosign(f.mods, d.arg.n), base, upper)
  IN  CASE d.conv = "%" -> <<"%">>
        [] d.conv = "c" -> d.arg.s
        [] d.conv = "b" -> bitnames(d.arg)
        [] d.conv = "D" -> hexdump(f, d.arg)
        [] d.conv = "s" -> string(f, IF d.arg.null THEN <<"(", "n", "u", "l", "l", ")">> ELSE d.arg.s)
        [] d.conv \in {"d", "i"} -> signed(10)
        [] d.conv = "y" -> signed(16)
        [] d.conv = "r" -> IF f.sign THEN signed(radix) ELSE unsigned(radix, FALSE)
        [] d.conv = "u" -> unsigned(10, FALSE)
        [] d.conv = "o" -> unsigned(8, FALSE)
        [] d.conv = "x" -> unsigned(16, FALSE)
        [] d.conv = "X" -> unsigned(16, TRUE)
        [] d.conv = "p" -> number([f EXCEPT !.sharp = f.width = 0, !.sign = FALSE],
                                  Wrapped(d.arg.n, ArgBits.int), 16, FALSE)

TokenText(t) ==
  CASE t.c = "number" -> ksprintn(t.n, 10, FALSE) [] OTHER -> <<t.c>>
DirectiveText(d) ==
  <<"%">> \o Seqs!FlattenSeq([i \in DOMAIN d.tokens |-> TokenText(d.tokens[i])]) \o <<d.conv>>

(* After a directive that is not known, everything is copied as it is. *)
kvprintf(format, radix) ==
  LET base == IF radix < 2 \/ radix > 36 THEN 10 ELSE radix
      print(out, item) ==
        CASE item.kind = "copied" -> [out EXCEPT !.text = Append(@, item.c)]
          [] item.kind = "directive" /\ (out.stop \/ item.conv \notin Known) ->
               [text |-> out.text \o DirectiveText(item), stop |-> TRUE]
          [] OTHER -> [out EXCEPT !.text = @ \o Converted(item, base)]
  IN  Seqs!FoldLeft(print, [text |-> <<>>, stop |-> FALSE], format).text

(* The buffer, and the length that is returned.  sprintf does not look at
   the size of the buffer; the terminator of snprintf is written after what
   fits before it. *)
NUL == "NUL"
sprintf(format) ==
  LET text == kvprintf(format, 10) IN [str |-> Append(text, NUL), value |-> Len(text)]
(* Mutant: no place is kept for the terminator. *)
SnprintfFuncOver(info, ch) ==
  IF info.remain >= 1 THEN [str |-> Append(info.str, ch), remain |-> info.remain - 1] ELSE info
snprintf_func(info, ch) ==
  IF info.remain >= 2 THEN [str |-> Append(info.str, ch), remain |-> info.remain - 1] ELSE info
vsnrprintf(size, radix, format) ==
  LET text == kvprintf(format, radix)
      info == Seqs!FoldLeft(snprintf_func, [str |-> <<>>, remain |-> size], text)
  IN  [str |-> IF info.remain >= 1 THEN Append(info.str, NUL) ELSE info.str, value |-> Len(text)]
snprintf(size, format) == vsnrprintf(size, 10, format)
-----------------------------------------------------------------------------
VARIABLES printcall, printed
printVars == <<printcall, printed>>
NoPrintCall == [fn |-> "none"]
PrintInit == printcall = NoPrintCall /\ printed = <<>>
PrintNext ==
  /\ printcall = NoPrintCall
  /\ \E input \in Formats, fn \in {"sprintf", "snprintf", "vsnrprintf"} :
       /\ printcall' = [fn |-> fn, input |-> input]
       /\ printed' = CASE fn = "sprintf"  -> sprintf(input.format)
                       [] fn = "snprintf" -> snprintf(input.size, input.format)
                       [] fn = "vsnrprintf" -> vsnrprintf(input.size, input.radix, input.format)
-----------------------------------------------------------------------------
(* What the functions print and return.  The bound of the buffer: never
   more than its size, the terminator included, a prefix of the whole text,
   whose length is returned. *)
Radix == IF printcall.fn = "vsnrprintf" THEN printcall.input.radix ELSE 10
BufferKept ==
  printcall.fn # "none" =>
    LET text == kvprintf(printcall.input.format, Radix)
        size == printcall.input.size
        room == IF printcall.fn = "sprintf" THEN Len(text) ELSE size - 1
    IN  /\ printed.value = Len(text)
        /\ printcall.fn = "snprintf" => Len(printed.str) <= size
        /\ printed.str = IF room < 0 THEN <<>>
                         ELSE Append(SubSeq(text, 1, IF room < Len(text) THEN room ELSE Len(text)), NUL)

(* What stands for a number reads back as the value of its argument; the
   field is as wide as asked and no wider than needed; spaces stand only on
   the side away from the text, zeros only between the sign or the prefix
   and the digits.  (A precision beside the zero flag is not respected and
   left out, and so are values that the modifier does not hold.) *)
DigitValue(c) == CHOOSE v \in 0..15 : c \in {HexDigits[v + 1], UpperDigits[v + 1]}
ReadBack(text, base) ==
  Seqs!FoldLeft(LAMBDA n, c : base * n + DigitValue(c), 0, text)
Base(d) == CASE d.conv \in {"d", "i", "u"} -> 10 [] d.conv = "o" -> 8 [] OTHER -> 16
Trim(text) == SelectSeq(text, LAMBDA c : c # " ")
NumberRight(d) ==
  LET f == FlagsOf(d)
      value == d.arg.n
      text == Converted(d, 10)
      body == Trim(text)
      signed == d.conv \in {"d", "i", "y"}
      fits == IF signed THEN SignedWrapped(value, ReadBits(f.mods)) = value
              ELSE handle_nosign(f.mods, value) = value
      sign == IF signed /\ value < 0 THEN <<"-">> ELSE <<>>
      prefix == IF f.sharp /\ value # 0
                THEN CASE Base(d) = 8 -> <<"0">> [] Base(d) = 16 -> <<"0", "x">> [] OTHER -> <<>>
                ELSE <<>>
      digits == SubSeq(body, Len(sign) + Len(prefix) + 1, Len(body))
      spaces == Repeat(" ", Len(text) - Len(body))
      filled == f.padc = "0" /\ ~f.left
  IN  d.conv \in {"d", "i", "u", "o", "x", "y"} /\ fits /\ ~(filled /\ f.dot) =>
        /\ SubSeq(body, 1, Len(sign) + Len(prefix)) = sign \o prefix
        /\ ReadBack(digits, Base(d)) = IF value < 0 THEN -value ELSE value
        /\ text = IF f.left THEN body \o spaces ELSE spaces \o body
        /\ Len(text) >= f.width /\ Len(digits) >= imax(1, f.dwidth)
        /\ Len(text) > imax(f.width, 0) => spaces = <<>>
        /\ digits[1] = "0" /\ Len(digits) > 1 =>
             Len(digits) = f.dwidth \/ (filled /\ Len(text) = f.width)
        /\ filled => spaces = <<>>
(* A string is cut to its precision and padded to its width. *)
StringRight(d) ==
  LET f == FlagsOf(d)
      text == Converted(d, 10)
      cut == SubSeq(d.arg.s, 1, IF f.dot /\ f.dwidth < Len(d.arg.s) THEN f.dwidth ELSE Len(d.arg.s))
      body == IF f.left THEN SubSeq(text, 1, Len(cut)) ELSE SubSeq(text, Len(text) - Len(cut) + 1, Len(text))
  IN  d.conv = "s" /\ ~d.arg.null =>
        body = cut /\ Len(text) = imax(f.width, Len(cut))
DirectivesRight ==
  printcall.fn # "none" =>
    \A i \in DOMAIN printcall.input.format :
      LET d == printcall.input.format[i]
      IN  d.kind = "directive" => NumberRight(d) /\ StringRight(d)

(* A directive that is not known is copied, and so is all that follows. *)
UnknownCopied ==
  printcall.fn = "sprintf" =>
    LET format == printcall.input.format
        unknown == {i \in DOMAIN format : format[i].kind = "directive" /\ format[i].conv \notin Known}
        raw(item) == IF item.kind = "copied" THEN <<item.c>> ELSE DirectiveText(item)
        from == CHOOSE i \in unknown : \A j \in unknown : i <= j
        rest == Seqs!FlattenSeq([k \in 1..(Len(format) - from + 1) |-> raw(format[from + k - 1])])
    IN  unknown # {} =>
          SubSeq(printed.str, Len(printed.str) - Len(rest), Len(printed.str) - 1) = rest
PrintfRight == BufferKept /\ DirectivesRight /\ UnknownCopied
=============================================================================
