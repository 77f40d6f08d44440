-------------------------------- MODULE CLib --------------------------------
(***************************************************************************)
(* The memory and string functions of libxmhfc (strncmp.c, memmove.c, ...) *)
(* over a small memory: a function from addresses to bytes, 0..255.  Each  *)
(* loop is a recursive function of the number of bytes that are done.  A   *)
(* char is signed.                                                         *)
(***************************************************************************)
EXTENDS Integers

CONSTANTS LibMemories,  \* contents of memory
          LibBytes,     \* bytes to fill with and to look for
          MaxLibCount   \* the largest count of bytes

Signed(byte) == IF byte > 127 THEN byte - 256 ELSE byte
Null == -1
-----------------------------------------------------------------------------
memcpy(mem, dst, src, n) ==
  LET copied[k \in 0..n] ==
        IF k = 0 THEN mem ELSE [copied[k - 1] EXCEPT ![dst + k - 1] = copied[k - 1][src + k - 1]]
  IN  copied[n]

(* From the first byte on when the destination is below the source, else
   from the last byte down. *)
memmove(mem, dst, src, n) ==
  LET forward[k \in 0..n] ==
        IF k = 0 THEN mem ELSE [forward[k - 1] EXCEPT ![dst + k - 1] = forward[k - 1][src + k - 1]]
      backward[k \in 0..n] ==
        IF k = 0 THEN mem ELSE [backward[k - 1] EXCEPT ![dst + n - k] = backward[k - 1][src + n - k]]
  IN  IF dst < src THEN forward[n] ELSE backward[n]

memset(mem, dst, c, n) ==
  [a \in DOMAIN mem |-> IF a \in dst..(dst + n - 1) THEN c % 256 ELSE mem[a]]

(* What is left of n once the terminator was met is zeroed. *)
strncpy(mem, dst, src, n) ==
  LET copied[k \in 0..n] == \* memory, and the position the copy is at
        IF k = 0 THEN [mem |-> mem, at |-> 0]
        ELSE LET before == copied[k - 1]
                 ch == before.mem[src + before.at]
             IN  IF before.at < k - 1 THEN before
                 ELSE [mem |-> [before.mem EXCEPT ![dst + before.at] = ch],
                       at  |-> IF ch = 0 THEN before.at ELSE before.at + 1]
  IN  memset(copied[n].mem, dst + copied[n].at, 0, n - copied[n].at)

Difference(mem, a, b) == Signed(mem[a]) - Signed(mem[b])
memcmp(mem, s1, s2, n) ==
  LET from[k \in 0..n] ==
        IF k = n THEN 0
        ELSE IF Difference(mem, s1 + k, s2 + k) # 0 THEN Difference(mem, s1 + k, s2 + k)
        ELSE from[k + 1]
  IN  from[0]
strncmp(mem, s1, s2, n) ==
  LET from[k \in 0..n] ==
        IF k = n THEN 0
        ELSE IF Difference(mem, s1 + k, s2 + k) # 0 \/ mem[s1 + k] = 0
             THEN Difference(mem, s1 + k, s2 + k)
        ELSE from[k + 1]
  IN  from[0]
strcmp(mem, s1, s2) ==
  LET from[k \in Nat] ==
        IF Difference(mem, s1 + k, s2 + k) # 0 \/ mem[s1 + k] = 0
        THEN Difference(mem, s1 + k, s2 + k) ELSE from[k + 1]
  IN  from[0]

strlen(mem, s) ==
  LET from[k \in Nat] == IF mem[s + k] # 0 THEN from[k + 1] ELSE k IN from[0]
strnlen(mem, s, maxlen) ==
  LET from[k \in 0..maxlen] == IF k < maxlen /\ mem[s + k] # 0 THEN from[k + 1] ELSE k
  IN  from[0]
strchr(mem, s, c) ==
  LET from[k \in Nat] ==
        IF Signed(mem[s + k]) = Signed(c % 256) THEN s + k
        ELSE IF mem[s + k] = 0 THEN Null ELSE from[k + 1]
  IN  from[0]
-----------------------------------------------------------------------------
(* A call, with two places in memory, a count and a byte; the result is
   what it returns and the memory it leaves. *)
VARIABLES libcall, libresult
libVars == <<libcall, libresult>>
NoLibCall == [fn |-> "none"]
LibInit == libcall = NoLibCall /\ libresult = <<>>

LibFunctions ==
  {"memcpy", "memmove", "memset", "strncpy", "memcmp", "strncmp", "strcmp", "strlen", "strnlen", "strchr"}
(* Counts stay in memory; memory ends with a terminator. *)
LibInputs ==
  {i \in [fn : LibFunctions, mem : LibMemories, a : 0..5, b : 0..5, n : 0..MaxLibCount, c : LibBytes] :
     /\ {i.a, i.b} \subseteq DOMAIN i.mem
     /\ i.a + i.n - 1 \in DOMAIN i.mem \cup {-1} /\ i.b + i.n - 1 \in DOMAIN i.mem \cup {-1}
     /\ i.fn \in {"strcmp", "strlen"} => i.n = 0
     /\ i.fn \in {"memset", "strlen", "strnlen", "strchr"} => i.b = 0
     /\ i.fn \notin {"memset", "strchr"} => i.c = 0}
Left(i) ==
  CASE i.fn = "memcpy"  -> memcpy(i.mem, i.a, i.b, i.n)
    [] i.fn = "memmove" -> memmove(i.mem, i.a, i.b, i.n)
    [] i.fn = "memset"  -> memset(i.mem, i.a, i.c, i.n)
    [] i.fn = "strncpy" -> strncpy(i.mem, i.a, i.b, i.n)
    [] OTHER -> i.mem
Returned(i) ==
  CASE i.fn = "memcmp"  -> memcmp(i.mem, i.a, i.b, i.n)
    [] i.fn = "strncmp" -> strncmp(i.mem, i.a, i.b, i.n)
    [] i.fn = "strcmp"  -> strcmp(i.mem, i.a, i.b)
    [] i.fn = "strlen"  -> strlen(i.mem, i.a)
    [] i.fn = "strnlen" -> strnlen(i.mem, i.a, i.n)
    [] i.fn = "strchr"  -> strchr(i.mem, i.a, i.c)
    [] OTHER -> i.a
LibNext ==
  /\ libcall = NoLibCall
  /\ libcall' \in LibInputs
  /\ libresult' = [mem |-> Left(libcall'), value |-> Returned(libcall')]
-----------------------------------------------------------------------------
(* What the contracts above the functions say.  Places are separate where
   the function wants them to be. *)
Least(S) == CHOOSE k \in S : \A j \in S : k <= j
Separate(i) == i.a + i.n <= i.b \/ i.b + i.n <= i.a
Zeros(i, s) == {k \in 0..5 : s + k \in DOMAIN i.mem /\ i.mem[s + k] = 0}

(* Bytes of the destination become what the source held before the call, or
   zeros once a string is at its end; no other byte changes. *)
CopiesRight ==
  LET i == libcall
      new(k) == CASE i.fn \in {"memcpy", "memmove"} -> i.mem[i.b + k]
                  [] i.fn = "memset" -> i.c
                  [] i.fn = "strncpy" -> IF \E z \in Zeros(i, i.b) : z <= k THEN 0 ELSE i.mem[i.b + k]
                  [] OTHER -> i.mem[i.a + k]
  IN  i.fn \in LibFunctions /\ (i.fn \in {"memcpy", "strncpy"} => Separate(i)) =>
        /\ \A k \in 0..(i.n - 1) : libresult.mem[i.a + k] = new(k)
        /\ \A k \in DOMAIN i.mem \ (i.a..(i.a + i.n - 1)) : libresult.mem[k] = i.mem[k]

(* Comparisons have the sign of the first difference of two signed bytes
   that the function looks at: before the terminator and within the count. *)
ComparesRight ==
  LET i == libcall
      seen == IF i.fn = "strcmp" THEN 0..Least(Zeros(i, i.a))
              ELSE {k \in 0..(i.n - 1) : i.fn = "memcmp" \/ \A z \in Zeros(i, i.a) : k <= z}
      differ == {k \in seen : i.a + k \in DOMAIN i.mem /\ i.b + k \in DOMAIN i.mem
                              /\ i.mem[i.a + k] # i.mem[i.b + k]}
  IN  i.fn \in {"memcmp", "strncmp", "strcmp"} =>
        IF differ = {} THEN libresult.value = 0
        ELSE libresult.value < 0 <=>
               Signed(i.mem[i.a + Least(differ)]) < Signed(i.mem[i.b + Least(differ)])

(* Lengths end at the terminator; a byte is found at its first place in the
   string, the terminator included. *)
SearchesRight ==
  LET i == libcall
      length == Least(Zeros(i, i.a))
      places == {k \in 0..length : i.mem[i.a + k] = i.c}
  IN  /\ i.fn = "strlen" => libresult.value = length
      /\ i.fn = "strnlen" => libresult.value = IF length < i.n THEN length ELSE i.n
      /\ i.fn = "strchr" =>
           libresult.value = IF places = {} THEN Null ELSE i.a + Least(places)
CLibRight == CopiesRight /\ ComparesRight /\ SearchesRight
=============================================================================
