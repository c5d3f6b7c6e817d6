------------------------------ MODULE Strings ------------------------------
(***************************************************************************)
(* The string functions of the Codis example, on a memory of bytes.        *)
(* memchr and strlen scan a word at a time and test for a zero byte with   *)
(* the arithmetic of HASZERO, so bytes and words are given by their bits;  *)
(* a loop is modelled by the number of iterations it makes.  Each step is  *)
(* one call; last records it.                                              *)
(***************************************************************************)
EXTENDS Integers, FiniteSetsExt

CONSTANTS
  BITS,            \* bits in a char
  SS,              \* sizeof(size_t)
  Size             \* the memory is 0 .. Size - 1

VARIABLES mem, last
vars == <<mem, last>>

Addresses == 0 .. Size - 1
NULL == -1
Chars == [0 .. BITS - 1 -> {0, 1}]
NUL == [b \in 0 .. BITS - 1 |-> 0]

(* The bits of a word: bit p[2] of byte p[1], the lowest byte first.       *)
Positions == (0 .. SS - 1) \X (0 .. BITS - 1)
Below(p, q) == p[1] < q[1] \/ (p[1] = q[1] /\ p[2] < q[2])
Zero == [p \in Positions |-> 0]
Load(a) == [p \in Positions |-> mem[a + p[1]][p[2]]]    \* little-endian

Xor(x, y) == [p \in Positions |-> (x[p] + y[p]) % 2]
And(x, y) == [p \in Positions |-> x[p] * y[p]]
Not(x) == [p \in Positions |-> 1 - x[p]]

(* x - y, modulo the word size: bit p lends to a lower bit that is short   *)
(* of one, and all the bits between have nothing to spare.                 *)
Borrow(x, y, p) ==
  IF \E g \in Positions :
       /\ Below(g, p) /\ x[g] < y[g]
       /\ \A q \in Positions : Below(g, q) /\ Below(q, p) => x[q] <= y[q]
  THEN 1 ELSE 0
Minus(x, y) == [p \in Positions |-> (x[p] + y[p] + Borrow(x, y, p)) % 2]

ONES == [p \in Positions |-> IF p[2] = 0 THEN 1 ELSE 0]
HIGHS == [p \in Positions |-> IF p[2] = BITS - 1 THEN 1 ELSE 0]
InEveryByte(c) == [p \in Positions |-> c[p[2]]]         \* ONES * c

(* Not zero iff some byte of x is zero.                                    *)
HASZERO(x) == And(And(Minus(x, ONES), Not(x)), HIGHS)

-----------------------------------------------------------------------------
(* How many times a loop that counts up goes round: until a count in stops.*)
Rounds(stops) == Min(stops)

(* memchr: bytes while bit log2(ALIGN) of the address is set, then words,  *)
(* then bytes.  XOR with c in every byte makes the bytes that are c zero.  *)
memchr(src, c, n) ==
  LET i == Rounds({k \in 0 .. n : \/ ((src + k) \div SS) % 2 = 0
                                  \/ k = n \/ mem[src + k] = c})
      s == src + i
      left == n - i
      w == Rounds({k \in 0 .. n : \/ left - k * SS < SS
                                  \/ HASZERO(Xor(Load(s + k * SS), InEveryByte(c))) # Zero})
      s2 == s + w * SS
      left2 == left - w * SS
      j == Rounds({k \in 0 .. left2 : k = left2 \/ mem[s2 + k] = c})
  IN  IF left = 0 THEN NULL
      ELSE IF mem[s] = c THEN s
      ELSE IF left2 = j THEN NULL ELSE s2 + j

Faulty_strnlen(s, n) == IF memchr(s, NUL, n) = NULL THEN n - 1 ELSE memchr(s, NUL, n) - s

strnlen(s, n) == IF memchr(s, NUL, n) = NULL THEN n ELSE memchr(s, NUL, n) - s

(* The distances from s to the zero bytes behind it.                       *)
Terminators(m, s) == {k \in 0 .. Size - 1 - s : m[s + k] = NUL}

(* strlen: bytes up to an aligned address, then words, then bytes.         *)
strlen(s) ==
  LET i == Rounds({k \in 0 .. Size - s : (s + k) % SS = 0 \/ mem[s + k] = NUL})
      w == Rounds({k \in 0 .. Size : /\ s + i + k * SS + SS <= Size
                                     /\ HASZERO(Load(s + i + k * SS)) # Zero})
      s2 == s + i + w * SS
  IN  IF (s + i) % SS # 0 THEN i ELSE s2 + Rounds(Terminators(mem, s2)) - s

(* The n bytes at src copied to dest.                                      *)
memcpy(dest, src, n) ==
  [a \in Addresses |-> IF a \in dest .. dest + n - 1 THEN mem[src + a - dest] ELSE mem[a]]

(* The bytes of the string at src, with its terminator.                    *)
Copied(src) == 1 + Rounds(Terminators(mem, src))

(* The loop compares max_len with a counter that stays 0: a bound of 0     *)
(* ends it after the first byte, any other does not end it at all.         *)
strncpy(dest, src, max_len) ==
  memcpy(dest, src, IF max_len = 0 THEN 1 ELSE Copied(src))

strcpy(dest, src) == memcpy(dest, src, Copied(src))

Faulty_strcat(dest, src) == strcpy(dest + strlen(dest) + 1, src)

strcat(dest, src) == strcpy(dest + strlen(dest), src)

-----------------------------------------------------------------------------
Init == mem \in [Addresses -> Chars] /\ last = [name |-> "none"]

Call(name, s, c, n, result, mem_after) ==
  /\ last' = [name |-> name, s |-> s, c |-> c, n |-> n, result |-> result, before |-> mem]
  /\ mem' = mem_after

(* The addresses of the strings: those from which a terminator follows.    *)
Terminated(s) == Terminators(mem, s) # {}
Length(m, s) == Min(Terminators(m, s))

(* restrict: the n bytes written and the n bytes read do not overlap, and  *)
(* the destination has the room.                                           *)
Apart(dest, src, n) ==
  (dest + n <= src \/ src + n <= dest) /\ dest + n <= Size

Next ==
  /\ last.name = "none"
  /\ \/ \E s \in Addresses, c \in Chars : \E n \in 0 .. Size - s :
          Call("memchr", s, c, n, memchr(s, c, n), mem)
     \/ \E s \in Addresses : \E n \in 0 .. Size - s :
          Call("strnlen", s, NUL, n, strnlen(s, n), mem)
     \/ \E s \in Addresses :
          Terminated(s) /\ Call("strlen", s, NUL, 0, strlen(s), mem)
     \/ \E d, s \in Addresses :
          /\ Terminated(s) /\ Apart(d, s, Copied(s))
          /\ \/ Call("strcpy", s, d, 0, d, strcpy(d, s))
             \/ \E n \in 0 .. Size : Call("strncpy", s, d, n, d, strncpy(d, s, n))
     \/ \E d, s \in Addresses :
          /\ Terminated(d) /\ Terminated(s) /\ Apart(d + strlen(d), s, Copied(s))
          /\ Call("strcat", s, d, 0, d, strcat(d, s))

Spec == Init /\ [][Next]_vars
-----------------------------------------------------------------------------
(* memchr, strnlen and strlen find the first byte they look for, whatever  *)
(* the alignment of the string, however its bytes fall into words and even *)
(* where the word-at-a-time test sees a borrow from a neighbouring byte.   *)
SearchExact ==
  LET m == last.before
      Hits(c, n) == {k \in 0 .. n - 1 : m[last.s + k] = c}
      First(c, n, none) == IF Hits(c, n) = {} THEN none ELSE Min(Hits(c, n))
  IN  /\ last.name = "memchr" =>
           last.result = IF Hits(last.c, last.n) = {} THEN NULL
                         ELSE last.s + Min(Hits(last.c, last.n))
      /\ last.name = "strnlen" => last.result = First(NUL, last.n, last.n)
      /\ last.name = "strlen" => last.result = Length(m, last.s)

(* After strcpy, strncpy and strcat the destination reads as the source    *)
(* (after what it held before, for strcat) and is terminated; no byte past *)
(* that terminator, or before the place it was written to, has changed.    *)
(* That is so of strncpy whatever its bound, if it is not 0: a source      *)
(* longer than the bound is copied all the same.                           *)
CopyExact ==
  LET m == last.before
      At == IF last.name = "strcat" THEN last.c + Length(m, last.c) ELSE last.c
      N == Length(m, last.s)
  IN  last.name \in {"strcpy", "strcat"} \/ (last.name = "strncpy" /\ last.n > 0) =>
        /\ \A k \in 0 .. N : mem[At + k] = m[last.s + k]
        /\ Length(mem, last.c) = At + N - last.c
        /\ \A a \in Addresses \ (At .. At + N) : mem[a] = m[a]

=============================================================================
