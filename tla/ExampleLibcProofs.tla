------------------------- MODULE ExampleLibcProofs -------------------------
(***************************************************************************)
(* printf: a bounded buffer is never written past its size and always      *)
(* terminated, for every format, every buffer size and every output of the *)
(* directives; and %f rounds to the nearest.  The string functions: what   *)
(* they find and copy, for every memory, every size of char and word.      *)
(***************************************************************************)
EXTENDS ExampleLibc, WellFoundedInduction, TLAPS

Chars == 0 .. 127

(* The state of a call: idx counts the text.                               *)
CallInv ==
  /\ pc \in {"idle", "formatting", "done"}
  /\ format \in Seq(Items)
  /\ text \in Seq(Chars)
  /\ idx = Len(text)
  /\ maxlen \in Nat
  /\ DOMAIN buffer = 0 .. Size - 1

(* Before the terminator is written the buffer holds as much of the text   *)
(* as is below maxlen, and nothing else has been touched.                  *)
FilledInv ==
  pc # "done" =>
    \A i \in 0 .. Size - 1 :
      buffer[i] = IF out = "buffer" /\ i < idx /\ i < maxlen THEN text[i + 1] ELSE Untouched

IdleInv == pc = "idle" => out = "none" /\ text = <<>>

BufferInv == CallInv /\ FilledInv /\ IdleInv /\ Truncated

LEMMA BufferInit == Init => BufferInv
  BY SizesAssumption DEF Init, BufferInv, CallInv, FilledInv, IdleInv, Truncated

LEMMA CallStep == ASSUME BufferInv, pc = "idle", NEW f \in Formats, NEW o, NEW max \in Nat,
                         Call(f, o, max)
                  PROVE  BufferInv'
  <1>1. /\ pc' = "formatting" /\ format' = f /\ out' = o /\ maxlen' = max
        /\ idx' = idx /\ buffer' = buffer /\ text' = text
    BY DEF Call
  <1>2. CallInv'
    BY <1>1, FormatsAssumption DEF BufferInv, CallInv
  <1>3. text = <<>> /\ idx = 0
    BY DEF BufferInv, IdleInv, CallInv
  <1>4. FilledInv'
    BY <1>1, <1>3 DEF BufferInv, CallInv, FilledInv, IdleInv
  <1> QED BY <1>1, <1>2, <1>4 DEF BufferInv, IdleInv, Truncated

(* Writing chars behind the text fills the buffer with the longer text.    *)
LEMMA ItemStep == ASSUME BufferInv, Item PROVE BufferInv'
  <1> DEFINE chars == Output(Head(format))
  <1>1. /\ pc = "formatting" /\ pc' = pc /\ out' = out /\ maxlen' = maxlen
        /\ format # <<>> /\ format' = Tail(format)
        /\ idx' = idx + Len(chars) /\ text' = text \o chars
    BY DEF Item
  <1>2. buffer' = [i \in DOMAIN buffer |->
                     IF out = "buffer" /\ i - idx \in 0 .. Len(chars) - 1 /\ i < maxlen
                     THEN chars[i - idx + 1] ELSE buffer[i]]
    BY DEF Item, Out, OutBuffer
  <1>3. Head(format) \in Items /\ Tail(format) \in Seq(Items)
    BY <1>1 DEF BufferInv, CallInv
  <1>4. chars \in Seq(Chars)
    BY <1>3, FormatsAssumption DEF Chars
  <1> HIDE DEF chars
  <1>5. text \in Seq(Chars) /\ idx = Len(text) /\ maxlen \in Nat /\ DOMAIN buffer = 0 .. Size - 1
    BY DEF BufferInv, CallInv
  <1>6. text' \in Seq(Chars) /\ Len(text') = idx + Len(chars) /\ DOMAIN buffer' = 0 .. Size - 1
    BY <1>1, <1>2, <1>4, <1>5
  <1>7. CallInv'
    BY <1>1, <1>3, <1>5, <1>6 DEF BufferInv, CallInv
  <1>8. FilledInv'
    <2> SUFFICES ASSUME NEW i \in 0 .. Size - 1
                 PROVE  buffer'[i] = IF out = "buffer" /\ i < idx + Len(chars) /\ i < maxlen
                                     THEN (text \o chars)[i + 1] ELSE Untouched
      BY <1>1 DEF FilledInv
    <2>1. buffer[i] = IF out = "buffer" /\ i < idx /\ i < maxlen THEN text[i + 1] ELSE Untouched
      BY <1>1 DEF BufferInv, FilledInv
    <2>2. buffer'[i] = IF out = "buffer" /\ i - idx \in 0 .. Len(chars) - 1 /\ i < maxlen
                       THEN chars[i - idx + 1] ELSE buffer[i]
      BY <1>2, <1>5
    <2>3. /\ i < idx => (text \o chars)[i + 1] = text[i + 1]
          /\ i >= idx /\ i < idx + Len(chars) => (text \o chars)[i + 1] = chars[i - idx + 1]
      BY <1>4, <1>5, SizesAssumption
    <2>4. idx \in Nat /\ Len(chars) \in Nat /\ i \in Int
      BY <1>4, <1>5, SizesAssumption
    <2> QED BY <2>1, <2>2, <2>3, <2>4, <1>5
  <1> QED BY <1>1, <1>7, <1>8 DEF BufferInv, IdleInv, Truncated

(* The terminator ends what fits, over its last character if need be.      *)
LEMMA TerminateStep == ASSUME BufferInv, Terminate PROVE BufferInv'
  <1> DEFINE at == IF idx < maxlen THEN idx ELSE IF maxlen = 0 THEN SIZE_MAX ELSE maxlen - 1
  <1>1. /\ pc = "formatting" /\ pc' = "done" /\ out' = out /\ maxlen' = maxlen
        /\ format' = format /\ idx' = idx /\ text' = text /\ ret' = idx
    BY DEF Terminate
  <1>2. buffer' = [i \in DOMAIN buffer |->
                     IF out = "buffer" /\ i - at \in 0 .. Len(<<NUL>>) - 1 /\ i < maxlen
                     THEN <<NUL>>[i - at + 1] ELSE buffer[i]]
    BY DEF Terminate, Out, OutBuffer
  <1>3. text \in Seq(Chars) /\ idx = Len(text) /\ maxlen \in Nat /\ DOMAIN buffer = 0 .. Size - 1
    BY DEF BufferInv, CallInv
  <1>4. idx \in Nat /\ at \in Nat
    BY <1>3, SizesAssumption
  <1>5. CallInv'
    BY <1>1, <1>2 DEF BufferInv, CallInv
  <1>6. ASSUME NEW i \in 0 .. Size - 1
        PROVE  buffer'[i] = IF out = "buffer" /\ i = at /\ i < maxlen THEN NUL
                            ELSE IF out = "buffer" /\ i < idx /\ i < maxlen THEN text[i + 1]
                            ELSE Untouched
    <2>1. buffer[i] = IF out = "buffer" /\ i < idx /\ i < maxlen THEN text[i + 1] ELSE Untouched
      BY <1>1 DEF BufferInv, FilledInv
    <2>2. i - at \in 0 .. Len(<<NUL>>) - 1 <=> i = at
      BY <1>4, SizesAssumption
    <2>3. i = at => <<NUL>>[i - at + 1] = NUL
      BY <1>4, SizesAssumption
    <2> HIDE DEF at
    <2> QED BY <1>2, <1>3, <2>1, <2>2, <2>3
  <1>7. ASSUME NEW i \in DOMAIN buffer', out' # "buffer" \/ i >= maxlen'
        PROVE  buffer'[i] = Untouched
    BY <1>1, <1>2, <1>3, <1>6, <1>7, SizesAssumption
  <1>8. ASSUME out' = "buffer", maxlen' > 0
        PROVE  LET n == AtMost(ret', maxlen' - 1)
               IN  /\ \A i \in DOMAIN buffer' : i < n => buffer'[i] = text'[i + 1]
                   /\ n \in DOMAIN buffer' => buffer'[n] = NUL
    <2>1. AtMost(ret', maxlen' - 1) = at
      BY <1>1, <1>3, <1>4, <1>8 DEF AtMost
    <2>2. DOMAIN buffer' = 0 .. Size - 1 /\ at < maxlen /\ at <= idx
      BY <1>1, <1>2, <1>3, <1>4, <1>8
    <2> HIDE DEF at
    <2> QED BY <1>1, <1>3, <1>4, <1>6, <1>8, <2>1, <2>2, SizesAssumption
  <1>9. Truncated'
    BY <1>1, <1>3, <1>7, <1>8 DEF Truncated
  <1> QED BY <1>1, <1>5, <1>9 DEF BufferInv, FilledInv, IdleInv

LEMMA BufferStep == BufferInv /\ [Next]_vars => BufferInv'
  <1> SUFFICES ASSUME BufferInv, [Next]_vars PROVE BufferInv'
    OBVIOUS
  <1>1. CASE UNCHANGED vars
    BY <1>1 DEF vars, BufferInv, CallInv, FilledInv, IdleInv, Truncated
  <1>2. ASSUME pc = "idle", NEW f \in Formats,
               \/ printf_(f) \/ fctprintf(f) \/ sprintf_(f)
               \/ \E count \in Counts : snprintf_(f, count) \/ snprintf_null(f, count)
        PROVE  BufferInv'
    <2>1. \E o, max : max \in Nat /\ Call(f, o, max)
      BY <1>2, SizesAssumption DEF printf_, fctprintf, sprintf_, snprintf_, snprintf_null
    <2> QED BY <1>2, <2>1, CallStep
  <1>3. CASE Item
    BY <1>3, ItemStep
  <1>4. CASE Terminate
    BY <1>4, TerminateStep
  <1> QED BY <1>1, <1>2, <1>3, <1>4 DEF Next

-----------------------------------------------------------------------------
(* %f.  The powers of ten that the table in _ftoa has.                     *)
LEMMA Pow10 ==
  ASSUME NEW prec \in 0 .. 9
  PROVE  10 ^ prec \in Nat \ {0} /\ (IF prec = 0 THEN 10 ^ prec = 1 ELSE 10 ^ prec % 2 = 0)
<1>1. CASE prec = 0
  <2>1. 10 ^ 0 = 1
    OBVIOUS
  <2> QED BY <1>1, <2>1
<1>2. CASE prec = 1
  <2>1. 10 ^ 1 = 10
    OBVIOUS
  <2> QED BY <1>2, <2>1
<1>3. CASE prec = 2
  <2>1. 10 ^ 2 = 100
    OBVIOUS
  <2> QED BY <1>3, <2>1
<1>4. CASE prec = 3
  <2>1. 10 ^ 3 = 1000
    OBVIOUS
  <2> QED BY <1>4, <2>1
<1>5. CASE prec = 4
  <2>1. 10 ^ 4 = 10000
    OBVIOUS
  <2> QED BY <1>5, <2>1
<1>6. CASE prec = 5
  <2>1. 10 ^ 5 = 100000
    OBVIOUS
  <2> QED BY <1>6, <2>1
<1>7. CASE prec = 6
  <2>1. 10 ^ 6 = 1000000
    OBVIOUS
  <2> QED BY <1>7, <2>1
<1>8. CASE prec = 7
  <2>1. 10 ^ 7 = 10000000
    OBVIOUS
  <2> QED BY <1>8, <2>1
<1>9. CASE prec = 8
  <2>1. 10 ^ 8 = 100000000
    OBVIOUS
  <2> QED BY <1>9, <2>1
<1>10. CASE prec = 9
  <2>1. 10 ^ 9 = 1000000000
    OBVIOUS
  <2> QED BY <1>10, <2>1
<1> QED BY <1>1, <1>2, <1>3, <1>4, <1>5, <1>6, <1>7, <1>8, <1>9, <1>10

(* What _ftoa rounds an argument of at most PRINTF_MAX_FLOAT to, with up   *)
(* to nine decimals.  The decimals are fewer than 10 ^ prec, so that they  *)
(* are printed in prec digits, and with the whole part they are no further *)
(* from the argument than half a unit of the last one, the carry into the  *)
(* whole part and the tie at no decimals included.  The exception is the   *)
(* tie just below a whole number, and there alone and always the decimals  *)
(* are 10 ^ prec, one digit too many.                                      *)
THEOREM RoundsToNearest ==
  ASSUME NEW value \in 0 .. PRINTF_MAX_FLOAT, NEW prec \in 0 .. 9
  PROVE  LET r == Rounded(value, prec)
             printed == IF prec = 0 THEN r.whole ELSE r.whole * 10 ^ prec + r.frac
         IN  /\ prec > 0 => r.frac \in 0 .. 10 ^ prec
             /\ prec > 0 => (r.frac = 10 ^ prec <=> CarriedTie(value, prec))
             /\ 2 * (printed * DEN - value * 10 ^ prec) \in 0 - DEN .. DEN
<1>0. value \in Nat
  BY SizesAssumption
<1>1. PICK T \in Nat \ {0} : T = 10 ^ prec /\ (prec = 0 => T = 1)
  BY Pow10
<1>2. DEN \in Nat \ {0}
  BY SizesAssumption
<1>3. PICK whole \in Nat, rem \in 0 .. DEN - 1 :
        /\ whole = value \div DEN /\ rem = value % DEN
        /\ value = whole * DEN + rem
  BY <1>0, <1>2
<1>4. PICK tmp \in Nat : tmp = rem * T
  BY <1>3
<1>5. PICK frac \in Nat, diff \in 0 .. DEN - 1 :
        /\ frac = tmp \div DEN /\ diff = tmp % DEN
        /\ tmp = frac * DEN + diff
  BY <1>2
<1>6. PICK base \in Nat : base = whole * T + frac
  OBVIOUS
<1>7. value * T = base * DEN + diff
  <2>1. value * T = (whole * DEN) * T + rem * T
    BY <1>0, <1>2, <1>3
  <2>2. (whole * DEN) * T = (whole * T) * DEN
    BY <1>2
  <2>3. base * DEN = (whole * T) * DEN + frac * DEN
    BY <1>2, <1>6
  <2> QED BY <1>2, <1>4, <1>5, <2>1, <2>2, <2>3
<1>8. frac < T
  <2>1. tmp < DEN * T
    BY <1>2, <1>3, <1>4
  <2>2. ASSUME frac >= T PROVE FALSE
    <3>1. frac * DEN >= T * DEN
      BY <1>2, <2>2
    <3> QED BY <1>2, <1>5, <2>1, <3>1
  <2> QED BY <2>2
<1> DEFINE up == \/ 2 * diff > DEN
                 \/ 2 * diff = DEN /\ (frac = 0 \/ frac % 2 = 1)
           over == 2 * diff > DEN /\ frac + 1 >= T
           w == IF over THEN whole + 1 ELSE whole
           f == IF over THEN 0 ELSE IF up THEN frac + 1 ELSE frac
           W == IF prec = 0 /\ 2 * (value - w * DEN) >= DEN /\ w % 2 = 1 THEN w + 1 ELSE w
<1>9. Rounded(value, prec).whole = W /\ Rounded(value, prec).frac = f
  BY <1>1, <1>3, <1>4, <1>5 DEF Rounded
<1>10. CASE prec # 0
  <2>1. W * T + f = base \/ (W * T + f = base + 1 /\ 2 * diff >= DEN)
    <3>1. CASE over
      <4>1. frac + 1 = T
        BY <1>8, <3>1
      <4>2. (whole + 1) * T = base + 1
        BY <1>6, <4>1
      <4> QED BY <1>2, <1>10, <3>1, <4>2
    <3>2. CASE ~over
      BY <1>2, <1>5, <1>6, <1>10, <3>2
    <3> QED BY <3>1, <3>2
  <2>2. W * T + f = base => 2 * diff <= DEN
    BY <1>2, <1>5, <1>6, <1>8, <1>10
  <2>3. 2 * ((W * T + f) * DEN - value * T) \in 0 - DEN .. DEN
    BY <1>2, <1>5, <1>7, <2>1, <2>2
  <2>4. f \in 0 .. T /\ (f = T <=> 2 * diff = DEN /\ frac = T - 1 /\ (frac = 0 \/ frac % 2 = 1))
    BY <1>2, <1>5, <1>8
  <2>5. T % 2 = 0
    BY <1>1, <1>10, Pow10
  <2>6. frac = T - 1 => frac % 2 = 1
    BY <1>5, <2>5
  <2>7. f = T <=> CarriedTie(value, prec)
    <3>1. CarriedTie(value, prec) <=> 2 * diff = DEN /\ frac = T - 1
      <4>1. (value % DEN) * 10 ^ prec = tmp /\ 10 ^ prec - 1 = T - 1
        BY <1>1, <1>3, <1>4
      <4>2. prec > 0
        BY <1>10
      <4>3. CarriedTie(value, prec) <=> 2 * (tmp % DEN) = DEN /\ tmp \div DEN = T - 1
        BY <4>1, <4>2, Zenon DEF CarriedTie
      <4> QED BY ONLY <1>5, <4>3
    <3> QED BY <2>4, <2>6, <3>1
  <2> QED BY <1>1, <1>9, <1>10, <2>3, <2>4, <2>7
<1>11. CASE prec = 0
  <2>1. T = 1 /\ frac = 0 /\ rem = diff /\ base = whole
    <3>1. T = 1
      BY <1>1, <1>11
    <3>2. frac = 0 /\ tmp = rem
      BY <1>2, <1>3, <1>4, <1>8, <3>1
    <3>3. tmp = 0 * DEN + diff /\ 0 * DEN = 0
      BY <1>2, <1>5, <3>2
    <3> QED BY <1>2, <1>3, <1>5, <1>6, <3>1, <3>2, <3>3
  <2>2. W = whole \/ (W = whole + 1 /\ 2 * diff >= DEN)
    BY <1>2, <1>3, <1>5, <1>11, <2>1
  <2>3. W = whole => 2 * diff <= DEN
    BY <1>2, <1>3, <1>5, <1>11, <2>1
  <2>4. 2 * (W * DEN - value * T) \in 0 - DEN .. DEN
    BY <1>2, <1>5, <1>7, <2>1, <2>2, <2>3
  <2> QED BY <1>1, <1>9, <1>11, <2>4
<1> QED BY <1>10, <1>11

-----------------------------------------------------------------------------
(* A loop stops at the first count that makes it.                          *)
LEMMA Least ==
  ASSUME NEW S, S \subseteq Nat, S # {}
  PROVE  Str!Min(S) \in S /\ \A y \in S : Str!Min(S) <= y
<1>1. PICK x \in S : \A y \in S : ~(<<y, x>> \in OpToRel(<, Nat))
  BY NatLessThanWellFounded, WFMin
<1>2. \A y \in S : x <= y
  <2> TAKE y \in S
  <2>1. y \in Nat /\ x \in Nat
    OBVIOUS
  <2>2. ~(y < x)
    BY <1>1, <2>1 DEF OpToRel
  <2> QED BY <2>1, <2>2
<1> QED BY <1>2 DEF Str!Min

LEMMA LeastIs ==
  ASSUME NEW S, S \subseteq Nat, NEW x \in S, \A y \in S : x <= y
  PROVE  Str!Min(S) = x
<1>1. Str!Min(S) \in S /\ \A y \in S : Str!Min(S) <= y
  BY Least
<1>2. Str!Min(S) <= x /\ x <= Str!Min(S) /\ Str!Min(S) \in Nat /\ x \in Nat
  BY <1>1
<1> QED BY <1>2

(* Words behind each other.                                                *)
LEMMA Words ==
  ASSUME NEW a \in Nat, NEW b \in Nat
  PROVE  /\ a * SS \in Nat
         /\ a < b => a * SS + SS <= b * SS
         /\ a <= b => a * SS <= b * SS
         /\ a * SS < b * SS => a < b
         /\ (a + b) * SS = a * SS + b * SS
         /\ a <= a * SS
<1>1. SS \in Nat /\ SS >= 1
  BY BytesAssumption
<1>2. a * SS \in Nat /\ b * SS \in Nat /\ (a + b) * SS = a * SS + b * SS /\ a <= a * SS
  BY <1>1
<1>3. ASSUME a < b PROVE a * SS + SS <= b * SS
  <2>1. PICK e \in Nat : b = a + 1 + e
    <3>1. b - a - 1 \in Nat /\ b = a + 1 + (b - a - 1)
      BY <1>3
    <3> QED BY <3>1
  <2>2. b * SS = a * SS + SS + e * SS /\ e * SS \in Nat
    BY <1>1, <2>1
  <2> QED BY <1>1, <1>2, <2>2
<1>4. a <= b => a * SS <= b * SS
  <2>1. a = b \/ a < b \/ a > b
    OBVIOUS
  <2> QED BY <1>1, <1>2, <1>3, <2>1
<1>5. a * SS < b * SS => a < b
  <2>1. ASSUME b <= a PROVE b * SS <= a * SS
    <3>1. PICK e \in Nat : a = b + e
      <4>1. a - b \in Nat /\ a = b + (a - b)
        BY <2>1
      <4> QED BY <4>1
    <3>2. a * SS = b * SS + e * SS /\ e * SS \in Nat
      BY <1>1, <3>1
    <3> QED BY <1>2, <3>2
  <2> QED BY <1>2, <2>1
<1> QED BY <1>2, <1>3, <1>4, <1>5

LEMMA WordOf ==
  ASSUME NEW d \in Nat
  PROVE  d \div SS \in Nat /\ d % SS \in 0 .. SS - 1 /\ d = (d \div SS) * SS + (d % SS)
  BY BytesAssumption

-----------------------------------------------------------------------------
(* The test of a word: the high bit of a byte is set by the subtraction,   *)
(* and was not set before, if the byte is zero; only a zero byte makes the *)
(* bytes above it lend, so if none is, no high bit is.                     *)
LEMMA ZeroSeen ==
  ASSUME NEW x \in [Str!Positions -> {0, 1}], NEW m \in 0 .. SS - 1,
         \A b \in 0 .. BITS - 1 : x[<<m, b>>] = 0
  PROVE  Str!HASZERO(x) # Str!Zero
<1>0. 0 \in 0 .. BITS - 1 /\ BITS - 1 \in 0 .. BITS - 1
  BY BytesAssumption
<1>1. PICK g \in Str!Positions : g = <<m, 0>>
  BY <1>0 DEF Str!Positions
<1>2. PICK h \in Str!Positions : h = <<m, BITS - 1>>
  BY <1>0 DEF Str!Positions
<1>3. x[g] = 0 /\ Str!ONES[g] = 1 /\ x[h] = 0 /\ Str!ONES[h] = 0 /\ Str!HIGHS[h] = 1 /\ Str!Below(g, h)
  BY <1>1, <1>2, BytesAssumption DEF Str!ONES, Str!HIGHS, Str!Below
<1>4. ASSUME NEW q \in Str!Positions, Str!Below(g, q), Str!Below(q, h) PROVE x[q] <= Str!ONES[q]
  <2>1. q[1] \in 0 .. SS - 1 /\ q[2] \in 0 .. BITS - 1 /\ q = <<q[1], q[2]>>
    BY DEF Str!Positions
  <2>2. q[1] = m
    BY <1>1, <1>2, <1>4, <2>1, BytesAssumption DEF Str!Below
  <2>3. x[q] = 0 /\ Str!ONES[q] \in {0, 1}
    BY <2>1, <2>2 DEF Str!ONES
  <2> QED BY <2>3
<1>5. Str!Borrow(x, Str!ONES, h) = 1
  BY <1>3, <1>4 DEF Str!Borrow
<1>6. Str!Minus(x, Str!ONES)[h] = 1
  <2>1. Str!Minus(x, Str!ONES)[h] = (0 + 0 + 1) % 2
    BY <1>3, <1>5 DEF Str!Minus
  <2> QED BY <2>1
<1>7. Str!HASZERO(x)[h] = 1
  BY <1>3, <1>6 DEF Str!HASZERO, Str!And, Str!Not
<1> QED BY <1>7 DEF Str!Zero

LEMMA SeenZero ==
  ASSUME NEW x \in [Str!Positions -> {0, 1}], Str!HASZERO(x) # Str!Zero
  PROVE  \E m \in 0 .. SS - 1 : \A b \in 0 .. BITS - 1 : x[<<m, b>>] = 0
<1>1. PICK p \in Str!Positions : Str!HASZERO(x)[p] # 0
  BY DEF Str!HASZERO, Str!And, Str!Zero
<1>2. /\ Str!Minus(x, Str!ONES)[p] # 0 /\ x[p] = 0 /\ p[2] = BITS - 1
      /\ Str!Minus(x, Str!ONES)[p] = (x[p] + Str!ONES[p] + Str!Borrow(x, Str!ONES, p)) % 2
  <2>1. Str!HASZERO(x)[p] = (Str!Minus(x, Str!ONES)[p] * (1 - x[p])) * Str!HIGHS[p]
    BY DEF Str!HASZERO, Str!And, Str!Not
  <2>2. Str!Minus(x, Str!ONES)[p] = (x[p] + Str!ONES[p] + Str!Borrow(x, Str!ONES, p)) % 2
    BY DEF Str!Minus
  <2>3. /\ Str!Borrow(x, Str!ONES, p) \in {0, 1} /\ Str!ONES[p] \in {0, 1}
        /\ x[p] \in {0, 1} /\ Str!HIGHS[p] \in {0, 1}
    BY DEF Str!Borrow, Str!ONES, Str!HIGHS
  <2>4. Str!Minus(x, Str!ONES)[p] \in {0, 1}
    BY <2>2, <2>3
  <2>5. Str!Minus(x, Str!ONES)[p] # 0 /\ x[p] = 0 /\ Str!HIGHS[p] # 0
    BY <1>1, <2>1, <2>3, <2>4
  <2> QED BY <2>2, <2>5 DEF Str!HIGHS
<1>3. p[1] \in 0 .. SS - 1 /\ p = <<p[1], p[2]>>
  BY DEF Str!Positions
<1>4. Str!ONES[p] = 0
  BY <1>2, BytesAssumption DEF Str!ONES
<1>5. Str!Borrow(x, Str!ONES, p) # 0
  BY <1>2, <1>4
<1>6. PICK g \in Str!Positions :
        /\ Str!Below(g, p) /\ x[g] < Str!ONES[g]
        /\ \A q \in Str!Positions : Str!Below(g, q) /\ Str!Below(q, p) => x[q] <= Str!ONES[q]
  BY <1>5 DEF Str!Borrow
<1>7. g[1] \in 0 .. SS - 1 /\ g = <<g[1], 0>> /\ x[g] = 0
  BY <1>6 DEF Str!Positions, Str!ONES
<1>8. ASSUME NEW b \in 0 .. BITS - 1 PROVE x[<<g[1], b>>] = 0
  <2>1. PICK q \in Str!Positions : q = <<g[1], b>>
    BY <1>7 DEF Str!Positions
  <2>2. CASE b = 0
    BY <1>7, <2>2
  <2>3. CASE b > 0 /\ Str!Below(q, p)
    <3>1. Str!Below(g, q) /\ Str!ONES[q] = 0
      BY <1>7, <2>1, <2>3 DEF Str!Below, Str!ONES
    <3> QED BY <1>6, <2>1, <2>3, <3>1
  <2>4. CASE ~Str!Below(q, p)
    <3>1. q = p
      BY <1>2, <1>3, <1>6, <1>7, <2>1, <2>4, BytesAssumption DEF Str!Below
    <3> QED BY <1>2, <2>1, <3>1
  <2> QED BY <2>2, <2>3, <2>4, BytesAssumption
<1> QED BY <1>7, <1>8

(* HASZERO is exact, for every size of char and word: not zero if and only *)
(* if some byte of the word is zero.                                       *)
THEOREM HaszeroIsExact ==
  ASSUME NEW x \in [Str!Positions -> {0, 1}]
  PROVE  Str!HASZERO(x) # Str!Zero
           <=> \E m \in 0 .. SS - 1 : \A b \in 0 .. BITS - 1 : x[<<m, b>>] = 0
  BY ZeroSeen, SeenZero

(* The words that a search for c skips do not have c in them.              *)
LEMMA WordTest ==
  ASSUME mem \in [Str!Addresses -> Str!Chars], NEW a \in Nat, a + SS <= Size, NEW c \in Str!Chars
  PROVE  Str!HASZERO(Str!Xor(Str!Load(a), Str!InEveryByte(c))) # Str!Zero
           <=> \E m \in 0 .. SS - 1 : mem[a + m] = c
<1>1. PICK x : x = Str!Xor(Str!Load(a), Str!InEveryByte(c))
  OBVIOUS
<1>2. \A m \in 0 .. SS - 1 : mem[a + m] \in Str!Chars
  BY BytesAssumption DEF Str!Addresses
<1>3. ASSUME NEW m \in 0 .. SS - 1, NEW b \in 0 .. BITS - 1
      PROVE  /\ x[<<m, b>>] \in {0, 1}
             /\ x[<<m, b>>] = 0 <=> mem[a + m][b] = c[b]
  <2>1. PICK p \in Str!Positions : p = <<m, b>>
    BY DEF Str!Positions
  <2>2. x[p] = (mem[a + m][b] + c[b]) % 2
    BY <1>1, <2>1 DEF Str!Xor, Str!Load, Str!InEveryByte
  <2>3. mem[a + m][b] \in {0, 1} /\ c[b] \in {0, 1}
    BY <1>2 DEF Str!Chars
  <2> QED BY <2>1, <2>2, <2>3
<1>4. x \in [Str!Positions -> {0, 1}]
  <2>1. x = [p \in Str!Positions |-> x[p]]
    BY <1>1 DEF Str!Xor
  <2>2. \A p \in Str!Positions : x[p] \in {0, 1}
    BY <1>3 DEF Str!Positions
  <2> QED BY <2>1, <2>2
<1>5. ASSUME NEW m \in 0 .. SS - 1
      PROVE  mem[a + m] = c <=> \A b \in 0 .. BITS - 1 : x[<<m, b>>] = 0
  <2>1. mem[a + m] = c <=> \A b \in 0 .. BITS - 1 : mem[a + m][b] = c[b]
    <3>1. PICK e : e = mem[a + m]
      OBVIOUS
    <3>2. e \in [0 .. BITS - 1 -> {0, 1}] /\ c \in [0 .. BITS - 1 -> {0, 1}]
      BY <1>2, <3>1 DEF Str!Chars
    <3>3. e = [b \in 0 .. BITS - 1 |-> e[b]] /\ c = [b \in 0 .. BITS - 1 |-> c[b]]
      BY <3>2
    <3>4. ASSUME \A b \in 0 .. BITS - 1 : e[b] = c[b] PROVE e = c
      BY <3>3, <3>4
    <3> QED BY <3>1, <3>4
  <2> QED BY <1>3, <2>1
<1> QED BY <1>1, <1>4, <1>5, HaszeroIsExact

(* The same for the zero byte, without XOR.                                *)
LEMMA NulTest ==
  ASSUME mem \in [Str!Addresses -> Str!Chars], NEW a \in Nat, a + SS <= Size
  PROVE  Str!HASZERO(Str!Load(a)) # Str!Zero <=> \E m \in 0 .. SS - 1 : mem[a + m] = Str!NUL
<1>1. Str!NUL \in Str!Chars
  BY DEF Str!NUL, Str!Chars
<1>2. Str!Xor(Str!Load(a), Str!InEveryByte(Str!NUL)) = Str!Load(a)
  <2>1. ASSUME NEW p \in Str!Positions
        PROVE  (Str!Load(a)[p] + Str!InEveryByte(Str!NUL)[p]) % 2 = Str!Load(a)[p]
    <3>1. p[1] \in 0 .. SS - 1 /\ p[2] \in 0 .. BITS - 1
      BY DEF Str!Positions
    <3>2. mem[a + p[1]] \in Str!Chars
      BY <3>1, BytesAssumption DEF Str!Addresses
    <3>3. Str!Load(a)[p] \in {0, 1} /\ Str!InEveryByte(Str!NUL)[p] = 0
      BY <3>1, <3>2 DEF Str!Load, Str!InEveryByte, Str!NUL, Str!Chars
    <3> QED BY <3>3
  <2>2. Str!Load(a) = [p \in Str!Positions |-> Str!Load(a)[p]]
    BY DEF Str!Load
  <2> QED BY <2>1, <2>2 DEF Str!Xor
<1> QED BY <1>1, <1>2, WordTest

-----------------------------------------------------------------------------
(* The words a search skips, w of them from s on, and the bytes in them.   *)
LEMMA Skipped ==
  ASSUME NEW s \in Nat, NEW w \in Nat, NEW c,
         \A k \in 0 .. w - 1, m \in 0 .. SS - 1 : mem[s + k * SS + m] # c
  PROVE  \A d \in 0 .. w * SS - 1 : mem[s + d] # c
<1> SUFFICES ASSUME NEW d \in 0 .. w * SS - 1 PROVE mem[s + d] # c
  OBVIOUS
<1>1. w * SS \in Nat /\ d \in Nat /\ d < w * SS
  BY Words
<1>2. PICK k \in Nat, m \in 0 .. SS - 1 : d = k * SS + m
  BY <1>1, WordOf
<1>3. k * SS \in Nat /\ m \in Nat
  BY <1>2, Words, BytesAssumption
<1>4. k * SS < w * SS
  BY <1>1, <1>2, <1>3
<1>5. k \in 0 .. w - 1
  BY <1>4, Words
<1>6. s + k * SS + m = s + d
  BY <1>2, <1>3
<1> QED BY <1>5, <1>6

(* The first byte that is c, among the n bytes at s.                       *)
HitsAt(s, c, n) == {k \in 0 .. n - 1 : mem[s + k] = c}

LEMMA FirstHit ==
  ASSUME NEW s, NEW c, NEW n \in Nat, NEW f \in 0 .. n - 1,
         mem[s + f] = c, \A k \in 0 .. f - 1 : mem[s + k] # c
  PROVE  HitsAt(s, c, n) # {} /\ Str!Min(HitsAt(s, c, n)) = f
<1>1. f \in HitsAt(s, c, n) /\ HitsAt(s, c, n) \subseteq Nat
  BY DEF HitsAt
<1>2. \A y \in HitsAt(s, c, n) : f <= y
  BY DEF HitsAt
<1> QED BY <1>1, <1>2, LeastIs

(* Any search by bytes, then words, then bytes.                            *)
LEMMA SearchesAll ==
  ASSUME NEW src \in Nat, NEW c, NEW i \in Nat, NEW v \in Nat, NEW j \in Nat,
         \A k \in 0 .. i - 1 : mem[src + k] # c,
         \A d \in 0 .. v - 1 : mem[(src + i) + d] # c,
         \A k \in 0 .. j - 1 : mem[((src + i) + v) + k] # c
  PROVE  \A k \in 0 .. i + v + j - 1 : mem[src + k] # c
<1> SUFFICES ASSUME NEW k \in 0 .. i + v + j - 1 PROVE mem[src + k] # c
  OBVIOUS
<1>1. CASE k < i
  BY <1>1
<1>2. CASE k >= i /\ k < i + v
  <2>1. k - i \in 0 .. v - 1 /\ (src + i) + (k - i) = src + k
    BY <1>2
  <2> QED BY <2>1
<1>3. CASE k >= i + v
  <2>1. k - i - v \in 0 .. j - 1 /\ ((src + i) + v) + (k - i - v) = src + k
    BY <1>3
  <2> QED BY <2>1
<1> QED BY <1>1, <1>2, <1>3

LEMMA MemchrFinds ==
  ASSUME mem \in [Str!Addresses -> Str!Chars], NEW src \in Str!Addresses, NEW c \in Str!Chars,
         NEW n \in 0 .. Size - src
  PROVE  Str!memchr(src, c, n) = IF HitsAt(src, c, n) = {} THEN Str!NULL
                             ELSE src + Str!Min(HitsAt(src, c, n))
<1> DEFINE I == {k \in 0 .. n : \/ ((src + k) \div SS) % 2 = 0
                                \/ k = n \/ mem[src + k] = c}
           i == Str!Min(I)
           s == src + i
           left == n - i
           W == {k \in 0 .. n : \/ left - k * SS < SS
                                \/ Str!HASZERO(Str!Xor(Str!Load(s + k * SS), Str!InEveryByte(c))) # Str!Zero}
           w == Str!Min(W)
           s2 == s + w * SS
           left2 == left - w * SS
           J == {k \in 0 .. left2 : k = left2 \/ mem[s2 + k] = c}
           j == Str!Min(J)
<1>1. Str!memchr(src, c, n) = IF left = 0 THEN Str!NULL ELSE IF mem[s] = c THEN s
                          ELSE IF left2 = j THEN Str!NULL ELSE s2 + j
  BY DEF Str!memchr, Str!Rounds
<1>2. src \in Nat /\ n \in Nat /\ src + n <= Size /\ Size \in Nat /\ SS \in Nat /\ SS >= 1
  BY BytesAssumption DEF Str!Addresses
<1>3. /\ i \in 0 .. n /\ \A k \in 0 .. i - 1 : mem[src + k] # c
  <2>1. I \subseteq Nat /\ n \in I
    BY <1>2
  <2> HIDE DEF I
  <2>2. i \in I /\ \A y \in I : i <= y
    BY <2>1, Least
  <2>3. i \in 0 .. n
    BY <2>2 DEF I
  <2>4. ASSUME NEW k \in 0 .. i - 1 PROVE mem[src + k] # c
    <3>1. k \notin I /\ k \in 0 .. n
      BY <2>2, <2>3
    <3> QED BY <3>1 DEF I
  <2> QED BY <2>3, <2>4
<1> HIDE DEF I, i
<1>4. s \in Nat /\ left \in Nat /\ s + left <= Size
  BY <1>2, <1>3
<1>5. CASE left = 0
  <2>1. i = n
    BY <1>2, <1>3, <1>5
  <2>2. HitsAt(src, c, n) = {}
    BY <1>3, <2>1 DEF HitsAt
  <2> QED BY <1>1, <1>5, <2>2
<1>6. CASE left # 0 /\ mem[s] = c
  <2>1. i \in 0 .. n - 1
    BY <1>2, <1>3, <1>6
  <2>2. HitsAt(src, c, n) # {} /\ Str!Min(HitsAt(src, c, n)) = i
    BY <1>2, <1>3, <1>6, <2>1, FirstHit
  <2> QED BY <1>1, <1>6, <2>2
<1>7. CASE left # 0 /\ mem[s] # c
  <2>1. W \subseteq Nat /\ W # {}
    <3>1. PICK q \in Nat, r \in 0 .. SS - 1 : left = q * SS + r
      BY <1>4, WordOf
    <3>2. q * SS \in Nat /\ q <= q * SS
      BY <3>1, Words
    <3>3. q \in 0 .. n /\ left - q * SS < SS
      BY <1>2, <1>3, <3>1, <3>2
    <3> QED BY <3>3
  <2> HIDE DEF W
  <2>2. w \in W /\ \A y \in W : w <= y
    BY <2>1, Least
  <2>3. w \in 0 .. n /\ w \in Nat
    BY <2>2 DEF W
  <2> HIDE DEF w
  <2>4. ASSUME NEW k \in 0 .. w - 1
        PROVE  /\ left - k * SS >= SS /\ k * SS \in Nat
               /\ \A m \in 0 .. SS - 1 : mem[s + k * SS + m] # c
    <3>1. k \notin W /\ k \in 0 .. n /\ k \in Nat
      BY <2>2, <2>3
    <3>2. k * SS \in Nat
      BY <3>1, Words
    <3>3. left - k * SS >= SS /\ Str!HASZERO(Str!Xor(Str!Load(s + k * SS), Str!InEveryByte(c))) = Str!Zero
      BY <1>2, <1>4, <3>1, <3>2 DEF W
    <3>4. s + k * SS \in Nat /\ s + k * SS + SS <= Size
      BY <1>2, <1>4, <3>2, <3>3
    <3> QED BY <3>2, <3>3, <3>4, WordTest
  <2>5. w * SS \in Nat /\ w * SS <= left
    <3>1. w * SS \in Nat
      BY <2>3, Words
    <3>2. CASE w = 0
      BY <1>2, <1>4, <3>2
    <3>3. CASE w > 0
      <4>1. w - 1 \in 0 .. w - 1 /\ w - 1 \in Nat /\ (w - 1) + 1 = w
        BY <2>3, <3>3
      <4>2. left - (w - 1) * SS >= SS
        BY <2>4, <4>1
      <4>3. w * SS = (w - 1) * SS + SS
        BY <1>2, <4>1
      <4>4. (w - 1) * SS \in Nat
        BY <4>1, Words
      <4> QED BY <1>2, <1>4, <3>1, <4>2, <4>3, <4>4
    <3> QED BY <2>3, <3>1, <3>2, <3>3
  <2>6. \A d \in 0 .. w * SS - 1 : mem[s + d] # c
    BY <1>4, <2>3, <2>4, Skipped
  <2>7. PICK v \in Nat : v = w * SS /\ v <= left
    BY <2>5
  <2>8. left2 \in Nat /\ s2 = s + v /\ left2 = left - v
    BY <1>4, <2>7
  <2>9. J \subseteq Nat /\ left2 \in J
    BY <2>8
  <2> HIDE DEF J
  <2>10. j \in J /\ \A y \in J : j <= y
    BY <2>9, Least
  <2>11. j \in 0 .. left2 /\ (j # left2 => mem[s2 + j] = c)
    BY <2>10 DEF J
  <2>12. ASSUME NEW k \in 0 .. j - 1 PROVE mem[s2 + k] # c
    <3>1. k \notin J /\ k \in 0 .. left2 /\ k # left2
      BY <2>8, <2>10, <2>11
    <3> QED BY <3>1 DEF J
  <2> HIDE DEF j
  <2>13. j \in Nat
    BY <2>11
  <2>14. \A k \in 0 .. i + v + j - 1 : mem[src + k] # c
    <3>1. i \in Nat /\ \A d \in 0 .. v - 1 : mem[(src + i) + d] # c
      BY <1>3, <2>6, <2>7
    <3>2. \A k \in 0 .. j - 1 : mem[((src + i) + v) + k] # c
      BY <2>7, <2>12
    <3> QED BY ONLY <1>2, <1>3, <2>13, <3>1, <3>2, v \in Nat, SearchesAll
  <2>15. CASE j = left2
    <3>1. i + v + j = n
      BY <1>2, <1>3, <2>7, <2>8, <2>15
    <3>2. \A k \in 0 .. n - 1 : mem[src + k] # c
      BY <1>3, <2>7, <2>13, <2>14, <3>1
    <3>3. HitsAt(src, c, n) = {}
      BY <3>2 DEF HitsAt
    <3> QED BY <1>1, <1>7, <2>15, <3>3
  <2>16. CASE j # left2
    <3>1. PICK f \in 0 .. n - 1 : f = i + v + j /\ s2 + j = src + f
      BY <1>2, <1>3, <2>7, <2>8, <2>11, <2>16
    <3>2. mem[src + f] = c /\ \A k \in 0 .. f - 1 : mem[src + k] # c
      BY <1>3, <2>7, <2>11, <2>13, <2>14, <2>16, <3>1
    <3>3. HitsAt(src, c, n) # {} /\ Str!Min(HitsAt(src, c, n)) = f
      BY <1>2, <3>2, FirstHit
    <3> QED BY <1>1, <1>7, <2>16, <3>1, <3>3
  <2> QED BY <2>15, <2>16
<1> QED BY <1>5, <1>6, <1>7

(* strnlen does not know NULL from an address, but no address is NULL.     *)
LEMMA StrnlenCounts ==
  ASSUME mem \in [Str!Addresses -> Str!Chars], NEW s \in Str!Addresses, NEW n \in 0 .. Size - s
  PROVE  Str!strnlen(s, n) = IF HitsAt(s, Str!NUL, n) = {} THEN n ELSE Str!Min(HitsAt(s, Str!NUL, n))
<1>1. Str!NUL \in Str!Chars
  BY DEF Str!NUL, Str!Chars
<1>2. Str!memchr(s, Str!NUL, n) = IF HitsAt(s, Str!NUL, n) = {} THEN Str!NULL
                          ELSE s + Str!Min(HitsAt(s, Str!NUL, n))
  BY <1>1, MemchrFinds
<1>3. s \in Nat
  BY DEF Str!Addresses
<1>4. CASE HitsAt(s, Str!NUL, n) = {}
  BY <1>2, <1>4 DEF Str!strnlen
<1>5. CASE HitsAt(s, Str!NUL, n) # {}
  <2>1. HitsAt(s, Str!NUL, n) \subseteq Nat
    BY DEF HitsAt
  <2>2. Str!Min(HitsAt(s, Str!NUL, n)) \in Nat
    BY <1>5, <2>1, Least
  <2>3. Str!memchr(s, Str!NUL, n) = s + Str!Min(HitsAt(s, Str!NUL, n)) /\ Str!memchr(s, Str!NUL, n) # Str!NULL
    BY <1>2, <1>3, <1>5, <2>2 DEF Str!NULL
  <2> QED BY <1>3, <1>5, <2>2, <2>3 DEF Str!strnlen
<1> QED BY <1>4, <1>5

-----------------------------------------------------------------------------
(* The length of a string, and what is left of it from a byte inside.      *)
LEMMA Ends ==
  ASSUME NEW m, NEW s \in Nat, Str!Terminators(m, s) # {}
  PROVE  /\ Str!Length(m, s) \in Nat /\ s + Str!Length(m, s) < Size /\ m[s + Str!Length(m, s)] = Str!NUL
         /\ \A k \in 0 .. Str!Length(m, s) - 1 : m[s + k] # Str!NUL
<1>1. Str!Terminators(m, s) \subseteq Nat
  BY DEF Str!Terminators
<1>2. PICK t : t = Str!Length(m, s)
  OBVIOUS
<1>3. t \in Str!Terminators(m, s) /\ \A y \in Str!Terminators(m, s) : t <= y
  BY <1>1, <1>2, Least DEF Str!Length
<1>4. t \in 0 .. Size - 1 - s /\ m[s + t] = Str!NUL
  BY <1>3 DEF Str!Terminators
<1>5. t \in Nat /\ s + t < Size
  BY <1>4, BytesAssumption
<1>6. ASSUME NEW k \in 0 .. t - 1 PROVE m[s + k] # Str!NUL
  <2>1. k \notin Str!Terminators(m, s) /\ k \in 0 .. Size - 1 - s
    BY <1>3, <1>4, <1>5, BytesAssumption
  <2> QED BY <2>1 DEF Str!Terminators
<1> QED BY <1>2, <1>4, <1>5, <1>6

LEMMA LengthIs ==
  ASSUME NEW m, NEW s \in Nat, NEW t \in Nat, s + t < Size, m[s + t] = Str!NUL,
         \A k \in 0 .. t - 1 : m[s + k] # Str!NUL
  PROVE  Str!Terminators(m, s) # {} /\ Str!Length(m, s) = t
<1>1. t \in Str!Terminators(m, s) /\ Str!Terminators(m, s) \subseteq Nat
  BY BytesAssumption DEF Str!Terminators
<1>2. \A y \in Str!Terminators(m, s) : t <= y
  BY DEF Str!Terminators
<1> QED BY <1>1, <1>2, LeastIs DEF Str!Length

LEMMA StrlenCounts ==
  ASSUME mem \in [Str!Addresses -> Str!Chars], NEW s \in Str!Addresses, Str!Terminated(s)
  PROVE  Str!strlen(s) = Str!Length(mem, s)
<1> DEFINE I == {k \in 0 .. Size - s : (s + k) % SS = 0 \/ mem[s + k] = Str!NUL}
           i == Str!Min(I)
           W == {k \in 0 .. Size : /\ s + i + k * SS + SS <= Size
                                   /\ Str!HASZERO(Str!Load(s + i + k * SS)) # Str!Zero}
           w == Str!Min(W)
           s2 == s + i + w * SS
<1>1. Str!strlen(s) = IF (s + i) % SS # 0 THEN i ELSE s2 + Str!Length(mem, s2) - s
  BY DEF Str!strlen, Str!Rounds, Str!Length
<1>2. s \in Nat /\ Size \in Nat /\ s < Size /\ SS \in Nat /\ SS >= 1
  BY BytesAssumption DEF Str!Addresses
<1>3. PICK t \in Nat : /\ t = Str!Length(mem, s) /\ s + t < Size /\ mem[s + t] = Str!NUL
                       /\ \A k \in 0 .. t - 1 : mem[s + k] # Str!NUL
  BY <1>2, Ends DEF Str!Terminated
<1>4. i \in 0 .. t /\ ((s + i) % SS = 0 \/ mem[s + i] = Str!NUL)
  <2>1. I \subseteq Nat /\ t \in I
    BY <1>2, <1>3
  <2> HIDE DEF I
  <2>2. i \in I /\ \A y \in I : i <= y
    BY <2>1, Least
  <2>3. (s + i) % SS = 0 \/ mem[s + i] = Str!NUL
    BY <2>2 DEF I
  <2> HIDE DEF i
  <2>4. i \in Nat /\ i <= t
    BY <2>1, <2>2
  <2> QED BY <1>3, <2>3, <2>4
<1> HIDE DEF I, i
<1>5. CASE (s + i) % SS # 0
  <2>1. i = t
    BY <1>3, <1>4, <1>5
  <2> QED BY <1>1, <1>3, <1>5, <2>1
<1>6. CASE (s + i) % SS = 0
  <2>1. PICK a \in Nat : a = s + i
    BY <1>2, <1>4
  <2>2. PICK q \in Nat, r \in 0 .. SS - 1 : t - i = q * SS + r
    <3>1. t - i \in Nat
      BY <1>3, <1>4
    <3> QED BY <3>1, WordOf
  <2>3. q * SS \in Nat /\ q <= q * SS /\ r \in Nat /\ a + q * SS + r = s + t
    BY <1>2, <1>3, <1>4, <2>1, <2>2, Words
  <2>4. a + q * SS + SS <= Size
    <3>1. PICK A \in Nat : a = A * SS
      <4>1. a % SS = 0 /\ a \div SS \in Nat /\ a = (a \div SS) * SS + (a % SS)
        BY <1>6, <2>1, WordOf
      <4>2. PICK A \in Nat : A = a \div SS
        BY <4>1
      <4>3. A * SS \in Nat
        BY Words
      <4>4. a = A * SS
        BY <4>1, <4>2, <4>3
      <4> QED BY <4>4
    <3>2. PICK Z \in Nat : Size = Z * SS
      <4>1. Size % SS = 0 /\ Size \div SS \in Nat /\ Size = (Size \div SS) * SS + (Size % SS)
        BY <1>2, WordOf, BytesAssumption
      <4>2. PICK Z \in Nat : Z = Size \div SS
        BY <4>1
      <4>3. Z * SS \in Nat
        BY Words
      <4>4. Size = Z * SS
        BY <4>1, <4>2, <4>3
      <4> QED BY <4>4
    <3>3. (A + q) * SS = a + q * SS /\ A + q \in Nat
      BY <3>1, Words
    <3>4. a + q * SS < Size
      BY <1>2, <1>3, <2>3
    <3>5. (A + q) * SS < Z * SS
      BY <3>2, <3>3, <3>4
    <3>6. (A + q) * SS + SS <= Z * SS
      BY <3>3, <3>5, Words
    <3> QED BY <3>2, <3>3, <3>6
  <2>5. Str!HASZERO(Str!Load(a + q * SS)) # Str!Zero
    <3>1. a + q * SS \in Nat /\ mem[(a + q * SS) + r] = Str!NUL
      BY <1>3, <2>3
    <3> QED BY <2>2, <2>4, <3>1, NulTest
  <2>6. W \subseteq Nat /\ q \in W
    <3>1. q \in 0 .. Size
      BY <1>2, <2>3, <2>4
    <3> QED BY <2>1, <2>4, <2>5, <3>1
  <2> HIDE DEF W
  <2>7. w \in W /\ w <= q /\ w \in Nat
    BY <2>6, Least
  <2> HIDE DEF w
  <2>8. w * SS \in Nat /\ w * SS <= q * SS
    BY <2>7, Words
  <2>9. PICK e \in Nat : e = i + w * SS /\ e <= t
    BY <1>3, <1>4, <2>2, <2>3, <2>8
  <2>10. s2 = s + e /\ s2 \in Nat
    BY <1>2, <1>4, <2>8, <2>9
  <2>11. Str!Length(mem, s2) = t - e
    <3>1. PICK u \in Nat : u = t - e
      BY <1>3, <2>9
    <3>2. s2 + u = s + t
      BY <1>2, <1>3, <2>9, <2>10, <3>1
    <3>3. ASSUME NEW k \in 0 .. u - 1 PROVE mem[s2 + k] # Str!NUL
      <4>1. e + k \in 0 .. t - 1 /\ s + (e + k) = s2 + k
        BY <1>2, <1>3, <2>9, <2>10, <3>1
      <4> QED BY <1>3, <4>1
    <3>4. PICK b \in Nat : b = s2
      BY <2>10
    <3>5. b + u < Size /\ mem[b + u] = Str!NUL /\ \A k \in 0 .. u - 1 : mem[b + k] # Str!NUL
      BY <1>3, <3>2, <3>3, <3>4
    <3>6. Str!Length(mem, b) = u
      BY <3>5, LengthIs
    <3> QED BY <3>1, <3>4, <3>6
  <2> HIDE DEF s2
  <2> QED BY <1>1, <1>2, <1>3, <1>6, <2>9, <2>10, <2>11
<1> QED BY <1>5, <1>6

-----------------------------------------------------------------------------
(* A copy of the string at s to D, in or at the end of the string at c.    *)
LEMMA Copies ==
  ASSUME mem \in [Str!Addresses -> Str!Chars], NEW s \in Str!Addresses, Str!Terminated(s),
         NEW c \in Nat, NEW D \in Nat, c <= D, Str!Apart(D, s, Str!Copied(s)),
         \A k \in 0 .. D - c - 1 : mem[c + k] # Str!NUL
  PROVE  LET N == Str!Length(mem, s)
             m == Str!memcpy(D, s, Str!Copied(s))
         IN  /\ \A k \in 0 .. N : m[D + k] = mem[s + k]
             /\ Str!Length(m, c) = D + N - c
             /\ \A a \in Str!Addresses \ (D .. D + N) : m[a] = mem[a]
<1> DEFINE N == Str!Length(mem, s)
           m == Str!memcpy(D, s, Str!Copied(s))
<1>1. s \in Nat /\ s < Size /\ Size \in Nat
  BY BytesAssumption DEF Str!Addresses
<1>2. /\ N \in Nat /\ s + N < Size /\ mem[s + N] = Str!NUL
      /\ \A k \in 0 .. N - 1 : mem[s + k] # Str!NUL
  BY <1>1, Ends DEF Str!Terminated
<1>3. Str!Copied(s) = N + 1
  BY <1>2 DEF Str!Copied, Str!Rounds, Str!Length
<1>4. D + N < Size /\ D + Str!Copied(s) - 1 = D + N
  BY <1>1, <1>2, <1>3 DEF Str!Apart
<1>5. m = [a \in Str!Addresses |-> IF a \in D .. D + N THEN mem[s + a - D] ELSE mem[a]]
  BY <1>4 DEF Str!memcpy
<1> HIDE DEF N, m
<1>6. ASSUME NEW k \in 0 .. N PROVE m[D + k] = mem[s + k]
  <2>1. D + k \in Str!Addresses /\ D + k \in D .. D + N /\ s + (D + k) - D = s + k
    BY <1>1, <1>2, <1>4 DEF Str!Addresses
  <2> QED BY <1>5, <2>1
<1>7. ASSUME NEW a \in Str!Addresses \ (D .. D + N) PROVE m[a] = mem[a]
  BY <1>5
<1>8. Str!Length(m, c) = D + N - c
  <2>1. PICK t \in Nat : t = D + N - c
    BY <1>2
  <2>2. c + t = D + N /\ c + t < Size
    BY <1>1, <1>2, <1>4, <2>1
  <2>3. m[c + t] = Str!NUL
    BY <1>2, <1>6, <2>2
  <2>4. ASSUME NEW k \in 0 .. t - 1 PROVE m[c + k] # Str!NUL
    <3>1. CASE k < D - c
      <4>1. k \in 0 .. D - c - 1 /\ c + k \in Str!Addresses \ (D .. D + N)
        BY <1>1, <1>2, <2>1, <2>2, <3>1 DEF Str!Addresses
      <4> QED BY <1>7, <4>1
    <3>2. CASE k >= D - c
      <4>1. PICK l \in 0 .. N - 1 : c + k = D + l
        <5>1. c + k - D \in 0 .. N - 1 /\ c + k = D + (c + k - D)
          BY <1>2, <2>1, <3>2
        <5> QED BY <5>1
      <4>2. l \in 0 .. N
        BY <1>2
      <4> QED BY <1>2, <1>6, <4>1, <4>2
    <3> QED BY <2>1, <3>1, <3>2
  <2> QED BY <2>1, <2>2, <2>3, <2>4, LengthIs
<1> QED BY <1>6, <1>7, <1>8 DEF N, m

-----------------------------------------------------------------------------
(* What holds before the one call there is, and after it.                  *)
StringsInv ==
  /\ last.name = "none" => mem \in [Str!Addresses -> Str!Chars]
  /\ Str!SearchExact /\ Str!CopyExact

LEMMA StringsInit == ASSUME LibcInit PROVE StringsInv
<1>1. last.name = "unused" \/ (last.name = "none" /\ mem \in [Str!Addresses -> Str!Chars])
  BY DEF LibcInit, Str!Init
<1> QED BY <1>1 DEF StringsInv, Str!SearchExact, Str!CopyExact

LEMMA Searched ==
  ASSUME NEW name \in {"memchr", "strnlen", "strlen"}, NEW s, NEW c, NEW n, NEW result,
         Str!Call(name, s, c, n, result, mem),
         name = "memchr" => result = IF HitsAt(s, c, n) = {} THEN Str!NULL
                                     ELSE s + Str!Min(HitsAt(s, c, n)),
         name = "strnlen" => result = IF HitsAt(s, Str!NUL, n) = {} THEN n
                                      ELSE Str!Min(HitsAt(s, Str!NUL, n)),
         name = "strlen" => result = Str!Length(mem, s)
  PROVE  StringsInv'
<1>1. last' = [name |-> name, s |-> s, c |-> c, n |-> n, result |-> result, before |-> mem]
  BY DEF Str!Call
<1>2. /\ last'.name = name /\ last'.s = s /\ last'.c = c /\ last'.n = n
      /\ last'.result = result /\ last'.before = mem
  BY <1>1
<1>3. Str!CopyExact' /\ last'.name # "none"
  BY <1>2 DEF Str!CopyExact
<1>4. Str!SearchExact'
  BY <1>2 DEF Str!SearchExact, HitsAt, Str!Length, Str!Terminators
<1> QED BY <1>3, <1>4 DEF StringsInv

LEMMA WasCopied ==
  ASSUME mem \in [Str!Addresses -> Str!Chars], NEW name \in {"strcpy", "strncpy", "strcat"},
         NEW s \in Str!Addresses, NEW d \in Str!Addresses, NEW D, NEW n,
         Str!Terminated(s), Str!Apart(D, s, Str!Copied(s)),
         IF name = "strcat" THEN Str!Terminated(d) /\ D = d + Str!Length(mem, d) ELSE D = d,
         Str!Call(name, s, d, n, d, Str!memcpy(D, s, Str!Copied(s)))
  PROVE  StringsInv'
<1>1. last' = [name |-> name, s |-> s, c |-> d, n |-> n, result |-> d, before |-> mem]
  BY DEF Str!Call
<1>2. /\ last'.name = name /\ last'.s = s /\ last'.c = d /\ last'.before = mem
  BY <1>1
<1>3. Str!SearchExact' /\ last'.name # "none"
  BY <1>2 DEF Str!SearchExact
<1>4. d \in Nat
  BY DEF Str!Addresses
<1>5. D \in Nat /\ d <= D /\ \A k \in 0 .. D - d - 1 : mem[d + k] # Str!NUL
  <2>1. CASE name # "strcat"
    BY <1>4, <2>1
  <2>2. CASE name = "strcat"
    <3>1. PICK t \in Nat : t = Str!Length(mem, d) /\ \A k \in 0 .. t - 1 : mem[d + k] # Str!NUL
      BY <1>4, <2>2, Ends DEF Str!Terminated
    <3>2. D = d + t /\ D - d = t
      BY <1>4, <2>2, <3>1
    <3> QED BY <1>4, <3>1, <3>2
  <2> QED BY <2>1, <2>2
<1>6. PICK N : N = Str!Length(mem, s)
  OBVIOUS
<1>7. PICK m : m = Str!memcpy(D, s, Str!Copied(s))
  OBVIOUS
<1>8. /\ \A k \in 0 .. N : m[D + k] = mem[s + k]
      /\ Str!Length(m, d) = D + N - d
      /\ \A a \in Str!Addresses \ (D .. D + N) : m[a] = mem[a]
  <2>1. d \in Nat /\ D \in Nat /\ d <= D /\ Str!Apart(D, s, Str!Copied(s)) /\ Str!Terminated(s)
    BY <1>4, <1>5
  <2>2. \A k \in 0 .. D - d - 1 : mem[d + k] # Str!NUL
    BY <1>5
  <2> QED BY ONLY mem \in [Str!Addresses -> Str!Chars], s \in Str!Addresses, <2>1, <2>2, <1>6, <1>7, Copies
<1>9. mem' = m
  BY <1>7 DEF Str!Call
<1>10. Str!Length(mem', d) = D + N - d
  BY <1>8, <1>9
<1>11. D = IF last'.name = "strcat" THEN last'.c + Str!Length(last'.before, last'.c) ELSE last'.c
  BY <1>2
<1>12. Str!CopyExact'
  BY <1>2, <1>6, <1>8, <1>9, <1>10, <1>11 DEF Str!CopyExact
<1> QED BY <1>3, <1>12 DEF StringsInv

LEMMA StringsStep == ASSUME StringsInv, Str!Next PROVE StringsInv'
<1>1. mem \in [Str!Addresses -> Str!Chars]
  BY DEF Str!Next, StringsInv
<1>2. ASSUME NEW s \in Str!Addresses, NEW c \in Str!Chars, NEW n \in 0 .. Size - s,
             Str!Call("memchr", s, c, n, Str!memchr(s, c, n), mem)
      PROVE  StringsInv'
  BY <1>1, <1>2, MemchrFinds, Searched
<1>3. ASSUME NEW s \in Str!Addresses, NEW n \in 0 .. Size - s,
             Str!Call("strnlen", s, Str!NUL, n, Str!strnlen(s, n), mem)
      PROVE  StringsInv'
  BY <1>1, <1>3, StrnlenCounts, Searched
<1>4. ASSUME NEW s \in Str!Addresses, Str!Terminated(s),
             Str!Call("strlen", s, Str!NUL, 0, Str!strlen(s), mem)
      PROVE  StringsInv'
  BY <1>1, <1>4, StrlenCounts, Searched
<1>5. ASSUME NEW d \in Str!Addresses, NEW s \in Str!Addresses, Str!Terminated(s), NEW n \in Nat,
             Str!Apart(d, s, Str!Copied(s)),
             \/ Str!Call("strcpy", s, d, n, d, Str!strcpy(d, s))
             \/ Str!Call("strncpy", s, d, n, d, Str!strncpy(d, s, n))
      PROVE  StringsInv'
  <2>1. CASE Str!Call("strcpy", s, d, n, d, Str!strcpy(d, s))
    BY <1>1, <1>5, <2>1, WasCopied DEF Str!strcpy
  <2>2. CASE Str!Call("strncpy", s, d, n, d, Str!strncpy(d, s, n)) /\ n > 0
    <3>1. Str!strncpy(d, s, n) = Str!memcpy(d, s, Str!Copied(s))
      BY <2>2 DEF Str!strncpy
    <3> QED BY <1>1, <1>5, <2>2, <3>1, WasCopied
  <2>3. CASE Str!Call("strncpy", s, d, n, d, Str!strncpy(d, s, n)) /\ n = 0
    <3>1. last'.name = "strncpy" /\ last'.n = 0
      BY <2>3 DEF Str!Call
    <3>2. Str!SearchExact' /\ Str!CopyExact'
      BY <3>1 DEF Str!SearchExact, Str!CopyExact
    <3> QED BY <3>1, <3>2 DEF StringsInv
  <2> QED BY <1>5, <2>1, <2>2, <2>3
<1>6. ASSUME NEW d \in Str!Addresses, NEW s \in Str!Addresses, Str!Terminated(d), Str!Terminated(s),
             Str!Apart(d + Str!strlen(d), s, Str!Copied(s)), Str!Call("strcat", s, d, 0, d, Str!strcat(d, s))
      PROVE  StringsInv'
  <2>1. Str!strlen(d) = Str!Length(mem, d)
    BY <1>1, <1>6, StrlenCounts
  <2> QED BY <1>1, <1>6, <2>1, WasCopied DEF Str!strcat, Str!strcpy
<1> QED BY <1>2, <1>3, <1>4, <1>5, <1>6 DEF Str!Next

-----------------------------------------------------------------------------
LibcInv == (pc = "unused" \/ BufferInv) /\ StringsInv

LEMMA LibcCorrect == LibcSpec => []LibcInv
<1>1. ASSUME LibcInit PROVE LibcInv
  <2>1. pc = "unused" \/ BufferInv
    BY <1>1, BufferInit DEF LibcInit
  <2> QED BY <1>1, <2>1, StringsInit DEF LibcInv
<1>2. ASSUME LibcInv, [LibcNext]_<<vars, mem, last>> PROVE LibcInv'
  <2>1. UNCHANGED vars => (pc = "unused" \/ BufferInv)'
    <3>1. pc = "unused" /\ UNCHANGED vars => pc' = "unused"
      BY DEF vars
    <3>2. BufferInv /\ UNCHANGED vars => BufferInv'
      BY BufferStep
    <3> QED BY <1>2, <3>1, <3>2 DEF LibcInv
  <2>2. Next => (pc = "unused" \/ BufferInv)'
    <3>1. Next => pc # "unused"
      BY DEF Next, Item, Terminate
    <3> QED BY <1>2, <3>1, BufferStep DEF LibcInv
  <2>3. ASSUME UNCHANGED <<mem, last>> PROVE StringsInv'
    <3>1. Str!SearchExact => Str!SearchExact'
      BY <2>3 DEF Str!SearchExact
    <3>2. Str!CopyExact => Str!CopyExact'
      BY <2>3 DEF Str!CopyExact
    <3> QED BY <1>2, <2>3, <3>1, <3>2 DEF LibcInv, StringsInv
  <2>4. Str!Next => StringsInv'
    BY <1>2, StringsStep DEF LibcInv
  <2> QED BY <1>2, <2>1, <2>2, <2>3, <2>4 DEF LibcNext, LibcInv
<1> QED BY <1>1, <1>2, PTL DEF LibcSpec

(* snprintf never writes at or past count and leaves the text, or what     *)
(* fits of it, terminated; its result is the length of the whole text.     *)
THEOREM NeverPastCount == LibcSpec => []Truncated
<1>1. LibcInv => Truncated
  BY DEF LibcInv, BufferInv, Truncated
<1> QED BY <1>1, LibcCorrect, PTL

(* memchr, strnlen and strlen find the first byte they look for, whatever  *)
(* the string's alignment and the size of the words they scan, and never   *)
(* skip it in a word where HASZERO sees a borrow from a lower byte.        *)
THEOREM SearchesAreExact == LibcSpec => []SearchExact
<1>1. LibcInv => SearchExact
  BY DEF LibcInv, StringsInv, SearchExact
<1> QED BY <1>1, LibcCorrect, PTL

(* strcpy, strncpy and strcat write the source and its terminator, at the  *)
(* destination or behind what is there, and not a byte else.               *)
THEOREM CopiesAreExact == LibcSpec => []CopyExact
<1>1. LibcInv => CopyExact
  BY DEF LibcInv, StringsInv, CopyExact
<1> QED BY <1>1, LibcCorrect, PTL

=============================================================================
