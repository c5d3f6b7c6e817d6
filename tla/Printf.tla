------------------------------- MODULE Printf -------------------------------
(***************************************************************************)
(* The printf of the examples.  A format is a sequence of items: literal   *)
(* characters and directives, a directive already split into its fields.   *)
(* Characters are their codes.  A loop that appends to a conversion buffer *)
(* is modelled by the sequence it leaves there, least digit first.         *)
(* Doubles are multiples of 1 / DEN, exact.  The text in exponent notation *)
(* is a parameter: what is modelled of it is when it is chosen.            *)
(***************************************************************************)
EXTENDS Integers, SequencesExt

CONSTANTS
  PRINTF_NTOA_BUFFER_SIZE, PRINTF_FTOA_BUFFER_SIZE,
  CHAR_BITS, SHORT_BITS, INT_BITS, LONG_BITS,
  CHAR_SIGNED,     \* whether char is signed: the target's choice
  DEN,             \* a double x is given as the integer x * DEN
  PRINTF_MAX_FLOAT,   \* the largest double %f prints as such, times DEN
  etoa(_, _, _, _),   \* exponent notation of value, prec, width and flags
  DBL_MAX,         \* an argument beyond DBL_MAX is an infinity ...
  NAN,             \* ... and NAN is not a number
  SIZE_MAX,        \* (size_t)-1
  Size,            \* the bytes at buffer that are watched
  Formats, Counts  \* the formats and buffer sizes passed by callers

ASSUME SizesAssumption ==
  Size \in Nat /\ SIZE_MAX \in Nat /\ Counts \subseteq Nat /\ DEN \in Nat \ {0}
  /\ PRINTF_MAX_FLOAT \in Nat

VARIABLES
  pc,              \* "idle", "formatting" or "done"
  call,            \* the format of the call, and ...
  format,          \* ... what is left of it
  out, maxlen,     \* the output function and the buffer's size
  idx, ret,
  buffer,          \* the bytes at buffer
  putc,            \* the characters that reached putchar or the callback
  text             \* every character formatted so far

vars == <<pc, call, format, out, maxlen, idx, ret, buffer, putc, text>>

Untouched == -1
NUL == 0
SPACE == 32
ZERO == 48
PERCENT == 37
MINUS == 45
PLUS == 43
POINT == 46

Repeat(c, n) == [i \in 1 .. n |-> c]
AtMost(a, b) == IF a < b THEN a ELSE b

-----------------------------------------------------------------------------
out_rev(buf, width, flags) ==
  LET pad == Repeat(SPACE, width - Len(buf))
  IN  (IF flags \cap {"LEFT", "ZEROPAD"} = {} THEN pad ELSE <<>>)
      \o Reverse(buf)
      \o (IF "LEFT" \in flags THEN pad ELSE <<>>)

(* Appended if the conversion buffer, of the given size, has room.         *)
Room(buf, c, size) == IF Len(buf) < size THEN Append(buf, c) ELSE buf

Zeros(buf, n, size) == buf \o Repeat(ZERO, AtMost(n, size) - Len(buf))

Sign(buf, negative, flags, size) ==
  IF negative THEN Room(buf, MINUS, size)
  ELSE IF "PLUS" \in flags THEN Room(buf, PLUS, size)
  ELSE IF "SPACE" \in flags THEN Room(buf, SPACE, size)
  ELSE buf

(* The width without the column of the sign, where zeros fill it.          *)
SignedWidth(width, negative, flags) ==
  IF width > 0 /\ "ZEROPAD" \in flags /\ (negative \/ flags \cap {"PLUS", "SPACE"} # {})
  THEN width - 1 ELSE width

(* The prefix of #; padding up to the exact width makes room for it.       *)
Hash(buf, base, prec, width, flags) ==
  LET taken == IF "PRECISION" \notin flags /\ Len(buf) \in {prec, width}
               THEN IF base = 16 THEN 2 ELSE 1 ELSE 0
      kept == SubSeq(buf, 1, Len(buf) - taken)
      letter == IF base = 2 THEN 98 ELSE IF "UPPERCASE" \in flags THEN 88 ELSE 120
  IN  Room(IF base \in {2, 16} THEN Room(kept, letter, PRINTF_NTOA_BUFFER_SIZE) ELSE kept,
           ZERO, PRINTF_NTOA_BUFFER_SIZE)

ntoa_format(buf, negative, base, prec, width, flags) ==
  LET N == PRINTF_NTOA_BUFFER_SIZE
      left == "LEFT" \in flags
      w == IF left THEN width ELSE SignedWidth(width, negative, flags)
      padded == IF left THEN buf
                ELSE Zeros(Zeros(buf, prec, N), IF "ZEROPAD" \in flags THEN w ELSE 0, N)
      hashed == IF "HASH" \in flags THEN Hash(padded, base, prec, w, flags) ELSE padded
  IN  out_rev(Sign(hashed, negative, flags, N), w, flags)

(* do { digit } while (value && len < size): the lowest digits, at most    *)
(* size of them.                                                           *)
Digits(value, base, size, upper) ==
  LET n == CHOOSE k \in 1 .. size : /\ k = size \/ value < base ^ k
                                    /\ \A j \in 1 .. k - 1 : value >= base ^ j
      digit(i) == (value \div base ^ (i - 1)) % base
  IN  [i \in 1 .. n |-> IF digit(i) < 10 THEN ZERO + digit(i)
                        ELSE (IF upper THEN 65 ELSE 97) + digit(i) - 10]

ntoa_long(value, negative, base, prec, width, flags) ==
  ntoa_format(IF "PRECISION" \in flags /\ value = 0 THEN <<>>
               ELSE Digits(value, base, PRINTF_NTOA_BUFFER_SIZE, "UPPERCASE" \in flags),
               negative, base, prec, width,
               IF value = 0 THEN flags \ {"HASH"} ELSE flags)

(* The same code at the width of long long, which is that of long here.    *)
ntoa_long_long(value, negative, base, prec, width, flags) ==
  ntoa_long(value, negative, base, prec, width, flags)

-----------------------------------------------------------------------------
Faulty_rounded(value, prec) ==                             \* truncates
  [frac |-> ((value % DEN) * 10 ^ prec) \div DEN, whole |-> value \div DEN]

(* %f.  frac and whole are the two parts after rounding; a half is rounded *)
(* up when frac is odd or 0, and then frac may be 10 ^ prec.               *)
Rounded(value, prec) ==
  LET whole == value \div DEN
      tmp == (value % DEN) * 10 ^ prec
      frac == tmp \div DEN
      diff == tmp % DEN
      up == \/ 2 * diff > DEN
            \/ 2 * diff = DEN /\ (frac = 0 \/ frac % 2 = 1)
      over == 2 * diff > DEN /\ frac + 1 >= 10 ^ prec
      w == IF over THEN whole + 1 ELSE whole
  IN  [frac |-> IF over THEN 0 ELSE IF up THEN frac + 1 ELSE frac,
       whole |-> IF prec = 0 /\ 2 * (value - w * DEN) >= DEN /\ w % 2 = 1 THEN w + 1 ELSE w]

Special(value) == value = NAN \/ value > DBL_MAX \/ value < 0 - DBL_MAX

ftoa(value, prec0, width, flags) ==
  LET N == PRINTF_FTOA_BUFFER_SIZE
      negative == value < 0
      p == IF "PRECISION" \in flags THEN prec0 ELSE 6
      beyond == AtMost(IF p > 9 THEN p - 9 ELSE 0, N)      \* digits past the ninth
      prec == p - beyond
      r == Rounded(IF negative THEN 0 - value ELSE value, prec)
      zeros == Repeat(ZERO, beyond)
      digits == Digits(r.frac, 10, N - beyond, FALSE)
      \* count is unsigned: with more digits than prec it wraps
      count == IF Len(digits) > prec THEN N ELSE prec - Len(digits)
      fraction == IF prec = 0 \/ beyond = N THEN zeros
                  ELSE Zeros(zeros \o digits, beyond + Len(digits) + count, N)
      point == IF prec = 0 THEN fraction ELSE Room(fraction, POINT, N)
      body == IF Len(point) = N THEN point
              ELSE point \o Digits(r.whole, 10, N - Len(point), FALSE)
      pad == "LEFT" \notin flags /\ "ZEROPAD" \in flags
      w == IF pad THEN SignedWidth(width, negative, flags) ELSE width
  IN  CASE value = NAN -> out_rev(<<110, 97, 110>>, width, flags)
        [] value < 0 - DBL_MAX -> out_rev(<<102, 110, 105, MINUS>>, width, flags)
        [] value > DBL_MAX /\ value # NAN ->
             out_rev(<<102, 110, 105>> \o (IF "PLUS" \in flags THEN <<PLUS>> ELSE <<>>), width, flags)
        [] ~Special(value) /\ (value > PRINTF_MAX_FLOAT \/ value < 0 - PRINTF_MAX_FLOAT) ->
             etoa(value, prec0, width, flags)
        [] OTHER -> out_rev(Sign(IF pad THEN Zeros(body, w, N) ELSE body, negative, flags, N), w, flags)

-----------------------------------------------------------------------------
(* va_arg at a type of the given width: the low bits, signed or not.       *)
Unsigned(arg, bits) == arg % 2 ^ bits
Signed(arg, bits) ==
  IF Unsigned(arg, bits) >= 2 ^ (bits - 1) THEN Unsigned(arg, bits) - 2 ^ bits ELSE Unsigned(arg, bits)

Bits(length) ==
  CASE length \in {"l", "ll", "t", "j", "z"} -> LONG_BITS
    [] length = "h" -> SHORT_BITS
    [] length = "hh" -> CHAR_BITS
    [] OTHER -> INT_BITS

Base(spec) == CASE spec \in {"x", "X"} -> 16 [] spec = "o" -> 8 [] spec = "b" -> 2 [] OTHER -> 10

(* The flags of a directive as its fields set them.                        *)
FlagsOf(d) ==
  d.flags \cup (IF d.width < 0 THEN {"LEFT"} ELSE {})            \* from a *
          \cup (IF d.hasPrecision THEN {"PRECISION"} ELSE {})
WidthOf(d) == IF d.width < 0 THEN 0 - d.width ELSE d.width
PrecisionOf(d) == IF d.hasPrecision /\ d.precision > 0 THEN d.precision ELSE 0

Faulty_integer_value(d) == Unsigned(d.arg, Bits(d.length))

(* The argument of an integer directive.                                   *)
IntegerValue(d) ==
  IF d.spec \in {"d", "i"} /\ (d.length = "hh" => CHAR_SIGNED)
  THEN Signed(d.arg, Bits(d.length)) ELSE Unsigned(d.arg, Bits(d.length))

Integer(d) ==
  LET signed == d.spec \in {"d", "i"}
      dropped == (IF Base(d.spec) = 10 THEN {"HASH"} ELSE {})
                 \cup (IF signed THEN {} ELSE {"PLUS", "SPACE"})
                 \cup (IF d.hasPrecision THEN {"ZEROPAD"} ELSE {})
      flags == (FlagsOf(d) \ dropped) \cup (IF d.spec = "X" THEN {"UPPERCASE"} ELSE {})
      v == IntegerValue(d)
      \* negated at the width of int or long, where the least value wraps
      magnitude == IF v > 0 THEN v
                   ELSE Unsigned(0 - v, IF Bits(d.length) = LONG_BITS THEN LONG_BITS ELSE INT_BITS)
      ntoa(value, negative) ==
        IF d.length = "ll"
        THEN ntoa_long_long(value, negative, Base(d.spec), PrecisionOf(d), WidthOf(d), flags)
        ELSE ntoa_long(value, negative, Base(d.spec), PrecisionOf(d), WidthOf(d), flags)
  IN  ntoa(magnitude, v < 0)

(* %e and %g; an infinity or a NaN is left to %f.                          *)
Exponential(d) ==
  LET flags == FlagsOf(d) \cup (IF d.spec \in {"g", "G"} THEN {"ADAPT_EXP"} ELSE {})
                          \cup (IF d.spec \in {"E", "G"} THEN {"UPPERCASE"} ELSE {})
  IN  IF Special(d.arg) THEN ftoa(d.arg, PrecisionOf(d), WidthOf(d), flags)
      ELSE etoa(d.arg, PrecisionOf(d), WidthOf(d), flags)

(* chars padded to the width of d.                                         *)
Padded(chars, d) ==
  LET pad == Repeat(SPACE, WidthOf(d) - Len(chars))
  IN  IF "LEFT" \in FlagsOf(d) THEN chars \o pad ELSE pad \o chars

String(d) ==
  Padded(IF d.hasPrecision THEN SubSeq(d.str, 1, AtMost(PrecisionOf(d), Len(d.str))) ELSE d.str, d)

Pointer(d) ==
  ntoa_long(Unsigned(d.arg, LONG_BITS), FALSE, 16, PrecisionOf(d), LONG_BITS \div 4,
            FlagsOf(d) \cup {"ZEROPAD", "UPPERCASE"})

(* What one turn of the loop over the format outputs.                      *)
Output(d) ==
  CASE d.spec \in {"d", "i", "u", "x", "X", "o", "b"} -> Integer(d)
    [] d.spec \in {"f", "F"} -> ftoa(d.arg, PrecisionOf(d), WidthOf(d), FlagsOf(d))
    [] d.spec \in {"e", "E", "g", "G"} -> Exponential(d)
    [] d.spec = "c" -> Padded(<<d.arg>>, d)
    [] d.spec = "s" -> String(d)
    [] d.spec = "p" -> Pointer(d)
    [] d.spec = "%" -> <<PERCENT>>
    [] OTHER -> <<d.arg>>                    \* a literal, an unknown specifier

(* The items callers pass, and what the model needs of the output of each. *)
Items == UNION {{f[i] : i \in DOMAIN f} : f \in Formats}

ASSUME FormatsAssumption ==
  /\ \A f \in Formats : f \in Seq(Items)
  /\ \A d \in Items : Output(d) \in Seq(0 .. 127)

-----------------------------------------------------------------------------
Init ==
  /\ pc = "idle" /\ call = <<>> /\ format = <<>>
  /\ out = "none" /\ maxlen = 0 /\ idx = 0 /\ ret = 0
  /\ buffer = [i \in 0 .. Size - 1 |-> Untouched]
  /\ putc = <<>> /\ text = <<>>

Call(f, o, max) ==
  /\ pc' = "formatting"
  /\ call' = f /\ format' = f /\ out' = o /\ maxlen' = max
  /\ UNCHANGED <<idx, ret, buffer, putc, text>>

printf_(f) == Call(f, "char", SIZE_MAX)
fctprintf(f) == Call(f, "fct", SIZE_MAX)
sprintf_(f) == Call(f, "buffer", SIZE_MAX)
snprintf_(f, count) == Call(f, "buffer", count)
snprintf_null(f, count) == Call(f, "null", count)          \* buffer is NULL

(* chars through the output function, from index at: the buffer takes what *)
(* is below maxlen, the device and the callback take all but NUL.          *)
OutBuffer(chars, at) ==
  buffer' = [i \in DOMAIN buffer |->
               IF out = "buffer" /\ i - at \in 0 .. Len(chars) - 1 /\ i < maxlen
               THEN chars[i - at + 1] ELSE buffer[i]]

OutDevice(chars) ==
  putc' = IF out \in {"char", "fct"} THEN putc \o SelectSeq(chars, LAMBDA c : c # NUL) ELSE putc

Out(chars, at) == OutBuffer(chars, at) /\ OutDevice(chars)

Item ==
  /\ pc = "formatting" /\ format # <<>>
  /\ format' = Tail(format)
  /\ LET chars == Output(Head(format))
     IN  Out(chars, idx) /\ idx' = idx + Len(chars) /\ text' = text \o chars
  /\ UNCHANGED <<pc, call, out, maxlen, ret>>

Faulty_terminate ==
  /\ pc = "formatting" /\ format = <<>> /\ pc' = "done"
  /\ Out(<<NUL>>, idx) /\ ret' = idx
  /\ UNCHANGED <<call, format, out, maxlen, idx, text>>

(* The terminator, over the last character when there is no room; at       *)
(* maxlen = 0 the index wraps to SIZE_MAX.                                 *)
Terminate ==
  /\ pc = "formatting" /\ format = <<>> /\ pc' = "done"
  /\ Out(<<NUL>>, IF idx < maxlen THEN idx ELSE IF maxlen = 0 THEN SIZE_MAX ELSE maxlen - 1)
  /\ ret' = idx
  /\ UNCHANGED <<call, format, out, maxlen, idx, text>>

Next ==
  \/ /\ pc = "idle"
     /\ \E f \in Formats : \/ printf_(f) \/ fctprintf(f) \/ sprintf_(f)
                          \/ \E count \in Counts : snprintf_(f, count) \/ snprintf_null(f, count)
  \/ Item
  \/ Terminate

Spec == Init /\ [][Next]_vars

-----------------------------------------------------------------------------
(* snprintf: nothing at or past count is written, whatever is formatted;   *)
(* what fits of the text is in the buffer, ended by a terminator, unless   *)
(* count is 0; the result is the length of the whole text, so that it      *)
(* tells a caller whether the text was cut.                                *)
Truncated ==
  pc = "done" =>
    /\ ret = Len(text)
    /\ \A i \in DOMAIN buffer : out # "buffer" \/ i >= maxlen => buffer[i] = Untouched
    /\ out = "buffer" /\ maxlen > 0 =>
         LET n == AtMost(ret, maxlen - 1)
         IN  /\ \A i \in DOMAIN buffer : i < n => buffer[i] = text[i + 1]
             /\ n \in DOMAIN buffer => buffer[n] = NUL

(* The text of the last item, which follows literal characters.            *)
Directive == call[Len(call)]
Body == SubSeq(text, Len(call), Len(text))

NumberIn(s, base) ==
  FoldLeft(LAMBDA v, c : v * base + (IF c >= 97 THEN c - 87 ELSE IF c >= 65 THEN c - 55 ELSE c - ZERO),
           0, s)
Unpadded == SelectSeq(Body, LAMBDA c : c # SPACE)
Signs == {MINUS, PLUS}
Unsigned_ == IF Unpadded # <<>> /\ Head(Unpadded) \in Signs THEN Tail(Unpadded) ELSE Unpadded

(* The argument of d as the number of its type.                            *)
ArgumentOf(d) ==
  LET bits == Bits(d.length)
      signed == d.spec \in {"d", "i"} /\ (d.length = "hh" => CHAR_SIGNED)
  IN  CHOOSE n \in (IF signed THEN 0 - 2 ^ (bits - 1) ELSE 0) .. 2 ^ bits - 1 :
        (signed => n < 2 ^ (bits - 1)) /\ (n - d.arg) % 2 ^ bits = 0
Magnitude(v) == IF v < 0 THEN 0 - v ELSE v

IntegerDone == pc = "done" /\ Directive.spec \in {"d", "i", "u", "x", "X", "o", "b"}
Prefixed == "HASH" \in Directive.flags /\ Base(Directive.spec) # 10 /\ ArgumentOf(Directive) # 0
PrefixLength == IF ~Prefixed THEN 0 ELSE IF Base(Directive.spec) = 8 THEN 1 ELSE 2

(* The text is the prefix the directive asks for, the number and its sign. *)
ReadsBack ==
  LET v == ArgumentOf(Directive)
      base == Base(Directive.spec)
  IN  /\ Prefixed => /\ Len(Unsigned_) > PrefixLength /\ Unsigned_[1] = ZERO
                     /\ base # 8 => Unsigned_[2] = IF base = 2 THEN 98
                                                   ELSE IF Directive.spec = "X" THEN 88 ELSE 120
      /\ NumberIn(SubSeq(Unsigned_, PrefixLength + 1, Len(Unsigned_)), base) = Magnitude(v)
      /\ (Unpadded # <<>> /\ Head(Unpadded) = MINUS) <=> v < 0

DigitCount ==
  LET v == Magnitude(ArgumentOf(Directive))
      base == Base(Directive.spec)
  IN  CHOOSE k \in 1 .. LONG_BITS : v < base ^ k /\ \A j \in 1 .. k - 1 : v >= base ^ j

(* What the conversion buffer has to hold, according to the comment at its *)
(* size: the digits or the zeros that make them up to the precision or the *)
(* width, with the prefix and the sign.                                    *)
Fits ==
  LET left == "LEFT" \in FlagsOf(Directive)
      signs == Directive.spec \in {"d", "i"}
               /\ (ArgumentOf(Directive) < 0 \/ Directive.flags \cap {"PLUS", "SPACE"} # {})
      marks == PrefixLength + IF signs THEN 1 ELSE 0
      zeros == {PrecisionOf(Directive)} \cup
               (IF "ZEROPAD" \in Directive.flags /\ ~Directive.hasPrecision
                THEN {WidthOf(Directive) - IF signs THEN 1 ELSE 0} ELSE {})
  IN  \A n \in {DigitCount} \cup (IF left THEN {} ELSE zeros) :
        n + marks <= PRINTF_NTOA_BUFFER_SIZE

(* A width that the digits of a prefixed number fill: the prefix then      *)
(* takes the place of digits, as it would of zeros.                        *)
Swallowed ==
  /\ Prefixed /\ ~Directive.hasPrecision
  /\ \/ DigitCount = WidthOf(Directive)
     \/ /\ DigitCount = WidthOf(Directive) - 1 /\ Base(Directive.spec) = 16
        /\ "ZEROPAD" \in Directive.flags /\ "LEFT" \notin FlagsOf(Directive)

(* Reading an integer back gives the argument, at the width of its type    *)
(* and with its sign, the smallest one included, behind the prefix asked   *)
(* for, whenever the conversion buffer has the size its comment demands,   *)
(* except where # makes a prefix take the place of digits.                 *)
ValueKept == IntegerDone /\ Fits /\ ~Swallowed => ReadsBack

-----------------------------------------------------------------------------
FixedDone ==
  pc = "done" /\ Directive.spec = "f" /\ Directive.arg \in 0 - PRINTF_MAX_FLOAT .. PRINTF_MAX_FLOAT
Decimals == IF Directive.hasPrecision THEN Directive.precision ELSE 6

(* As many decimals as asked, of a number no further from the argument     *)
(* than half a unit of the last one, and its sign where the buffer has     *)
(* room for it behind the zeros of the width.                              *)
NearestPrinted ==
  LET p == Decimals
      digits == SelectSeq(Unsigned_, LAMBDA c : c # POINT)
      error == 2 * NumberIn(digits, 10) * DEN - 2 * Magnitude(Directive.arg) * 10 ^ p
  IN  /\ p > 0 => Len(Unsigned_) > p + 1 /\ Unsigned_[Len(Unsigned_) - p] = POINT
      /\ error \in 0 - DEN .. DEN
      /\ WidthOf(Directive) <= PRINTF_FTOA_BUFFER_SIZE =>
           (Head(Unpadded) = MINUS <=> Directive.arg < 0)

(* Halfway between the last fraction and the next whole number.            *)
CarriedTie(value, prec) ==
  LET tmp == (value % DEN) * 10 ^ prec
  IN  prec > 0 /\ 2 * (tmp % DEN) = DEN /\ tmp \div DEN = 10 ^ prec - 1

(* %f of a double it can print, with at most nine decimals, is rounded to  *)
(* the nearest, the carry into the whole part included; except halfway     *)
(* below a whole number, where _ftoa makes one decimal too many.           *)
DecimalsKept ==
  FixedDone /\ Decimals <= 9 /\ ~CarriedTie(Magnitude(Directive.arg), Decimals) => NearestPrinted

=============================================================================
