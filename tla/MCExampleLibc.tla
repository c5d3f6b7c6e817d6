--------------------------- MODULE MCExampleLibc ---------------------------
(* The C functions the examples bring with them: either one call of printf *)
(* or one of a string function, on every memory of six bytes of two bits   *)
(* in words of two bytes.                                                  *)
(*                                                                         *)
(* Integers of 4 bits (long: 8) with conversion buffers of 4 characters    *)
(* keep the proportions of 32, 64 and 32.                                  *)
EXTENDS ExampleLibc

Dir(spec, arg, flags, width, hasPrecision, precision, length, str) ==
  [spec |-> spec, arg |-> arg, flags |-> flags, width |-> width,
   hasPrecision |-> hasPrecision, precision |-> precision, length |-> length, str |-> str]
Literal == Dir("literal", 72, {}, 0, FALSE, 0, "", <<>>)

(* Widths and precisions below, at and above the conversion buffer's size. *)
Integers_ ==
  {Dir(s, a, f, w, p >= 0, p, l, <<>>) :
     s \in {"d", "u", "x", "o"}, a \in {0, 1, 7, 8, 13, 255},
     f \in {{}, {"ZEROPAD"}, {"LEFT"}, {"PLUS"}, {"ZEROPAD", "SPACE"}, {"LEFT", "ZEROPAD", "PLUS"}},
     w \in {-3, 0, 3, 5}, p \in {-1, 2, 4}, l \in {"", "hh", "h", "l"}}
  \cup {Dir(s, 128, {}, 0, TRUE, p, "ll", <<>>) : s \in {"d", "u"}, p \in {0, 5}}
Binary ==
  {Dir("b", a, {}, w, FALSE, 0, l, <<>>) : a \in {0, 5, 15, 16, 255}, w \in {0, 5}, l \in {"", "l"}}
Hashed ==
  {Dir(s, a, {"HASH"} \cup f, w, p >= 0, p, l, <<>>) :
     s \in {"x", "X", "o", "b"}, a \in {0, 1, 2, 9, 18, 255},
     f \in {{}, {"ZEROPAD"}, {"LEFT"}}, w \in 0 .. 4, p \in {-1, 2}, l \in {"", "l"}}
Floats(spec, values, flags, precisions) ==
  {Dir(spec, a, f, w, p >= 0, p, "", <<>>) :
     a \in values, f \in {{}, {"PLUS"}} \cup flags, w \in {0, 7, 13}, p \in precisions}
Others ==
  {Dir("c", a, f, w, FALSE, 0, "", <<>>) : a \in {0, 65}, f \in {{}, {"LEFT"}}, w \in {0, 1, 3}}
  \cup {Dir("s", 0, f, w, p >= 0, p, "", s) : f \in {{}, {"LEFT"}}, w \in {0, 3},
          p \in {-1, 0, 1, 4}, s \in {<<>>, <<65>>, <<65, 66, 67>>}}
  \cup {Dir("p", a, {}, 0, FALSE, 0, "", <<>>) : a \in {0, 200}}
  \cup {Dir("%", 0, {}, 0, FALSE, 0, "", <<>>)}

(* Fortieths: 0.5, 0.25, 0.125 and 0.95 are among them, and the values on  *)
(* either side of the largest that %f prints as such.                      *)
Fortieths ==
  {2 * k : k \in -22 .. 31} \cup {-1, 1, 5, 39, 59, 118, 998}
  \cup {-PRINTF_MAX_FLOAT, PRINTF_MAX_FLOAT, PRINTF_MAX_FLOAT + 1, 0 - PRINTF_MAX_FLOAT - 1}
Specials == {NAN, DBL_MAX + 1, 0 - DBL_MAX - 1}    \* no zeros are put before these

(* Any text would do for a number in exponent notation.                    *)
AnyText(value, prec, width, flags) == <<ZERO, 101>>

Inputs ==
  Integers_ \cup Binary \cup Hashed \cup Others
  \cup Floats("f", Fortieths, {{"ZEROPAD"}, {"ZEROPAD", "PLUS"}, {"LEFT"}}, {-1, 0, 1, 2})
  \cup UNION {Floats(s, {40} \cup Specials, {{"LEFT", "PLUS"}}, {-1}) : s \in {"f", "e", "G"}}
AnyFormats == {<<Literal, d>> : d \in Inputs}

=============================================================================
