----------------------------- MODULE C11Format -----------------------------
(***************************************************************************)
(* What C11 (7.21.6.1) says the subset of conversions that the comment of  *)
(* vsnprintf.c lists has to print: the reference for Format.tla, stated    *)
(* over the parts of a conversion specification and not over its spelling. *)
(*                                                                         *)
(* A character is a string of length one, a text a sequence of them, and   *)
(* an argument the bit pattern that va_arg() finds.                        *)
(***************************************************************************)
EXTENDS Integers, Sequences, TLC

CONSTANTS CharBits, ShortBits, IntBits, LLBits     \* the widths of the types

Chars(s) == [i \in 1..Len(s) |-> SubSeq(s, i, i)]

Repeat(c, n) == IF n <= 0 THEN <<>> ELSE [i \in 1..n |-> c]

AsSigned(n, bits) == IF n >= 2 ^ (bits - 1) THEN n - 2 ^ bits ELSE n

LongBits(is64) == IF is64 THEN LLBits ELSE IntBits

Null == "NULL"                            \* a pointer

-----------------------------------------------------------------------------
(* A width or a precision: how it is spelled, what it is, and the argument *)
(* that a '*' takes.                                                       *)

NoField == [spelled |-> "", given |-> FALSE, value |-> 0, args |-> <<>>]
Number(n) == [spelled |-> ToString(n), given |-> TRUE, value |-> n, args |-> <<>>]
Star(n) == [spelled |-> "*", given |-> TRUE, value |-> n, args |-> <<n % 2 ^ IntBits>>]

\* A '.' with nothing after it.
BareDot == [spelled |-> "", given |-> TRUE, value |-> 0, args |-> <<>>]

\* Plain text, and a conversion: conv is what follows the length modifier,
\* args what it converts.
Text(s) == [conv |-> "", text |-> s]
Conversion(flags, width, prec, mod, conv, values) ==
    [flags |-> flags, width |-> width, prec |-> prec, mod |-> mod, conv |-> conv, args |-> values]

Flags(i) == {c \in {"-", "+", " ", "#", "0"} : \E k \in 1..Len(i.flags) : SubSeq(i.flags, k, k) = c}

Spelled(i) ==
    IF i.conv = "" THEN Chars(i.text)
    ELSE <<"%">> \o Chars(i.flags) \o Chars(i.width.spelled)
         \o (IF i.prec.given THEN <<".">> \o Chars(i.prec.spelled) ELSE <<>>)
         \o Chars(i.mod) \o Chars(i.conv)

Args(i) == IF i.conv = "" THEN <<>> ELSE i.width.args \o i.prec.args \o i.args

-----------------------------------------------------------------------------
Bits(mod, is64) ==
    CASE mod = "hh" -> CharBits [] mod = "h" -> ShortBits [] mod = "" -> IntBits
      [] mod \in {"l", "z"} -> LongBits(is64) [] mod = "ll" -> LLBits

Base(conv) == CASE conv = "o" -> 8 [] conv \in {"x", "X"} -> 16 [] OTHER -> 10

Numeral(n, base, upper) ==
    LET digits == Chars(IF upper THEN "0123456789ABCDEF" ELSE "0123456789abcdef")
        N[k \in Nat] == IF k = 0 THEN <<>> ELSE Append(N[k \div base], digits[(k % base) + 1])
    IN  N[n]

\* The text in a field: on its left, on its right, or with zeros between the
\* sign or prefix and the digits.
InField(i, prefix, digits, zeros) ==
    LET w == IF i.width.value < 0 THEN -i.width.value ELSE i.width.value
        left == "-" \in Flags(i) \/ i.width.value < 0
        fill == w - Len(prefix) - Len(digits)
    IN  CASE left -> prefix \o digits \o Repeat(" ", fill)
          [] ~left /\ zeros -> prefix \o Repeat("0", fill) \o digits
          [] OTHER -> Repeat(" ", fill) \o prefix \o digits

HasPrecision(i) == i.prec.given /\ i.prec.value >= 0

\* The value that a number converts to.
Value(i, is64) ==
    LET bits == Bits(i.mod, is64)
        low == i.args[1] % 2 ^ bits
    IN  IF i.conv \in {"d", "i"} THEN AsSigned(low, bits) ELSE low

NumberText(i, is64) ==
    LET n == Value(i, is64)
        sign == IF i.conv \notin {"d", "i"} THEN <<>>
                ELSE CASE n < 0 -> <<"-">> [] n >= 0 /\ "+" \in Flags(i) -> <<"+">>
                       [] n >= 0 /\ "+" \notin Flags(i) /\ " " \in Flags(i) -> <<" ">>
                       [] OTHER -> <<>>
        min == IF HasPrecision(i) THEN i.prec.value ELSE 1
        some == Numeral(IF n < 0 THEN -n ELSE n, Base(i.conv), i.conv = "X")
        digits == Repeat("0", min - Len(some)) \o some
        alt == "#" \in Flags(i)
    IN  InField(i,
                sign \o (IF alt /\ n # 0 /\ Base(i.conv) = 16 THEN <<"0", i.conv>> ELSE <<>>),
                (IF alt /\ Base(i.conv) = 8 /\ (digits = <<>> \/ digits[1] # "0") THEN <<"0">>
                 ELSE <<>>) \o digits,
                "0" \in Flags(i) /\ ~HasPrecision(i))

StringText(i) ==
    LET s == Chars(IF i.args[1] = Null THEN "(NULL)" ELSE i.args[1])
    IN  InField(i, <<>>,
                IF HasPrecision(i) /\ i.prec.value < Len(s) THEN SubSeq(s, 1, i.prec.value) ELSE s,
                FALSE)

\* %p, which C11 leaves to the implementation: "plain 32/64bit hex integer"
\* (vsnprintf.c:265), of the width of a pointer unless told otherwise.
PointerText(i, is64) ==
    LET hex == [i EXCEPT !.conv = "x", !.mod = "l"]
    IN  IF i.width.given THEN NumberText(hex, is64)
        ELSE NumberText([hex EXCEPT !.flags = "0" \o @, !.width = Number(LongBits(is64) \div 4)], is64)

\* %ph: the bytes in hex, with separators.
HexText(i, separator) ==
    LET byte(k) == LET h == Numeral(i.args[1][k], 16, FALSE) IN Repeat("0", 2 - Len(h)) \o h
        H[k \in 1..Len(i.args[1])] == IF k = 1 THEN byte(1) ELSE H[k - 1] \o separator \o byte(k)
    IN  H[i.width.value]

Separator(conv) ==
    CASE conv = "phC" -> <<":">> [] conv = "phD" -> <<"-">> [] conv = "phN" -> <<>> [] conv = "ph" -> <<" ">>

\* What an item prints; the argument of %pe comes with its text.  As for the rest,
\* C11 does not define an unknown conversion, which is to be printed literally (vsnprintf.c:394).
ItemText(i, is64) ==
    CASE i.conv = "" -> Chars(i.text)
      [] i.conv = "%" -> <<"%">>
      [] i.conv = "c" -> InField(i, <<>>, i.args, FALSE)
      [] i.conv = "s" -> StringText(i)
      [] i.conv \in {"d", "i", "o", "u", "x", "X"} -> NumberText(i, is64)
      [] i.conv = "p" -> PointerText(i, is64)
      [] i.conv \in {"ph", "phC", "phD", "phN"} -> HexText(i, Separator(i.conv))
      [] i.conv = "pe" -> InField(i, <<>>, Chars(i.args[1].shown), FALSE)
      [] OTHER -> Spelled(i)

\* Where vsnprintf.c departs from C11: a '.' alone is no precision; zero is
\* printed in spite of a precision of zero and has a prefix; the prefix of X
\* is "0x"; an octal number has a prefix even where its precision gives it a
\* zero; a negative %zd is unsigned in a 32-bit build.
Deviates(i, is64) ==
    \/ i.conv \in {"d", "i", "o", "u", "x", "X", "s"} /\ i.prec = BareDot
    \/ /\ i.conv \in {"d", "i", "o", "u", "x", "X", "p"}
       /\ LET n == Value(IF i.conv = "p" THEN [i EXCEPT !.conv = "x", !.mod = "l"] ELSE i, is64)
              alt == "#" \in Flags(i)
          IN  \/ n = 0 /\ (alt \/ (HasPrecision(i) /\ i.prec.value = 0))
              \/ alt /\ i.conv = "X"
              \/ alt /\ i.conv = "o" /\ HasPrecision(i) /\ i.prec.value > Len(Numeral(n, 8, FALSE))
              \/ i.mod = "z" /\ n < 0 /\ ~is64
=============================================================================
