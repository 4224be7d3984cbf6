------------------------------- MODULE Format -------------------------------
(***************************************************************************)
(* vsnprintf_internal() of common/libc/vsnprintf.c and the conversions of  *)
(* its own that arch/x86/decode.c adds to it, called by snprintf() with a  *)
(* buffer of the caller, or by vprintk() with its static one.              *)
(*                                                                         *)
(* The specification is scanned part by part.  What a conversion prints    *)
(* waits in todo, from where PUT() takes it one character at a time: that  *)
(* is where the end of the buffer matters.  fmt counts from 1, str and mem *)
(* from 0.                                                                 *)
(***************************************************************************)
EXTENDS C11Format

CONSTANTS
    Calls,         \* the calls: the caller ("snprintf" or "printk"), the size of the
                   \* buffer, the format as a sequence of items, the build, and
                   \* whether no deviation from C11 is allowed
    MaxHexBytes,   \* 128: the most bytes of a %ph
    Guard          \* the cells of memory modelled after the buffer

ASSUME FormatAssumption ==
    /\ CharBits \in Nat /\ ShortBits \in Nat /\ IntBits \in Nat /\ LLBits = 2 * IntBits
    /\ 2 ^ IntBits \in Nat \ {0}
    /\ MaxHexBytes \in Nat /\ Guard \in Nat
    /\ \A c \in Calls : c.size \in Nat

VARIABLES
    call,          \* the call, never changed
    format, args,  \* its format string and arguments
    fmt, arg,      \* the next character and the next argument
    spec,          \* the conversion specification being scanned
    todo,          \* what is still to be PUT()
    str, mem,      \* the place of the next character, and the buffer
    out,           \* history: all that was PUT()
    console,       \* what the console callbacks were given
    pc

callVars == <<call, format, args>>
scanVars == <<fmt, arg, spec>>
putVars == <<todo, str, mem, out>>
vars == <<callVars, scanVars, putVars, console, pc>>

NUL == "\\0"
Clobber == "$"                            \* what the buffer held before

Joined(texts) ==
    LET J[k \in 0..Len(texts)] == IF k = 0 THEN <<>> ELSE J[k - 1] \o texts[k]
    IN  J[Len(texts)]

crlf == call.op = "printk"                \* LF_TO_CRLF

Init ==
    /\ call \in Calls
    /\ format = Joined([k \in 1..Len(call.items) |-> Spelled(call.items[k])])
    /\ args = Joined([k \in 1..Len(call.items) |-> Args(call.items[k])])
    /\ fmt = 1 /\ arg = 1
    /\ spec = [start |-> 1, flags |-> {}, width |-> -1, precision |-> -1, length_mod |-> "i"]
    /\ todo = <<>> /\ str = 0 /\ mem = [i \in 0..(call.size + Guard - 1) |-> Clobber]
    /\ out = <<>> /\ console = <<>> /\ pc = "scan"

\* The character at position k of the format.
At(k) == IF k <= Len(format) THEN format[k] ELSE NUL

-----------------------------------------------------------------------------
(* What the conversions print.                                             *)

\* A definition marked "Mutant" is no part of the model: it is what the
\* definition after it would be if the code had the named bug.

\* Mutant: the remainder of the upper half is dropped.
LosesRemainder(n, divisor) ==
    LET W == 2 ^ IntBits
        low == n % W
    IN  <<((n \div W) \div divisor) * W + (low \div divisor), low % divisor>>

\* divmod64() of a 32-bit build, which divides the two halves in turn: it
\* leaves the quotient and returns the remainder.
DivMod64(n, divisor) ==
    LET W == 2 ^ IntBits
        high == n \div W
        umod == IF high # 0 THEN high % divisor ELSE 0
        low == umod * W + (n % W)
    IN  <<(high \div divisor) * W + (low \div divisor), low % divisor>>

DivMod(n, divisor) == IF call.is64 THEN <<n \div divisor, n % divisor>> ELSE DivMod64(n, divisor)

\* tmp[], the right way round.
Digits(n, base, upper) ==
    LET digits == Chars(IF upper THEN "0123456789ABCDEF" ELSE "0123456789abcdef")
        D[u \in Nat] ==
            IF u = 0 THEN <<>>
            ELSE LET qr == DivMod(u, base) IN Append(D[qr[1]], digits[qr[2] + 1])
    IN  IF n = 0 THEN <<"0">> ELSE D[n]

fmt_number(val, base, width, precision, flags) ==
    LET zero == "0" \in flags /\ "-" \notin flags /\ precision = -1
        prefix == IF "signed" \notin flags THEN <<>>
                  ELSE CASE val < 0 -> <<"-">>
                         [] val >= 0 /\ "+" \in flags -> <<"+">>
                         [] val >= 0 /\ "+" \notin flags /\ " " \in flags -> <<" ">>
                         [] OTHER -> <<>>
        alternate == IF "#" \notin flags \/ base = 10 THEN <<>>
                     ELSE IF base = 16 THEN <<"0", "x">> ELSE <<"0">>
        tmp == Digits((IF val < 0 /\ "signed" \in flags THEN -val ELSE val) % 2 ^ LLBits,
                      base, "upper" \in flags)
        longest == IF Len(tmp) > precision THEN Len(tmp) ELSE precision
        rest == width - Len(prefix) - Len(alternate) - longest
    IN  (IF zero \/ "-" \in flags THEN <<>> ELSE Repeat(" ", rest)) \o prefix \o alternate
        \o (IF zero THEN Repeat("0", rest) ELSE <<>>) \o Repeat("0", longest - Len(tmp)) \o tmp
        \o (IF "-" \in flags THEN Repeat(" ", rest) ELSE <<>>)

WithCr(text, flags) ==
    Joined([k \in 1..Len(text) |->
        IF "crlf" \in flags /\ text[k] = "\n" THEN <<"\r", "\n">> ELSE <<text[k]>>])

\* A text, or its first characters, in a field.
fmt_string(s, width, precision, flags) ==
    LET len == IF precision < 0 \/ Len(s) < precision THEN Len(s) ELSE precision
        pad == Repeat(" ", width - len)
        text == WithCr(SubSeq(s, 1, len), flags)
    IN  IF "-" \in flags THEN text \o pad ELSE pad \o text

\* put_char: a character of the format, or of %c.
put_char(c, width, flags) ==
    LET pad == Repeat(" ", width - 1)
        text == WithCr(<<c>>, flags)
    IN  IF "-" \in flags THEN text \o pad ELSE pad \o text

-----------------------------------------------------------------------------
(* arch_fmt_pointer(): %pe decodes exception information.                  *)

\* What snprintf() leaves in a buffer of n characters.
Snprintf(n, text) == IF Len(text) < n THEN text ELSE SubSeq(text, 1, n - 1)

x86_exc_short_name(vec) ==
    LET names == <<"DE", "DB", "NMI", "BP", "OF", "BR", "UD", "NM", "DF", "CSO", "TS", "NP",
                   "SS", "GP", "PF", "SPV", "MF", "AC", "MC", "XM", "VE">>
    IN  Chars(IF vec < Len(names) THEN "#" \o names[vec + 1] ELSE "??")

Bit(n, k) == (n \div 2 ^ k) % 2 = 1

x86_exc_decode_ec(vec, ec) ==
    CASE vec = 14 ->                      \* X86_EXC_PF
           [k \in 1..6 |-> (IF Bit(ec, 6 - k) THEN <<"K", "I", "R", "U", "W", "P">>
                            ELSE <<"-", "d", "-", "s", "r", "-">>)[k]]
      [] vec \in {10, 11, 12, 13, 17} /\ ec # 0 ->
           <<IF Bit(ec, 1) THEN "I" ELSE IF Bit(ec, 2) THEN "L" ELSE "G">> \o Chars("DT[")
           \o Digits(ec \div 8, 10, FALSE) \o Chars(IF Bit(ec, 0) THEN "],EXT" ELSE "]")
      [] OTHER -> fmt_number(ec, 16, 4, -1, {"0"})

HaveErrorCode == {8, 10, 11, 12, 13, 14, 17}

x86_decode_exinfo(info) ==
    LET name == x86_exc_short_name(info.vec)
    IN  IF ~info.expected THEN Chars("nothing")
        ELSE IF info.ec # 0 \/ info.vec \in HaveErrorCode
             THEN name \o <<"[">> \o Snprintf(16, x86_exc_decode_ec(info.vec, info.ec)) \o <<"]">>
             ELSE name

-----------------------------------------------------------------------------
(* Scanning the format.                                                    *)

IsDigit(c) == c \in {"0", "1", "2", "3", "4", "5", "6", "7", "8", "9"}

\* fmt_int(): the number that begins at k, and its length.
DigitsAt(k) == CHOOSE n \in 0..Len(format) :
    ~IsDigit(At(k + n)) /\ \A j \in 0..(n - 1) : IsDigit(At(k + j))

fmt_int(k) ==
    LET value == [d \in {ToString(v) : v \in 0..9} |-> CHOOSE v \in 0..9 : ToString(v) = d]
        N[n \in 0..DigitsAt(k)] == IF n = 0 THEN 0 ELSE 10 * N[n - 1] + value[At(k + n - 1)]
    IN  N[DigitsAt(k)]

Scanning(state) == pc = state /\ todo = <<>>

\* To the loop's next iteration, n characters on, with something to PUT().
Emit(n, text) ==
    /\ todo' = text /\ fmt' = fmt + n /\ pc' = "scan"
    /\ UNCHANGED <<callVars, spec, str, mem, out, console>>

Regular ==
    /\ Scanning("scan") /\ At(fmt) \notin {"%", NUL}
    /\ Emit(1, put_char(At(fmt), -1, IF crlf THEN {"crlf"} ELSE {}))
    /\ UNCHANGED arg

Percent ==
    /\ Scanning("scan") /\ At(fmt) = "%"
    /\ spec' = [start |-> fmt, flags |-> IF crlf THEN {"crlf"} ELSE {},
                width |-> -1, precision |-> -1, length_mod |-> "i"]
    /\ fmt' = fmt + 1 /\ pc' = "flags"
    /\ UNCHANGED <<callVars, arg, putVars, console>>

Flag ==
    /\ Scanning("flags") /\ At(fmt) \in {"-", "+", " ", "#", "0"}
    /\ spec' = [spec EXCEPT !.flags = @ \union {At(fmt)}]
    /\ fmt' = fmt + 1
    /\ UNCHANGED <<callVars, arg, putVars, console, pc>>

\* va_arg(args, int)
IntArg == AsSigned(args[arg], IntBits)

Width ==
    /\ Scanning("flags") /\ At(fmt) \notin {"-", "+", " ", "#", "0"}
    /\ \/ /\ At(fmt) = "*"
          /\ spec' = [spec EXCEPT !.width = IF IntArg < 0 THEN -IntArg ELSE IntArg,
                                  !.flags = IF IntArg < 0 THEN @ \union {"-"} ELSE @]
          /\ fmt' = fmt + 1 /\ arg' = arg + 1
       \/ /\ IsDigit(At(fmt))
          /\ spec' = [spec EXCEPT !.width = fmt_int(fmt)]
          /\ fmt' = fmt + DigitsAt(fmt) /\ UNCHANGED arg
       \/ At(fmt) # "*" /\ ~IsDigit(At(fmt)) /\ UNCHANGED <<spec, fmt, arg>>
    /\ pc' = "precision"
    /\ UNCHANGED <<callVars, putVars, console>>

Precision ==
    /\ Scanning("precision")
    /\ \/ /\ At(fmt) = "." /\ At(fmt + 1) = "*"
          /\ spec' = [spec EXCEPT !.precision = IF IntArg < 0 THEN -1 ELSE IntArg]
          /\ fmt' = fmt + 2 /\ arg' = arg + 1
       \/ /\ At(fmt) = "." /\ IsDigit(At(fmt + 1))
          /\ spec' = [spec EXCEPT !.precision = fmt_int(fmt + 1)]
          /\ fmt' = fmt + 1 + DigitsAt(fmt + 1) /\ UNCHANGED arg
       \/ /\ At(fmt) = "." /\ At(fmt + 1) # "*" /\ ~IsDigit(At(fmt + 1))
          /\ fmt' = fmt + 1 /\ UNCHANGED <<spec, arg>>
       \/ At(fmt) # "." /\ UNCHANGED <<spec, fmt, arg>>
    /\ pc' = "length"
    /\ UNCHANGED <<callVars, putVars, console>>

\* Two switches in turn: 'h' and 'l' may come twice.
Length ==
    /\ Scanning("length")
    /\ LET one == At(fmt) \in {"h", "l", "z"}
           next == IF one THEN fmt + 1 ELSE fmt
           two == At(next) \in {"h", "l"}
       IN  /\ spec' = [spec EXCEPT !.length_mod =
                  IF two THEN (IF At(next) = "h" THEN "H" ELSE "L") ELSE IF one THEN At(fmt) ELSE @]
           /\ fmt' = IF two THEN next + 1 ELSE next
    /\ pc' = "convert"
    /\ UNCHANGED <<callVars, arg, putVars, console>>

-----------------------------------------------------------------------------
(* Converting an argument.                                                 *)

Literal == Scanning("convert") /\ At(fmt) = "%" /\ Emit(1, <<"%">>) /\ UNCHANGED arg

Char ==
    /\ Scanning("convert") /\ At(fmt) = "c"
    /\ Emit(1, put_char(args[arg], spec.width, spec.flags)) /\ arg' = arg + 1

String ==
    /\ Scanning("convert") /\ At(fmt) = "s"
    /\ Emit(1, fmt_string(Chars(IF args[arg] = Null THEN "(NULL)" ELSE args[arg]), spec.width,
                          spec.precision, spec.flags)) /\ arg' = arg + 1

\* %ph: a buffer in hex.  No separator is looked for when nothing is printed.
HexBuffer ==
    /\ Scanning("convert") /\ At(fmt) = "p" /\ At(fmt + 1) = "h"
    /\ LET n == IF spec.width > MaxHexBytes THEN MaxHexBytes ELSE spec.width
           sep == CASE At(fmt + 2) = "C" -> <<":">> [] At(fmt + 2) = "D" -> <<"-">>
                    [] At(fmt + 2) = "N" -> <<>> [] OTHER -> <<" ">>
           byte(k) == fmt_number(args[arg][k], 16, 2, -1, {"0"})
       IN  Emit(IF n > 0 /\ At(fmt + 2) \in {"C", "D", "N"} THEN 3 ELSE 2,
                 Joined([k \in 1..n |-> IF k < n THEN byte(k) \o sep ELSE byte(k)]))
    /\ arg' = arg + 1

ExceptionInfo ==
    /\ Scanning("convert") /\ At(fmt) = "p" /\ At(fmt + 1) = "e"
    /\ Emit(2, fmt_string(Snprintf(16, x86_decode_exinfo(args[arg])), spec.width, spec.precision,
                           spec.flags))
    /\ arg' = arg + 1

Pointer ==
    /\ Scanning("convert") /\ At(fmt) = "p" /\ At(fmt + 1) \notin {"h", "e"}
    /\ Emit(1, IF spec.width = -1
                THEN fmt_number(args[arg], 16, LongBits(call.is64) \div 4, spec.precision,
                                spec.flags \union {"0"})
                ELSE fmt_number(args[arg], 16, spec.width, spec.precision, spec.flags))
    /\ arg' = arg + 1

\* The type that the argument is converted to.
ArgBits(length_mod) ==
    CASE length_mod = "H" -> CharBits [] length_mod = "h" -> ShortBits [] length_mod = "i" -> IntBits
      [] length_mod \in {"z", "l"} -> LongBits(call.is64) [] length_mod = "L" -> LLBits

Numbers == {"o", "d", "i", "u", "X", "x"}

Integer ==
    /\ Scanning("convert") /\ At(fmt) \in Numbers
    /\ LET signed == At(fmt) \in {"d", "i"}
           bits == ArgBits(spec.length_mod)
           low == args[arg] % 2 ^ bits
           num == IF signed /\ spec.length_mod # "z" THEN AsSigned(low, bits) ELSE low
           val == AsSigned(num % 2 ^ LLBits, LLBits)
       IN  Emit(1, fmt_number(val, CASE At(fmt) = "o" -> 8 [] At(fmt) \in {"x", "X"} -> 16
                                      [] OTHER -> 10, spec.width, spec.precision,
                               spec.flags \union (IF signed THEN {"signed"} ELSE {})
                                          \union (IF At(fmt) = "X" THEN {"upper"} ELSE {})))
    /\ arg' = arg + 1

\* The '%' is printed, and the scan goes on after it.
Unrecognised ==
    /\ Scanning("convert") /\ At(fmt) \notin {"%", "c", "s", "p"} \union Numbers
    /\ Emit(spec.start + 1 - fmt, <<"%">>) /\ UNCHANGED arg

-----------------------------------------------------------------------------
\* Mutant: end is taken for the last character.
PutPastEnd ==
    /\ todo # <<>>
    /\ mem' = IF str <= call.size THEN [mem EXCEPT ![str] = Head(todo)] ELSE mem
    /\ str' = str + 1 /\ todo' = Tail(todo) /\ out' = Append(out, Head(todo))
    /\ UNCHANGED <<callVars, scanVars, console, pc>>

\* The PUT() macro.
Put ==
    /\ todo # <<>>
    /\ mem' = IF str < call.size THEN [mem EXCEPT ![str] = Head(todo)] ELSE mem
    /\ str' = str + 1 /\ todo' = Tail(todo) /\ out' = Append(out, Head(todo))
    /\ UNCHANGED <<callVars, scanVars, console, pc>>

Terminate ==
    /\ Scanning("scan") /\ At(fmt) = NUL
    /\ mem' = CASE str < call.size -> [mem EXCEPT ![str] = NUL]
                [] str >= call.size /\ call.size > 0 -> [mem EXCEPT ![call.size - 1] = NUL]
                [] OTHER -> mem
    /\ pc' = IF call.op = "printk" THEN "printk" ELSE "done"
    /\ UNCHANGED <<callVars, scanVars, todo, str, out, console>>

\* Mutant: the check lets one character more pass.
ChecksTooLate ==
    /\ pc = "printk"
    /\ IF str > call.size + 1 THEN pc' = "panic" /\ UNCHANGED console
       ELSE pc' = "done" /\ console' = [k \in 1..str |-> mem[k - 1]]
    /\ UNCHANGED <<callVars, scanVars, putVars>>

\* vprintk() hands rc characters of its buffer to the console callbacks.
Vprintk ==
    /\ pc = "printk"
    /\ IF str > call.size THEN pc' = "panic" /\ UNCHANGED console
       ELSE pc' = "done" /\ console' = [k \in 1..str |-> mem[k - 1]]
    /\ UNCHANGED <<callVars, scanVars, putVars>>

Convert == Literal \/ Char \/ String \/ HexBuffer \/ ExceptionInfo \/ Pointer \/ Integer
           \/ Unrecognised

Next == Regular \/ Percent \/ Flag \/ Width \/ Precision \/ Length \/ Convert \/ Put \/ Terminate
        \/ Vprintk

Spec == Init /\ [][Next]_vars

-----------------------------------------------------------------------------
Returned == pc \in {"done", "panic"}

\* Every variable that PUT() works with stays in its range.
TypeOK ==
    /\ call \in Calls /\ str = Len(out) /\ str \in Nat
    /\ DOMAIN mem = 0..(call.size + Guard - 1)
    /\ pc \in {"scan", "flags", "precision", "length", "convert", "printk", "done", "panic"}

\* Whatever the size of the buffer, even none, nothing is written past its
\* end; it holds the text, or as much of it as fits, and a NUL, and what it
\* held before after that.
BufferHoldsText ==
    LET last == IF Len(out) < call.size THEN Len(out) ELSE call.size - 1
    IN  Returned => \A i \in DOMAIN mem :
            mem[i] = IF i < last THEN out[i + 1] ELSE IF i = last THEN NUL ELSE Clobber

\* What is printed, and so also the length that is returned, is what C11
\* says for every flag, width, precision and length modifier, whether or not
\* the buffer takes it; a newline for the console becomes CR LF.  The known
\* deviations are left out, but not where a TEST() of selftests/vsnprintf.c has
\* no leave to differ.
TextIsC11 ==
    Returned /\ (call.strict \/ \A k \in 1..Len(call.items) : ~Deviates(call.items[k], call.is64)) =>
        out = Joined([k \in 1..Len(call.items) |->
            WithCr(ItemText(call.items[k], call.is64), IF crlf THEN {"crlf"} ELSE {})])

\* A text shorter than the buffer of vprintk() reaches the console callbacks
\* complete, and a longer one panics.  (One that just fits loses its last
\* character to the NUL: ConsolesGetTheText.)
ShortTextReachesConsoles ==
    Returned /\ call.op = "printk" =>
        /\ Len(out) < call.size => pc = "done" /\ console = out
        /\ Len(out) > call.size => pc = "panic"

\* vprintk() panics rather than hand over less than the text: "vprintk()
\* buffer overflow" (console.c:128).
ConsolesGetTheText == pc = "done" /\ call.op = "printk" => console = out
=============================================================================
