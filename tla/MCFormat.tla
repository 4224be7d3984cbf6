------------------------------ MODULE MCFormat ------------------------------
\* Small instances of Format: those of selftests/vsnprintf.c, and more.
EXTENDS Selftests, Strings

\* Every size, also one for a text of the same length.
SizeCalls ==
    {Call(op, n, items, TRUE) : op \in {"snprintf", "printk"}, n \in 0..6,
     items \in {<<>>, <<Text("abc\n")>>, <<Bare("%", "", <<>>)>>, <<Text("a"), Bare("d", "", <<20>>)>>,
                <<Bare("s", "", <<"a\nb">>), Text("\n")>>}}

\* Flags, widths and precisions of numbers, together.
MCFlags == {"", "-", "+", " ", "#", "0", "+ ", "-0", "#0", "#-", "0+-", "#0 ", "+#0", "-+#0 "}
MCFields == {NoField, Number(1), Number(5), Star(4), Star(-5)}
MCPrecisions == {NoField, BareDot, Number(0), Number(3), Star(2), Star(-1)}

NumberCalls ==
    {Call("snprintf", 3, <<Conversion(f, w, p, "", c, <<n>>)>>, TRUE) :
        f \in MCFlags, w \in MCFields, p \in MCPrecisions,
        c \in {"d", "o", "x", "X", "u"}, n \in {0, 13, 2 ^ IntBits - 9}}

\* Length modifiers, with the least and the greatest values of each type.
LengthCalls ==
    {Call("snprintf", 8, <<Bare(c, m, <<n % 2 ^ b>>)>>, is64) :
        c \in {"d", "i", "u", "x", "o"}, m \in {"", "hh", "h", "l", "ll", "z"}, is64 \in BOOLEAN,
        b \in {IntBits, LLBits},
        n \in UNION {{0, 2 ^ k - 1, 2 ^ k, 2 ^ (k - 1) - 1, 2 ^ (k - 1)} : k \in {CharBits, IntBits, LLBits}}}

StringCalls ==
    {Call("printk", 9, <<Conversion(f, w, p, "", "s", <<s>>), Text("|")>>, TRUE) :
        f \in {"", "-"}, w \in MCFields, p \in MCPrecisions, s \in {"", "a\nbc", "NULL"}}
    \union
    {Call("printk", 9, <<Conversion(f, w, p, "", "c", <<c>>), Text("\n")>>, FALSE) :
        f \in {"", "-"}, w \in MCFields, p \in MCPrecisions, c \in {"a", "\n"}}

PointerCalls ==
    {Call("snprintf", 4, <<Conversion(f, w, p, "", "p", <<n>>), Text("z")>>, is64) :
        f \in {"", "-", "#", "#0"}, w \in MCFields, p \in {NoField, Number(0), Number(6)},
        n \in {0, 2 ^ IntBits - 2}, is64 \in BOOLEAN}
    \union
    {Call("snprintf", 6, <<Conversion("", w, NoField, "", c, <<SubSeq(<<1, 160, 7>>, 1, w.value)>>), Text("z")>>, TRUE) :
        w \in {Number(1), Number(2), Star(3)}, c \in {"ph", "phC", "phD", "phN"}}

\* The error codes are decoded by vector: page faults, selectors, and others.
Info(vec, ec, shown) == [expected |-> TRUE, vec |-> vec, ec |-> ec, shown |-> shown]

InfoCalls ==
    {Call("printk", 20, <<Conversion("", w, NoField, "", "pe", <<x>>)>>, FALSE) :
        w \in {NoField, Number(5), Star(-13)},
        x \in {Info(0, 0, "#DE"), Info(3, 0, "#BP"), Info(8, 0, "#DF[0000]"), Info(13, 0, "#GP[0000]"),
               Info(13, 26, "#GP[IDT[3]]"), Info(13, 8, "#GP[GDT[1]]"), Info(11, 13, "#NP[LDT[1],EXT]"),
               Info(14, 0, "#PF[-d-sr-]"), Info(14, 23, "#PF[-I-UWP]"), Info(14, 40, "#PF[KdRsr-]"),
               Info(14, 8, "#PF[-dRsr-]"), Info(20, 0, "#VE"), Info(21, 1, "??[0001]"),
               [Info(0, 0, "nothing") EXCEPT !.expected = FALSE]}}

\* Unknown conversions, their arguments' places, and a format that ends early.
UnknownCalls ==
    {Call("snprintf", 12, <<Conversion(f, w, p, m, c, <<>>), Bare("u", "", <<9>>)>>, TRUE) :
        f \in {"", "-", "0+"}, w \in MCFields, p \in MCPrecisions \ {Star(-1)},
        m \in {"h", "ll"}, c \in {"y", "-", "\n"}}
    \union {Call("snprintf", 4, <<Text(s)>>, TRUE) : s \in {"a%", "%-", "%5", "%.3", "%l", "%hh"}}

MCCalls == SizeCalls \union NumberCalls \union LengthCalls \union StringCalls \union PointerCalls
           \union InfoCalls \union UnknownCalls \union SelftestCalls

\* A memory for the string functions with the first call only.
MCInit ==
    /\ Init
    /\ IF call = Call("snprintf", 0, <<>>, TRUE) THEN StringsInit ELSE memory = <<>>

MCSpec == MCInit /\ [][Next /\ UNCHANGED memory]_<<vars, memory>>
=============================================================================
