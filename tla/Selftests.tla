------------------------------ MODULE Selftests ------------------------------
(***************************************************************************)
(* The cases of selftests/vsnprintf.c, which has the library of the host   *)
(* print what XTF prints and compares results and buffers.  A TEST() has   *)
(* to agree, a TEST_NONFATAL() may differ.                                 *)
(*                                                                         *)
(* Numbers are scaled with the widths of the types.                        *)
(***************************************************************************)
EXTENDS Format

Call(op, size, items, is64) ==
    [op |-> op, size |-> size, items |-> items, is64 |-> is64, strict |-> FALSE]

Bare(conv, mod, values) == Conversion("", NoField, NoField, mod, conv, values)

\* test(), with the item as all of the format, in one of the two builds.
test(size, item, is64) == [Call("snprintf", size, <<item>>, is64) EXCEPT !.strict = TRUE]

TEST(sizes, items) == {test(n, i, b) : n \in sizes, i \in items, b \in BOOLEAN}
TEST_NONFATAL(sizes, items) == {Call("snprintf", n, <<i>>, b) : n \in sizes, i \in items, b \in BOOLEAN}

PlainCases ==
    TEST({0}, {Text("")}) \union TEST(0..4, {Text("abc")}) \union TEST(0..3, {Bare("%", "", <<>>)})

\* Only what comes before "NULL" in the result may be compared.
StringCases ==
    LET s(f, w, p, text) == Conversion(f, w, p, "", "s", <<text>>)
    IN  TEST({0, 2}, {Bare("s", "", <<Null>>)}) \union TEST_NONFATAL({4, 6}, {Bare("s", "", <<Null>>)})
        \union TEST({0, 2, 4, 6}, {Bare("s", "", <<"abc">>)})
        \union TEST({30}, {s(f, Number(w), NoField, "abcd") : f \in {"", "-"}, w \in {3, 5, 7}}
                          \union {s("-", Number(2 * n + 1), Number(n), "abcd") : n \in 1..3}
                          \union {s("", Star(n), NoField, "abcd") : n \in {1, 5, -1, -5}}
                          \union {s("", Star(n), Star(n), "abcd") : n \in {1, 5, -1, -5}})

\* A precision is no precision of a character; a negative one is no number.
CharCases ==
    LET c(f, w, p) == Conversion(f, w, p, "", "c", <<"a">>)
        unknown(w, conv) == Conversion("-", w, BareDot, "", conv, <<"a">>)
    IN  TEST({30}, {c("", w, NoField) : w \in {NoField, Number(1), Number(2)}}
                   \union {c(f, w, Number(1)) : f \in {"", "-"}, w \in {NoField, Number(1)}}
                   \union {c(f, Number(2), Number(2)) : f \in {"", "-"}})
        \union TEST_NONFATAL({30}, {unknown(NoField, "-1c"), unknown(Number(1), "-1c"),
                                    unknown(Number(2), "-2c")})

IntegerCases ==
    TEST({10}, {Bare(c, "", <<n>>) : c \in {"d", "i", "o", "x", "u", "X"}, n \in {0, 31}})

\* "ll" in a 32-bit build, as inttypes.h has it.
Mod64(is64) == IF is64 THEN "l" ELSE "ll"

\* A number of 64 bits converted to every type.
TypeCases ==
    {test(30, Bare(c, m, <<2 ^ LLBits - 4661>>), b) :
        c \in {"o", "d", "i", "u", "x", "X"}, m \in {"hh", "h", ""}, b \in BOOLEAN}
    \union
    {test(30, Bare(c, Mod64(b), <<2 ^ LLBits - 4661>>), b) :
        c \in {"o", "d", "i", "u", "x", "X"}, b \in BOOLEAN}

SignCases ==
    TEST({30}, {Conversion(f, NoField, NoField, "", "d", <<n % 2 ^ IntBits>>) :
                   f \in {" ", "-", "+"}, n \in {0, 1, -1}})

\* INT64_MAX, and INT64_MIN as a signed number.
LimitCases ==
    {test(30, Bare(c, Mod64(b), <<2 ^ (LLBits - 1) - 1>>), b) :
        c \in {"d", "o", "u", "x", "X"}, b \in BOOLEAN}
    \union {test(30, Bare("d", Mod64(b), <<2 ^ (LLBits - 1)>>), b) : b \in BOOLEAN}

FieldCases ==
    TEST({30}, {Conversion(fn[1], wp[1], wp[2], "", "d", <<fn[2] % 2 ^ IntBits>>) :
                   fn \in {<<"", 2>>, <<" ", 2>>, <<"+", 2>>, <<"-", 2>>, <<"-", -2>>},
                   wp \in {<<NoField, NoField>>, <<Number(2), NoField>>,
                           <<Number(2), Number(1)>>, <<Number(2), Number(3)>>}})

\* 0xffff, as great an int as there is here, and 0xf.
AlternateCases ==
    LET most == 2 ^ (IntBits - 1) - 1
    IN  TEST({30}, {Conversion(f, Number(5), p[1], p[2], p[3], <<p[4]>>) :
                       f \in {"#0", "# 0", "#-0", "#+0", "#- ", "#+ "},
                       p \in {<<NoField, "", "x", 15>>, <<Number(2), "", "x", 15>>}
                             \union {<<Number(2), "", c, most>> : c \in {"x", "o", "d"}}
                             \union {<<Number(2), "z", "u", most>>}})

\* The library of the host has a prefix in front of every pointer.
PointerCases ==
    LET p(f, w, prec) == Conversion(f, w, prec, "", "p", <<2 ^ IntBits - 291>>)
    IN  TEST({20}, {p("#", Number(2), prec) : prec \in {NoField, Number(0), Number(20)}}
                   \union {p("#", Number(20), Number(20))})
        \union TEST_NONFATAL({20}, {p("", w, NoField) : w \in {NoField, Number(2)}}
                                   \union {p("", Number(w), Number(20)) : w \in {2, 20}}
                                   \union {p("0", Number(3), NoField)})

SelftestCalls ==
    PlainCases \union StringCases \union CharCases \union IntegerCases \union TypeCases
    \union SignCases \union LimitCases \union FieldCases \union AlternateCases \union PointerCases
=============================================================================
