------------------------------- MODULE Strings -------------------------------
(***************************************************************************)
(* The string functions of common/libc/string.c on a small memory, next to *)
(* what C11 (7.24) says of them.  A char is signed, as on x86.  None of    *)
(* them has a state: the memory that they meet is what varies.             *)
(*                                                                         *)
(* A function that writes gives the memory that it leaves; the pointer     *)
(* that it returns is always its first argument.                           *)
(***************************************************************************)
EXTENDS Integers, Sequences

CONSTANTS
    Cells,         \* the size of the memory
    Bytes          \* the values of its cells

ASSUME StringsAssumption == Cells \in Nat \ {0} /\ Bytes \subseteq 0..255

VARIABLE memory    \* before a call; none where no string function is called

Addresses == 0..(Cells - 1)

StringsInit == memory \in [Addresses -> Bytes] \union {<<>>}

SignedChar(b) == IF b >= 128 THEN b - 256 ELSE b

\* The number of iterations of a loop that goes on while p holds of the index.
Iterations(p(_), n) == CHOOSE k \in 0..n : (k < n => ~p(k)) /\ \A j \in 0..(k - 1) : p(j)

-----------------------------------------------------------------------------
strlen(mem, str) == Iterations(LAMBDA k : mem[str + k] # 0, Cells - str)

strnlen(mem, str, max) == Iterations(LAMBDA k : mem[str + k] # 0, max)

\* The memory after k iterations of *d++ = *s++.
Copying(mem, dst, src, k) ==
    LET M[j \in 0..k] ==
            IF j = 0 THEN mem ELSE [M[j - 1] EXCEPT ![dst + j - 1] = M[j - 1][src + j - 1]]
    IN  M[k]

\* The loop ends with the NUL that it has copied.
strcpy(mem, dst, src) ==
    Copying(mem, dst, src,
            CHOOSE k \in 1..(Cells - src) :
                /\ Copying(mem, dst, src, k)[dst + k - 1] = 0
                /\ \A j \in 1..(k - 1) : Copying(mem, dst, src, j)[dst + j - 1] # 0)

\* Mutant: the rest of the destination is left as it was.
strncpy_without_padding(mem, dst, src, n) == Copying(mem, dst, src, strnlen(mem, src, n))

strncpy(mem, dst, src, n) ==
    LET copied == strnlen(mem, src, n)
        after == Copying(mem, dst, src, copied)
    IN  [a \in Addresses |-> IF a - dst \in copied..(n - 1) THEN 0 ELSE after[a]]

strcmp(mem, s1, s2) ==
    LET k == Iterations(LAMBDA i : mem[s1 + i] # 0 /\ mem[s1 + i] = mem[s2 + i], Cells)
        a == mem[s1 + k]
        b == mem[s2 + k]
    IN  IF a < b THEN -1 ELSE IF a > b THEN 1 ELSE 0

\* No NUL ends it.
strncmp(mem, s1, s2, n) ==
    LET i == Iterations(LAMBDA j : mem[s1 + j] = mem[s2 + j], n)
    IN  IF i < n THEN SignedChar(mem[s1 + i]) - SignedChar(mem[s2 + i]) ELSE 0

memset(mem, s, c, n) == [a \in Addresses |-> IF a - s \in 0..(n - 1) THEN c % 256 ELSE mem[a]]

memcpy(mem, d, s, n) == Copying(mem, d, s, n)

memcmp(mem, s1, s2, n) ==
    LET i == Iterations(LAMBDA j : mem[s1 + j] = mem[s2 + j], n)
    IN  IF i < n THEN mem[s1 + i] - mem[s2 + i] ELSE 0

-----------------------------------------------------------------------------
(* C11.                                                                    *)

\* The n bytes at p, and the string there with its NUL.
BytesAt(mem, p, n) == [i \in 1..n |-> mem[p + i - 1]]
HasString(mem, p) == \E a \in p..(Cells - 1) : mem[a] = 0
StringAt(mem, p) ==
    BytesAt(mem, p, 1 + CHOOSE n \in 0..(Cells - p - 1) :
                            mem[p + n] = 0 /\ \A j \in 0..(n - 1) : mem[p + j] # 0)

\* The memory with these bytes at p.
With(mem, p, bytes) ==
    [a \in Addresses |-> IF a - p \in 0..(Len(bytes) - 1) THEN bytes[a - p + 1] ELSE mem[a]]

Sign(n) == IF n < 0 THEN -1 ELSE IF n > 0 THEN 1 ELSE 0

\* How two sequences of unsigned characters compare, neither a prefix of the other.
Order(s, t) ==
    IF s = t THEN 0
    ELSE LET k == CHOOSE i \in DOMAIN s : s[i] # t[i] /\ \A j \in 1..(i - 1) : s[j] = t[j]
         IN  Sign(s[k] - t[k])

\* Areas of m bytes at p and of n bytes at q, within memory and apart.
Apart(p, m, q, n) == p + m <= Cells /\ q + n <= Cells /\ (p + m <= q \/ q + n <= p)

\* The first n characters of a string, with NULs after it.
Padded(s, n) == [i \in 1..n |-> IF i <= Len(s) THEN s[i] ELSE 0]

OfStrings(mem, p, q) ==
    HasString(mem, q) =>
        /\ strlen(mem, q) = Len(StringAt(mem, q)) - 1
        /\ Apart(p, Len(StringAt(mem, q)), q, Len(StringAt(mem, q))) =>
              strcpy(mem, p, q) = With(mem, p, StringAt(mem, q))
        /\ HasString(mem, p) => strcmp(mem, p, q) = Order(StringAt(mem, p), StringAt(mem, q))
        /\ \A n \in 0..Cells :
              /\ strnlen(mem, q, n) = IF n < Len(StringAt(mem, q)) THEN n ELSE Len(StringAt(mem, q)) - 1
              /\ Apart(p, n, q, Len(StringAt(mem, q))) =>
                    strncpy(mem, p, q, n) = With(mem, p, Padded(StringAt(mem, q), n))

OfBytes(mem, p, q) ==
    \A n \in 0..Cells : p + n <= Cells =>
        /\ \A c \in -1..1 : memset(mem, p, c, n) = With(mem, p, [i \in 1..n |-> c % 256])
        /\ Apart(p, n, q, n) => memcpy(mem, p, q, n) = With(mem, p, BytesAt(mem, q, n))
        /\ q + n <= Cells =>
              LET s == BytesAt(mem, p, n)
                  t == BytesAt(mem, q, n)
              IN  /\ Sign(memcmp(mem, p, q, n)) = Order(s, t)
                  /\ (\A i \in 1..n : {s[i], t[i]} \subseteq 1..127) =>
                        Sign(strncmp(mem, p, q, n)) = Order(s, t)

\* The string functions do what C11 says of them, as gcc takes for granted that
\* emits calls of them for its builtins ("the __builtin_???() varient will emit a
\* call to ???()", libc.h:13), overlapping areas apart.  strncmp() does so for
\* strings of ASCII characters that are not shorter than n: it takes characters
\* for signed, and does not stop at a NUL.
StringsAreC11 ==
    memory # <<>> => \A p, q \in Addresses : OfStrings(memory, p, q) /\ OfBytes(memory, p, q)
=============================================================================
