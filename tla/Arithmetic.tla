----------------------------- MODULE Arithmetic -----------------------------
(***************************************************************************)
(* Facts about numbers and sequences that the proofs about several parts   *)
(* of XTF use: induction, remainders, and concatenation.                   *)
(***************************************************************************)
EXTENDS Integers, Sequences, WellFoundedInduction, TLAPS

-----------------------------------------------------------------------------
(* Natural numbers.                                                        *)

\* Every set of them but the empty one has a least element.
LEMMA LeastNumber ==
    ASSUME NEW T, T \subseteq Nat, T # {}
    PROVE  \E x \in T : \A y \in T : x <= y
<1> DEFINE Less == {ss \in Nat \X Nat : ss[1] < ss[2]}
<1>1. IsWellFoundedOn(Less, Nat)
    <2>1. IsWellFoundedOn(OpToRel(<, Nat), Nat)
        BY NatLessThanWellFounded, Zenon
    <2> QED BY <2>1 DEF OpToRel
<1>2. PICK x \in T : \A y \in T : <<y, x>> \notin Less
    <2> HIDE DEF Less
    <2> QED BY <1>1, WFMin
<1>3. ASSUME NEW y \in T, y < x PROVE FALSE
    <2>1. <<y, x>> \in Nat \X Nat
        OBVIOUS
    <2>2. <<y, x>>[1] < <<y, x>>[2]
        BY <1>3
    <2>3. <<y, x>> \in Less
        BY <2>1, <2>2, Zenon
    <2> QED BY <1>2, <2>3
<1> QED BY <1>2, <1>3

\* Induction, over a set in place of a property.
LEMMA SetInduction ==
    ASSUME NEW S, 0 \in S, \A n \in S \cap Nat : n + 1 \in S
    PROVE  Nat \subseteq S
<1> DEFINE T == Nat \ S
<1> SUFFICES ASSUME T # {} PROVE FALSE
    OBVIOUS
<1>1. PICK x \in T : \A y \in T : x <= y
    <2>1. T \subseteq Nat
        OBVIOUS
    <2> HIDE DEF T
    <2> QED BY <2>1, LeastNumber
<1>2. x - 1 \in Nat
    BY <1>1
<1>3. x - 1 \in S
    BY <1>1, <1>2
<1> QED BY <1>1, <1>2, <1>3

-----------------------------------------------------------------------------
(* Remainders.                                                             *)

\* A remainder is less than the divisor, and the rest a multiple of it.
LEMMA ModRange == ASSUME NEW d \in Nat \ {0}, NEW a \in Int PROVE a % d \in 0..(d - 1) /\ a % d \in Int
OBVIOUS

LEMMA ModIs == ASSUME NEW d \in Nat \ {0}, NEW a \in Int PROVE \E q \in Int : a = q * d + (a % d)
<1>1. a \div d \in Int /\ a = (a \div d) * d + (a % d)
    OBVIOUS
<1> QED BY <1>1

LEMMA ModUnique ==
    ASSUME NEW d \in Nat \ {0}, NEW a \in Int, NEW q \in Int, NEW r \in 0..(d - 1), a = q * d + r
    PROVE  a % d = r
OBVIOUS

\* The remainder of what is less than twice the divisor.
LEMMA ModSmall ==
    ASSUME NEW d \in Nat \ {0}, NEW a \in Int
    PROVE  /\ 0 <= a /\ a < d => a % d = a
           /\ d <= a /\ a < d + d => a % d = a - d
           /\ 0 - d <= a /\ a < 0 => a % d = a + d
<1>1. ASSUME 0 <= a, a < d PROVE a % d = a
    <2>1. a = 0 * d + a /\ a \in 0..(d - 1)
        BY <1>1
    <2> QED BY <2>1, ModUnique
<1>2. ASSUME d <= a, a < d + d PROVE a % d = a - d
    <2>1. a = 1 * d + (a - d) /\ a - d \in 0..(d - 1)
        BY <1>2
    <2> QED BY <2>1, ModUnique
<1>3. ASSUME 0 - d <= a, a < 0 PROVE a % d = a + d
    <2>1. a = (0 - 1) * d + (a + d) /\ a + d \in 0..(d - 1) /\ 0 - 1 \in Int
        BY <1>3
    <2> QED BY <2>1, ModUnique
<1> QED BY <1>1, <1>2, <1>3

\* Multiples of the divisor make no difference.
LEMMA ModMult ==
    ASSUME NEW d \in Nat \ {0}, NEW a \in Int, NEW m \in Int
    PROVE  (a + m * d) % d = a % d
<1>1. PICK q \in Int : a = q * d + (a % d)
    BY ModIs
<1>2. a + m * d = (q + m) * d + (a % d)
    BY <1>1
<1>3. q + m \in Int /\ a % d \in 0..(d - 1) /\ a + m * d \in Int
    BY ModRange
<1> QED BY <1>2, <1>3, ModUnique

LEMMA ModShift ==
    ASSUME NEW d \in Nat \ {0}, NEW a \in Int, NEW n \in Int
    PROVE  (a + n) % d = ((a % d) + n) % d
<1>1. PICK q \in Int : a = q * d + (a % d)
    BY ModIs
<1>2. a % d \in Int
    BY ModRange
<1>3. a + n = ((a % d) + n) + q * d
    <2> DEFINE p == q * d
               r == a % d
    <2>1. p \in Int /\ r \in Int /\ a = p + r
        BY <1>1, <1>2
    <2> HIDE DEF p, r
    <2>2. a + n = (r + n) + p
        BY <2>1
    <2> QED BY <2>2 DEF p, r
<1>4. (a % d) + n \in Int
    BY <1>2
<1> QED BY <1>3, <1>4, ModMult

\* Nor does a remainder by a multiple of the divisor.
LEMMA ModNest ==
    ASSUME NEW d \in Nat \ {0}, NEW e \in Nat \ {0}, e % d = 0, NEW a \in Int
    PROVE  (a % e) % d = a % d
<1>1. PICK q \in Int : a = q * e + (a % e)
    BY ModIs
<1>2. PICK m \in Int : e = m * d + (e % d)
    <2>1. e \in Int
        OBVIOUS
    <2> QED BY <2>1, ModIs, Zenon
<1>3. a % e \in Int
    BY ModRange
<1>4. e = m * d
    <2>1. m * d \in Int
        OBVIOUS
    <2> QED BY <1>2, <2>1
<1>5. q * e = (q * m) * d
    BY <1>4
<1>6. a = (a % e) + (q * m) * d
    BY <1>1, <1>3, <1>5
<1>7. q * m \in Int
    OBVIOUS
<1>8. ((a % e) + (q * m) * d) % d = (a % e) % d
    BY <1>3, <1>7, ModMult, Zenon
<1> QED BY <1>6, <1>8, Zenon

-----------------------------------------------------------------------------
(* Sequences.                                                              *)

\* A sequence is a concatenation if its parts are.
LEMMA ConcatIs ==
    ASSUME NEW X, NEW A \in Seq(X), NEW B \in Seq(X), NEW C \in Seq(X), Len(C) = Len(A) + Len(B),
           \A k \in 1..Len(A) : C[k] = A[k], \A k \in 1..Len(B) : C[Len(A) + k] = B[k]
    PROVE  C = A \o B
<1>1. A \o B \in Seq(X) /\ Len(A \o B) = Len(A) + Len(B) /\ Len(A) \in Nat /\ Len(B) \in Nat
    OBVIOUS
<1>2. ASSUME NEW k \in 1..Len(C) PROVE C[k] = (A \o B)[k]
    <2>1. CASE k <= Len(A)
        <3>1. k \in 1..Len(A)
            BY <1>1, <2>1
        <3> QED BY <3>1
    <2>2. CASE k > Len(A)
        <3>1. k - Len(A) \in 1..Len(B) /\ k = Len(A) + (k - Len(A))
            BY <1>1, <2>2
        <3> QED BY <1>1, <3>1
    <2> QED BY <1>1, <2>1, <2>2
<1> QED BY <1>1, <1>2

LEMMA ConcatAssoc ==
    ASSUME NEW X, NEW A \in Seq(X), NEW B \in Seq(X), NEW C \in Seq(X)
    PROVE  (A \o B) \o C = A \o (B \o C)
<1> DEFINE D == A \o B
           E == B \o C
           F == D \o C
<1>1. /\ D \in Seq(X) /\ Len(D) = Len(A) + Len(B) /\ E \in Seq(X) /\ Len(E) = Len(B) + Len(C)
      /\ F \in Seq(X) /\ Len(F) = Len(D) + Len(C) /\ Len(A) \in Nat /\ Len(B) \in Nat /\ Len(C) \in Nat
    <2>1. D \in Seq(X) /\ Len(D) = Len(A) + Len(B)
        OBVIOUS
    <2>2. E \in Seq(X) /\ Len(E) = Len(B) + Len(C)
        OBVIOUS
    <2>3. Len(A) \in Nat /\ Len(B) \in Nat /\ Len(C) \in Nat
        OBVIOUS
    <2>4. F \in Seq(X) /\ Len(F) = Len(D) + Len(C)
        <3>1. D \in Seq(X)
            OBVIOUS
        <3> HIDE DEF D
        <3> QED BY <3>1
    <2> QED BY <2>1, <2>2, <2>3, <2>4
<1>2. ASSUME NEW k \in 1..Len(A) PROVE F[k] = A[k]
    <2>1. k \in 1..Len(D) /\ D[k] = A[k]
        BY <1>1
    <2> QED BY <1>1, <2>1
<1>3. ASSUME NEW k \in 1..Len(E) PROVE F[Len(A) + k] = E[k]
    <2>1. CASE k <= Len(B)
        <3>1. Len(A) + k \in 1..Len(D) /\ D[Len(A) + k] = B[k] /\ E[k] = B[k]
            BY <1>1, <2>1
        <3> QED BY <1>1, <3>1
    <2>2. CASE k > Len(B)
        <3>1. E[k] = C[k - Len(B)] /\ k - Len(B) \in 1..Len(C)
            BY <1>1, <2>2
        <3>2. F[Len(D) + (k - Len(B))] = C[k - Len(B)] /\ Len(D) + (k - Len(B)) = Len(A) + k
            BY <1>1, <3>1
        <3> QED BY <3>1, <3>2
    <2> QED BY <1>1, <2>1, <2>2
<1> HIDE DEF D, E, F
<1>4. Len(F) = Len(A) + Len(E)
    BY <1>1
<1>5. F = A \o E
    <2>1. A \in Seq(X) /\ E \in Seq(X) /\ F \in Seq(X)
        BY <1>1, Zenon
    <2> QED BY <2>1, <1>2, <1>3, <1>4, ConcatIs
<1> QED BY <1>5 DEF D, E, F
=============================================================================
