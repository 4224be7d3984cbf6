-------------------------- MODULE PvConsole_proofs --------------------------
(***************************************************************************)
(* The PV console is a stream in either direction, for rings of any size,  *)
(* indices of any width, and any number and length of messages and reads.  *)
(***************************************************************************)
EXTENDS PvConsoleStream, Arithmetic, TLAPS

-----------------------------------------------------------------------------
(* Indices and rings.  Size stands for the size of either ring.            *)

IsSize(size) == size \in Nat \ {0} /\ IdxMod % size = 0 /\ size < IdxMod

\* The indices as numbers that wrap once.
LEMMA IdxAddIs ==
    ASSUME NEW i \in Index, NEW n \in 0..IdxMod
    PROVE  /\ IdxAdd(i, n) \in Index
           /\ IdxAdd(i, n) = IF i + n < IdxMod THEN i + n ELSE (i + n) - IdxMod
<1>1. IdxMod \in Nat \ {0} /\ i + n \in Int /\ i \in 0..(IdxMod - 1)
    BY RingAssumption DEF Index
<1>2. IdxAdd(i, n) = IF i + n < IdxMod THEN i + n ELSE (i + n) - IdxMod
    <2> DEFINE a == i + n
               d == IdxMod
    <2>1. a \in Int /\ 0 <= a /\ a < d + d /\ d \in Nat \ {0}
        BY <1>1
    <2> HIDE DEF a, d
    <2>2. /\ 0 <= a /\ a < d => a % d = a
          /\ d <= a /\ a < d + d => a % d = a - d
        BY <2>1, ModSmall, Zenon
    <2>3. a % d = IF a < d THEN a ELSE a - d
        BY <2>1, <2>2
    <2>4. IdxAdd(i, n) = a % d
        BY DEF IdxAdd, a, d
    <2>5. IdxAdd(i, n) = IF a < d THEN a ELSE a - d
        BY <2>3, <2>4
    <2> QED BY <2>5 DEF a, d
<1> QED BY <1>1, <1>2 DEF Index

LEMMA IdxSubIs ==
    ASSUME NEW p \in Index, NEW c \in Index
    PROVE  /\ IdxSub(p, c) \in Index
           /\ IdxSub(p, c) = IF p >= c THEN p - c ELSE p - c + IdxMod
<1>1. IdxMod \in Nat \ {0} /\ p - c + IdxMod \in Int /\ p \in 0..(IdxMod - 1) /\ c \in 0..(IdxMod - 1)
    BY RingAssumption DEF Index
<1>2. IdxSub(p, c) = IF p >= c THEN p - c ELSE p - c + IdxMod
    <2> DEFINE a == p - c + IdxMod
               d == IdxMod
    <2>1. a \in Int /\ 0 <= a /\ a < d + d /\ d \in Nat \ {0}
        BY <1>1
    <2>2. p >= c <=> ~(a < d)
        BY <1>1
    <2>3. a - d = p - c
        BY <1>1
    <2> HIDE DEF a, d
    <2>4. /\ 0 <= a /\ a < d => a % d = a
          /\ d <= a /\ a < d + d => a % d = a - d
        BY <2>1, ModSmall, Zenon
    <2>5. a % d = IF p >= c THEN p - c ELSE a
        BY <2>1, <2>2, <2>3, <2>4
    <2> QED BY <2>5, Zenon DEF a, d, IdxSub
<1> QED BY <1>1, <1>2 DEF Index

\* Moving on from an index by n, and the distance back.
LEMMA Moved ==
    ASSUME NEW p \in Index, NEW c \in Index, NEW n \in Nat, IdxSub(p, c) + n < IdxMod
    PROVE  /\ IdxAdd(p, n) \in Index /\ IdxSub(IdxAdd(p, n), p) = n
           /\ IdxSub(IdxAdd(p, n), c) = IdxSub(p, c) + n
<1>1. n \in 0..(IdxMod - 1) /\ IdxSub(p, c) \in Nat
    BY IdxSubIs, RingAssumption DEF Index
<1>2. IdxAdd(p, n) \in Index /\ IdxAdd(p, n) = IF p + n < IdxMod THEN p + n ELSE (p + n) - IdxMod
    BY <1>1, IdxAddIs, RingAssumption
<1>3. /\ IdxSub(p, c) = IF p >= c THEN p - c ELSE p - c + IdxMod
      /\ IdxSub(IdxAdd(p, n), p) = IF IdxAdd(p, n) >= p THEN IdxAdd(p, n) - p ELSE IdxAdd(p, n) - p + IdxMod
      /\ IdxSub(IdxAdd(p, n), c) = IF IdxAdd(p, n) >= c THEN IdxAdd(p, n) - c ELSE IdxAdd(p, n) - c + IdxMod
    BY <1>2, IdxSubIs
<1> QED BY <1>1, <1>2, <1>3, RingAssumption DEF Index

\* Moving the other end on, by no more than the distance.
LEMMA Consumed ==
    ASSUME NEW p \in Index, NEW c \in Index, NEW n \in 0..IdxSub(p, c)
    PROVE  /\ IdxAdd(c, n) \in Index /\ IdxSub(IdxAdd(c, n), c) = n
           /\ IdxSub(p, IdxAdd(c, n)) = IdxSub(p, c) - n
           /\ IdxAdd(IdxAdd(c, n), IdxSub(p, c) - n) = p
<1>1. n \in 0..(IdxMod - 1) /\ IdxSub(p, c) \in 0..(IdxMod - 1)
    BY IdxSubIs, RingAssumption DEF Index
<1>2. IdxAdd(c, n) \in Index /\ IdxAdd(c, n) = IF c + n < IdxMod THEN c + n ELSE (c + n) - IdxMod
    BY <1>1, IdxAddIs, RingAssumption
<1>3. /\ IdxSub(p, c) = IF p >= c THEN p - c ELSE p - c + IdxMod
      /\ IdxSub(IdxAdd(c, n), c) = IF IdxAdd(c, n) >= c THEN IdxAdd(c, n) - c ELSE IdxAdd(c, n) - c + IdxMod
      /\ IdxSub(p, IdxAdd(c, n)) = IF p >= IdxAdd(c, n) THEN p - IdxAdd(c, n) ELSE p - IdxAdd(c, n) + IdxMod
    BY <1>2, IdxSubIs
<1>4. IdxAdd(IdxAdd(c, n), IdxSub(p, c) - n) =
         IF IdxAdd(c, n) + (IdxSub(p, c) - n) < IdxMod THEN IdxAdd(c, n) + (IdxSub(p, c) - n)
         ELSE (IdxAdd(c, n) + (IdxSub(p, c) - n)) - IdxMod
    BY <1>1, <1>2, IdxAddIs, RingAssumption
<1> QED BY <1>1, <1>2, <1>3, <1>4, RingAssumption DEF Index

\* The place of the k-th byte from an index on.
Place(size, c, k) == (c + (k - 1)) % size

\* What lies between two indices is a sequence of the length of their distance.
Lies(ring, size, X, c, p) ==
    LET B == Between(ring, size, c, p)
    IN  /\ B \in Seq(X) /\ Len(B) = IdxSub(p, c) /\ IdxSub(p, c) \in Nat
        /\ \A k \in 1..IdxSub(p, c) : B[k] = ring[Place(size, c, k)]

LEMMA BetweenIs ==
    ASSUME NEW size, IsSize(size), NEW X, NEW ring \in [0..(size - 1) -> X], NEW c \in Index, NEW p \in Index
    PROVE  Lies(ring, size, X, c, p)
<1>1. IdxSub(p, c) \in Nat /\ c \in Nat
    <2>1. IdxSub(p, c) \in 0..(IdxMod - 1) /\ c \in 0..(IdxMod - 1)
        BY IdxSubIs DEF Index
    <2> QED BY <2>1, RingAssumption
<1>2. \A k \in 1..IdxSub(p, c) : /\ IdxAdd(c, k - 1) % size = Place(size, c, k)
                                 /\ Place(size, c, k) \in 0..(size - 1)
    <2> TAKE k \in 1..IdxSub(p, c)
    <2>1. c + (k - 1) \in Int
        BY <1>1
    <2>2. ((c + (k - 1)) % IdxMod) % size = (c + (k - 1)) % size
        BY <2>1, ModNest, RingAssumption DEF IsSize
    <2> QED BY <2>1, <2>2, ModRange DEF IdxAdd, IsSize, Place
<1>3. Between(ring, size, c, p) = [k \in 1..IdxSub(p, c) |-> ring[Place(size, c, k)]]
    BY <1>2 DEF Between
<1>4. \A k \in 1..IdxSub(p, c) : ring[Place(size, c, k)] \in X
    BY <1>2
<1> QED BY <1>1, <1>3, <1>4 DEF Lies

\* What lies from c to q is what lies from c to p and from p to q.
Fit(size, c, p, q) == IdxSub(p, c) + IdxSub(q, p) <= size

Joined(ring, size, c, p, q) ==
    Between(ring, size, c, q) = Between(ring, size, c, p) \o Between(ring, size, p, q)

LEMMA Join ==
    ASSUME NEW size, IsSize(size), NEW X, NEW ring \in [0..(size - 1) -> X], NEW c \in Index, NEW p \in Index,
           NEW q \in Index, Fit(size, c, p, q)
    PROVE  Joined(ring, size, c, p, q)
<1> DEFINE u == IdxSub(p, c)
           n == IdxSub(q, p)
           A == Between(ring, size, c, p)
           B == Between(ring, size, p, q)
           C == Between(ring, size, c, q)
<1>1. u \in Nat /\ n \in Nat /\ IdxSub(q, c) = u + n
    <2>1. /\ p \in 0..(IdxMod - 1) /\ q \in 0..(IdxMod - 1) /\ c \in 0..(IdxMod - 1)
          /\ size < IdxMod /\ size \in Nat /\ IdxMod \in Nat
        BY RingAssumption DEF Index, IsSize
    <2>2. /\ u = IF p >= c THEN p - c ELSE p - c + IdxMod
          /\ n = IF q >= p THEN q - p ELSE q - p + IdxMod
          /\ IdxSub(q, c) = IF q >= c THEN q - c ELSE q - c + IdxMod
        BY IdxSubIs
    <2>3. u + n <= size
        BY DEF Fit
    <2> HIDE DEF u, n
    <2> QED BY <2>1, <2>2, <2>3
<1>2. A \in Seq(X) /\ Len(A) = u /\ u \in Nat /\ \A k \in 1..u : A[k] = ring[Place(size, c, k)]
    <2>1. Lies(ring, size, X, c, p)
        BY BetweenIs
    <2> QED BY <2>1 DEF Lies
<1>3. B \in Seq(X) /\ Len(B) = n /\ \A k \in 1..n : B[k] = ring[Place(size, p, k)]
    <2>1. Lies(ring, size, X, p, q)
        BY BetweenIs
    <2> QED BY <2>1 DEF Lies
<1>4. C \in Seq(X) /\ Len(C) = u + n /\ \A k \in 1..(u + n) : C[k] = ring[Place(size, c, k)]
    <2>1. Lies(ring, size, X, c, q)
        BY BetweenIs
    <2> QED BY <1>1, <2>1 DEF Lies
<1>5. \A k \in 1..n : Place(size, c, u + k) = Place(size, p, k)
    <2> TAKE k \in 1..n
    <2>1. c \in 0..(IdxMod - 1) /\ p \in 0..(IdxMod - 1) /\ u = IF p >= c THEN p - c ELSE p - c + IdxMod
        BY IdxSubIs DEF Index
    <2>2. CASE p >= c
        <3>1. c + ((u + k) - 1) = p + (k - 1)
            BY <2>1, <2>2, RingAssumption
        <3> QED BY <3>1 DEF Place
    <2>3. CASE ~(p >= c)
        <3>1. c + ((u + k) - 1) = (p + (k - 1)) + IdxMod
            BY <2>1, <2>3, RingAssumption
        <3>2. PICK m \in Int : IdxMod = m * size + (IdxMod % size)
            <4>1. IdxMod \in Int /\ size \in Nat \ {0}
                BY RingAssumption DEF IsSize
            <4> QED BY <4>1, ModIs, Zenon
        <3>3. IdxMod = m * size
            <4>1. m * size \in Int /\ IdxMod % size = 0
                BY DEF IsSize
            <4> QED BY <3>2, <4>1
        <3>4. p + (k - 1) \in Int /\ size \in Nat \ {0}
            BY <2>1 DEF IsSize
        <3>5. ((p + (k - 1)) + m * size) % size = (p + (k - 1)) % size
            BY <3>4, ModMult, Zenon
        <3> QED BY <3>1, <3>3, <3>5, Zenon DEF Place
    <2> QED BY <2>2, <2>3
<1> HIDE DEF A, B, C, u, n
<1>6. ASSUME NEW k \in 1..n PROVE C[u + k] = B[k]
    <2>1. u + k \in 1..(u + n)
        BY <1>1
    <2>2. C[u + k] = ring[Place(size, c, u + k)]
        BY <1>4, <2>1, Zenon
    <2> QED BY <1>3, <1>5, <2>2, Zenon
<1>7. ASSUME NEW k \in 1..u PROVE C[k] = A[k]
    <2>1. k \in 1..(u + n)
        BY <1>1
    <2> QED BY <1>2, <1>4, <2>1, Zenon
<1>8. C = A \o B
    <2>1. A \in Seq(X) /\ B \in Seq(X) /\ C \in Seq(X) /\ Len(C) = Len(A) + Len(B)
        BY <1>2, <1>3, <1>4
    <2>2. (\A k \in 1..Len(A) : C[k] = A[k]) /\ (\A k \in 1..Len(B) : C[Len(A) + k] = B[k])
        BY <1>2, <1>3, <1>6, <1>7
    <2> QED BY <2>1, <2>2, ConcatIs
<1> QED BY <1>8 DEF A, B, C, Joined

LEMMA Split ==
    ASSUME NEW size, IsSize(size), NEW X, NEW ring \in [0..(size - 1) -> X], NEW c \in Index, NEW p \in Index,
           NEW n \in 0..IdxSub(p, c), IdxSub(p, c) <= size
    PROVE  Joined(ring, size, c, IdxAdd(c, n), p)
<1>1. /\ IdxAdd(c, n) \in Index /\ IdxSub(IdxAdd(c, n), c) = n
      /\ IdxSub(p, IdxAdd(c, n)) = IdxSub(p, c) - n
    BY Consumed
<1>2. PICK m \in Index : m = IdxAdd(c, n)
    BY <1>1
<1>3. Fit(size, c, m, p)
    <2>1. IdxSub(p, c) \in Nat /\ size \in Nat
        BY IdxSubIs, RingAssumption DEF Index, IsSize
    <2>2. IdxSub(m, c) = n /\ IdxSub(p, m) = IdxSub(p, c) - n
        BY <1>1, <1>2
    <2> QED BY <2>1, <2>2 DEF Fit
<1>4. Joined(ring, size, c, m, p)
    BY <1>3, Join
<1> QED BY <1>2, <1>4 DEF Joined

\* The k-th place from i on, as Stored() finds it.
LEMMA PlaceIs ==
    ASSUME NEW size, IsSize(size), NEW i \in Index, NEW k \in 1..size
    PROVE  Place(size, i, k) \in 0..(size - 1) /\ (Place(size, i, k) - i) % size = k - 1
<1>1. size \in Nat \ {0} /\ i \in Int /\ i + (k - 1) \in Int /\ 0 - i \in Int /\ k - 1 \in Int
    BY RingAssumption DEF IsSize, Index
<1>2. ((i + (k - 1)) + (0 - i)) % size = (((i + (k - 1)) % size) + (0 - i)) % size
    BY <1>1, ModShift, Zenon
<1>3. (i + (k - 1)) + (0 - i) = k - 1
    BY <1>1
<1>4. (i + (k - 1)) % size \in 0..(size - 1) /\ (i + (k - 1)) % size \in Int
    BY <1>1, ModRange, Zenon
<1>5. ((i + (k - 1)) % size) + (0 - i) = Place(size, i, k) - i
    BY <1>1, <1>4 DEF Place
<1>6. (k - 1) % size = k - 1
    <2>1. 0 <= k - 1 /\ k - 1 < size
        BY <1>1
    <2> QED BY <1>1, <2>1, ModSmall, Zenon
<1>7. Place(size, i, k) \in 0..(size - 1)
    BY <1>4, Zenon DEF Place
<1>8. (Place(size, i, k) - i) % size = (k - 1) % size
    BY <1>2, <1>3, <1>5, Zenon
<1> QED BY <1>6, <1>7, <1>8, Zenon

\* The places before an index are those at the end of a turn that starts there.
LEMMA PlaceBack ==
    ASSUME NEW size, IsSize(size), NEW c \in Index, NEW p \in Index, NEW k \in 1..IdxSub(p, c)
    PROVE  Place(size, c, k) = Place(size, p, (size - IdxSub(p, c)) + k)
<1> DEFINE u == IdxSub(p, c)
           a == c + (k - 1)
           b == p + (((size - u) + k) - 1)
<1>1. /\ size \in Nat \ {0} /\ IdxMod \in Nat \ {0} /\ c \in 0..(IdxMod - 1) /\ p \in 0..(IdxMod - 1)
      /\ u \in 0..(IdxMod - 1) /\ u = IF p >= c THEN p - c ELSE p - c + IdxMod
    BY IdxSubIs, RingAssumption DEF IsSize, Index
<1>2. a \in Int /\ k \in Int
    BY <1>1
<1>3. CASE p >= c
    <2>1. b = a + 1 * size /\ 1 \in Int
        BY <1>1, <1>2, <1>3
    <2>2. (a + 1 * size) % size = a % size
        BY <1>1, <1>2, <2>1, ModMult, Zenon
    <2> QED BY <2>1, <2>2, Zenon DEF Place
<1>4. CASE ~(p >= c)
    <2>1. b = (a + 1 * size) - IdxMod
        BY <1>1, <1>2, <1>4
    <2>2. PICK m \in Int : IdxMod = m * size
        <3>1. PICK m \in Int : IdxMod = m * size + (IdxMod % size)
            <4>1. IdxMod \in Int
                BY <1>1
            <4> QED BY <1>1, <4>1, ModIs, Zenon
        <3>2. m * size \in Int /\ IdxMod % size = 0
            BY <1>1 DEF IsSize
        <3> QED BY <3>1, <3>2
    <2>3. b = a + (1 - m) * size
        <3>1. (1 - m) * size = 1 * size - m * size
            BY <1>1, <2>2
        <3>2. m * size \in Int /\ (1 - m) * size \in Int
            BY <1>1, <2>2
        <3> HIDE DEF a, b
        <3> QED BY <1>1, <1>2, <2>1, <2>2, <3>1, <3>2
    <2>4. 1 - m \in Int
        BY <2>2
    <2>5. (a + (1 - m) * size) % size = a % size
        BY <1>1, <1>2, <2>4, ModMult, Zenon
    <2> QED BY <2>3, <2>5, Zenon DEF Place
<1> QED BY <1>3, <1>4

\* A store writes what it is given to the places after the index.
LEMMA StoredIs ==
    ASSUME NEW size, IsSize(size), NEW X, NEW ring \in [0..(size - 1) -> X], NEW i \in Index,
           NEW s \in Seq(X), Len(s) <= size
    PROVE  /\ Stored(ring, size, i, s) \in [0..(size - 1) -> X]
           /\ \A k \in 1..size : Stored(ring, size, i, s)[Place(size, i, k)] =
                  IF k <= Len(s) THEN s[k] ELSE ring[Place(size, i, k)]
<1> DEFINE At(k) == (k - i) % size
<1>1. ASSUME NEW k \in 0..(size - 1) PROVE At(k) \in Nat
    <2>1. k - i \in Int /\ size \in Nat \ {0}
        BY RingAssumption DEF IsSize, Index
    <2>2. At(k) \in 0..(size - 1)
        BY <2>1, ModRange, Zenon
    <2> QED BY <2>2
<1>2. Stored(ring, size, i, s) = [k \in 0..(size - 1) |-> IF At(k) < Len(s) THEN s[At(k) + 1] ELSE ring[k]]
    BY DEF Stored
<1>3. ASSUME NEW k \in 1..size
      PROVE  Place(size, i, k) \in 0..(size - 1) /\ At(Place(size, i, k)) = k - 1
    BY PlaceIs
<1>4. \A k \in 1..size : k - 1 < Len(s) <=> k <= Len(s)
    OBVIOUS
<1>5. \A k \in 1..size : (k - 1) + 1 = k
    OBVIOUS
<1> HIDE DEF At
<1>6. \A k \in 0..(size - 1) : (IF At(k) < Len(s) THEN s[At(k) + 1] ELSE ring[k]) \in X
    <2> TAKE k \in 0..(size - 1)
    <2>1. At(k) < Len(s) => At(k) + 1 \in 1..Len(s)
        BY <1>1
    <2> QED BY <2>1
<1> QED BY <1>2, <1>3, <1>4, <1>5, <1>6

\* It leaves what lies before the index as long as there is room.
StoresBehind(ring, size, X, c, p, s, q) ==
    /\ Stored(ring, size, p, s) \in [0..(size - 1) -> X]
    /\ Between(Stored(ring, size, p, s), size, c, p) = Between(ring, size, c, p)
    /\ Between(Stored(ring, size, p, s), size, p, q) = s

LEMMA StoredBetween ==
    ASSUME NEW size, IsSize(size), NEW X, NEW ring \in [0..(size - 1) -> X], NEW c \in Index, NEW p \in Index,
           NEW s \in Seq(X), IdxSub(p, c) + Len(s) <= size, NEW q \in Index, IdxSub(q, p) = Len(s)
    PROVE  StoresBehind(ring, size, X, c, p, s, q)
<1> DEFINE R == Stored(ring, size, p, s)
           u == IdxSub(p, c)
<1>1. u \in Nat /\ Len(s) \in Nat /\ Len(s) <= size /\ u <= size /\ size \in Nat
    <2>1. u \in 0..(IdxMod - 1) /\ size \in Nat
        BY IdxSubIs DEF Index, IsSize
    <2> QED BY <2>1, RingAssumption
<1>a. /\ R \in [0..(size - 1) -> X]
      /\ \A k \in 1..size : R[Place(size, p, k)] = IF k <= Len(s) THEN s[k] ELSE ring[Place(size, p, k)]
    BY <1>1, StoredIs
<1>2. R \in [0..(size - 1) -> X]
    BY <1>a
<1>3. \A k \in 1..size : R[Place(size, p, k)] = IF k <= Len(s) THEN s[k] ELSE ring[Place(size, p, k)]
    BY <1>a
<1> HIDE DEF R
<1>4. Between(R, size, c, p) = Between(ring, size, c, p)
    <2>1. Lies(R, size, X, c, p) /\ Lies(ring, size, X, c, p)
        BY <1>2, BetweenIs
    <2>2. ASSUME NEW k \in 1..u PROVE R[Place(size, c, k)] = ring[Place(size, c, k)]
        <3>1. (size - u) + k \in 1..size /\ ~((size - u) + k <= Len(s))
            BY <1>1
        <3>2. Place(size, c, k) = Place(size, p, (size - u) + k)
            BY PlaceBack
        <3> QED BY <1>3, <3>1, <3>2
    <2> HIDE DEF u
    <2>3. Between(R, size, c, p) \in Seq(X) /\ Between(ring, size, c, p) \in Seq(X)
        BY <2>1 DEF Lies
    <2>4. /\ Len(Between(R, size, c, p)) = u /\ Len(Between(ring, size, c, p)) = u
          /\ \A k \in 1..u : Between(R, size, c, p)[k] = Between(ring, size, c, p)[k]
        BY <2>1, <2>2 DEF Lies, u
    <2> QED BY <2>3, <2>4
<1>5. Between(R, size, p, q) = s
    <2>1. Lies(R, size, X, p, q)
        BY <1>2, BetweenIs
    <2>2. \A k \in 1..Len(s) : k \in 1..size /\ R[Place(size, p, k)] = s[k]
        BY <1>1, <1>3
    <2>3. Between(R, size, p, q) \in Seq(X)
        BY <2>1 DEF Lies
    <2>4. Len(Between(R, size, p, q)) = Len(s) /\ \A k \in 1..Len(s) : Between(R, size, p, q)[k] = s[k]
        BY <2>1, <2>2 DEF Lies
    <2> QED BY <2>3, <2>4
<1> QED BY <1>2, <1>4, <1>5 DEF R, StoresBehind

-----------------------------------------------------------------------------
(* Output.                                                                 *)

Byte == Nat \X Nat
Used == IdxSub(outProd, outCons)
Stream == log \o Between(out, OutSize, outCons, outProd)

OutTypes ==
    /\ out \in [0..(OutSize - 1) -> Byte] /\ outProd \in Index /\ outCons \in Index
    /\ msgs \in Seq(MsgLens) /\ written \in Nat /\ log \in Seq(Byte) /\ crashed \in BOOLEAN
    /\ pc \in {"idle", "some", "publish", "kick", "space", "drain", "dead",
               "test", "check", "poll", "copy", "taken"}

Room == Used <= OutSize

Writing == pc \in {"some", "publish", "kick", "space", "drain"}

\* A write has a message, of which the last part has no more than is left.
Progress ==
    /\ Writing => msg \in Nat \ {0} /\ written <= msgLen
    /\ pc = "drain" => written = msgLen

\* Bytes of this message, from place b + 1 on.
Part(n, b) == [k \in 1..n |-> <<msg, b + k>>]

\* What is about to be published is a part of the message in free space.
PartIsReady ==
    pc = "publish" =>
        /\ prod \in Index /\ IdxSub(prod, outProd) = written /\ Used + written <= OutSize
        /\ \E b \in Nat : b + written <= msgLen /\ Between(out, OutSize, outProd, prod) = Part(written, b)

EndsWithMsg ==
    /\ Len(Stream) >= msgLen
    /\ \A k \in 1..msgLen : Stream[Len(Stream) - msgLen + k] = <<msg, k>>

\* A message that went in one part is whole, and those that a write has
\* returned from are consumed.
MessagesAreWhole ==
    /\ pc \in {"kick", "drain"} /\ written = msgLen => EndsWithMsg
    /\ ~Writing /\ msg > 0 => outCons = outProd /\ EndsWithMsg

\* No byte is of a message to come.
KnownMessages == \A k \in 1..Len(Stream) : Stream[k][1] \in 1..msg

OutInv == OutTypes /\ Room /\ Progress /\ PartIsReady /\ MessagesAreWhole /\ KnownMessages

LEMMA Sizes == IsSize(OutSize) /\ IsSize(InSize)
BY RingAssumption DEF IsSize

LEMMA StreamIs ==
    ASSUME OutTypes
    PROVE  /\ Used \in Nat /\ Between(out, OutSize, outCons, outProd) \in Seq(Byte)
           /\ Len(Between(out, OutSize, outCons, outProd)) = Used
           /\ Stream \in Seq(Byte) /\ Len(Stream) = Len(log) + Used /\ Len(log) \in Nat
<1>1. Lies(out, OutSize, Byte, outCons, outProd)
    BY Sizes, BetweenIs DEF OutTypes
<1>2. /\ Between(out, OutSize, outCons, outProd) \in Seq(Byte) /\ Used \in Nat
      /\ Len(Between(out, OutSize, outCons, outProd)) = Used
    BY <1>1 DEF Lies, Used
<1> DEFINE waits == Between(out, OutSize, outCons, outProd)
<1>3. log \in Seq(Byte)
    BY DEF OutTypes
<1>4. waits \in Seq(Byte)
    BY <1>2
<1>5. Stream = log \o waits /\ Len(waits) = Used
    BY <1>2 DEF Stream
<1> HIDE DEF waits
<1>6. log \o waits \in Seq(Byte) /\ Len(log \o waits) = Len(log) + Len(waits) /\ Len(log) \in Nat
    BY <1>3, <1>4
<1> QED BY <1>2, <1>5, <1>6

\* An empty ring adds nothing to what was taken.
LEMMA StreamIsLog ==
    ASSUME OutTypes, outCons = outProd
    PROVE  Stream = log /\ Used = 0
<1>1. Used = 0
    BY IdxSubIs DEF Used, OutTypes, Index
<1>2. Between(out, OutSize, outCons, outProd) \in Seq(Byte) /\ Len(Between(out, OutSize, outCons, outProd)) = 0
    BY <1>1, StreamIs
<1>3. Between(out, OutSize, outCons, outProd) = <<>>
    BY <1>2
<1> QED BY <1>1, <1>3 DEF Stream, OutTypes

\* xenconsoled takes from the front of the ring what it adds to the log.
LEMMA Takes ==
    ASSUME OutTypes, Room, DaemonTake
    PROVE  /\ outCons' \in Index /\ log' \in Seq(Byte) /\ Stream' = Stream /\ Used' <= Used /\ Used' \in Nat
           /\ outCons # outProd
<1>1. PICK n \in 1..Least(Used, MaxLog - Len(log)) :
          /\ log' = log \o SubSeq(Between(out, OutSize, outCons, outProd), 1, n)
          /\ outCons' = IdxAdd(outCons, n)
    BY DEF DaemonTake, Used
<1> DEFINE c == IdxAdd(outCons, n)
           A == Between(out, OutSize, outCons, c)
           B == Between(out, OutSize, c, outProd)
           C == Between(out, OutSize, outCons, outProd)
<1>2. n \in 1..Used /\ Used \in Nat /\ Len(log) \in Nat
    BY StreamIs, RingAssumption DEF Least
<1>3. n \in 0..IdxSub(outProd, outCons)
    BY <1>2 DEF Used
<1>4. c \in Index /\ IdxSub(c, outCons) = n /\ IdxSub(outProd, c) = Used - n
    BY <1>3, Consumed DEF OutTypes, Used
<1>5. C = A \o B
    <2>1. /\ IsSize(OutSize) /\ out \in [0..(OutSize - 1) -> Byte] /\ outCons \in Index
          /\ outProd \in Index /\ IdxSub(outProd, outCons) <= OutSize
        BY Sizes DEF OutTypes, Room, Used
    <2>2. Joined(out, OutSize, outCons, IdxAdd(outCons, n), outProd)
        BY <1>3, <2>1, Split
    <2> QED BY <2>2 DEF Joined
<1>6. A \in Seq(Byte) /\ Len(A) = n /\ B \in Seq(Byte)
    <2> HIDE DEF c
    <2>1. Lies(out, OutSize, Byte, outCons, c) /\ Lies(out, OutSize, Byte, c, outProd)
        BY <1>4, Sizes, BetweenIs DEF OutTypes
    <2> QED BY <1>4, <2>1 DEF Lies
<1>7. out' = out /\ outProd' = outProd
    BY DEF DaemonTake
<1>8. log' = log \o SubSeq(C, 1, n) /\ Stream' = log' \o B /\ Stream = log \o C
    BY <1>1, <1>7 DEF Stream
<1>9. Used' = Used - n /\ outCons' \in Index
    BY <1>1, <1>4, <1>7 DEF Used
<1>10. outCons # outProd
    BY <1>2, StreamIsLog
<1> HIDE DEF A, B, C, c
<1>11. SubSeq(C, 1, n) = A
    BY <1>2, <1>5, <1>6
<1>12. log \in Seq(Byte)
    BY DEF OutTypes
<1>13. (log \o A) \o B = log \o (A \o B)
    BY <1>6, <1>12, ConcatAssoc
<1>14. log' = log \o A /\ Stream' = Stream
    BY <1>5, <1>8, <1>11, <1>13, Zenon
<1>15. log' \in Seq(Byte)
    BY <1>6, <1>12, <1>14
<1> QED BY <1>2, <1>9, <1>10, <1>14, <1>15

LEMMA MessageIs ==
    ASSUME OutTypes
    PROVE  msg \in Nat /\ (\A m \in 1..msg : msgs[m] \in Nat \ {0}) /\ (msg > 0 => msgLen \in Nat \ {0})
<1>1. msgs \in Seq(MsgLens) /\ MsgLens \subseteq Nat \ {0}
    BY RingAssumption DEF OutTypes
<1>2. msg \in Nat
    BY <1>1 DEF msg
<1>3. \A m \in 1..msg : msgs[m] \in MsgLens
    BY <1>1 DEF msg
<1>4. \A m \in 1..msg : msgs[m] \in Nat \ {0}
    BY <1>1, <1>3
<1> QED BY <1>2, <1>4 DEF msgLen

\* What leaves the ring, the messages and the place in a write alone.
LEMMA OutFrame ==
    ASSUME OutInv, UNCHANGED <<outVars, writeVars, log>>,
           pc' = pc \/ (~Writing /\ pc' \in {"idle", "test", "check", "poll", "copy", "taken"})
    PROVE  OutInv'
<1>1. Stream' = Stream /\ Used' = Used /\ msg' = msg /\ msgLen' = msgLen /\ crashed' = crashed
    BY DEF Stream, Used, outVars, writeVars, msg, msgLen
<1>2. EndsWithMsg' <=> EndsWithMsg
    BY <1>1 DEF EndsWithMsg
<1>3. OutTypes'
    BY DEF OutInv, OutTypes, outVars, writeVars
<1>4. Writing' <=> Writing
    BY DEF Writing
<1>5. Room' /\ KnownMessages'
    BY <1>1 DEF OutInv, Room, KnownMessages
<1>6. Progress'
    BY <1>1, <1>4 DEF OutInv, Progress, Writing, writeVars
<1>7. PartIsReady'
    <2>1. pc' = "publish" => pc = "publish"
        BY DEF Writing
    <2>2. UNCHANGED <<out, outProd, prod, written>>
        BY DEF outVars, writeVars
    <2>3. Part(written, 0)' = Part(written, 0) /\ \A b \in Nat : Part(written, b)' = Part(written, b)
        BY <1>1, <2>2 DEF Part
    <2> QED BY <1>1, <2>1, <2>2, <2>3 DEF OutInv, PartIsReady
<1>8. MessagesAreWhole'
    <2>1. pc' \in {"kick", "drain"} => pc' = pc
        BY DEF Writing
    <2> QED BY <1>1, <1>2, <1>4, <2>1 DEF OutInv, MessagesAreWhole, writeVars, outVars
<1> QED BY <1>3, <1>5, <1>6, <1>7, <1>8 DEF OutInv

LEMMA EnterKeepsOut ==
    ASSUME OutInv, NEW n \in MsgLens, Enter(n), crashed' \in BOOLEAN
    PROVE  OutInv'
<1>1. /\ Stream' = Stream /\ Used' = Used /\ UNCHANGED <<out, outProd, outCons, log>>
      /\ written' = 0 /\ pc' = "some" /\ msgs' = Append(msgs, n)
    BY DEF Enter, Stream, Used, outVars, daemonVars
<1>2. msgs' \in Seq(MsgLens) /\ msg' = msg + 1 /\ msgLen' = n /\ msg \in Nat /\ n \in Nat \ {0}
    BY <1>1, MessageIs, RingAssumption DEF OutInv, OutTypes, msg, msgLen
<1>3. OutTypes'
    BY <1>1, <1>2 DEF OutInv, OutTypes
<1>4. Room' /\ Progress' /\ PartIsReady' /\ MessagesAreWhole'
    BY <1>1, <1>2 DEF OutInv, Room, Progress, PartIsReady, MessagesAreWhole, Writing
<1>5. KnownMessages'
    <2>1. \A m \in 1..msg : m \in 1..(msg + 1)
        BY <1>2
    <2> QED BY <1>1, <1>2, <2>1 DEF OutInv, KnownMessages
<1> QED BY <1>3, <1>4, <1>5 DEF OutInv

\* The copy goes into free space, so that what waits in the ring stays.
LEMMA CopyKeepsOut ==
    ASSUME OutInv, WriteSome
    PROVE  OutInv' /\ Stream' = Stream
<1> DEFINE s == Least(msgLen - written, OutSize - IdxSub(outProd, outCons))
           data == [k \in 1..s |-> <<msg, written + k>>]
<1>1. /\ out' = Stored(out, OutSize, outProd, data) /\ prod' = IdxAdd(outProd, s) /\ written' = s
      /\ pc = "some" /\ pc' = "publish" /\ UNCHANGED <<outProd, outCons, msgs, crashed, log>>
    BY DEF WriteSome, daemonVars
<1>2. /\ msg \in Nat \ {0} /\ msgLen \in Nat /\ written \in Nat /\ written <= msgLen
      /\ Used \in Nat /\ Used <= OutSize /\ OutSize \in Nat
    <2>1. msg \in Nat \ {0} /\ msgLen \in Nat
        BY <1>1, MessageIs DEF OutInv, Progress, Writing
    <2>2. written \in Nat /\ written <= msgLen
        BY <1>1 DEF OutInv, OutTypes, Progress, Writing
    <2>3. Used \in Nat /\ Used <= OutSize
        BY StreamIs DEF OutInv, Room
    <2>4. OutSize \in Nat
        BY Sizes DEF IsSize
    <2> QED BY <2>1, <2>2, <2>3, <2>4
<1>3. s \in Nat /\ written + s <= msgLen /\ Used + s <= OutSize
    BY <1>2 DEF Least, Used
<1>4. data \in Seq(Byte) /\ Len(data) = s
    <2>1. \A k \in 1..s : k \in Nat \ {0} /\ written + k \in Nat \ {0}
        BY <1>2, <1>3
    <2> HIDE DEF s
    <2>2. \A k \in 1..s : <<msg, written + k>> \in Byte
        BY <1>2, <2>1 DEF Byte
    <2> QED BY <1>3, <2>2
<1>5. /\ out \in [0..(OutSize - 1) -> Byte] /\ outProd \in Index /\ outCons \in Index
      /\ IsSize(OutSize)
    BY Sizes DEF OutInv, OutTypes
<1>6. prod' \in Index /\ IdxSub(prod', outProd) = s
    <2>1. IdxSub(outProd, outCons) + s < IdxMod
        BY <1>2, <1>3, RingAssumption DEF Used
    <2> QED BY <1>1, <1>3, <1>5, <2>1, Moved
<1> HIDE DEF s, data
<1>7. /\ out' \in [0..(OutSize - 1) -> Byte]
      /\ Between(out', OutSize, outCons, outProd) = Between(out, OutSize, outCons, outProd)
      /\ Between(out', OutSize, outProd, prod') = data
    <2>1. IdxSub(outProd, outCons) + Len(data) <= OutSize /\ IdxSub(prod', outProd) = Len(data)
        BY <1>3, <1>4, <1>6 DEF Used
    <2>2. StoresBehind(out, OutSize, Byte, outCons, outProd, data, prod')
        BY <1>4, <1>5, <1>6, <2>1, StoredBetween
    <2> QED BY <1>1, <2>2 DEF StoresBehind
<1>8. Stream' = Stream /\ Used' = Used /\ msg' = msg /\ msgLen' = msgLen
    BY <1>1, <1>7 DEF Stream, Used, msg, msgLen
<1>9. OutTypes'
    BY <1>1, <1>3, <1>7 DEF OutInv, OutTypes
<1>10. Room' /\ KnownMessages'
    BY <1>8 DEF OutInv, Room, KnownMessages
<1>11. Progress'
    BY <1>1, <1>2, <1>3, <1>8 DEF Progress, Writing
<1>12. PartIsReady'
    <2>1. Between(out', OutSize, outProd', prod') = [k \in 1..written' |-> <<msg', written + k>>]
        BY <1>1, <1>7, <1>8 DEF data
    <2>2. written + written' <= msgLen' /\ Used' + written' <= OutSize
        BY <1>1, <1>3, <1>8
    <2> QED BY <1>1, <1>2, <1>6, <2>1, <2>2 DEF PartIsReady, Part
<1>13. MessagesAreWhole'
    BY <1>1 DEF MessagesAreWhole, Writing
<1> QED BY <1>8, <1>9, <1>10, <1>11, <1>12, <1>13 DEF OutInv

LEMMA Distances ==
    ASSUME NEW size, IsSize(size), NEW c \in Index, NEW p \in Index, NEW q \in Index, Fit(size, c, p, q)
    PROVE  IdxSub(q, c) = IdxSub(p, c) + IdxSub(q, p)
<1> DEFINE u == IdxSub(p, c)
           n == IdxSub(q, p)
<1>1. /\ p \in 0..(IdxMod - 1) /\ q \in 0..(IdxMod - 1) /\ c \in 0..(IdxMod - 1)
      /\ size < IdxMod /\ size \in Nat /\ IdxMod \in Nat
    BY RingAssumption DEF Index, IsSize
<1>2. /\ u = IF p >= c THEN p - c ELSE p - c + IdxMod
      /\ n = IF q >= p THEN q - p ELSE q - p + IdxMod
      /\ IdxSub(q, c) = IF q >= c THEN q - c ELSE q - c + IdxMod
    BY IdxSubIs
<1>3. u + n <= size
    BY DEF Fit
<1> HIDE DEF u, n
<1>4. IdxSub(q, c) = u + n
    BY <1>1, <1>2, <1>3
<1> QED BY <1>4 DEF u, n

LEMMA PublishAppends ==
    ASSUME OutInv, WritePublish
    PROVE  /\ outProd' \in Index /\ Used' = Used + written
           /\ \E b \in Nat : /\ b + written <= msgLen /\ Part(written, b) \in Seq(Byte)
                             /\ Stream' = Stream \o Part(written, b)
<1>1. /\ outProd' = prod /\ pc = "publish" /\ pc' = "kick" /\ UNCHANGED <<out, outCons, log>>
    BY DEF WritePublish, daemonVars
<1>2. /\ out \in [0..(OutSize - 1) -> Byte] /\ outProd \in Index /\ outCons \in Index
      /\ IsSize(OutSize) /\ log \in Seq(Byte) /\ written \in Nat
    BY Sizes DEF OutInv, OutTypes
<1>3. PICK b \in Nat : b + written <= msgLen /\ Between(out, OutSize, outProd, prod) = Part(written, b)
    BY <1>1 DEF OutInv, PartIsReady
<1>4. prod \in Index /\ IdxSub(prod, outProd) = written /\ Used + written <= OutSize
    BY <1>1 DEF OutInv, PartIsReady
<1>5. Fit(OutSize, outCons, outProd, prod)
    BY <1>4 DEF Fit, Used
<1>6. Used' = Used + written
    <2>1. IdxSub(prod, outCons) = IdxSub(outProd, outCons) + IdxSub(prod, outProd)
        BY <1>2, <1>4, <1>5, Distances
    <2> QED BY <1>1, <1>4, <2>1 DEF Used
<1>7. Joined(out, OutSize, outCons, outProd, prod)
    BY <1>2, <1>4, <1>5, Join
<1>8. Lies(out, OutSize, Byte, outCons, outProd) /\ Lies(out, OutSize, Byte, outProd, prod)
    BY <1>2, <1>4, BetweenIs
<1> DEFINE A == Between(out, OutSize, outCons, outProd)
           P == Part(written, b)
<1>9. A \in Seq(Byte) /\ P \in Seq(Byte)
    BY <1>3, <1>8 DEF Lies
<1>10. Stream' = log \o (A \o P) /\ Stream = log \o A
    BY <1>1, <1>3, <1>7 DEF Stream, Joined
<1> HIDE DEF A, P
<1>11. (log \o A) \o P = log \o (A \o P)
    BY <1>2, <1>9, ConcatAssoc
<1>12. Stream' = Stream \o P
    BY <1>10, <1>11
<1> QED BY <1>1, <1>3, <1>4, <1>6, <1>9, <1>12 DEF P

LEMMA PublishKeepsOut ==
    ASSUME OutInv, WritePublish
    PROVE  OutInv'
<1>1. /\ pc = "publish" /\ pc' = "kick" /\ UNCHANGED <<out, outCons, log, msgs, written, crashed>>
    BY DEF WritePublish, daemonVars, writeVars
<1>2. /\ outProd' \in Index /\ Used' = Used + written /\ Used + written <= OutSize
      /\ msg \in Nat \ {0} /\ msgLen \in Nat /\ written \in Nat /\ written <= msgLen
      /\ msg' = msg /\ msgLen' = msgLen
    BY <1>1, PublishAppends, MessageIs DEF OutInv, OutTypes, PartIsReady, Progress, Writing, msg, msgLen
<1>3. PICK b \in Nat : /\ b + written <= msgLen /\ Part(written, b) \in Seq(Byte)
                       /\ Stream' = Stream \o Part(written, b)
    BY PublishAppends
<1> DEFINE P == Part(written, b)
<1>4. /\ Len(P) = written /\ P \in Seq(Byte) /\ \A k \in 1..written : P[k] = <<msg, b + k>>
      /\ Stream \in Seq(Byte) /\ Len(Stream) \in Nat
    <2>1. Len(P) = written /\ \A k \in 1..written : P[k] = <<msg, b + k>>
        BY <1>2 DEF Part
    <2>2. Stream \in Seq(Byte) /\ Len(Stream) \in Nat
        BY StreamIs DEF OutInv
    <2> QED BY <1>3, <2>1, <2>2
<1>5. Stream' = Stream \o P
    BY <1>3
<1> HIDE DEF P
<1>6. OutTypes' /\ Room'
    BY <1>1, <1>2 DEF OutInv, OutTypes, Room
<1>7. Progress' /\ PartIsReady'
    BY <1>1, <1>2 DEF Progress, Writing, PartIsReady
<1>8. Len(Stream') = Len(Stream) + written
    <2>1. Stream \in Seq(Byte) /\ P \in Seq(Byte)
        BY <1>4
    <2>2. Len(Stream \o P) = Len(Stream) + Len(P)
        BY <2>1
    <2> QED BY <1>4, <1>5, <2>2
<1>9. ASSUME NEW k \in 1..written PROVE Stream'[Len(Stream) + k] = <<msg, b + k>>
    <2>1. k \in 1..Len(P) /\ P[k] = <<msg, b + k>>
        BY <1>4
    <2>2. (Stream \o P)[Len(Stream) + k] = P[k]
        BY <1>4, <2>1
    <2> QED BY <1>5, <2>1, <2>2
<1>10. ASSUME written' = msgLen' PROVE EndsWithMsg'
    <2>1. b = 0 /\ written = msgLen
        BY <1>1, <1>2, <1>3, <1>10
    <2>2. Len(Stream') - msgLen = Len(Stream) /\ Len(Stream') >= msgLen
        BY <1>2, <1>4, <1>8, <2>1
    <2>3. \A k \in 1..msgLen : Stream'[Len(Stream) + k] = <<msg, k>>
        BY <1>9, <2>1
    <2> QED BY <1>2, <2>2, <2>3 DEF EndsWithMsg
<1>11. MessagesAreWhole'
    BY <1>1, <1>10 DEF MessagesAreWhole, Writing
<1>12. KnownMessages'
    <2>1. ASSUME NEW k \in 1..Len(Stream') PROVE Stream'[k][1] \in 1..msg
        <3>1. CASE k <= Len(Stream)
            <4>1. k \in 1..Len(Stream) /\ Stream'[k] = Stream[k]
                BY <1>4, <1>5, <3>1
            <4> QED BY <4>1 DEF OutInv, KnownMessages
        <3>2. CASE k > Len(Stream)
            <4>1. k - Len(Stream) \in 1..written /\ k = Len(Stream) + (k - Len(Stream))
                BY <1>2, <1>4, <1>8, <3>2
            <4>2. Stream'[k] = <<msg, b + (k - Len(Stream))>>
                BY <1>9, <4>1
            <4> QED BY <1>2, <4>2
        <3> QED BY <1>4, <3>1, <3>2
    <2> QED BY <1>2, <2>1 DEF KnownMessages
<1> QED BY <1>6, <1>7, <1>11, <1>12 DEF OutInv

LEMMA WaitKeepsOut ==
    ASSUME OutInv, WriteKick \/ WaitSpace \/ WaitDrain
    PROVE  OutInv'
<1>1. UNCHANGED <<outVars, writeVars, log>>
    BY DEF WriteKick, WaitSpace, WaitDrain, daemonVars
<1>2. /\ Stream' = Stream /\ Used' = Used /\ msg' = msg /\ msgLen' = msgLen /\ (EndsWithMsg' <=> EndsWithMsg)
      /\ UNCHANGED <<out, outProd, outCons, msgs, written, prod, crashed, log>>
    BY <1>1 DEF Stream, Used, outVars, writeVars, msg, msgLen, EndsWithMsg
<1>3. \/ pc = "kick" /\ pc' = IF written < msgLen THEN "space" ELSE "drain"
      \/ pc = "space" /\ pc' = "some"
      \/ pc = "drain" /\ outCons = outProd /\ pc' = IF crashed THEN "dead" ELSE "idle"
    BY DEF WriteKick, WaitSpace, WaitDrain
<1>4. Writing /\ msg \in Nat \ {0} /\ msgLen \in Nat /\ written \in Nat /\ written <= msgLen
    BY <1>3, MessageIs DEF OutInv, OutTypes, Writing, Progress
<1>5. OutTypes'
    BY <1>2, <1>3 DEF OutInv, OutTypes
<1>6. Room' /\ KnownMessages' /\ PartIsReady'
    BY <1>2, <1>3 DEF OutInv, Room, KnownMessages, PartIsReady
<1>7. Progress'
    BY <1>2, <1>3, <1>4 DEF Progress, Writing
<1>8. MessagesAreWhole'
    <2>1. CASE pc = "kick"
        BY <1>2, <1>3, <2>1 DEF OutInv, MessagesAreWhole, Writing
    <2>2. CASE pc = "space"
        BY <1>3, <2>2 DEF MessagesAreWhole, Writing
    <2>3. CASE pc = "drain"
        <3>1. written = msgLen
            BY <2>3 DEF OutInv, Progress
        <3> QED BY <1>2, <1>3, <2>3, <3>1 DEF OutInv, MessagesAreWhole, Writing
    <2> QED BY <1>3, <2>1, <2>2, <2>3
<1> QED BY <1>5, <1>6, <1>7, <1>8 DEF OutInv

LEMMA TakeKeepsOut ==
    ASSUME OutInv, DaemonTake
    PROVE  OutInv'
<1>1. /\ outCons' \in Index /\ log' \in Seq(Byte) /\ Stream' = Stream /\ Used' <= Used /\ Used' \in Nat
      /\ outCons # outProd
    BY Takes DEF OutInv
<1>2. UNCHANGED <<out, outProd, pc, msgs, written, prod, crashed>>
    BY DEF DaemonTake, writeVars
<1>3. msg' = msg /\ msgLen' = msgLen /\ (EndsWithMsg' <=> EndsWithMsg) /\ (Writing' <=> Writing)
    BY <1>1, <1>2 DEF msg, msgLen, EndsWithMsg, Writing
<1>4. OutTypes'
    BY <1>1, <1>2 DEF OutInv, OutTypes
<1>5. Used \in Nat /\ OutSize \in Nat
    BY StreamIs, RingAssumption DEF OutInv
<1>6. Room' /\ KnownMessages'
    BY <1>1, <1>3, <1>5 DEF OutInv, Room, KnownMessages
<1>7. Progress'
    BY <1>2, <1>3 DEF OutInv, Progress
<1>8. PartIsReady'
    <2>1. \A b \in Nat : Part(written, b)' = Part(written, b)
        BY <1>2, <1>3 DEF Part
    <2>2. SUFFICES ASSUME pc = "publish" PROVE PartIsReady'
        BY <1>2 DEF PartIsReady
    <2>3. written \in Nat /\ Used + written <= OutSize
        BY <2>2 DEF OutInv, OutTypes, PartIsReady
    <2>4. Used' + written' <= OutSize
        <3>1. Used' <= Used /\ Used' \in Nat /\ written' = written
            BY <1>1, <1>2
        <3>2. \A u \in Nat, v \in Nat, n \in Nat, size \in Nat : v <= u /\ u + n <= size => v + n <= size
            OBVIOUS
        <3> QED BY <1>5, <2>3, <3>1, <3>2, Zenon
    <2> QED BY <1>2, <1>3, <2>1, <2>2, <2>4 DEF OutInv, PartIsReady
<1>9. MessagesAreWhole'
    BY <1>1, <1>2, <1>3 DEF OutInv, MessagesAreWhole
<1> QED BY <1>4, <1>6, <1>7, <1>8, <1>9 DEF OutInv

LEMMA OutInit == Init => OutInv
<1> SUFFICES ASSUME Init PROVE OutInv
    OBVIOUS
<1>1. OutTypes
    <2>1. outProd \in Index /\ outCons \in Index
        BY RingAssumption DEF Init, Index
    <2>2. out \in [0..(OutSize - 1) -> Byte]
        BY DEF Init, Byte
    <2>3. msgs = <<>> /\ log = <<>> /\ written = 0 /\ crashed = FALSE
        BY DEF Init
    <2>4. msgs \in Seq(MsgLens) /\ log \in Seq(Byte)
        BY <2>3
    <2>5. pc = "idle"
        BY DEF Init
    <2> QED BY <2>1, <2>2, <2>3, <2>4, <2>5 DEF OutTypes
<1>2. Stream = <<>> /\ Used = 0
    BY <1>1, StreamIsLog DEF Init
<1>3. msg = 0
    BY DEF Init, msg
<1> QED BY <1>1, <1>2, <1>3, RingAssumption
        DEF OutInv, Room, Progress, PartIsReady, MessagesAreWhole, KnownMessages, Writing, Init

LEMMA OutStep == OutInv /\ [Next]_vars => OutInv'
<1> SUFFICES ASSUME OutInv, [Next]_vars PROVE OutInv'
    OBVIOUS
<1>1. ASSUME NEW n \in MsgLens, Write(n) PROVE OutInv'
    BY <1>1, EnterKeepsOut DEF Write, OutInv, OutTypes
<1>2. ASSUME NEW n \in MsgLens, Exception(n) PROVE OutInv'
    BY <1>2, EnterKeepsOut DEF Exception
<1>3. CASE Writer
    BY <1>3, CopyKeepsOut, PublishKeepsOut, WaitKeepsOut DEF Writer
<1>4. ASSUME NEW n \in ReadLens, Read(n) PROVE OutInv'
    BY <1>4, OutFrame DEF Read, Writing, daemonVars
<1>5. CASE Reader
    BY <1>5, OutFrame
       DEF Reader, ReadTest, ReadCheck, ReadPoll, ReadCopy, ReadPublish, Writing, daemonVars
<1>6. CASE DaemonTake
    BY <1>6, TakeKeepsOut
<1>7. CASE DaemonWake \/ DaemonNotify \/ DaemonSleep \/ DaemonType
    BY <1>7, OutFrame DEF DaemonWake, DaemonNotify, DaemonSleep, DaemonType
<1>8. CASE Finished \/ UNCHANGED vars
    BY <1>8, OutFrame DEF Finished, vars, daemonVars
<1> QED BY <1>1, <1>2, <1>3, <1>4, <1>5, <1>6, <1>7, <1>8 DEF Next, Daemon

\* What was printed is in the ring and in xenconsoled's hands, in the order of
\* one part after the other, and what pv_console_write() has returned from is
\* with xenconsoled.
THEOREM OutputInvariance == Spec => []OutInv
<1> QED BY OutInit, OutStep, PTL DEF Spec

\* pv_console_write() returns only when xenconsoled has all of the message,
\* the one of panic() and messages longer than the ring included.
THEOREM WritesAreSynchronous == Spec => []WriteIsSynchronous
<1>1. OutInv => WriteIsSynchronous
    <2> SUFFICES ASSUME OutInv, pc \in {"idle", "dead"}, msg > 0
                 PROVE  /\ outCons = outProd /\ Len(log) >= msgLen
                        /\ \A k \in 1..msgLen : log[Len(log) - msgLen + k] = <<msg, k>>
        BY DEF WriteIsSynchronous
    <2>1. outCons = outProd /\ EndsWithMsg
        BY DEF OutInv, MessagesAreWhole, Writing
    <2>2. Stream = log
        BY <2>1, StreamIsLog DEF OutInv
    <2> QED BY <2>1, <2>2 DEF EndsWithMsg
<1> QED BY <1>1, OutputInvariance, PTL

-----------------------------------------------------------------------------
(* The order of output, for messages that fit the ring.                    *)

MessagesFit == \A n \in MsgLens : n <= OutSize

\* Until a panic, a write finds the ring empty and needs one part only.
OneAtATime ==
    /\ pc # "space" /\ (pc = "some" => written = 0)
    /\ pc \notin {"kick", "drain"} => outCons = outProd
    /\ pc \in {"publish", "kick", "drain"} => written = msgLen

\* The message that is about to be published follows all of the one before.
Continues ==
    /\ msg = 0 => Len(Stream) = 0
    /\ pc \in {"some", "publish"} /\ Len(Stream) > 0 =>
          msg > 1 /\ Stream[Len(Stream)] = <<msg - 1, msgs[msg - 1]>>

OrderInv == ~crashed => OneAtATime /\ Continues /\ InOrder

LEMMA InOrderIs == InOrder <=> \A k \in 2..Len(Stream) : Follows(Stream[k], Stream[k - 1])
BY DEF InOrder, Stream

LEMMA InOrderFrame ==
    ASSUME Stream' = Stream, UNCHANGED <<msgs, crashed>>, InOrder
    PROVE  InOrder'
BY DEF InOrder, Stream, Follows

LEMMA OrderFrame ==
    ASSUME OutInv, OrderInv, UNCHANGED <<msgs, written, crashed, outProd>>, Stream' = Stream,
           \/ pc' = pc
           \/ pc = "kick" /\ pc' = "drain"
           \/ /\ pc \notin {"some", "publish", "kick", "space", "drain"}
              /\ pc' \notin {"some", "publish", "kick", "space", "drain"},
           outCons' = outCons \/ pc' \in {"kick", "drain"}
    PROVE  OrderInv'
<1> SUFFICES ASSUME ~crashed PROVE (OneAtATime /\ Continues /\ InOrder)'
    BY DEF OrderInv
<1>1. InOrder'
    BY InOrderFrame DEF OrderInv
<1>2. msg' = msg /\ msgLen' = msgLen
    BY DEF msg, msgLen
<1>3. OneAtATime'
    BY <1>2 DEF OrderInv, OneAtATime
<1>4. Continues'
    BY <1>2 DEF OrderInv, Continues
<1> QED BY <1>1, <1>3, <1>4

LEMMA WriteKeepsOrder ==
    ASSUME OutInv, OrderInv, NEW n \in MsgLens, Write(n)
    PROVE  OrderInv'
<1>1. /\ pc = "idle" /\ pc' = "some" /\ written' = 0 /\ msgs' = Append(msgs, n)
      /\ UNCHANGED <<out, outProd, outCons, log, crashed>>
    BY DEF Write, Enter, outVars, daemonVars
<1>2. Stream' = Stream
    BY <1>1 DEF Stream
<1>3. /\ msg \in Nat /\ msg' = msg + 1 /\ \A m \in 1..msg : msgs'[m] = msgs[m]
      /\ (msg > 0 => msgLen \in Nat \ {0}) /\ Len(Stream) \in Nat
    <2>1. msgs \in Seq(MsgLens)
        BY DEF OutInv, OutTypes
    <2>2. msg \in Nat /\ msg' = msg + 1 /\ \A m \in 1..msg : msgs'[m] = msgs[m]
        BY <1>1, <2>1 DEF msg
    <2> QED BY <2>2, MessageIs, StreamIs DEF OutInv
<1> SUFFICES ASSUME ~crashed PROVE (OneAtATime /\ Continues /\ InOrder)'
    BY <1>1 DEF OrderInv
<1>4. OneAtATime'
    BY <1>1 DEF OrderInv, OneAtATime
<1>5. Continues'
    <2>1. SUFFICES ASSUME Len(Stream) > 0
                   PROVE  msg' > 1 /\ Stream[Len(Stream)] = <<msg' - 1, msgs'[msg' - 1]>>
        BY <1>2, <1>3 DEF Continues
    <2>2. msg > 0
        BY <1>3, <2>1 DEF OrderInv, Continues
    <2>3. EndsWithMsg
        BY <1>1, <2>2 DEF OutInv, MessagesAreWhole, Writing
    <2>4. Stream[Len(Stream)] = <<msg, msgLen>>
        <3>1. msgLen \in 1..msgLen /\ Len(Stream) - msgLen + msgLen = Len(Stream)
            BY <1>3, <2>2
        <3> QED BY <2>3, <3>1 DEF EndsWithMsg
    <2>5. msg' - 1 = msg /\ msgs'[msg] = msgLen
        BY <1>3, <2>2 DEF msgLen
    <2> QED BY <1>3, <2>2, <2>4, <2>5
<1>6. InOrder'
    <2>1. ASSUME NEW k \in 2..Len(Stream) PROVE Follows(Stream[k], Stream[k - 1])'
        <3>1. k - 1 \in 1..Len(Stream)
            BY <1>3
        <3>2. Stream[k - 1][1] \in 1..msg
            BY <3>1 DEF OutInv, KnownMessages
        <3>3. msgs'[Stream[k - 1][1]] = msgs[Stream[k - 1][1]]
            BY <1>3, <3>2
        <3>4. Follows(Stream[k], Stream[k - 1])
            BY InOrderIs DEF OrderInv
        <3> QED BY <1>1, <1>2, <3>3, <3>4 DEF Follows
    <2> QED BY <1>2, <2>1 DEF InOrder, Stream
<1> QED BY <1>4, <1>5, <1>6

LEMMA CopyKeepsOrder ==
    ASSUME OutInv, OrderInv, MessagesFit, WriteSome
    PROVE  OrderInv'
<1>1. /\ pc = "some" /\ pc' = "publish" /\ UNCHANGED <<outProd, outCons, msgs, crashed>>
      /\ written' = Least(msgLen - written, OutSize - IdxSub(outProd, outCons))
    BY DEF WriteSome
<1>2. Stream' = Stream
    BY CopyKeepsOut
<1> SUFFICES ASSUME ~crashed PROVE (OneAtATime /\ Continues /\ InOrder)'
    BY <1>1 DEF OrderInv
<1>3. msg' = msg /\ msgLen' = msgLen
    BY <1>1 DEF msg, msgLen
<1>4. written' = msgLen'
    <2>1. written = 0 /\ outCons = outProd
        BY <1>1 DEF OrderInv, OneAtATime
    <2>2. IdxSub(outProd, outCons) = 0
        BY <2>1, StreamIsLog DEF OutInv, Used
    <2>3. msg \in Nat \ {0}
        BY <1>1 DEF OutInv, Progress, Writing
    <2>4. msgLen \in Nat /\ msgLen <= OutSize /\ OutSize \in Nat
        <3>1. msgs \in Seq(MsgLens) /\ msg \in 1..Len(msgs)
            BY <2>3 DEF OutInv, OutTypes, msg
        <3>2. msgLen \in MsgLens
            BY <3>1 DEF msgLen
        <3> QED BY <3>2, RingAssumption DEF MessagesFit
    <2> QED BY <1>1, <1>3, <2>1, <2>2, <2>4 DEF Least
<1>5. OneAtATime'
    BY <1>1, <1>4 DEF OrderInv, OneAtATime
<1>6. Continues'
    BY <1>1, <1>2, <1>3 DEF OrderInv, Continues
<1>7. InOrder'
    BY <1>1, <1>2, InOrderFrame DEF OrderInv
<1> QED BY <1>5, <1>6, <1>7

LEMMA PublishKeepsOrder ==
    ASSUME OutInv, OrderInv, WritePublish
    PROVE  OrderInv'
<1>1. /\ pc = "publish" /\ pc' = "kick" /\ UNCHANGED <<msgs, written, crashed>>
    BY DEF WritePublish, writeVars
<1> SUFFICES ASSUME ~crashed PROVE (OneAtATime /\ Continues /\ InOrder)'
    BY <1>1 DEF OrderInv
<1>2. msg' = msg /\ msgLen' = msgLen /\ msg \in Nat \ {0} /\ msgLen \in Nat \ {0} /\ written = msgLen
    BY <1>1, MessageIs DEF OutInv, Progress, Writing, OrderInv, OneAtATime, msg, msgLen
<1>3. PICK b \in Nat : /\ b + written <= msgLen /\ Part(written, b) \in Seq(Byte)
                       /\ Stream' = Stream \o Part(written, b)
    BY PublishAppends
<1> DEFINE P == Part(written, b)
<1>4. /\ Stream \in Seq(Byte) /\ Len(Stream) \in Nat /\ P \in Seq(Byte) /\ Len(P) = written
      /\ \A k \in 1..written : P[k] = <<msg, k>>
    <2>1. b = 0
        BY <1>2, <1>3
    <2>2. Len(P) = written /\ \A k \in 1..written : P[k] = <<msg, b + k>>
        BY <1>2 DEF Part
    <2>3. Stream \in Seq(Byte) /\ Len(Stream) \in Nat /\ P \in Seq(Byte)
        BY <1>3, StreamIs DEF OutInv
    <2> QED BY <2>1, <2>2, <2>3
<1>5. Stream' = Stream \o P
    BY <1>3
<1> HIDE DEF P
<1>6. Len(Stream') = Len(Stream) + written
    <2>1. Stream \in Seq(Byte) /\ P \in Seq(Byte)
        BY <1>4
    <2>2. Len(Stream \o P) = Len(Stream) + Len(P)
        BY <2>1
    <2> QED BY <1>4, <1>5, <2>2
<1>7. ASSUME NEW k \in 1..written PROVE Stream'[Len(Stream) + k] = <<msg, k>>
    <2>1. k \in 1..Len(P) /\ P[k] = <<msg, k>>
        BY <1>4
    <2>2. (Stream \o P)[Len(Stream) + k] = P[k]
        BY <1>4, <2>1
    <2> QED BY <1>5, <2>1, <2>2
<1>8. ASSUME NEW k \in 1..Len(Stream) PROVE Stream'[k] = Stream[k]
    <2>1. (Stream \o P)[k] = Stream[k]
        BY <1>4
    <2> QED BY <1>5, <2>1
<1>9. OneAtATime' /\ Continues'
    BY <1>1, <1>2 DEF OrderInv, OneAtATime, Continues
<1>10. InOrder'
    <2>1. ASSUME NEW k \in 2..Len(Stream') PROVE Follows(Stream'[k], Stream'[k - 1])
        <3>1. CASE k <= Len(Stream)
            <4>1. k \in 2..Len(Stream) /\ k \in 1..Len(Stream) /\ k - 1 \in 1..Len(Stream)
                BY <1>4, <3>1
            <4> QED BY <1>8, <4>1, InOrderIs DEF OrderInv
        <3>2. CASE k = Len(Stream) + 1
            <4>1. Len(Stream) \in 1..Len(Stream) /\ k - 1 = Len(Stream) /\ 1 \in 1..written
                BY <1>2, <1>4, <3>2
            <4>2. Stream'[k] = <<msg, 1>> /\ Stream'[k - 1] = Stream[Len(Stream)]
                BY <1>7, <1>8, <3>2, <4>1
            <4>3. msg > 1 /\ Stream[Len(Stream)] = <<msg - 1, msgs[msg - 1]>>
                BY <1>1, <4>1 DEF OrderInv, Continues
            <4> QED BY <1>2, <4>2, <4>3 DEF Follows
        <3>3. CASE k > Len(Stream) + 1
            <4> DEFINE j == k - Len(Stream)
            <4>1. j \in 1..written /\ j - 1 \in 1..written /\ k = Len(Stream) + j
                  /\ k - 1 = Len(Stream) + (j - 1) /\ j = (j - 1) + 1
                BY <1>2, <1>4, <1>6, <3>3
            <4> HIDE DEF j
            <4>2. Stream'[k] = <<msg, j>> /\ Stream'[k - 1] = <<msg, j - 1>>
                BY <1>7, <4>1
            <4> QED BY <4>1, <4>2 DEF Follows
        <3> QED BY <1>4, <3>1, <3>2, <3>3
    <2>2. \A k \in 2..Len(Stream') : Follows(Stream[k], Stream[k - 1])'
        BY <1>1, <2>1 DEF Follows
    <2> QED BY <2>2 DEF InOrder, Stream
<1> QED BY <1>9, <1>10

LEMMA OrderInit == Init => OrderInv
<1> SUFFICES ASSUME Init PROVE OneAtATime /\ Continues /\ InOrder
    BY DEF OrderInv
<1>1. OutTypes /\ outCons = outProd /\ log = <<>> /\ pc = "idle" /\ written = 0
    BY OutInit DEF OutInv, Init
<1>2. Stream = <<>>
    BY <1>1, StreamIsLog
<1>3. Len(Stream) = 0
    BY <1>2
<1>4. \A k \in 2..Len(Stream) : FALSE
    BY <1>3
<1> QED BY <1>1, <1>3, <1>4, InOrderIs DEF OneAtATime, Continues

LEMMA OrderStep == MessagesFit /\ OutInv /\ OrderInv /\ [Next]_vars => OrderInv'
<1> SUFFICES ASSUME MessagesFit, OutInv, OrderInv, [Next]_vars PROVE OrderInv'
    OBVIOUS
<1> DEFINE Same == UNCHANGED <<outVars, msgs, written, crashed, log>>
           Outside(p) == p \notin {"some", "publish", "kick", "space", "drain"}
<1>1. ASSUME Same PROVE Stream' = Stream /\ UNCHANGED <<msgs, written, crashed, outProd, outCons>>
    BY <1>1 DEF Stream, outVars
<1>2. ASSUME Same, pc' = pc \/ (Outside(pc) /\ Outside(pc')) PROVE OrderInv'
    BY <1>1, <1>2, OrderFrame
<1> HIDE DEF Same
<1>3. ASSUME NEW n \in MsgLens, Write(n) PROVE OrderInv'
    BY <1>3, WriteKeepsOrder
<1>4. ASSUME NEW n \in MsgLens, Exception(n) PROVE OrderInv'
    BY <1>4 DEF Exception, OrderInv
<1>5. CASE WriteSome
    BY <1>5, CopyKeepsOrder
<1>6. CASE WritePublish
    BY <1>6, PublishKeepsOrder
<1>7. CASE WriteKick
    <2>1. Same /\ pc = "kick" /\ pc' = IF written < msgLen THEN "space" ELSE "drain"
        BY <1>7 DEF WriteKick, Same, writeVars, daemonVars
    <2>2. crashed' = crashed
        BY <2>1 DEF Same
    <2>3. SUFFICES ASSUME ~crashed PROVE OrderInv'
        BY <2>2 DEF OrderInv
    <2>4. written = msgLen /\ written \in Nat
        BY <2>1, <2>3 DEF OrderInv, OneAtATime, OutInv, OutTypes
    <2>5. pc' = "drain"
        BY <2>1, <2>4
    <2> QED BY <1>1, <2>1, <2>5, OrderFrame
<1>8. CASE WaitSpace
    BY <1>8 DEF WaitSpace, OrderInv, OneAtATime, writeVars
<1>9. CASE WaitDrain
    <2>1. /\ Same /\ pc = "drain" /\ outCons = outProd /\ pc' = IF crashed THEN "dead" ELSE "idle"
        BY <1>9 DEF WaitDrain, Same, writeVars, daemonVars
    <2>2. Stream' = Stream /\ UNCHANGED <<msgs, written, crashed, outProd, outCons>>
        BY <1>1, <2>1
    <2>3. SUFFICES ASSUME ~crashed PROVE (OneAtATime /\ Continues /\ InOrder)'
        BY <2>2 DEF OrderInv
    <2>4. msg' = msg
        BY <2>2 DEF msg
    <2>5. InOrder'
        BY <2>2, <2>3, InOrderFrame DEF OrderInv
    <2> QED BY <2>1, <2>2, <2>3, <2>4, <2>5 DEF OrderInv, OneAtATime, Continues
<1>10. ASSUME NEW n \in ReadLens, Read(n) PROVE OrderInv'
    <2>1. Same /\ Outside(pc) /\ Outside(pc')
        BY <1>10 DEF Read, Same, writeVars, daemonVars
    <2> QED BY <1>2, <2>1
<1>11. CASE Reader
    <2>1. Same /\ Outside(pc) /\ Outside(pc')
        BY <1>11 DEF Reader, ReadTest, ReadCheck, ReadPoll, ReadCopy, ReadPublish, Same, writeVars, daemonVars
    <2> QED BY <1>2, <2>1
<1>12. CASE DaemonTake
    <2>1. Stream' = Stream /\ outCons # outProd
        BY <1>12, Takes DEF OutInv
    <2>2. UNCHANGED <<msgs, written, crashed, outProd, pc>>
        BY <1>12 DEF DaemonTake, writeVars
    <2>3. SUFFICES ASSUME ~crashed PROVE OrderInv'
        BY <2>2 DEF OrderInv
    <2>4. pc \in {"kick", "drain"}
        BY <2>1, <2>3 DEF OrderInv, OneAtATime
    <2> QED BY <2>1, <2>2, <2>4, OrderFrame
<1>13. CASE DaemonWake \/ DaemonNotify \/ DaemonSleep \/ DaemonType
    <2>1. Same /\ pc' = pc
        BY <1>13 DEF DaemonWake, DaemonNotify, DaemonSleep, DaemonType, Same, writeVars
    <2> QED BY <1>2, <2>1
<1>14. CASE Finished \/ UNCHANGED vars
    <2>1. Same /\ pc' = pc
        BY <1>14 DEF Finished, vars, Same, writeVars, daemonVars
    <2> QED BY <1>2, <2>1
<1> QED BY <1>3, <1>4, <1>5, <1>6, <1>7, <1>8, <1>9, <1>10, <1>11, <1>12, <1>13, <1>14
        DEF Next, Writer, Daemon

-----------------------------------------------------------------------------
(* Input.                                                                  *)

\* What is read next, and all that was typed: returned, or waiting in the ring.
Reached == IF pc = "taken" THEN rprod ELSE inCons
Input == got \o Between(in, InSize, Reached, inProd)

InTypes ==
    /\ in \in [0..(InSize - 1) -> Nat] /\ {inProd, inCons, rprod, seen} \subseteq Index
    /\ got \in Seq(Nat) /\ typed \in Nat /\ pending \in BOOLEAN /\ rlen \in Nat

\* A read has taken no more than it saw, and saw no more than there is.
ReadsWhatIsThere ==
    /\ pc = "taken" => IdxSub(rprod, inCons) <= IdxSub(seen, inCons)
    /\ IdxSub(seen, inCons) <= IdxSub(inProd, inCons)
    /\ IdxSub(inProd, inCons) <= InSize

InputIsWhole == Len(Input) = typed /\ \A k \in 1..Len(Input) : Input[k] = k

\* What came since the last look is announced, or about to be.
NewsIsAnnounced ==
    pc \notin {"check", "copy"} /\ inProd # seen => pending \/ daemonPc = "notify"

InInv == InTypes /\ ReadsWhatIsThere /\ InputIsWhole /\ NewsIsAnnounced

LEMMA InputIs ==
    ASSUME InTypes, ReadsWhatIsThere
    PROVE  /\ Reached \in Index /\ Between(in, InSize, Reached, inProd) \in Seq(Nat)
           /\ Len(Between(in, InSize, Reached, inProd)) = IdxSub(inProd, Reached)
           /\ IdxSub(inProd, Reached) \in Nat /\ IdxSub(inProd, Reached) <= IdxSub(inProd, inCons)
           /\ Len(got) \in Nat
<1>1. Reached \in Index /\ inProd \in Index /\ inCons \in Index /\ rprod \in Index /\ seen \in Index
    BY DEF InTypes, Reached
<1>2. Lies(in, InSize, Nat, Reached, inProd)
    BY <1>1, Sizes, BetweenIs DEF InTypes
<1>3. CASE pc = "taken"
    <2>1. IdxSub(rprod, inCons) <= IdxSub(seen, inCons) /\ IdxSub(seen, inCons) <= IdxSub(inProd, inCons)
        BY <1>3 DEF ReadsWhatIsThere
    <2>2. /\ IdxSub(rprod, inCons) = IF rprod >= inCons THEN rprod - inCons ELSE rprod - inCons + IdxMod
          /\ IdxSub(seen, inCons) = IF seen >= inCons THEN seen - inCons ELSE seen - inCons + IdxMod
          /\ IdxSub(inProd, inCons) = IF inProd >= inCons THEN inProd - inCons ELSE inProd - inCons + IdxMod
          /\ IdxSub(inProd, rprod) = IF inProd >= rprod THEN inProd - rprod ELSE inProd - rprod + IdxMod
        BY <1>1, IdxSubIs
    <2>3. IdxSub(inProd, rprod) <= IdxSub(inProd, inCons)
        BY <1>1, <2>1, <2>2, RingAssumption DEF Index
    <2> QED BY <1>1, <1>2, <1>3, <2>3 DEF Lies, Reached, InTypes
<1>4. CASE pc # "taken"
    <2>1. Reached = inCons /\ IdxSub(inProd, Reached) \in Nat
        BY <1>2, <1>4 DEF Reached, Lies
    <2> QED BY <1>1, <1>2, <2>1 DEF Lies, InTypes
<1> QED BY <1>3, <1>4

LEMMA InFrame ==
    ASSUME InInv, UNCHANGED <<inVars, rprod, got, seen, typed>>, rlen' \in Nat, pending' \in BOOLEAN,
           pc' = pc \/ (pc # "taken" /\ pc' # "taken"), NewsIsAnnounced'
    PROVE  InInv'
<1>1. UNCHANGED <<in, inProd, inCons, rprod, got, seen, typed>>
    BY DEF inVars
<1>2. InTypes' /\ ReadsWhatIsThere'
    BY <1>1 DEF InInv, InTypes, ReadsWhatIsThere
<1>3. Input' = Input
    BY <1>1 DEF Input, Reached
<1> QED BY <1>1, <1>2, <1>3 DEF InInv, InputIsWhole

\* What is typed goes behind what waits, and is the next in order.
LEMMA TypeKeepsIn ==
    ASSUME InInv, DaemonType
    PROVE  InInv'
<1>1. PICK n \in 1..Least(MaxTyped - typed, InSize - IdxSub(inProd, inCons)) :
          /\ in' = Stored(in, InSize, inProd, [k \in 1..n |-> typed + k])
          /\ inProd' = IdxAdd(inProd, n)
          /\ typed' = typed + n
    BY DEF DaemonType
<1>2. UNCHANGED <<inCons, pc, rlen, rprod, got, seen, pending>> /\ daemonPc' = "notify"
    BY DEF DaemonType, readVars
<1> DEFINE data == [k \in 1..n |-> typed + k]
           A == Between(in, InSize, Reached, inProd)
<1>3. /\ Reached \in Index /\ A \in Seq(Nat) /\ IdxSub(inProd, Reached) \in Nat
      /\ IdxSub(inProd, Reached) <= IdxSub(inProd, inCons) /\ Len(got) \in Nat
    BY InputIs DEF InInv
<1>4. /\ IsSize(InSize) /\ in \in [0..(InSize - 1) -> Nat] /\ inProd \in Index /\ inCons \in Index
      /\ seen \in Index /\ rprod \in Index /\ got \in Seq(Nat) /\ typed \in Nat
    BY Sizes DEF InInv, InTypes
<1>5. IdxSub(inProd, inCons) \in Nat /\ InSize \in Nat /\ InSize < IdxMod /\ IdxMod \in Nat
    BY <1>4, IdxSubIs, RingAssumption DEF Index
<1>6. n \in Nat /\ n <= InSize - IdxSub(inProd, inCons)
    BY <1>4, <1>5, RingAssumption DEF Least
<1>7. data \in Seq(Nat) /\ Len(data) = n
    BY <1>4, <1>6
<1>8. /\ inProd' \in Index /\ IdxSub(inProd', inProd) = n
      /\ IdxSub(inProd', inCons) = IdxSub(inProd, inCons) + n
    <2>1. IdxSub(inProd, inCons) + n < IdxMod
        BY <1>5, <1>6
    <2> QED BY <1>1, <1>4, <1>6, <2>1, Moved
<1> HIDE DEF data
<1>9. /\ in' \in [0..(InSize - 1) -> Nat]
      /\ Between(in', InSize, Reached, inProd) = A
      /\ Between(in', InSize, inProd, inProd') = data
    <2>1. IdxSub(inProd, Reached) + Len(data) <= InSize /\ IdxSub(inProd', inProd) = Len(data)
        BY <1>3, <1>5, <1>6, <1>7, <1>8
    <2>2. in' = Stored(in, InSize, inProd, data)
        BY <1>1 DEF data
    <2>3. StoresBehind(in, InSize, Nat, Reached, inProd, data, inProd')
        BY <1>3, <1>4, <1>7, <1>8, <2>1, StoredBetween
    <2> QED BY <2>2, <2>3 DEF StoresBehind
<1>10. Reached' = Reached
    BY <1>2 DEF Reached
<1>11. Joined(in', InSize, Reached, inProd, inProd')
    <2>1. Fit(InSize, Reached, inProd, inProd')
        BY <1>3, <1>5, <1>6, <1>8 DEF Fit
    <2> QED BY <1>3, <1>4, <1>8, <1>9, <2>1, Join
<1>12. Input' = got \o (A \o data) /\ Input = got \o A
    BY <1>2, <1>9, <1>10, <1>11 DEF Input, Joined
<1> HIDE DEF A
<1>13. Input' = Input \o data
    <2>1. got \in Seq(Nat) /\ A \in Seq(Nat) /\ data \in Seq(Nat)
        BY <1>3, <1>4, <1>7, Zenon
    <2> DEFINE X == Nat
    <2>2. got \in Seq(X) /\ A \in Seq(X) /\ data \in Seq(X)
        BY <2>1
    <2> HIDE DEF X, data
    <2>3. (got \o A) \o data = got \o (A \o data)
        BY <2>2, ConcatAssoc
    <2> QED BY <1>12, <2>3
<1>14. Input \in Seq(Nat) /\ Len(Input) = typed /\ \A k \in 1..typed : Input[k] = k
    BY <1>3, <1>4, <1>12 DEF InInv, InputIsWhole
<1>15. Len(Input') = typed + n
    <2>1. Len(Input \o data) = Len(Input) + Len(data)
        BY <1>7, <1>14
    <2> QED BY <1>7, <1>13, <1>14, <2>1
<1>16. ASSUME NEW k \in 1..(typed + n) PROVE Input'[k] = k
    <2>1. CASE k <= typed
        <3>1. (Input \o data)[k] = Input[k]
            BY <1>4, <1>7, <1>14, <2>1
        <3> QED BY <1>4, <1>13, <1>14, <2>1, <3>1
    <2>2. CASE k > typed
        <3>1. PICK j \in 1..n : k = typed + j
            BY <1>4, <1>6, <2>2
        <3>2. (Input \o data)[Len(Input) + j] = data[j]
            BY <1>7, <1>14, <3>1
        <3>3. data[j] = typed + j
            BY DEF data
        <3> QED BY <1>13, <1>14, <3>1, <3>2, <3>3
    <2> QED BY <1>4, <2>1, <2>2
<1>17. InputIsWhole'
    BY <1>1, <1>15, <1>16 DEF InputIsWhole
<1>18. InTypes'
    BY <1>1, <1>2, <1>4, <1>6, <1>8, <1>9 DEF InInv, InTypes
<1>19. ReadsWhatIsThere'
    <2>1. IdxSub(seen, inCons) \in Nat /\ IdxSub(seen, inCons) <= IdxSub(inProd, inCons)
        BY <1>4, IdxSubIs, RingAssumption DEF InInv, ReadsWhatIsThere, Index
    <2> QED BY <1>2, <1>5, <1>6, <1>8, <2>1 DEF InInv, ReadsWhatIsThere
<1>20. NewsIsAnnounced'
    BY <1>2 DEF NewsIsAnnounced
<1> QED BY <1>17, <1>18, <1>19, <1>20 DEF InInv

\* A read appends what it takes from the front of the ring.
LEMMA CopyKeepsIn ==
    ASSUME InInv, ReadCopy
    PROVE  InInv'
<1> DEFINE s == Least(rlen, IdxSub(inProd, inCons))
           A == Between(in, InSize, inCons, inProd)
           B == Between(in, InSize, inCons, IdxAdd(inCons, s))
           C == Between(in, InSize, IdxAdd(inCons, s), inProd)
<1>1. /\ got' = got \o SubSeq(A, 1, s) /\ rprod' = IdxAdd(inCons, s) /\ seen' = inProd
      /\ pc = "copy" /\ pc' = "taken"
      /\ UNCHANGED <<in, inProd, inCons, rlen, typed, pending, daemonPc>>
    BY DEF ReadCopy, inVars, daemonVars
<1>2. /\ IsSize(InSize) /\ in \in [0..(InSize - 1) -> Nat] /\ inProd \in Index /\ inCons \in Index
      /\ got \in Seq(Nat) /\ rlen \in Nat
    BY Sizes DEF InInv, InTypes
<1>3. IdxSub(inProd, inCons) \in Nat /\ IdxSub(inProd, inCons) <= InSize
    BY <1>2, IdxSubIs, RingAssumption DEF Index, InInv, ReadsWhatIsThere
<1>4. s \in 0..IdxSub(inProd, inCons)
    BY <1>2, <1>3 DEF Least
<1> HIDE DEF s
<1>5. /\ IdxAdd(inCons, s) \in Index /\ IdxSub(IdxAdd(inCons, s), inCons) = s
    BY <1>2, <1>4, Consumed
<1>6. Joined(in, InSize, inCons, IdxAdd(inCons, s), inProd)
    BY <1>2, <1>3, <1>4, Split
<1>7. B \in Seq(Nat) /\ Len(B) = s /\ C \in Seq(Nat)
    <2>1. Lies(in, InSize, Nat, inCons, IdxAdd(inCons, s)) /\ Lies(in, InSize, Nat, IdxAdd(inCons, s), inProd)
        BY <1>2, <1>5, BetweenIs
    <2> QED BY <1>5, <2>1 DEF Lies
<1>8. A = B \o C
    BY <1>6 DEF Joined
<1>9. Input = got \o A /\ Input' = got' \o C
    BY <1>1 DEF Input, Reached
<1> HIDE DEF A, B, C
<1>10. SubSeq(A, 1, s) = B
    BY <1>4, <1>7, <1>8
<1>11. Input' = Input
    <2>1. (got \o B) \o C = got \o (B \o C)
        BY <1>2, <1>7, ConcatAssoc
    <2> QED BY <1>1, <1>8, <1>9, <1>10, <2>1
<1>12. got' \in Seq(Nat)
    BY <1>1, <1>2, <1>7, <1>10
<1>13. InTypes'
    BY <1>1, <1>2, <1>5, <1>12 DEF InInv, InTypes
<1>14. InputIsWhole'
    BY <1>1, <1>11 DEF InInv, InputIsWhole
<1>15. ReadsWhatIsThere'
    BY <1>1, <1>3, <1>4, <1>5 DEF ReadsWhatIsThere
<1>16. NewsIsAnnounced'
    BY <1>1 DEF NewsIsAnnounced
<1> QED BY <1>13, <1>14, <1>15, <1>16 DEF InInv

LEMMA PublishKeepsIn ==
    ASSUME InInv, ReadPublish
    PROVE  InInv'
<1>1. /\ pc = "taken" /\ pc' = "idle" /\ inCons' = rprod
      /\ UNCHANGED <<in, inProd, rprod, seen, got, rlen, typed, pending, daemonPc>>
    BY DEF ReadPublish, readVars, daemonVars
<1>2. Input' = Input
    BY <1>1 DEF Input, Reached
<1>3. rprod \in Index /\ inCons \in Index /\ inProd \in Index /\ seen \in Index
    BY DEF InInv, InTypes
<1>4. ReadsWhatIsThere'
    <2>1. /\ IdxSub(rprod, inCons) <= IdxSub(seen, inCons) /\ IdxSub(seen, inCons) <= IdxSub(inProd, inCons)
          /\ IdxSub(inProd, inCons) <= InSize
        BY <1>1 DEF InInv, ReadsWhatIsThere
    <2>2. /\ IdxSub(rprod, inCons) = IF rprod >= inCons THEN rprod - inCons ELSE rprod - inCons + IdxMod
          /\ IdxSub(seen, inCons) = IF seen >= inCons THEN seen - inCons ELSE seen - inCons + IdxMod
          /\ IdxSub(inProd, inCons) = IF inProd >= inCons THEN inProd - inCons ELSE inProd - inCons + IdxMod
          /\ IdxSub(inProd, rprod) = IF inProd >= rprod THEN inProd - rprod ELSE inProd - rprod + IdxMod
          /\ IdxSub(seen, rprod) = IF seen >= rprod THEN seen - rprod ELSE seen - rprod + IdxMod
        BY <1>3, IdxSubIs
    <2>3. IdxSub(seen, rprod) <= IdxSub(inProd, rprod) /\ IdxSub(inProd, rprod) <= InSize
        BY <1>3, <2>1, <2>2, RingAssumption DEF Index
    <2> QED BY <1>1, <2>3 DEF ReadsWhatIsThere
<1>5. InTypes' /\ InputIsWhole' /\ NewsIsAnnounced'
    BY <1>1, <1>2, <1>3 DEF InInv, InTypes, InputIsWhole, NewsIsAnnounced
<1> QED BY <1>4, <1>5 DEF InInv

LEMMA InInit == Init => InInv
<1> SUFFICES ASSUME Init PROVE InInv
    OBVIOUS
<1>1. /\ inProd \in Index /\ inCons \in Index /\ rprod \in Index /\ seen \in Index
      /\ inProd = inCons /\ seen = inProd /\ pc = "idle" /\ typed = 0 /\ got = <<>>
    BY RingAssumption DEF Init, Index
<1>2. InTypes
    <2>1. in \in [0..(InSize - 1) -> Nat]
        BY DEF Init
    <2>2. rlen = 0 /\ pending = FALSE
        BY DEF Init
    <2>3. got \in Seq(Nat)
        BY <1>1
    <2> QED BY <1>1, <2>1, <2>2, <2>3 DEF InTypes
<1>3. IdxSub(inProd, inCons) = 0
    BY <1>1, IdxSubIs, RingAssumption DEF Index
<1>4. ReadsWhatIsThere
    BY <1>1, <1>3, RingAssumption DEF ReadsWhatIsThere
<1>5. InputIsWhole
    <2>1. Between(in, InSize, Reached, inProd) \in Seq(Nat) /\ Len(Between(in, InSize, Reached, inProd)) = 0
        BY <1>1, <1>2, <1>3, <1>4, InputIs DEF Reached
    <2>2. Between(in, InSize, Reached, inProd) = <<>>
        BY <2>1
    <2>3. Input = <<>>
        BY <1>1, <2>2 DEF Input
    <2> QED BY <1>1, <2>3 DEF InputIsWhole
<1>6. NewsIsAnnounced
    BY <1>1 DEF NewsIsAnnounced
<1> QED BY <1>2, <1>4, <1>5, <1>6 DEF InInv

LEMMA InStep == InInv /\ [Next]_vars => InInv'
<1> SUFFICES ASSUME InInv, [Next]_vars PROVE InInv'
    OBVIOUS
<1> DEFINE Same == UNCHANGED <<inVars, rprod, got, seen, typed>>
<1>1. pending \in BOOLEAN /\ rlen \in Nat
    BY DEF InInv, InTypes
<1>2. ASSUME NEW n \in MsgLens, Write(n) \/ Exception(n) PROVE InInv'
    <2>1. /\ Same /\ UNCHANGED <<rlen, pending, daemonPc, inProd>> /\ pc' = "some"
          /\ pc \notin {"check", "copy", "taken"}
        BY <1>2 DEF Write, Exception, Enter, readVars, daemonVars, inVars
    <2>2. NewsIsAnnounced'
        BY <2>1 DEF InInv, NewsIsAnnounced
    <2> QED BY <1>1, <2>1, <2>2, InFrame
<1>3. CASE Writer
    <2>1. /\ Same /\ UNCHANGED <<rlen, pending, daemonPc, inProd>>
          /\ pc \notin {"check", "copy", "taken"} /\ pc' \notin {"check", "copy", "taken"}
        BY <1>3 DEF Writer, WriteSome, WritePublish, WriteKick, WaitSpace, WaitDrain, readVars, daemonVars, inVars
    <2>2. NewsIsAnnounced'
        BY <2>1 DEF InInv, NewsIsAnnounced
    <2> QED BY <1>1, <2>1, <2>2, InFrame
<1>4. ASSUME NEW n \in ReadLens, Read(n) PROVE InInv'
    <2>1. Same /\ UNCHANGED <<pending, daemonPc, inProd>> /\ pc = "idle" /\ pc' = "test" /\ rlen' = n
        BY <1>4 DEF Read, daemonVars, inVars
    <2>2. rlen' \in Nat
        BY <2>1, RingAssumption
    <2>3. NewsIsAnnounced'
        BY <2>1 DEF InInv, NewsIsAnnounced
    <2> QED BY <1>1, <2>1, <2>2, <2>3, InFrame
<1>5. CASE ReadTest
    <2>1. /\ Same /\ UNCHANGED <<rlen, daemonPc, inProd>> /\ pc = "test" /\ pending' = FALSE
          /\ pc' = IF pending THEN "check" ELSE "poll"
        BY <1>5 DEF ReadTest, readVars, daemonVars, inVars
    <2>2. NewsIsAnnounced'
        BY <2>1 DEF InInv, NewsIsAnnounced
    <2> QED BY <1>1, <2>1, <2>2, InFrame
<1>6. CASE ReadCheck
    <2>1. /\ Same /\ UNCHANGED <<rlen, pending, daemonPc, inProd, inCons>> /\ pc = "check"
          /\ pc' = IF inCons = inProd THEN "poll" ELSE "copy"
        BY <1>6 DEF ReadCheck, readVars, daemonVars, inVars
    <2>2. inCons = inProd => seen = inProd
        <3>1. inCons \in Index /\ inProd \in Index /\ seen \in Index /\ IdxSub(seen, inCons) <= IdxSub(inProd, inCons)
            BY DEF InInv, InTypes, ReadsWhatIsThere
        <3>2. /\ IdxSub(seen, inCons) = IF seen >= inCons THEN seen - inCons ELSE seen - inCons + IdxMod
              /\ IdxSub(inProd, inCons) = IF inProd >= inCons THEN inProd - inCons ELSE inProd - inCons + IdxMod
            BY <3>1, IdxSubIs
        <3> QED BY <3>1, <3>2, RingAssumption DEF Index
    <2>3. NewsIsAnnounced'
        BY <2>1, <2>2 DEF NewsIsAnnounced
    <2> QED BY <1>1, <2>1, <2>3, InFrame
<1>7. CASE ReadPoll
    <2>1. Same /\ UNCHANGED <<rlen, pending, daemonPc, inProd>> /\ pc = "poll" /\ pc' = "test"
        BY <1>7 DEF ReadPoll, readVars, daemonVars, inVars
    <2>2. NewsIsAnnounced'
        BY <2>1 DEF InInv, NewsIsAnnounced
    <2> QED BY <1>1, <2>1, <2>2, InFrame
<1>8. CASE ReadCopy
    BY <1>8, CopyKeepsIn
<1>9. CASE ReadPublish
    BY <1>9, PublishKeepsIn
<1>10. CASE DaemonType
    BY <1>10, TypeKeepsIn
<1>11. CASE DaemonWake \/ DaemonTake \/ DaemonSleep
    <2>1. /\ Same /\ UNCHANGED <<rlen, pending, inProd, pc>> /\ daemonPc # "notify"
        BY <1>11 DEF DaemonWake, DaemonTake, DaemonSleep, readVars, inVars
    <2>2. NewsIsAnnounced'
        BY <2>1 DEF InInv, NewsIsAnnounced
    <2> QED BY <1>1, <2>1, <2>2, InFrame
<1>12. CASE DaemonNotify
    <2>1. Same /\ UNCHANGED <<rlen, inProd, pc>> /\ pending' = TRUE
        BY <1>12 DEF DaemonNotify, readVars, inVars
    <2>2. NewsIsAnnounced'
        BY <2>1 DEF NewsIsAnnounced
    <2> QED BY <1>1, <2>1, <2>2, InFrame
<1>13. CASE Finished \/ UNCHANGED vars
    <2>1. Same /\ UNCHANGED <<rlen, pending, daemonPc, inProd, pc>>
        BY <1>13 DEF Finished, vars, readVars, daemonVars, inVars
    <2>2. NewsIsAnnounced'
        BY <2>1 DEF InInv, NewsIsAnnounced
    <2> QED BY <1>1, <2>1, <2>2, InFrame
<1> QED BY <1>2, <1>3, <1>4, <1>5, <1>6, <1>7, <1>8, <1>9, <1>10, <1>11, <1>12, <1>13
        DEF Next, Reader, Daemon

\* What was typed is returned once and in order, or waits in the ring; what came
\* since the last look is announced.
THEOREM InputInvariance == Spec => []InInv
<1> QED BY InInit, InStep, PTL DEF Spec

\* pv_console_read_some() never sleeps on what it has not seen: the event of
\* whatever came since its last look is pending or about to be sent.
THEOREM ReadsWakeUp == Spec => []SleepsOnlyWithoutNews
<1>1. InInv => SleepsOnlyWithoutNews
    BY DEF InInv, NewsIsAnnounced, SleepsOnlyWithoutNews
<1> QED BY <1>1, InputInvariance, PTL

\* If no message is longer than the ring, each direction is a stream: what is
\* printed arrives whole, once and in order unless a panic cuts a message
\* short, and what is typed is read once and in order.
THEOREM StreamsKeepOrder == ASSUME MessagesFit PROVE Spec => []StreamsInOrder
<1>1. OrderInv /\ InInv => StreamsInOrder
    <2> SUFFICES ASSUME OrderInv, InInv PROVE StreamsInOrder
        OBVIOUS
    <2>1. ASSUME NEW k \in 1..Len(got) PROVE got[k] = k
        <3> DEFINE A == Between(in, InSize, Reached, inProd)
        <3>1. A \in Seq(Nat) /\ got \in Seq(Nat) /\ Input = got \o A
            BY InputIs DEF InInv, InTypes, Input
        <3> HIDE DEF A
        <3>2. (got \o A)[k] = got[k] /\ k \in 1..Len(got \o A)
            BY <3>1
        <3> QED BY <3>1, <3>2 DEF InInv, InputIsWhole
    <2> QED BY <2>1 DEF OrderInv, StreamsInOrder
<1>2. OutInv /\ OrderInv /\ [Next]_vars => OrderInv'
    BY OrderStep
<1> QED BY <1>1, <1>2, OrderInit, OutputInvariance, InputInvariance, PTL DEF Spec

-----------------------------------------------------------------------------
(* The console of ConsoleStream.                                           *)

\* Nothing but panic() runs after an exception; until then the ring holds bytes
\* of the last message only.
TurnInv ==
    /\ crashed => Writing \/ pc = "dead"
    /\ ~crashed /\ pc \in {"kick", "drain"} => Used <= msgLen

LEMMA TurnInit == Init => TurnInv
BY DEF Init, TurnInv

LEMMA TurnStep == OutInv /\ OrderInv /\ TurnInv /\ [Next]_vars => TurnInv'
<1> SUFFICES ASSUME OutInv, OrderInv, TurnInv, [Next]_vars PROVE TurnInv'
    OBVIOUS
<1> DEFINE Same == UNCHANGED <<outVars, msgs, crashed>>
           Busy(p) == p \in {"some", "publish", "kick", "space", "drain", "dead"}
<1>1. ASSUME Same, pc' = pc \/ (~Busy(pc) /\ ~Busy(pc')) PROVE TurnInv'
    <2>1. Used' = Used /\ msgLen' = msgLen /\ crashed' = crashed
        BY <1>1 DEF Used, msgLen, msg, outVars
    <2> QED BY <1>1, <2>1 DEF TurnInv, Writing
<1> HIDE DEF Same
<1>2. ASSUME NEW n \in MsgLens, Write(n) \/ Exception(n) PROVE TurnInv'
    BY <1>2 DEF Write, Exception, Enter, TurnInv, Writing
<1>3. CASE WriteSome \/ WaitSpace
    BY <1>3 DEF WriteSome, WaitSpace, TurnInv, Writing, writeVars
<1>4. CASE WritePublish
    <2>1. /\ pc = "publish" /\ pc' = "kick" /\ outProd' = prod
          /\ UNCHANGED <<outCons, msgs, crashed>>
        BY <1>4 DEF WritePublish, writeVars
    <2>2. SUFFICES ASSUME ~crashed PROVE Used' <= msgLen'
        BY <2>1 DEF TurnInv, Writing
    <2>3. outCons = outProd /\ written = msgLen /\ IdxSub(prod, outProd) = written /\ written \in Nat
        BY <2>1, <2>2 DEF OrderInv, OneAtATime, OutInv, PartIsReady, OutTypes
    <2>4. Used' = written /\ msgLen' = msgLen
        BY <2>1, <2>3 DEF Used, msgLen, msg
    <2> QED BY <2>3, <2>4
<1>5. CASE WriteKick
    <2>1. /\ pc = "kick" /\ pc' \in {"space", "drain"} /\ UNCHANGED <<outProd, outCons, msgs, crashed>>
        BY <1>5 DEF WriteKick, outVars, writeVars
    <2>2. Used' = Used /\ msgLen' = msgLen
        BY <2>1 DEF Used, msgLen, msg
    <2> QED BY <2>1, <2>2 DEF TurnInv, Writing
<1>6. CASE WaitDrain
    BY <1>6 DEF WaitDrain, TurnInv, Writing, writeVars
<1>7. ASSUME NEW n \in ReadLens, Read(n) PROVE TurnInv'
    BY <1>1, <1>7 DEF Read, Same, writeVars
<1>8. CASE Reader
    BY <1>1, <1>8 DEF Reader, ReadTest, ReadCheck, ReadPoll, ReadCopy, ReadPublish, Same, writeVars
<1>9. CASE DaemonTake
    <2>1. UNCHANGED <<msgs, crashed, pc>> /\ Used' <= Used /\ Used' \in Nat
        BY <1>9, Takes DEF DaemonTake, writeVars, OutInv
    <2>2. Used \in Nat
        BY StreamIs DEF OutInv
    <2>3. msgLen' = msgLen /\ (Writing' <=> Writing)
        BY <2>1 DEF msgLen, msg, Writing
    <2>4. SUFFICES ASSUME ~crashed, pc \in {"kick", "drain"} PROVE Used' <= msgLen
        BY <2>1, <2>3 DEF TurnInv
    <2>5. Used <= msgLen /\ msgLen \in Nat
        BY <2>4, MessageIs DEF TurnInv, OutInv, Progress, Writing
    <2> QED BY <2>1, <2>2, <2>5
<1>10. CASE DaemonWake \/ DaemonNotify \/ DaemonSleep \/ DaemonType
    BY <1>1, <1>10 DEF DaemonWake, DaemonNotify, DaemonSleep, DaemonType, Same, writeVars
<1>11. CASE Finished \/ UNCHANGED vars
    BY <1>1, <1>11 DEF Finished, vars, Same, writeVars
<1> QED BY <1>2, <1>3, <1>4, <1>5, <1>6, <1>7, <1>8, <1>9, <1>10, <1>11 DEF Next, Writer, Daemon

\* What ConsoleStream sees of the console stays as it is.
LEMMA StreamStutters ==
    ASSUME UNCHANGED <<msgs, crashed, log, typed, got>>, Writing' <=> Writing
    PROVE  [Console!Next]_(Console!vars)
BY DEF Console!vars, Writing

\* The ring is empty unless a write waits for it.
LEMMA RingIsOfAWrite ==
    ASSUME OutInv, Used > 0
    PROVE  Writing
<1>1. SUFFICES ASSUME ~Writing PROVE FALSE
    OBVIOUS
<1>2. msg \in Nat /\ Used \in Nat /\ Len(log) \in Nat /\ Len(Stream) = Len(log) + Used
    BY StreamIs, MessageIs DEF OutInv
<1>3. CASE msg > 0
    <2>1. outCons = outProd
        BY <1>1, <1>3 DEF OutInv, MessagesAreWhole
    <2> QED BY <2>1, StreamIsLog DEF OutInv
<1>4. CASE msg = 0
    <2>1. 1 \in 1..Len(Stream)
        BY <1>2
    <2>2. Stream[1][1] \in 1..msg
        BY <2>1 DEF OutInv, KnownMessages
    <2> QED BY <1>4, <2>2
<1> QED BY <1>2, <1>3, <1>4

\* xenconsoled has shown all of the last message but what the ring holds.
LEMMA ShownIs ==
    ASSUME OutInv, OrderInv, TurnInv, ~crashed, Used > 0
    PROVE  /\ msgLen \in Nat /\ Used <= msgLen /\ Console!Position = msgLen - Used
           /\ \A k \in 1..Used : Stream[Len(log) + k] = <<msg, (msgLen - Used) + k>>
<1>1. /\ Used \in Nat /\ Len(log) \in Nat /\ Len(Stream) = Len(log) + Used
      /\ Between(out, OutSize, outCons, outProd) \in Seq(Byte) /\ log \in Seq(Byte)
    BY StreamIs DEF OutInv, OutTypes
<1>2. pc \in {"kick", "drain"}
    <2>1. outCons # outProd
        BY StreamIsLog DEF OutInv
    <2> QED BY <2>1 DEF OrderInv, OneAtATime
<1>3. msg \in Nat \ {0} /\ msgLen \in Nat \ {0} /\ Used <= msgLen /\ EndsWithMsg
    <2>1. written = msgLen
        BY <1>2 DEF OrderInv, OneAtATime
    <2>2. EndsWithMsg
        BY <1>2, <2>1 DEF OutInv, MessagesAreWhole
    <2>3. msg \in Nat \ {0}
        BY <1>2 DEF OutInv, Progress, Writing
    <2> QED BY <1>2, <2>2, <2>3, MessageIs DEF TurnInv, OutInv
<1> DEFINE before == msgLen - Used
<1>4. before \in Nat /\ Len(Stream) - msgLen + before = Len(log) /\ before <= Len(log)
    BY <1>1, <1>3 DEF EndsWithMsg
<1>5. ASSUME NEW k \in 1..Used PROVE Stream[Len(log) + k] = <<msg, before + k>>
    <2>1. before + k \in 1..msgLen /\ Len(Stream) - msgLen + (before + k) = Len(log) + k
        BY <1>1, <1>3
    <2> HIDE DEF before
    <2>2. Stream[Len(Stream) - msgLen + (before + k)] = <<msg, before + k>>
        BY <1>3, <2>1, Zenon DEF EndsWithMsg
    <2> QED BY <2>1, <2>2
<1>6. Len(log) > 0 => Stream[Len(log)] = log[Len(log)]
    BY <1>1 DEF Stream
<1>7. Console!Position = before
    <2>1. CASE before > 0
        <3>1. before \in 1..msgLen /\ Len(log) > 0
            BY <1>1, <1>3, <1>4, <2>1
        <3> HIDE DEF before
        <3>2. Stream[Len(Stream) - msgLen + before] = <<msg, before>>
            BY <1>3, <3>1, Zenon DEF EndsWithMsg
        <3>3. log[Len(log)] = <<msg, before>> /\ log # <<>>
            BY <1>1, <1>4, <1>6, <3>1, <3>2
        <3> QED BY <3>3 DEF Console!Position, Console!last, msg
    <2>2. CASE before = 0 /\ Len(log) > 0
        <3> DEFINE a == log[Len(log)]
        <3>1. a \in Byte /\ log # <<>>
            BY <1>1, <2>2
        <3>2. Len(log) + 1 \in 2..Len(Stream) /\ (Len(log) + 1) - 1 = Len(log) /\ 1 \in 1..Used
            BY <1>1, <2>2
        <3>3. Follows(Stream[Len(log) + 1], Stream[(Len(log) + 1) - 1])
            BY <3>2, InOrderIs DEF OrderInv
        <3>4. Stream[Len(log) + 1] = <<msg, 1>> /\ Stream[(Len(log) + 1) - 1] = a
            <4>1. Stream[Len(log) + 1] = <<msg, before + 1>>
                BY <1>5, <3>2
            <4> QED BY <1>6, <2>2, <3>2, <4>1
        <3> HIDE DEF a, before
        <3>5. a[1] \in Nat /\ a[2] \in Nat
            BY <3>1 DEF Byte
        <3>6. a[1] = msg => a[2] = 0
            BY <1>3, <3>3, <3>4, <3>5 DEF Follows
        <3>7. Console!Position = IF a[1] = msg THEN a[2] ELSE 0
            BY <3>1 DEF a, Console!Position, Console!last, msg
        <3> QED BY <2>2, <3>6, <3>7
    <2>3. CASE before = 0 /\ Len(log) = 0
        <3>1. log = <<>>
            BY <1>1, <2>3
        <3> QED BY <2>3, <3>1 DEF Console!Position
    <2> QED BY <1>1, <1>4, <2>1, <2>2, <2>3
<1> QED BY <1>3, <1>5, <1>7

\* What xenconsoled takes is shown behind what it took before.
LEMMA TakenIs ==
    ASSUME OutInv, DaemonTake
    PROVE  \E n \in 1..Used : \E A \in Seq(Byte) :
              /\ log' = log \o A /\ Len(A) = n
              /\ \A k \in 1..n : A[k] = Stream[Len(log) + k]
<1> DEFINE C == Between(out, OutSize, outCons, outProd)
<1>1. /\ C \in Seq(Byte) /\ Len(C) = Used /\ Used \in Nat /\ log \in Seq(Byte) /\ Len(log) \in Nat
      /\ Stream = log \o C
    BY StreamIs DEF OutInv, OutTypes, Stream
<1>2. PICK n \in 1..Least(Used, MaxLog - Len(log)) : log' = log \o SubSeq(C, 1, n)
    BY DEF DaemonTake, Used
<1>3. n \in 1..Used
    BY <1>1, <1>2, RingAssumption DEF Least
<1> HIDE DEF C
<1> DEFINE A == SubSeq(C, 1, n)
<1>4. A \in Seq(Byte) /\ Len(A) = n /\ \A k \in 1..n : A[k] = C[k]
    BY <1>1, <1>3
<1>5. \A k \in 1..Used : (log \o C)[Len(log) + k] = C[k]
    BY <1>1
<1>6. \A k \in 1..n : A[k] = Stream[Len(log) + k]
    BY <1>1, <1>3, <1>4, <1>5
<1> HIDE DEF A
<1> QED BY <1>2, <1>3, <1>4, <1>6 DEF A

LEMMA TakeShows ==
    ASSUME OutInv, OrderInv, TurnInv, DaemonTake
    PROVE  Console!Show \/ Console!ShowAnything
<1>1. PICK n \in 1..Used : \E A \in Seq(Byte) :
          /\ log' = log \o A /\ Len(A) = n
          /\ \A k \in 1..n : A[k] = Stream[Len(log) + k]
    BY TakenIs
<1>2. PICK A \in Seq(Byte) : /\ log' = log \o A /\ Len(A) = n
                             /\ \A k \in 1..n : A[k] = Stream[Len(log) + k]
    BY <1>1
<1>3. Used \in Nat /\ log \in Seq(Byte) /\ Len(log) \in Nat /\ n \in Nat /\ n > 0
    BY <1>1, StreamIs DEF OutInv, OutTypes
<1>4. Writing /\ Writing' /\ UNCHANGED <<msgs, crashed, typed, got>>
    <2>1. Writing
        BY <1>1, <1>3, RingIsOfAWrite
    <2> QED BY <2>1 DEF DaemonTake, Writing, writeVars, readVars
<1>5. CASE ~crashed
    <2> DEFINE p == Console!Position
               B == [k \in 1..n |-> <<msg, p + k>>]
    <2>1. /\ msgLen \in Nat /\ Used <= msgLen /\ p = msgLen - Used
          /\ \A k \in 1..Used : Stream[Len(log) + k] = <<msg, (msgLen - Used) + k>>
        <3>1. Used > 0
            BY <1>1, <1>3
        <3> QED BY <1>5, <3>1, ShownIs
    <2>2. p \in Nat /\ n \in 1..(msgLen - p)
        BY <1>1, <1>3, <2>1
    <2>3. ASSUME NEW k \in 1..n PROVE A[k] = <<msg, p + k>>
        <3>1. k \in 1..Used
            BY <1>1, <1>3
        <3> QED BY <1>2, <2>1, <3>1
    <2> HIDE DEF p
    <2>4. A = B
        <3>1. DOMAIN A = 1..n /\ A = [k \in DOMAIN A |-> A[k]]
            BY <1>2
        <3> QED BY <2>3, <3>1
    <2>5. log' = log \o B
        BY <1>2, <2>4
    <2>6. msgs[msg] = msgLen
        BY DEF msgLen
    <2> HIDE DEF B
    <2>7. n \in 1..(msgs[msg] - p) /\ log' = log \o B
        BY <2>2, <2>5, <2>6
    <2> QED BY <1>4, <1>5, <2>7 DEF Console!Show, Console!last, msg, Writing, B, p
<1>6. CASE crashed
    <2>1. Len(log') > Len(log) /\ SubSeq(log', 1, Len(log)) = log
        BY <1>2, <1>3
    <2> QED BY <1>4, <1>6, <2>1 DEF Console!ShowAnything, Writing
<1> QED BY <1>5, <1>6

\* A write returns when its message is on the screen.
LEMMA DrainReturns ==
    ASSUME OutInv, WaitDrain
    PROVE  Console!Return
<1>1. /\ pc = "drain" /\ outCons = outProd /\ pc' \in {"idle", "dead"}
      /\ UNCHANGED <<msgs, crashed, log, typed, got>>
    BY DEF WaitDrain, writeVars, readVars, daemonVars
<1>2. EndsWithMsg /\ Stream = log
    <2>1. written = msgLen
        BY <1>1 DEF OutInv, Progress
    <2> QED BY <1>1, <2>1, StreamIsLog DEF OutInv, MessagesAreWhole
<1>3. Console!Whole
    BY <1>2 DEF EndsWithMsg, Console!Whole, Console!last, msgLen, msg
<1> QED BY <1>1, <1>3 DEF Console!Return

\* What was read is the first of what was typed.
LEMMA ReadIs ==
    ASSUME InInv
    PROVE  /\ got \in Seq(Nat) /\ Len(got) \in Nat /\ typed \in Nat /\ Len(got) <= typed
           /\ \A k \in 1..Len(got) : got[k] = k
<1> DEFINE A == Between(in, InSize, Reached, inProd)
<1>1. A \in Seq(Nat) /\ got \in Seq(Nat) /\ Input = got \o A /\ typed \in Nat
    BY InputIs DEF InInv, InTypes, Input
<1> HIDE DEF A
<1>2. Len(got) \in Nat /\ Len(A) \in Nat /\ Len(got \o A) = Len(got) + Len(A)
    BY <1>1
<1>3. Len(got) <= typed
    BY <1>1, <1>2 DEF InInv, InputIsWhole
<1>4. ASSUME NEW k \in 1..Len(got) PROVE got[k] = k
    <2>1. (got \o A)[k] = got[k] /\ k \in 1..Len(got \o A)
        BY <1>1
    <2> QED BY <1>1, <2>1 DEF InInv, InputIsWhole
<1> QED BY <1>1, <1>2, <1>3, <1>4

\* A read returns what was typed next, if it returns anything.
LEMMA CopyReads ==
    ASSUME InInv, TurnInv, ReadCopy
    PROVE  [Console!Next]_(Console!vars)
<1> DEFINE s == Least(rlen, IdxSub(inProd, inCons))
           A == Between(in, InSize, inCons, inProd)
           B == SubSeq(A, 1, s)
<1>1. /\ got' = got \o B /\ pc = "copy" /\ pc' = "taken"
      /\ UNCHANGED <<msgs, crashed, log, typed>>
    BY DEF ReadCopy, writeVars, daemonVars
<1>2. A \in Seq(Nat) /\ Len(A) = IdxSub(inProd, inCons) /\ IdxSub(inProd, inCons) \in Nat
    <2>1. Lies(in, InSize, Nat, inCons, inProd)
        BY Sizes, BetweenIs DEF InInv, InTypes
    <2> QED BY <2>1 DEF Lies
<1>3. s \in 0..Len(A)
    BY <1>2 DEF Least, InInv, InTypes
<1> HIDE DEF s, A
<1>4. B \in Seq(Nat) /\ Len(B) = s /\ s \in Nat
    BY <1>2, <1>3
<1> HIDE DEF B
<1>5. /\ got \in Seq(Nat) /\ Len(got) \in Nat /\ typed \in Nat
      /\ Len(got') <= typed /\ \A k \in 1..Len(got') : got'[k] = k
    <2>1. InInv'
        BY CopyKeepsIn
    <2>2. (Len(got) <= typed)' /\ (\A k \in 1..Len(got) : got[k] = k)'
        BY <2>1, ReadIs, PTL
    <2> QED BY <1>1, <2>2, ReadIs
<1>6. Len(got') = Len(got) + s /\ \A k \in 1..s : got'[Len(got) + k] = B[k]
    <2>1. Len(got \o B) = Len(got) + s
        BY <1>4, <1>5
    <2>2. \A k \in 1..s : (got \o B)[Len(got) + k] = B[k]
        BY <1>4, <1>5
    <2> QED BY <1>1, <2>1, <2>2
<1>7. CASE s = 0
    <2>1. got' = got
        BY <1>1, <1>4, <1>5, <1>7
    <2> QED BY <1>1, <2>1, StreamStutters DEF Writing
<1>8. CASE s # 0
    <2>1. s \in 1..(typed - Len(got))
        BY <1>4, <1>5, <1>6, <1>8
    <2>2. B = [k \in 1..s |-> Len(got) + k]
        <3>1. ASSUME NEW k \in 1..s PROVE B[k] = Len(got) + k
            <4>1. Len(got) + k \in 1..Len(got')
                BY <1>4, <1>5, <1>6
            <4> QED BY <1>5, <1>6, <4>1
        <3>2. DOMAIN B = 1..s /\ B = [k \in DOMAIN B |-> B[k]]
            BY <1>4
        <3> QED BY <3>1, <3>2
    <2>3. ~crashed
        BY <1>1 DEF TurnInv, Writing
    <2>4. got' = got \o [k \in 1..s |-> Len(got) + k]
        BY <1>1, <2>2
    <2>5. Console!Read
        BY <1>1, <2>1, <2>3, <2>4 DEF Console!Read
    <2> QED BY <2>5 DEF Console!Next
<1> QED BY <1>7, <1>8

LEMMA StreamStep ==
    ASSUME OutInv, OrderInv, InInv, TurnInv, [Next]_vars
    PROVE  [Console!Next]_(Console!vars)
<1> DEFINE Same == UNCHANGED <<msgs, crashed, log, typed, got>>
<1>1. ASSUME NEW n \in MsgLens, Write(n) PROVE Console!Begin
    <2>1. /\ pc = "idle" /\ pc' = "some" /\ msgs' = Append(msgs, n)
          /\ UNCHANGED <<crashed, log, typed, got>>
        BY <1>1 DEF Write, Enter, readVars, daemonVars
    <2>2. ~crashed
        BY <2>1 DEF TurnInv, Writing
    <2> QED BY <2>1, <2>2 DEF Console!Begin
<1>2. ASSUME NEW n \in MsgLens, Exception(n) PROVE Console!Panic
    BY <1>2 DEF Exception, Enter, readVars, daemonVars, Console!Panic
<1>3. CASE WriteSome \/ WritePublish \/ WriteKick \/ WaitSpace
    <2>1. Same /\ Writing /\ Writing'
        BY <1>3 DEF WriteSome, WritePublish, WriteKick, WaitSpace, Writing, writeVars, readVars, daemonVars
    <2> QED BY <2>1, StreamStutters
<1>4. CASE WaitDrain
    BY <1>4, DrainReturns DEF Console!Next
<1>5. ASSUME NEW n \in ReadLens, Read(n) PROVE [Console!Next]_(Console!vars)
    <2>1. Same /\ ~Writing /\ ~Writing'
        BY <1>5 DEF Read, Writing, writeVars, daemonVars
    <2> QED BY <2>1, StreamStutters
<1>6. CASE ReadTest \/ ReadCheck \/ ReadPoll \/ ReadPublish
    <2>1. Same /\ ~Writing /\ ~Writing'
        BY <1>6 DEF ReadTest, ReadCheck, ReadPoll, ReadPublish, Writing, writeVars, readVars, daemonVars
    <2> QED BY <2>1, StreamStutters
<1>7. CASE ReadCopy
    BY <1>7, CopyReads
<1>8. CASE DaemonTake
    BY <1>8, TakeShows DEF Console!Next
<1>9. CASE DaemonType
    <2>1. PICK n \in 1..Least(MaxTyped - typed, InSize - IdxSub(inProd, inCons)) : typed' = typed + n
        BY <1>9 DEF DaemonType
    <2>2. n \in Nat /\ n > 0 /\ typed \in Nat
        <3>1. typed \in Nat /\ inProd \in Index /\ inCons \in Index
            BY DEF InInv, InTypes
        <3> QED BY <2>1, <3>1, IdxSubIs, RingAssumption DEF Least, Index
    <2>3. typed' \in Nat /\ typed' > typed
        BY <2>1, <2>2
    <2>4. UNCHANGED <<msgs, pc, crashed, log, got>>
        BY <1>9 DEF DaemonType, writeVars, readVars
    <2> QED BY <2>3, <2>4 DEF Console!Type, Console!Next
<1>10. CASE DaemonWake \/ DaemonNotify \/ DaemonSleep \/ Finished \/ UNCHANGED vars
    <2>1. Same /\ pc' = pc
        BY <1>10 DEF DaemonWake, DaemonNotify, DaemonSleep, Finished, vars, writeVars, readVars, daemonVars
    <2> QED BY <2>1, StreamStutters DEF Writing
<1> QED BY <1>1, <1>2, <1>3, <1>4, <1>5, <1>6, <1>7, <1>8, <1>9, <1>10
        DEF Next, Writer, Reader, Daemon, Console!Next

LEMMA StreamInit == Init => Console!Init
BY DEF Init, Console!Init

\* console.c is the console of ConsoleStream and no more, if no message is longer
\* than the ring: each message is shown whole, in its turn and before its write
\* returns, what is typed is read once and in order, and a panic takes back
\* nothing of what was shown and ends with its own message (console.c:76).  This
\* is ImplementsStream without its fairness.
THEOREM ConsoleIsAStream == ASSUME MessagesFit PROVE Spec => Console!Spec
<1>1. OutInv /\ OrderInv /\ [Next]_vars => OrderInv'
    BY OrderStep
<1>2. OutInv /\ OrderInv /\ InInv /\ TurnInv /\ [Next]_vars => [Console!Next]_(Console!vars)
    BY StreamStep
<1> QED BY <1>1, <1>2, OrderInit, TurnInit, TurnStep, StreamInit, OutputInvariance, InputInvariance, PTL
        DEF Spec, Console!Spec
=============================================================================
