--------------------------- MODULE ConsoleStream ---------------------------
(***************************************************************************)
(* What a console promises to a test: a message that is printed is shown   *)
(* whole, after those before it, while the test waits ("synchronously      *)
(* waiting for all data to be consumed", console.c), and what is typed is  *)
(* read once and in order.  There are no rings, indices or events here.    *)
(* A panic may interrupt a message; of what is then shown, only the end is *)
(* promised.                                                               *)
(***************************************************************************)
EXTENDS Naturals, Sequences

CONSTANT Lengths           \* the lengths that a message may have

VARIABLES msgs,            \* the length of each message printed so far
          writing,         \* the test waits for the last of them to be shown
          panicked,
          shown,           \* the bytes on the screen, each <<message, position>>
          typed, read      \* the number of bytes typed; those that were read
vars == <<msgs, writing, panicked, shown, typed, read>>

last == Len(msgs)

Init ==
    /\ msgs = <<>> /\ writing = FALSE /\ panicked = FALSE /\ shown = <<>>
    /\ typed = 0 /\ read = <<>>

\* How much of the last message is on the screen, and whether all of it is.
Position == IF shown # <<>> /\ shown[Len(shown)][1] = last THEN shown[Len(shown)][2] ELSE 0
Whole ==
    /\ Len(shown) >= msgs[last]
    /\ \A k \in 1..msgs[last] : shown[Len(shown) - msgs[last] + k] = <<last, k>>

Begin ==
    /\ ~writing /\ ~panicked
    /\ \E n \in Lengths : msgs' = Append(msgs, n)
    /\ writing' = TRUE
    /\ UNCHANGED <<panicked, shown, typed, read>>

Show ==
    /\ writing /\ ~panicked
    /\ \E n \in 1..(msgs[last] - Position) :
          shown' = shown \o [k \in 1..n |-> <<last, Position + k>>]
    /\ UNCHANGED <<msgs, writing, panicked, typed, read>>

Return ==
    /\ writing /\ Whole
    /\ writing' = FALSE
    /\ UNCHANGED <<msgs, panicked, shown, typed, read>>

\* panic() prints a message in the middle of another one.
Panic ==
    /\ writing /\ ~panicked
    /\ \E n \in Lengths : msgs' = Append(msgs, n)
    /\ panicked' = TRUE
    /\ UNCHANGED <<writing, shown, typed, read>>

\* What is on the screen stays there, even then.
ShowAnything ==
    /\ writing /\ panicked
    /\ Len(shown') > Len(shown) /\ SubSeq(shown', 1, Len(shown)) = shown
    /\ UNCHANGED <<msgs, writing, panicked, typed, read>>

Type ==
    /\ typed' \in Nat /\ typed' > typed
    /\ UNCHANGED <<msgs, writing, panicked, shown, read>>

Read ==
    /\ ~writing /\ ~panicked
    /\ \E n \in 1..(typed - Len(read)) : read' = read \o [k \in 1..n |-> Len(read) + k]
    /\ UNCHANGED <<msgs, writing, panicked, shown, typed>>

Next == Begin \/ Show \/ Return \/ Panic \/ ShowAnything \/ Type \/ Read

Spec == Init /\ [][Next]_vars

\* Every message is shown in the end, and its write returns, unless a panic
\* interrupts it.
FairSpec == Spec /\ WF_vars(~panicked /\ (Show \/ Return))
=============================================================================
