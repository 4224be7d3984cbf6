----------------------------- MODULE XenbusRpc -----------------------------
\* xenbus.c implements the synchronous call of XenstoreRpc.
EXTENDS Xenbus

Answered == {n \in 1..MaxCalls : reply[n] # None}

\* A returned string stands for the reply whose payload it is.
ReplyOf(n) ==
    IF results[n] = NULL THEN [type |-> "NULL", len |-> 0]
    ELSE IF reply[n] # None /\ results[n] = Expected(n) THEN reply[n]
    ELSE results[n]

Rpc == INSTANCE XenstoreRpc WITH
    open    <- stage \in {"whdr", "wpath", "rhdr", "rpayload", "rdrain"},
    answers <- [n \in 1..Cardinality(Answered) |-> reply[n]],
    results <- [n \in 1..Len(results) |-> ReplyOf(n)]

\* The code behind xenstore_read(), with its rings, partial transfers and
\* waits, does what XenstoreRpc promises: each call is answered once, and
\* returns that answer, in the end.
ImplementsRpc == Rpc!FairSpec
=============================================================================
