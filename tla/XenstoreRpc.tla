---------------------------- MODULE XenstoreRpc ----------------------------
(***************************************************************************)
(* What xenstore.h promises of xenstore_read(): one call is one question   *)
(* to the store, answered once, and the caller waits synchronously for     *)
(* that answer: it gets the value when it fits in XENSTORE_PAYLOAD_MAX     *)
(* bytes, and NULL otherwise.  There are no rings, bytes or events here.   *)
(***************************************************************************)
EXTENDS Naturals, Sequences

CONSTANTS Replies, PayloadMax, MaxCalls

NULL == [type |-> "NULL", len |-> 0]

VARIABLES open, answers, results
vars == <<open, answers, results>>

Init == open = FALSE /\ answers = <<>> /\ results = <<>>

Call ==
    /\ ~open /\ Len(results) < MaxCalls
    /\ open' = TRUE
    /\ UNCHANGED <<answers, results>>

\* The store is read once for each call.
Answer ==
    /\ open /\ Len(answers) = Len(results)
    /\ \E r \in Replies[Len(answers) + 1] : answers' = Append(answers, r)
    /\ UNCHANGED <<open, results>>

Outcome(r) == IF r.type = "XS_READ" /\ r.len <= PayloadMax THEN r ELSE NULL

Return ==
    /\ open /\ Len(answers) = Len(results) + 1
    /\ results' = Append(results, Outcome(answers[Len(answers)]))
    /\ open' = FALSE
    /\ UNCHANGED answers

Next == Call \/ Answer \/ Return

Spec == Init /\ [][Next]_vars
FairSpec == Spec /\ WF_vars(Answer) /\ WF_vars(Return)
=============================================================================
