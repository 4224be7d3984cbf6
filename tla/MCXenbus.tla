------------------------------ MODULE MCXenbus ------------------------------
\* Small instances of Xenbus: a ring of 4 bytes, whose indices wrap after 8,
\* under messages that are longer and shorter than the ring.
EXTENDS XenbusRpc

MCReads == {[type |-> "XS_READ", len |-> n] : n \in {0, 2, 3, 5, 7}}
MCErrors == {[type |-> "XS_READ", len |-> 2], [type |-> "XS_ERROR", len |-> 3]}
\* Only the last reply is an error: what one leaves in the ring is the subject
\* of MCErrorReplies.
MCReplies == [n \in 1..MaxCalls |-> IF n < MaxCalls THEN MCReads ELSE MCReads \union MCErrors]
MCErrorReplies == [n \in 1..MaxCalls |-> MCErrors]
MCStray == {[type |-> "XS_READ", len |-> 1], [type |-> "XS_READ", len |-> 5],
            [type |-> "XS_ERROR", len |-> 9]}
=============================================================================
