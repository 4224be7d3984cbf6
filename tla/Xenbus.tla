------------------------------- MODULE Xenbus -------------------------------
(***************************************************************************)
(* The xenstore client of common/xenbus.c: xenstore_read() sends an        *)
(* XS_READ request through the req ring of the page shared with xenstored  *)
(* and reads the reply back from the rsp ring, both through loops that     *)
(* move as many bytes as fit, and wait on the event channel otherwise.     *)
(*                                                                         *)
(* The guest and xenstored interleave between every two accesses to shared *)
(* memory.  The ring indices run freely and wrap at IdxMod (2^32 in the    *)
(* code); a byte is the pair <<call, position>> naming the call whose      *)
(* request or reply it belongs to and its place in that message.           *)
(*                                                                         *)
(* xenstored is not under src/: its actions (Srv...) are the peer that     *)
(* xenbus.c is written against.                                            *)
(***************************************************************************)
EXTENDS Integers, Sequences, FiniteSets

CONSTANTS
    RingSize,     \* XENBUS_RING_SIZE
    IdxMod,       \* the number of values of a ring index
    HdrLen,       \* sizeof(struct xenstore_msg_hdr)
    PayloadMax,   \* XENSTORE_PAYLOAD_MAX
    PathLens,     \* strlen() of the paths callers read
    Replies,      \* for each call, the headers xenstored may answer with
    StrayHdrs,    \* the headers that payload bytes may be mistaken for
    MaxCalls,     \* bound: the calls of xenstore_read() that are made
    Ports,        \* the event channels the domain may be given
    Statuses      \* the states Xen may report of that event channel

ASSUME RingAssumption ==
    /\ RingSize \in Nat /\ RingSize > 1
    /\ IdxMod \in Nat /\ IdxMod > RingSize /\ IdxMod % RingSize = 0

Headers == [type : {"XS_READ", "XS_ERROR"}, len : Nat]

ASSUME WireAssumption ==
    /\ HdrLen \in Nat \ {0} /\ PayloadMax \in Nat \ {0}
    /\ PathLens \subseteq Nat /\ MaxCalls \in Nat
    /\ Replies \in [1..MaxCalls -> SUBSET Headers]
    /\ StrayHdrs \subseteq Headers

ASSUME EvtchnAssumption ==
    /\ Ports \subseteq {"none", "valid", "huge"}
    /\ Statuses \subseteq {"closed", "unbound", "interdomain"}

NUL == <<0, 0>>
Bytes == (Nat \X Nat)
\* What xenstore_read() returns: a pointer, and the string it points to.
NULL == [ptr |-> "NULL", str |-> <<>>]
String(s) == [ptr |-> "payload", str |-> s]
None == [type |-> "none", len |-> 0]

VARIABLES
    req, reqProd, reqCons,      \* the request ring and its indices
    rsp, rspProd, rspCons,      \* the response ring and its indices
    guestPending,               \* the bit of xb_port in evtchn_pending[]
    srvPending,                 \* xenstored's end of the event channel
    port, status,               \* xb_port, and its state in Xen
    stage,                      \* where xenstore_read() is
    pc,                         \* where xenbus_write() or xenbus_read() is
    len, done, part,            \* their variables
    cons, prod,                 \* the indices they sampled
    paths,                      \* strlen(path) of each call made so far
    hdr, hdrBytes,              \* the header, and the bytes it is read from
    payload,                    \* the static reply buffer
    results,                    \* what each call returned
    reply,                      \* what xenstored answered to each call
    srvPc, srvIn, srvOut        \* xenstored's loop, input and output

ringVars == <<req, reqProd, reqCons, rsp, rspProd, rspCons>>
evtVars  == <<guestPending, srvPending>>
loopVars == <<pc, len, done, part, cons, prod>>
callVars == <<paths, hdr, hdrBytes, payload, results>>
envVars  == <<port, status>>
srvVars  == <<reply, srvPc, srvIn, srvOut>>
vars == <<ringVars, evtVars, envVars, stage, loopVars, callVars, srvVars>>

-----------------------------------------------------------------------------
(* uint32_t arithmetic on the indices, and the place an index names.       *)
(*                                                                         *)
(* A definition marked "Mutant" is no part of the model: it is what the    *)
(* definition after it would be if the code had the named bug.             *)

IdxAdd(i, n) == IF i + n < IdxMod THEN i + n ELSE i + n - IdxMod
IdxSub(p, c) == IF p >= c THEN p - c ELSE p - c + IdxMod
Mask(i) == i % RingSize
Least(m, n) == IF m < n THEN m ELSE n

\* The n bytes of a ring from index i on; they do not pass the ring's end.
Chunk(ring, i, n) == [k \in 1..n |-> ring[Mask(i) + k - 1]]

\* The ring with s copied to index i on; s does not pass the ring's end.
Stored(ring, i, s) ==
    [k \in DOMAIN ring |->
        IF k \in Mask(i)..(Mask(i) + Len(s) - 1) THEN s[k - Mask(i) + 1]
                                                 ELSE ring[k]]

call == Len(paths)

Writing == stage \in {"whdr", "wpath"}
Reading == stage \in {"rhdr", "rpayload", "rdrain"}

\* Mutant: the source pointer does not advance after a partial copy.
RequestRestarts(n) == [k \in 1..n |-> <<call, (IF stage = "whdr" THEN 0 ELSE HdrLen) + k>>]

\* Bytes position+1.. of the current request: its header, then its path.
RequestBytes(n) ==
    LET base == IF stage = "whdr" THEN 0 ELSE HdrLen
    IN  [k \in 1..n |-> <<call, base + done + k>>]

Init ==
    /\ req = [i \in 0..(RingSize - 1) |-> NUL]
    /\ rsp = [i \in 0..(RingSize - 1) |-> NUL]
    /\ reqProd = 0 /\ reqCons = 0 /\ rspProd = 0 /\ rspCons = 0
    /\ guestPending = FALSE /\ srvPending = FALSE
    /\ port \in Ports /\ status \in Statuses
    /\ stage = "boot" /\ pc = "loop"
    /\ len = 0 /\ done = 0 /\ part = 0 /\ cons = 0 /\ prod = 0
    /\ paths = <<>>
    /\ hdr = None /\ hdrBytes = <<>>
    /\ payload = [i \in 0..PayloadMax |-> NUL]
    /\ results = <<>>
    /\ reply = [n \in 1..MaxCalls |-> None]
    /\ srvPc = "asleep" /\ srvIn = <<>> /\ srvOut = <<>>

-----------------------------------------------------------------------------
(* Start-up.                                                               *)

InitXenbus ==
    /\ stage = "boot"
    /\ stage' = IF port = "huge" THEN "panic" ELSE "ready"
    /\ UNCHANGED <<ringVars, evtVars, envVars, loopVars, callVars, srvVars>>

\* Callers read only after xenstore_init() returned 0.
XenstoreInit ==
    /\ stage = "ready"
    /\ stage' = IF port = "none" \/ status # "interdomain" THEN "nodev"
                                                           ELSE "idle"
    /\ UNCHANGED <<ringVars, evtVars, envVars, loopVars, callVars, srvVars>>

-----------------------------------------------------------------------------
(* The loops of xenbus_write() and xenbus_read().                          *)

\* A call of either function, to move n bytes, from the caller's stage s.
StartLoop(s, n) ==
    /\ stage' = s /\ pc' = "loop" /\ len' = n /\ done' = 0
    /\ UNCHANGED <<part, cons, prod>>

\* Mutant: all of the ring is offered as free space.
WriteSampleWhole ==
    /\ Writing /\ pc = "loop" /\ len > 0
    /\ prod' = reqProd /\ cons' = reqCons
    /\ pc' = "copy"
    /\ part' = Least(Least(RingSize - Mask(IdxSub(reqProd, reqCons)),
                          RingSize - Mask(reqProd)), len)
    /\ UNCHANGED <<ringVars, evtVars, envVars, stage, len, done, callVars, srvVars>>

WriteSample ==
    /\ Writing /\ pc = "loop" /\ len > 0
    /\ prod' = reqProd /\ cons' = reqCons
    /\ LET space == (RingSize - 1) - Mask(IdxSub(reqProd, reqCons))
       IN  IF space = 0
           THEN pc' = "kick" /\ part' = 0
           ELSE /\ pc' = "copy"
                /\ part' = Least(Least(space, RingSize - Mask(reqProd)), len)
    /\ UNCHANGED <<ringVars, evtVars, envVars, stage, len, done, callVars, srvVars>>

WriteCopy ==
    /\ Writing /\ pc = "copy"
    /\ req' = Stored(req, prod, RequestBytes(part))
    /\ pc' = "publish"
    /\ UNCHANGED <<reqProd, reqCons, rsp, rspProd, rspCons, evtVars, envVars, stage,
                   len, done, part, cons, prod, callVars, srvVars>>

WritePublish ==
    /\ Writing /\ pc = "publish"
    /\ reqProd' = IdxAdd(prod, part)
    /\ len' = len - part /\ done' = done + part /\ pc' = "loop"
    /\ UNCHANGED <<req, reqCons, rsp, rspProd, rspCons, evtVars, envVars, stage,
                   part, cons, prod, callVars, srvVars>>

ReadSample ==
    /\ Reading /\ pc = "loop" /\ len > 0
    /\ prod' = rspProd /\ cons' = rspCons
    /\ LET avail == IdxSub(rspProd, rspCons)
       IN  IF avail = 0
           THEN pc' = "kick" /\ part' = 0
           ELSE /\ pc' = "copy"
                /\ part' = Least(Least(avail, RingSize - Mask(rspCons)), len)
    /\ UNCHANGED <<ringVars, evtVars, envVars, stage, len, done, callVars, srvVars>>

\* The destination is the local header, or the static payload buffer.
ReadCopy ==
    /\ Reading /\ pc = "copy"
    /\ LET data == Chunk(rsp, cons, part)
       IN  IF stage = "rhdr"
           THEN hdrBytes' = hdrBytes \o data /\ UNCHANGED payload
           ELSE /\ payload' = [i \in DOMAIN payload |->
                                 IF i \in done..(done + part - 1)
                                 THEN data[i - done + 1] ELSE payload[i]]
                /\ UNCHANGED hdrBytes
    /\ pc' = "publish"
    /\ UNCHANGED <<ringVars, evtVars, envVars, stage, len, done, part, cons, prod,
                   paths, hdr, results, srvVars>>

ReadPublish ==
    /\ Reading /\ pc = "publish"
    /\ rspCons' = IdxAdd(cons, part)
    /\ len' = len - part /\ done' = done + part /\ pc' = "loop"
    /\ UNCHANGED <<req, reqProd, reqCons, rsp, rspProd, evtVars, envVars, stage,
                   part, cons, prod, callVars, srvVars>>

\* Mutant: the loops spin on the indices, without the event channel.
SpinOnly ==
    /\ pc = "kick"
    /\ pc' = "loop"
    /\ UNCHANGED <<ringVars, evtVars, envVars, stage, len, done, part, cons, prod,
                   callVars, srvVars>>

\* hypercall_evtchn_send() of either loop.
Kick ==
    /\ pc = "kick"
    /\ srvPending' = TRUE
    /\ pc' = "clear"
    /\ UNCHANGED <<ringVars, guestPending, envVars, stage, len, done, part, cons, prod,
                   callVars, srvVars>>

\* Mutant: the bit is cleared, and polled for whatever it was.
ClearAndPoll ==
    /\ pc = "clear"
    /\ guestPending' = FALSE
    /\ pc' = "poll"
    /\ UNCHANGED <<ringVars, srvPending, envVars, stage, len, done, part, cons, prod,
                   callVars, srvVars>>

\* test_and_clear_bit(): poll only when the bit was clear.
TestAndClear ==
    /\ pc = "clear"
    /\ guestPending' = FALSE
    /\ pc' = IF guestPending THEN "loop" ELSE "poll"
    /\ UNCHANGED <<ringVars, srvPending, envVars, stage, len, done, part, cons, prod,
                   callVars, srvVars>>

\* hypercall_poll() returns once the bit is set, and leaves it set.
Poll ==
    /\ pc = "poll"
    /\ guestPending
    /\ pc' = "loop"
    /\ UNCHANGED <<ringVars, evtVars, envVars, stage, len, done, part, cons, prod,
                   callVars, srvVars>>

-----------------------------------------------------------------------------
(* xenstore_read().                                                        *)

LoopDone(s) == stage = s /\ pc = "loop" /\ len = 0

Return(result) ==
    /\ results' = Append(results, result)
    /\ stage' = "idle"
    /\ UNCHANGED loopVars

\* The header is written first...
XenstoreRead(p) ==
    /\ stage = "idle" /\ call < MaxCalls
    /\ paths' = Append(paths, p)
    /\ hdr' = [type |-> "XS_READ", len |-> p + 1]
    /\ StartLoop("whdr", HdrLen)
    /\ UNCHANGED <<ringVars, evtVars, envVars, hdrBytes, payload, results, srvVars>>

\* ... then the path with its NUL ...
WritePath ==
    /\ LoopDone("whdr")
    /\ StartLoop("wpath", hdr.len)
    /\ UNCHANGED <<ringVars, evtVars, envVars, callVars, srvVars>>

\* ... and xenstored is kicked.
KickRequest ==
    /\ LoopDone("wpath")
    /\ srvPending' = TRUE
    /\ hdrBytes' = <<>>
    /\ StartLoop("rhdr", HdrLen)
    /\ UNCHANGED <<ringVars, guestPending, envVars, paths, hdr, payload, results,
                   srvVars>>

\* What the bytes read as a header say: the reply's header when they are one.
HeaderBytes(n) == [k \in 1..HdrLen |-> <<n, k>>]
ReceivedHdrs ==
    LET whose == {n \in 1..MaxCalls : reply[n] # None /\ hdrBytes = HeaderBytes(n)}
    IN  IF whose = {} THEN StrayHdrs ELSE {reply[n] : n \in whose}

HeaderNotRead ==
    /\ LoopDone("rhdr")
    /\ \E h \in ReceivedHdrs : h.type # "XS_READ" /\ hdr' = h
    /\ Return(NULL)
    /\ UNCHANGED <<ringVars, evtVars, envVars, paths, hdrBytes, payload, srvVars>>

HeaderTooLong ==
    /\ LoopDone("rhdr")
    /\ \E h \in ReceivedHdrs :
          /\ h.type = "XS_READ" /\ h.len > PayloadMax
          /\ hdr' = h
          /\ StartLoop("rdrain", Least(h.len, PayloadMax))
    /\ UNCHANGED <<ringVars, evtVars, envVars, paths, hdrBytes, payload, results, srvVars>>

\* Mutant: the request is sent again once a long reply is drained.
DrainAndRetry ==
    /\ LoopDone("rdrain")
    /\ hdr' = IF hdr.len > done THEN [hdr EXCEPT !.len = @ - done]
              ELSE [type |-> "XS_READ", len |-> paths[call] + 1]
    /\ IF hdr.len > done THEN StartLoop("rdrain", Least(hdr'.len, PayloadMax))
                         ELSE StartLoop("whdr", HdrLen)
    /\ UNCHANGED <<ringVars, evtVars, envVars, paths, hdrBytes, payload, results, srvVars>>

\* One turn of the drain loop ends; done is the part that it read.
DrainNext ==
    /\ LoopDone("rdrain")
    /\ hdr' = [hdr EXCEPT !.len = @ - done]
    /\ IF hdr'.len > 0
       THEN StartLoop("rdrain", Least(hdr'.len, PayloadMax)) /\ UNCHANGED results
       ELSE Return(NULL)
    /\ UNCHANGED <<ringVars, evtVars, envVars, paths, hdrBytes, payload, srvVars>>

\* Mutant: the length is not compared with the buffer's.
HeaderOfAnyLength ==
    /\ LoopDone("rhdr")
    /\ \E h \in ReceivedHdrs :
          /\ h.type = "XS_READ"
          /\ hdr' = h
          /\ StartLoop("rpayload", h.len)
    /\ UNCHANGED <<ringVars, evtVars, envVars, paths, hdrBytes, payload, results, srvVars>>

HeaderFits ==
    /\ LoopDone("rhdr")
    /\ \E h \in ReceivedHdrs :
          /\ h.type = "XS_READ" /\ h.len <= PayloadMax
          /\ hdr' = h
          /\ StartLoop("rpayload", h.len)
    /\ UNCHANGED <<ringVars, evtVars, envVars, paths, hdrBytes, payload, results, srvVars>>

\* The C string that buf holds, as its caller sees it: up to the first NUL.
StrLen(buf) == Cardinality({i \in DOMAIN buf : \A j \in 0..i : buf[j] # NUL})
CString(buf) == [k \in 1..StrLen(buf) |-> buf[k - 1]]

FinishPayload ==
    /\ LoopDone("rpayload")
    /\ payload' = [payload EXCEPT ![hdr.len] = NUL]
    /\ Return(String(CString(payload')))
    /\ UNCHANGED <<ringVars, evtVars, envVars, paths, hdr, hdrBytes, srvVars>>

-----------------------------------------------------------------------------
(* xenstored.  It sleeps until its event channel fires, then reads and     *)
(* writes what it can, and notifies the guest of every move of an index.   *)

SrvWake ==
    /\ srvPc = "asleep" /\ srvPending
    /\ port = "valid" /\ status = "interdomain"
    /\ srvPending' = FALSE
    /\ srvPc' = "scan"
    /\ UNCHANGED <<ringVars, guestPending, envVars, stage, loopVars, callVars, reply,
                   srvIn, srvOut>>

RequestLen(n) == HdrLen + paths[n] + 1

\* The length of the request that srvIn begins: its header, then all of it.
SrvNeeds == IF Len(srvIn) < HdrLen THEN HdrLen ELSE RequestLen(srvIn[1][1])

SrvReadable == Least(IdxSub(reqProd, reqCons), RingSize - Mask(reqCons))

SrvRead ==
    /\ srvPc = "scan"
    /\ \E n \in 1..SrvReadable :
          /\ Len(srvIn) + n <= SrvNeeds
          /\ srvIn' = srvIn \o Chunk(req, reqCons, n)
          /\ reqCons' = IdxAdd(reqCons, n)
    /\ srvPc' = "notify"
    /\ UNCHANGED <<req, reqProd, rsp, rspProd, rspCons, evtVars, envVars, stage, loopVars,
                   callVars, reply, srvOut>>

SrvReply ==
    /\ srvPc = "scan" /\ Len(srvIn) = SrvNeeds
    /\ \E n \in 1..MaxCalls : \E r \in Replies[n] :
          /\ n = srvIn[1][1]
          /\ reply' = [reply EXCEPT ![n] = r]
          /\ srvOut' = srvOut \o [k \in 1..(HdrLen + r.len) |-> <<n, k>>]
    /\ srvIn' = <<>>
    /\ UNCHANGED <<ringVars, evtVars, envVars, stage, loopVars, callVars, srvPc>>

SrvSpace == Least(RingSize - IdxSub(rspProd, rspCons), RingSize - Mask(rspProd))

SrvWrite ==
    /\ srvPc = "scan"
    /\ \E n \in 1..Least(SrvSpace, Len(srvOut)) :
          /\ rsp' = Stored(rsp, rspProd, SubSeq(srvOut, 1, n))
          /\ rspProd' = IdxAdd(rspProd, n)
          /\ srvOut' = SubSeq(srvOut, n + 1, Len(srvOut))
    /\ srvPc' = "notify"
    /\ UNCHANGED <<req, reqProd, reqCons, rspCons, evtVars, envVars, stage, loopVars,
                   callVars, reply, srvIn>>

SrvNotify ==
    /\ srvPc = "notify"
    /\ guestPending' = TRUE
    /\ srvPc' = "scan"
    /\ UNCHANGED <<ringVars, srvPending, envVars, stage, loopVars, callVars, reply,
                   srvIn, srvOut>>

SrvSleep ==
    /\ srvPc = "scan"
    /\ SrvReadable = 0 /\ Len(srvIn) < SrvNeeds
    /\ srvOut = <<>> \/ SrvSpace = 0
    /\ srvPc' = "asleep"
    /\ UNCHANGED <<ringVars, evtVars, envVars, stage, loopVars, callVars, reply,
                   srvIn, srvOut>>

-----------------------------------------------------------------------------
\* The test has no (more) use for xenstore.
Finished ==
    /\ \/ stage \in {"panic", "nodev"}
       \/ stage = "idle" /\ call = MaxCalls
    /\ UNCHANGED vars

Startup == InitXenbus \/ XenstoreInit
Loop == WriteSample \/ WriteCopy \/ WritePublish \/ ReadSample \/ ReadCopy
        \/ ReadPublish \/ Kick \/ TestAndClear \/ Poll
Body == WritePath \/ KickRequest \/ HeaderNotRead \/ HeaderTooLong \/ DrainNext
        \/ HeaderFits \/ FinishPayload
Srv == SrvWake \/ SrvRead \/ SrvReply \/ SrvWrite \/ SrvNotify \/ SrvSleep

Next == Startup \/ (\E p \in PathLens : XenstoreRead(p)) \/ Loop \/ Body \/ Srv
        \/ Finished

Spec == Init /\ [][Next]_vars

\* The vCPU keeps running once in a call, and xenstored serves its channel.
Fairness == WF_vars(Startup \/ Loop \/ Body) /\ WF_vars(Srv)
FairSpec == Spec /\ Fairness

-----------------------------------------------------------------------------
\* Every variable stays in the range that its C type and its use give it.
Index == 0..(IdxMod - 1)
RingType ==
    /\ req \in [0..(RingSize - 1) -> Bytes] /\ rsp \in [0..(RingSize - 1) -> Bytes]
    /\ reqProd \in Index /\ reqCons \in Index
    /\ rspProd \in Index /\ rspCons \in Index
EvtchnType ==
    /\ guestPending \in BOOLEAN /\ srvPending \in BOOLEAN
    /\ port \in Ports /\ status \in Statuses
LoopType ==
    /\ stage \in {"boot", "ready", "panic", "nodev", "idle", "whdr", "wpath", "rhdr",
                  "rpayload", "rdrain"}
    /\ pc \in {"loop", "kick", "clear", "poll", "copy", "publish"}
    /\ len \in Nat /\ done \in Nat /\ part \in 0..RingSize
    /\ cons \in Index /\ prod \in Index
CallType ==
    /\ paths \in Seq(PathLens) /\ call <= MaxCalls
    /\ hdr \in [type : {"XS_READ", "XS_ERROR", "none"}, len : Nat]
    /\ hdrBytes \in Seq(Bytes)
    /\ payload \in [0..PayloadMax -> Bytes]
    /\ results \in Seq([ptr : {"NULL", "payload"}, str : Seq(Bytes)])
SrvType ==
    /\ reply \in [1..MaxCalls -> Headers \union {None}]
    /\ srvPc \in {"asleep", "scan", "notify"}
    /\ srvIn \in Seq(Bytes) /\ srvOut \in Seq(Bytes)
TypeOK == RingType /\ EvtchnType /\ LoopType /\ CallType /\ SrvType

\* One byte of the request ring always stays free, and no index passes
\* another: the loops of xenbus.c sample the indices while xenstored moves
\* its own, and RING_SIZE - 1 - mask(prod - cons) is only the free space as
\* long as the ring is never filled to its last byte.
RingBounds ==
    /\ IdxSub(reqProd, reqCons) <= RingSize - 1
    /\ IdxSub(rspProd, rspCons) <= RingSize
    /\ pc \in {"copy", "publish"} => part \in 1..len
    /\ Writing /\ pc \in {"copy", "publish"} =>
          IdxSub(reqProd, reqCons) + part <= RingSize - 1
    /\ Reading /\ pc \in {"copy", "publish"} =>
          part <= IdxSub(rspProd, rspCons)

\* xenstored receives each request as it was sent: the bytes that wait in
\* the ring follow those it has, in order, with none lost, doubled or
\* overwritten before it was read.
RequestInOrder ==
    LET used   == IdxSub(reqProd, reqCons)
        stream == srvIn \o [k \in 1..used |-> req[Mask(IdxAdd(reqCons, k - 1))]]
    IN  /\ srvIn # <<>> => srvIn[1][2] = 1
        /\ \A k \in 1..Len(stream) :
              stream[k][1] \in 1..call /\ stream[k][2] \in 1..RequestLen(stream[k][1])
        /\ \A k \in 2..Len(stream) :
              LET b == stream[k - 1]
              IN  stream[k] = IF b[2] < RequestLen(b[1]) THEN <<b[1], b[2] + 1>>
                                                         ELSE <<b[1] + 1, 1>>

\* xenstore_read() returns the reply to its own call: the whole value of a
\* reply that fits and NULL for any other (xenstore.h: "waiting
\* synchronously for the reply").
Expected(n) ==
    IF reply[n].type = "XS_READ" /\ reply[n].len <= PayloadMax
    THEN String([k \in 1..reply[n].len |-> <<n, HdrLen + k>>])
    ELSE NULL
ReadReturnsReply ==
    \A n \in 1..Len(results) : reply[n] # None /\ results[n] = Expected(n)

\* No byte is stored past payload[], whose last byte is kept for the NUL,
\* however long the reply is said to be.
PayloadBounded ==
    /\ stage \in {"rpayload", "rdrain"} => done + len <= PayloadMax
    /\ payload[PayloadMax] = NUL

\* No wake-up is lost: once the guest has seen that there is no space or no
\* data, and xenstored changes that before or while the guest polls, the
\* event is pending or about to be sent; test_and_clear_bit() never clears
\* an event that the guest does not then act on.
MayProceed ==
    \/ Writing /\ IdxSub(reqProd, reqCons) < RingSize - 1
    \/ Reading /\ IdxSub(rspProd, rspCons) > 0
NoLostWakeup ==
    pc \in {"kick", "clear", "poll"} /\ MayProceed => guestPending \/ srvPc = "notify"

\* Every call of xenstore_read() returns, though requests and replies do
\* not fit in the ring and the two sides sleep while they wait.
CallsReturn == \A n \in 1..MaxCalls : call = n ~> Len(results) >= n
-----------------------------------------------------------------------------
(* The inductive strengthening of the invariants above.                    *)

\* A transfer in flight owns what it sampled: the index that its function
\* advances has not moved, and the part lies within the ring's end and within
\* the free space or the data, whatever the peer did in the meantime.
TransferInv ==
    /\ pc # "loop" => Writing \/ Reading
    /\ pc \in {"copy", "publish"} /\ Writing =>
          prod = reqProd /\ part <= RingSize - Mask(reqProd)
    /\ pc \in {"copy", "publish"} /\ Reading =>
          cons = rspCons /\ part <= RingSize - Mask(rspCons)

\* What is read into payload[] is the announced length, or less.
LengthInv ==
    /\ stage = "rpayload" => done + len = hdr.len
    /\ stage = "rdrain" => done + len <= hdr.len

IndInv == TypeOK /\ RingBounds /\ TransferInv /\ LengthInv /\ PayloadBounded
          /\ NoLostWakeup

-----------------------------------------------------------------------------
(* The same for RequestInOrder.                                            *)

\* The place of the byte that is k bytes after the one at index i.
Place(i, k) == Mask(IdxAdd(i, k))

InRing == IdxSub(reqProd, reqCons)

\* The bytes of the request that are sent, and the byte that is sent next.
Sent == (IF stage = "whdr" THEN 0 ELSE HdrLen) + done
NextByte == IF Writing /\ Sent < RequestLen(call) THEN <<call, Sent + 1>> ELSE <<call + 1, 1>>

\* The bytes of head, then the n in a ring from index c on, then the last.
Stream(head, n, ring, c, last, k) ==
    IF k <= Len(head) THEN head[k]
    ELSE IF k <= Len(head) + n THEN ring[Place(c, k - Len(head) - 1)]
    ELSE last

\* What xenstored has not answered: what it has, what waits in the ring, and
\* what is sent next.
Outgoing(k) == Stream(srvIn, InRing, req, reqCons, NextByte, k)

Follows(b) == IF b[2] < RequestLen(b[1]) THEN <<b[1], b[2] + 1>> ELSE <<b[1] + 1, 1>>
Made(b) == b[1] \in 1..call /\ b[2] \in 1..RequestLen(b[1])

\* What is written of a request is what the request has there, and what is left
\* of it is what the loops have yet to write.
WritesInv ==
    /\ Writing => call \in 1..MaxCalls /\ hdr.len = paths[call] + 1
    /\ stage = "whdr" => done + len = HdrLen
    /\ stage = "wpath" => done + len = hdr.len
    /\ Writing /\ pc = "publish" =>
          \A k \in 1..part : req[Mask(prod) + k - 1] = <<call, Sent + k>>

\* Each byte follows the one before, from the beginning of a request on.
ChainInv ==
    /\ Outgoing(1)[2] = 1
    /\ \A k \in 1..(Len(srvIn) + InRing) : Made(Outgoing(k)) /\ Outgoing(k + 1) = Follows(Outgoing(k))

OrderInv == WritesInv /\ ChainInv

-----------------------------------------------------------------------------
(* The same for ReadReturnsReply.                                          *)

\* No call but the last is answered with an error that has a payload.
ErrorsAreEmpty ==
    \A n \in 1..(MaxCalls - 1) : \A r \in Replies[n] : r.type = "XS_READ" \/ r.len = 0

InCall == Writing \/ Reading
Answers(n) == reply[n] # None

\* The bytes of the reply that are read, and those copied and read as well.
Got ==
    IF ~Reading THEN 0
    ELSE IF stage = "rhdr" THEN done
    ELSE IF stage = "rpayload" THEN HdrLen + done
    ELSE HdrLen + (reply[call].len - hdr.len) + done
Copied == done + (IF pc = "publish" THEN part ELSE 0)

\* The bytes of the reply that are still to be read.
Owed == IF InCall /\ Answers(call) THEN HdrLen + reply[call].len - Got ELSE 0

\* What waits in the ring, and what xenstored has yet to write.
Available == IdxSub(rspProd, rspCons)
Incoming(k) == IF k <= Available THEN rsp[Place(rspCons, k - 1)] ELSE srvOut[k - Available]

\* What a call that has not returned still gets is the rest of its reply, and
\* otherwise there is nothing to read.
IncomingInv ==
    stage # "idle" \/ call < MaxCalls =>
        /\ Available + Len(srvOut) = Owed
        /\ \A k \in 1..Owed : Incoming(k) = <<call, Got + k>>

\* Calls are answered in turn, one at a time, and return what they were answered.
TurnInv ==
    /\ InCall => call \in 1..MaxCalls
    /\ Len(results) = IF InCall THEN call - 1 ELSE call
    /\ \A n \in 1..MaxCalls : Answers(n) => n <= call /\ reply[n] \in Replies[n]
    /\ Outgoing(1) = IF InCall /\ ~Answers(call) THEN <<call, 1>> ELSE <<call + 1, 1>>
    /\ InCall /\ ~Answers(call) => Got = 0

\* What was copied out of the ring is the reply, in its place.
ReceivedInv ==
    /\ stage = "rhdr" =>
          done + len = HdrLen /\ hdrBytes = [k \in 1..Copied |-> <<call, k>>]
    /\ stage = "rpayload" =>
          /\ hdr = reply[call] /\ hdr.type = "XS_READ" /\ hdr.len <= PayloadMax
          /\ \A i \in 0..(Copied - 1) : payload[i] = <<call, HdrLen + i + 1>>
    /\ stage = "rdrain" =>
          reply[call].type = "XS_READ" /\ reply[call].len > PayloadMax /\ hdr.len <= reply[call].len

ReplyInv == TurnInv /\ ReceivedInv /\ IncomingInv /\ ReadReturnsReply
=============================================================================
