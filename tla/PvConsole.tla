----------------------------- MODULE PvConsole -----------------------------
(***************************************************************************)
(* The PV console of common/console.c: pv_console_write() puts a message   *)
(* into the out ring and waits until xenconsoled has consumed it,          *)
(* pv_console_read_some() takes what has been typed from the in ring, and  *)
(* both share one event channel port.  An exception that nobody handles    *)
(* may interrupt a write at any point: do_exception() then calls panic(),  *)
(* which prints a message of its own through the same function and never   *)
(* returns to the interrupted one.                                         *)
(*                                                                         *)
(* A byte of output is <<message, position>>; the n-th byte typed is n.    *)
(* xenconsoled is not under src/: its actions (Daemon...) are the peer     *)
(* that console.c is written against.                                      *)
(***************************************************************************)
EXTENDS Integers, Sequences

CONSTANTS
    OutSize, InSize,   \* sizeof(out) and sizeof(in) of xencons_interface
    IdxMod,            \* the number of values of a ring index
    Starts,            \* the index values that earlier use may have left
    MsgLens,           \* the lengths of the messages printed
    ReadLens,          \* the sizes of the buffers read into
    MaxMsgs,           \* bound: the messages printed
    MaxTyped,          \* bound: the bytes typed
    MaxLog,            \* bound: the bytes that xenconsoled takes
    MaxCrash           \* bound: only the first so many messages are interrupted
                       \* by an unhandled exception

ASSUME RingAssumption ==
    /\ OutSize \in Nat \ {0} /\ InSize \in Nat \ {0}
    /\ IdxMod \in Nat /\ IdxMod > OutSize /\ IdxMod > InSize
    /\ IdxMod % OutSize = 0 /\ IdxMod % InSize = 0
    /\ Starts \subseteq 0..(IdxMod - 1)
    /\ MsgLens \subseteq Nat \ {0} /\ ReadLens \subseteq Nat \ {0}
    /\ {MaxMsgs, MaxTyped, MaxLog, MaxCrash} \subseteq Nat

VARIABLES
    out, outProd, outCons,     \* the out ring and its indices
    in, inProd, inCons,        \* the in ring and its indices
    pending,                   \* the bit of pv_evtchn in evtchn_pending[]
    daemonPending,             \* xenconsoled's end of the event channel
    pc,                        \* where the guest is
    msgs,                      \* the length of each message printed so far
    written, entryCons, prod,  \* variables of pv_console_write() and _some()
    crashed,                   \* panic() has been entered
    rlen, rprod, got,          \* pv_console_read_some(), and all that it returned
    seen,                      \* in_prod as it last read it
    daemonPc, log, typed       \* xenconsoled, all that it took, all it was given

outVars == <<out, outProd, outCons>>
inVars == <<in, inProd, inCons>>
writeVars == <<msgs, written, entryCons, prod, crashed>>
readVars == <<rlen, rprod, got, seen>>
daemonVars == <<daemonPc, log, typed>>
vars == <<outVars, inVars, pending, daemonPending, pc, writeVars, readVars, daemonVars>>

\* A definition marked "Mutant" is no part of the model: it is what the
\* definition after it would be if the code had the named bug.

IdxAdd(i, n) == (i + n) % IdxMod
IdxSub(p, c) == (p - c + IdxMod) % IdxMod
Least(m, n) == IF m < n THEN m ELSE n

\* Mutant: the copy does not wrap around the ring's end.
StoredStraight(ring, size, i, s) ==
    [k \in DOMAIN ring |->
        LET at == k - (i % size) IN IF at \in 0..(Len(s) - 1) THEN s[at + 1] ELSE ring[k]]

\* The ring with s copied in from index i on, around its end.
Stored(ring, size, i, s) ==
    [k \in DOMAIN ring |->
        LET at == (k - i) % size IN IF at < Len(s) THEN s[at + 1] ELSE ring[k]]

\* What lies in the ring between the indices.
Between(ring, size, c, p) ==
    [k \in 1..IdxSub(p, c) |-> ring[IdxAdd(c, k - 1) % size]]

msg == Len(msgs)
msgLen == msgs[msg]

Init ==
    /\ out = [i \in 0..(OutSize - 1) |-> <<0, 0>>] /\ outProd \in Starts /\ outCons = outProd
    /\ in = [i \in 0..(InSize - 1) |-> 0] /\ inProd = outProd /\ inCons = outProd
    /\ pending = FALSE /\ daemonPending = FALSE
    /\ pc = "idle" /\ msgs = <<>> /\ written = 0 /\ entryCons = 0 /\ prod = 0
    /\ crashed = FALSE
    /\ rlen = 0 /\ rprod = 0 /\ got = <<>> /\ seen = inProd
    /\ daemonPc = "asleep" /\ log = <<>> /\ typed = 0

-----------------------------------------------------------------------------
(* pv_console_write().                                                     *)

\* The function is entered with a message of n bytes.
Enter(n) ==
    /\ msgs' = Append(msgs, n)
    /\ written' = 0
    /\ entryCons' = outCons
    /\ pc' = "some"
    /\ UNCHANGED <<outVars, inVars, pending, daemonPending, prod, readVars, daemonVars>>

Write(n) ==
    /\ pc = "idle" /\ msg < MaxMsgs
    /\ Enter(n)
    /\ UNCHANGED crashed

\* pv_console_write_some(&buf[written], len - written): the copy.
WriteSome ==
    /\ pc = "some"
    /\ LET s == Least(msgLen - written, OutSize - IdxSub(outProd, outCons))
       IN  /\ out' = Stored(out, OutSize, outProd, [k \in 1..s |-> <<msg, written + k>>])
           /\ prod' = IdxAdd(outProd, s)
           /\ written' = s
    /\ pc' = "publish"
    /\ UNCHANGED <<outProd, outCons, inVars, pending, daemonPending, msgs, entryCons,
                   crashed, readVars, daemonVars>>

\* STORE_RELEASE(&pv_ring->out_prod, prod).
WritePublish ==
    /\ pc = "publish"
    /\ outProd' = prod
    /\ pc' = "kick"
    /\ UNCHANGED <<out, outCons, inVars, pending, daemonPending, writeVars, readVars,
                   daemonVars>>

\* Mutant: no event is sent to xenconsoled.
KickNobody ==
    /\ pc = "kick"
    /\ pc' = IF written < msgLen THEN "space" ELSE "drain"
    /\ UNCHANGED <<outVars, inVars, pending, daemonPending, writeVars, readVars, daemonVars>>

WriteKick ==
    /\ pc = "kick"
    /\ daemonPending' = TRUE
    /\ pc' = IF written < msgLen THEN "space" ELSE "drain"
    /\ UNCHANGED <<outVars, inVars, pending, writeVars, readVars, daemonVars>>

WaitSpace ==
    /\ pc = "space"
    /\ outCons # entryCons
    /\ pc' = "some"
    /\ UNCHANGED <<outVars, inVars, pending, daemonPending, writeVars, readVars, daemonVars>>

\* Mutant: the message is left in the ring.
LeaveInRing ==
    /\ pc = "drain"
    /\ pc' = IF crashed THEN "dead" ELSE "idle"
    /\ UNCHANGED <<outVars, inVars, pending, daemonPending, writeVars, readVars, daemonVars>>

WaitDrain ==
    /\ pc = "drain"
    /\ outCons = outProd
    /\ pc' = IF crashed THEN "dead" ELSE "idle"
    /\ UNCHANGED <<outVars, inVars, pending, daemonPending, writeVars, readVars, daemonVars>>

\* An exception in the middle of a write: do_exception(), then panic(), whose
\* message starts a new pv_console_write().
Exception(n) ==
    /\ msg <= MaxCrash /\ ~crashed
    /\ pc \in {"some", "publish", "kick", "space", "drain"}
    /\ crashed' = TRUE
    /\ Enter(n)

-----------------------------------------------------------------------------
(* pv_console_read_some().                                                 *)

Read(n) ==
    /\ pc = "idle" /\ Len(got) < MaxTyped
    /\ rlen' = n
    /\ pc' = "test"
    /\ UNCHANGED <<outVars, inVars, pending, daemonPending, writeVars, rprod, got, seen, daemonVars>>

\* Mutant: the bit is cleared, and polled for whatever it was.
ClearAndPoll ==
    /\ pc = "test"
    /\ pending' = FALSE
    /\ pc' = "poll"
    /\ UNCHANGED <<outVars, inVars, daemonPending, writeVars, readVars, daemonVars>>

\* test_and_clear_bit(), the left operand of ||.
ReadTest ==
    /\ pc = "test"
    /\ pending' = FALSE
    /\ pc' = IF pending THEN "check" ELSE "poll"
    /\ UNCHANGED <<outVars, inVars, daemonPending, writeVars, readVars, daemonVars>>

ReadCheck ==
    /\ pc = "check"
    /\ pc' = IF inCons = inProd THEN "poll" ELSE "copy"
    /\ UNCHANGED <<outVars, inVars, pending, daemonPending, writeVars, readVars, daemonVars>>

ReadPoll ==
    /\ pc = "poll"
    /\ pending
    /\ pc' = "test"
    /\ UNCHANGED <<outVars, inVars, pending, daemonPending, writeVars, readVars, daemonVars>>

ReadCopy ==
    /\ pc = "copy"
    /\ LET s == Least(rlen, IdxSub(inProd, inCons))
       IN  /\ got' = got \o SubSeq(Between(in, InSize, inCons, inProd), 1, s)
           /\ rprod' = IdxAdd(inCons, s)
           /\ seen' = inProd
    /\ pc' = "taken"
    /\ UNCHANGED <<outVars, inVars, pending, daemonPending, writeVars, rlen, daemonVars>>

\* Mutant: the producer index is read again for the release.
ReleaseAll ==
    /\ pc = "taken"
    /\ inCons' = inProd
    /\ pc' = "idle"
    /\ UNCHANGED <<outVars, in, inProd, pending, daemonPending, writeVars, readVars, daemonVars>>

ReadPublish ==
    /\ pc = "taken"
    /\ inCons' = rprod
    /\ pc' = "idle"
    /\ UNCHANGED <<outVars, in, inProd, pending, daemonPending, writeVars, readVars, daemonVars>>

-----------------------------------------------------------------------------
(* xenconsoled.                                                            *)

DaemonWake ==
    /\ daemonPc = "asleep" /\ daemonPending
    /\ daemonPending' = FALSE
    /\ daemonPc' = "scan"
    /\ UNCHANGED <<outVars, inVars, pending, pc, writeVars, readVars, log, typed>>

DaemonTake ==
    /\ daemonPc = "scan"
    /\ \E n \in 1..Least(IdxSub(outProd, outCons), MaxLog - Len(log)) :
          /\ log' = log \o SubSeq(Between(out, OutSize, outCons, outProd), 1, n)
          /\ outCons' = IdxAdd(outCons, n)
    /\ daemonPc' = "notify"
    /\ UNCHANGED <<out, outProd, inVars, pending, daemonPending, pc, writeVars, readVars, typed>>

\* Somebody types n bytes at the console.
DaemonType ==
    /\ daemonPc # "notify" /\ pc # "dead"
    /\ \E n \in 1..Least(MaxTyped - typed, InSize - IdxSub(inProd, inCons)) :
          /\ in' = Stored(in, InSize, inProd, [k \in 1..n |-> typed + k])
          /\ inProd' = IdxAdd(inProd, n)
          /\ typed' = typed + n
    /\ daemonPc' = "notify"
    /\ UNCHANGED <<outVars, inCons, pending, daemonPending, pc, writeVars, readVars, log>>

DaemonNotify ==
    /\ daemonPc = "notify"
    /\ pending' = TRUE
    /\ daemonPc' = "scan"
    /\ UNCHANGED <<outVars, inVars, daemonPending, pc, writeVars, readVars, log, typed>>

DaemonSleep ==
    /\ daemonPc = "scan"
    /\ outCons = outProd
    /\ daemonPc' = "asleep"
    /\ UNCHANGED <<outVars, inVars, pending, daemonPending, pc, writeVars, readVars, log, typed>>

-----------------------------------------------------------------------------
\* The test prints and reads nothing more, waits for somebody to type, panic()
\* shut the domain down, or the bound is met, which the writes of a test alone
\* do not.
Finished ==
    /\ \/ pc = "dead" \/ (crashed /\ Len(log) = MaxLog)
       \/ pc = "idle" /\ msg = MaxMsgs /\ Len(got) = MaxTyped
       \/ pc = "poll" /\ typed = MaxTyped
    /\ UNCHANGED vars

Writer == WriteSome \/ WritePublish \/ WriteKick \/ WaitSpace \/ WaitDrain
Reader == ReadTest \/ ReadCheck \/ ReadPoll \/ ReadCopy \/ ReadPublish
Daemon == DaemonWake \/ DaemonTake \/ DaemonNotify \/ DaemonSleep

Next == (\E n \in MsgLens : Write(n) \/ Exception(n)) \/ Writer
        \/ (\E n \in ReadLens : Read(n)) \/ Reader
        \/ Daemon \/ DaemonType \/ Finished

\* The vCPU keeps running inside a call, and xenconsoled serves its channel.
Spec == Init /\ [][Next]_vars
FairSpec == Spec /\ WF_vars(Writer \/ Reader) /\ WF_vars(Daemon)

-----------------------------------------------------------------------------
\* Every variable stays in the range that its C type and its use give it.
Index == 0..(IdxMod - 1)
TypeOK ==
    /\ out \in [0..(OutSize - 1) -> Nat \X Nat] /\ outProd \in Index /\ outCons \in Index
    /\ in \in [0..(InSize - 1) -> 0..MaxTyped] /\ inProd \in Index /\ inCons \in Index
    /\ {pending, daemonPending, crashed} \subseteq BOOLEAN
    /\ pc \in {"idle", "some", "publish", "kick", "space", "drain", "dead",
               "test", "check", "poll", "copy", "taken"}
    /\ msgs \in Seq(MsgLens) /\ written \in Nat /\ {entryCons, prod, rprod, seen} \subseteq Index
    /\ rlen \in ReadLens \union {0} /\ got \in Seq(Nat) /\ typed \in 0..MaxTyped
    /\ daemonPc \in {"asleep", "scan", "notify"} /\ log \in Seq(Nat \X Nat)

\* What xenconsoled took, followed by what waits in the ring, never repeats or
\* skips a byte, except that panic() may cut the message it interrupted short.
Follows(b, a) ==
    \/ b = <<a[1], a[2] + 1>>
    \/ b[2] = 1 /\ b[1] > a[1] /\ (a[2] = msgs[a[1]] \/ crashed)
InOrder ==
    LET stream == log \o Between(out, OutSize, outCons, outProd)
    IN  \A k \in 2..Len(stream) : Follows(stream[k], stream[k - 1])

\* Each direction of the console is a stream without loss or repetition, through
\* the wraps of its ring: it shows each message once, whole and in order, as long
\* as no panic() interrupts a write, and what was typed is read once and in order.
StreamsInOrder ==
    /\ ~crashed => InOrder
    /\ \A k \in 1..Len(got) : got[k] = k

\* Messages are in order even then, so that the message of panic() is whole (console.c:76,
\* "synchronously waiting for all data to be consumed").
PanicIsReadable == InOrder

\* pv_console_write() returns only when all that it was given is consumed, so
\* that the next message finds the whole ring free, and what was printed
\* before a shutdown is not lost (console.c: "synchronously waiting for all
\* data to be consumed").
WriteIsSynchronous ==
    pc \in {"idle", "dead"} /\ msg > 0 =>
        /\ outCons = outProd
        /\ Len(log) >= msgLen
        /\ \A k \in 1..msgLen : log[Len(log) - msgLen + k] = <<msg, k>>

\* pv_console_read_some() sleeps only while nothing has come in since it last
\* looked.  That is less than "Will block if no data are available" says
\* (console.c:53): data that an earlier call saw and had no room for wait with
\* it for the next event.
SleepsOnlyWithoutNews ==
    pc = "poll" /\ inProd # seen => pending \/ daemonPc = "notify"
=============================================================================
