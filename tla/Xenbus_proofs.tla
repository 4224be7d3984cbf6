--------------------------- MODULE Xenbus_proofs ---------------------------
(***************************************************************************)
(* Proofs about Xenbus, for every size of the ring and of the messages,    *)
(* every reply and any number of calls.                                    *)
(***************************************************************************)
EXTENDS XenbusRpc, Arithmetic, FiniteSetTheorems, TLAPS

-----------------------------------------------------------------------------
(* The arithmetic of the ring indices.                                     *)

\* mask_xenbus_idx() is a place in the ring, whatever the index.
LEMMA MaskRange == ASSUME NEW i \in Nat PROVE Mask(i) \in 0..(RingSize - 1)
  BY RingAssumption, SMT DEF Mask

\* mask_xenbus_idx() leaves an amount smaller than the ring as it is.
LEMMA MaskSmall == ASSUME NEW i \in 0..(RingSize - 1) PROVE Mask(i) = i
  BY RingAssumption, SMT DEF Mask

\* Indices stay in the range of a uint32_t.
LEMMA IdxAddType ==
  ASSUME NEW i \in Index, NEW n \in 0..RingSize
  PROVE  IdxAdd(i, n) \in Index
  BY RingAssumption, SMT DEF Index, IdxAdd

\* So does the distance between two of them.
LEMMA IdxSubType ==
  ASSUME NEW i \in Index, NEW j \in Index
  PROVE  IdxSub(i, j) \in Index
  BY RingAssumption, SMT DEF Index, IdxSub

\* Moving the producer by n lengthens what lies between the indices by n, as
\* long as that stays within the ring.
LEMMA ProduceLen ==
  ASSUME NEW p \in Index, NEW c \in Index, NEW n \in 0..RingSize,
         IdxSub(p, c) + n <= RingSize
  PROVE  IdxSub(IdxAdd(p, n), c) = IdxSub(p, c) + n
  BY RingAssumption, SMT DEF Index, IdxAdd, IdxSub

\* Moving the consumer by n, up to the producer, shortens it by n.
LEMMA ConsumeLen ==
  ASSUME NEW p \in Index, NEW c \in Index, NEW n \in 0..RingSize,
         n <= IdxSub(p, c)
  PROVE  IdxSub(p, IdxAdd(c, n)) = IdxSub(p, c) - n
  BY RingAssumption, SMT DEF Index, IdxAdd, IdxSub

-----------------------------------------------------------------------------
(* Chunks and stores.                                                      *)

\* What one memcpy() takes out of a ring is as long as asked, given that it does
\* not run past the end of the ring (xenbus.c:97).
LEMMA ChunkType ==
  ASSUME NEW ring \in [0..(RingSize - 1) -> Bytes], NEW i \in Nat,
         NEW n \in 0..RingSize, n <= RingSize - Mask(i)
  PROVE  Chunk(ring, i, n) \in Seq(Bytes) /\ Len(Chunk(ring, i, n)) = n
<1>1. Mask(i) \in 0..(RingSize - 1)
  BY MaskRange
<1>2. \A k \in 1..n : ring[Mask(i) + k - 1] \in Bytes
  BY <1>1, RingAssumption
<1>. QED
  BY <1>2, RingAssumption DEF Chunk

\* A ring that bytes were stored in is a ring (xenbus.c:53).
LEMMA StoredType ==
  ASSUME NEW ring \in [0..(RingSize - 1) -> Bytes], NEW i \in Nat,
         NEW s \in Seq(Bytes)
  PROVE  Stored(ring, i, s) \in [0..(RingSize - 1) -> Bytes]
<1>1. Mask(i) \in 0..(RingSize - 1)
  BY MaskRange
<1>2. \A k \in Mask(i)..(Mask(i) + Len(s) - 1) : s[k - Mask(i) + 1] \in Bytes
  BY <1>1, RingAssumption
<1>. QED
  BY <1>2 DEF Stored

\* The string in payload[] is made of the bytes stored there.
LEMMA CStringType ==
  ASSUME NEW buf \in [0..PayloadMax -> Bytes]
  PROVE  CString(buf) \in Seq(Bytes)
<1>. DEFINE S == {i \in DOMAIN buf : \A j \in 0..i : buf[j] # NUL}
<1>1. IsFiniteSet(0..PayloadMax) /\ Cardinality(0..PayloadMax) = PayloadMax + 1
  BY FS_Interval, WireAssumption
<1>2. Cardinality(S) \in Nat /\ Cardinality(S) <= PayloadMax + 1
  <2>1. S \subseteq 0..PayloadMax
    OBVIOUS
  <2>2. IsFiniteSet(S) /\ Cardinality(S) <= Cardinality(0..PayloadMax)
    BY <1>1, <2>1, FS_Subset
  <2>. QED
    BY <1>1, <2>2, FS_CardinalityType
<1>3. \A k \in 1..Cardinality(S) : buf[k - 1] \in Bytes
  BY <1>2, WireAssumption
<1>4. CString(buf) = [k \in 1..Cardinality(S) |-> buf[k - 1]]
  BY DEF CString, StrLen
<1>. QED
  BY <1>2, <1>3, <1>4

\* The terminator is a byte.
LEMMA NULType == NUL \in Bytes
  BY DEF NUL, Bytes

-----------------------------------------------------------------------------
(* TypeOK.                                                                 *)

\* Before init_xenbus() every variable has its type.
LEMMA TypeInit == Init => TypeOK
<1>. SUFFICES ASSUME Init PROVE TypeOK
  OBVIOUS
<1>. USE RingAssumption, WireAssumption, NULType DEF Init
<1>. 0 \in Index
  BY DEF Index
<1>1. RingType /\ LoopType
  BY DEF RingType, LoopType
<1>4. EvtchnType
  BY DEF EvtchnType
<1>2. CallType
  BY DEF CallType, None, call
<1>3. SrvType
  BY DEF SrvType
<1>. QED
  BY <1>1, <1>2, <1>3, <1>4 DEF TypeOK

\* What the indices in the shared page say, as numbers.
LEMMA RingNumbers ==
  ASSUME TypeOK
  PROVE  /\ Mask(reqProd) \in 0..(RingSize - 1) /\ Mask(reqCons) \in 0..(RingSize - 1)
         /\ Mask(rspProd) \in 0..(RingSize - 1) /\ Mask(rspCons) \in 0..(RingSize - 1)
         /\ IdxSub(reqProd, reqCons) \in Nat /\ IdxSub(rspProd, rspCons) \in Nat
<1>1. Index \subseteq Nat
  BY DEF Index
<1>2. /\ reqProd \in Index /\ reqCons \in Index /\ rspProd \in Index /\ rspCons \in Index
  BY DEF TypeOK, RingType
<1>. QED
  BY <1>1, <1>2, MaskRange, IdxSubType

\* The amounts xenstored moves stay within the ring, and within its end.
LEMMA ReadableRange ==
  ASSUME TypeOK
  PROVE  /\ SrvReadable \in 0..RingSize /\ SrvReadable <= RingSize - Mask(reqCons)
         /\ SrvReadable <= IdxSub(reqProd, reqCons)
  BY RingNumbers, RingAssumption DEF SrvReadable, Least

\* The same for what xenstored may write.
LEMMA SpaceRange ==
  ASSUME TypeOK, RingBounds
  PROVE  /\ SrvSpace \in 0..RingSize /\ SrvSpace <= RingSize - Mask(rspProd)
         /\ SrvSpace <= RingSize - IdxSub(rspProd, rspCons)
<1>1. IdxSub(rspProd, rspCons) <= RingSize
  BY DEF RingBounds
<1>. QED
  BY <1>1, RingNumbers, RingAssumption DEF SrvSpace, Least

\* Only five actions write to the page that is shared with xenstored.
LEMMA OtherSteps ==
  ASSUME [Next]_vars
  PROVE  WriteCopy \/ WritePublish \/ ReadPublish \/ SrvRead \/ SrvWrite \/ UNCHANGED ringVars
  BY DEF Next, Startup, Loop, Body, Srv, vars, Finished, InitXenbus, XenstoreInit,
     XenstoreRead, WriteSample, ReadSample, ReadCopy, Kick, TestAndClear, Poll, WritePath,
     KickRequest, HeaderNotRead, HeaderTooLong, DrainNext, HeaderFits, FinishPayload,
     SrvWake, SrvReply, SrvNotify, SrvSleep

\* The rings and the indices keep their types.
LEMMA RingTypeStep == ASSUME IndInv, [Next]_vars PROVE RingType'
<1>1. CASE WriteCopy
  <2>1. RequestBytes(part) \in Seq(Bytes)
    BY WireAssumption DEF RequestBytes, IndInv, TypeOK, LoopType, CallType, Bytes, call
  <2>2. req' \in [0..(RingSize - 1) -> Bytes]
    BY <1>1, <2>1, StoredType DEF WriteCopy, TransferInv, Writing, IndInv, TypeOK, RingType, LoopType, Index
  <2>. QED
    BY <1>1, <2>2 DEF WriteCopy, IndInv, TypeOK, RingType
<1>2. CASE WritePublish
  BY <1>2, IdxAddType DEF WritePublish, IndInv, TypeOK, RingType, LoopType
<1>3. CASE ReadPublish
  BY <1>3, IdxAddType DEF ReadPublish, IndInv, TypeOK, RingType, LoopType
<1>4. CASE SrvRead
  <2>1. PICK n \in 1..SrvReadable : reqCons' = IdxAdd(reqCons, n)
    BY <1>4 DEF SrvRead
  <2>2. n \in 0..RingSize
    BY <2>1, ReadableRange, RingAssumption DEF IndInv
  <2>. QED
    BY <1>4, <2>1, <2>2, IdxAddType DEF SrvRead, IndInv, TypeOK, RingType
<1>5. CASE SrvWrite
  <2>1. PICK n \in 1..Least(SrvSpace, Len(srvOut)) :
          rsp' = Stored(rsp, rspProd, SubSeq(srvOut, 1, n)) /\ rspProd' = IdxAdd(rspProd, n)
    BY <1>5 DEF SrvWrite
  <2>2. n \in 0..RingSize /\ n <= Len(srvOut) /\ srvOut \in Seq(Bytes)
    BY <2>1, SpaceRange, RingAssumption DEF IndInv, TypeOK, SrvType, Least
  <2>3. SubSeq(srvOut, 1, n) \in Seq(Bytes)
    BY <2>2
  <2>4. rsp' \in [0..(RingSize - 1) -> Bytes]
    <3>1. rspProd \in Nat /\ rsp \in [0..(RingSize - 1) -> Bytes]
      BY DEF IndInv, TypeOK, RingType, Index
    <3>. QED
      BY <2>1, <2>3, <3>1, StoredType
  <2>. QED
    BY <1>5, <2>1, <2>2, <2>4, IdxAddType DEF SrvWrite, IndInv, TypeOK, RingType
<1>6. CASE UNCHANGED ringVars
  BY <1>6 DEF ringVars, IndInv, TypeOK, RingType
<1>. QED
  BY <1>1, <1>2, <1>3, <1>4, <1>5, <1>6, OtherSteps

\* The event channel's state keeps its type.
LEMMA EvtchnTypeStep == ASSUME IndInv, [Next]_vars PROVE EvtchnType'
<1>1. EvtchnType
  BY DEF IndInv, TypeOK
<1>2. CASE Kick \/ KickRequest \/ TestAndClear \/ SrvWake \/ SrvNotify
  BY <1>1, <1>2 DEF EvtchnType, envVars, Kick, KickRequest, TestAndClear, SrvWake, SrvNotify
<1>3. CASE UNCHANGED <<evtVars, envVars>>
  BY <1>1, <1>3 DEF EvtchnType, evtVars, envVars
<1>. QED
  BY <1>2, <1>3 DEF Next, Startup, Loop, Body, Srv, vars, Finished, InitXenbus,
     XenstoreInit, XenstoreRead, WriteSample, WriteCopy, WritePublish, ReadSample, ReadCopy,
     ReadPublish, Poll, WritePath, HeaderNotRead, HeaderTooLong, DrainNext, HeaderFits,
     FinishPayload, SrvRead, SrvReply, SrvWrite, SrvSleep

\* The header that the guest parses is one of an XS_READ or an XS_ERROR.
LEMMA HdrsType ==
  ASSUME TypeOK
  PROVE  ReceivedHdrs \subseteq [type : {"XS_READ", "XS_ERROR", "none"}, len : Nat]
<1>1. \A n \in 1..MaxCalls : reply[n] \in Headers \union {None}
  BY DEF TypeOK, SrvType
<1>2. Headers \union StrayHdrs \subseteq [type : {"XS_READ", "XS_ERROR", "none"}, len : Nat]
  BY WireAssumption DEF Headers
<1>. QED
  BY <1>1, <1>2 DEF ReceivedHdrs

\* What a turn of the drain loop leaves is not negative.
LEMMA DrainLeft ==
  ASSUME IndInv, DrainNext
  PROVE  /\ hdr.len - done \in Nat
         /\ hdr' = [hdr EXCEPT !.len = hdr.len - done]
<1>1. hdr.len \in Nat /\ done \in Nat
  BY DEF IndInv, TypeOK, CallType, LoopType
<1>2. done <= hdr.len
  BY <1>1 DEF IndInv, LengthInv, DrainNext, LoopDone
<1>. QED
  BY <1>1, <1>2 DEF DrainNext

\* The variables of the copy loops keep their types.
LEMMA LoopTypeStep == ASSUME IndInv, [Next]_vars PROVE LoopType'
<1>. USE WireAssumption
<1>0. TypeOK /\ LoopType
  BY DEF IndInv, TypeOK
<1>1. CASE InitXenbus \/ XenstoreInit
  BY <1>0, <1>1 DEF InitXenbus, XenstoreInit, LoopType, loopVars
<1>2. CASE \E p \in PathLens : XenstoreRead(p)
  BY <1>0, <1>2 DEF XenstoreRead, StartLoop, LoopType
<1>3. CASE WriteSample
  <2>1. part' \in 0..RingSize
    <3>1. len \in Nat /\ len > 0
      BY <1>0, <1>3 DEF LoopType, WriteSample
    <3>2. Mask(IdxSub(reqProd, reqCons)) \in 0..(RingSize - 1)
      BY <1>0, RingNumbers, MaskRange
    <3>. QED
      BY <1>0, <1>3, <3>1, <3>2, RingNumbers, RingAssumption DEF WriteSample, Least
  <2>. QED
    BY <1>0, <1>3, <2>1 DEF WriteSample, LoopType, TypeOK, RingType
<1>4. CASE ReadSample
  <2>1. part' \in 0..RingSize
    <3>1. len \in Nat /\ len > 0
      BY <1>0, <1>4 DEF LoopType, ReadSample
    <3>. QED
      BY <1>0, <1>4, <3>1, RingNumbers, RingAssumption DEF ReadSample, Least
  <2>. QED
    BY <1>0, <1>4, <2>1 DEF ReadSample, LoopType, TypeOK, RingType
<1>5. CASE WriteCopy \/ ReadCopy \/ Kick \/ TestAndClear \/ Poll
  BY <1>0, <1>5 DEF WriteCopy, ReadCopy, Kick, TestAndClear, Poll, LoopType
<1>6. CASE WritePublish \/ ReadPublish
  <2>1. part \in 1..len
    BY <1>6 DEF WritePublish, ReadPublish, IndInv, RingBounds
  <2>2. len' \in Nat /\ done' \in Nat
    BY <1>0, <1>6, <2>1 DEF WritePublish, ReadPublish, LoopType
  <2>. QED
    BY <1>0, <1>6, <2>2 DEF WritePublish, ReadPublish, LoopType
<1>7. CASE WritePath \/ KickRequest
  BY <1>0, <1>7 DEF WritePath, KickRequest, StartLoop, LoopType, TypeOK, CallType
<1>8. CASE HeaderNotRead \/ FinishPayload
  BY <1>0, <1>8 DEF HeaderNotRead, FinishPayload, Return, LoopType, loopVars
<1>9. CASE HeaderTooLong
  <2>1. PICK h \in ReceivedHdrs : h.len > PayloadMax /\ StartLoop("rdrain", Least(h.len, PayloadMax))
    BY <1>9 DEF HeaderTooLong
  <2>2. Least(h.len, PayloadMax) \in Nat
    BY <1>0, <2>1, HdrsType DEF Least
  <2>. QED
    BY <1>0, <2>1, <2>2 DEF StartLoop, LoopType
<1>10. CASE DrainNext
  <2>1. hdr'.len \in Nat
    BY <1>0, <1>10, DrainLeft DEF TypeOK, CallType
  <2>2. Least(hdr'.len, PayloadMax) \in Nat
    BY <2>1 DEF Least
  <2>3. CASE StartLoop("rdrain", Least(hdr'.len, PayloadMax))
    BY <1>0, <2>2, <2>3 DEF StartLoop, LoopType
  <2>4. CASE Return(NULL)
    BY <1>0, <2>4 DEF Return, LoopType, loopVars
  <2>. QED
    BY <1>10, <2>3, <2>4 DEF DrainNext
<1>11. CASE HeaderFits
  <2>1. PICK h \in ReceivedHdrs : StartLoop("rpayload", h.len)
    BY <1>11 DEF HeaderFits
  <2>2. h.len \in Nat
    BY <1>0, <2>1, HdrsType
  <2>. QED
    BY <1>0, <2>1, <2>2 DEF StartLoop, LoopType
<1>12. CASE Srv \/ Finished \/ UNCHANGED vars
  <2>1. UNCHANGED <<stage, loopVars>>
    BY <1>12 DEF Srv, SrvWake, SrvRead, SrvReply, SrvWrite, SrvNotify, SrvSleep, Finished, vars
  <2>. QED
    BY <1>0, <2>1 DEF LoopType, loopVars
<1>. QED
  BY <1>1, <1>2, <1>3, <1>4, <1>5, <1>6, <1>7, <1>8, <1>9, <1>10, <1>11, <1>12
  DEF Next, Startup, Loop, Body

\* A part that is being read lies in the ring and fits in its destination.
LEMMA ReadPart ==
  ASSUME IndInv, ReadCopy
  PROVE  /\ part \in 1..len /\ part <= RingSize - Mask(cons)
         /\ Chunk(rsp, cons, part) \in Seq(Bytes) /\ Len(Chunk(rsp, cons, part)) = part
<1>1. part \in 1..len /\ part \in 0..RingSize
  BY DEF ReadCopy, IndInv, RingBounds, TypeOK, LoopType
<1>2. part <= RingSize - Mask(cons)
  BY DEF ReadCopy, IndInv, TransferInv
<1>3. cons \in Nat /\ rsp \in [0..(RingSize - 1) -> Bytes]
  BY DEF IndInv, TypeOK, LoopType, RingType, Index
<1>. QED
  BY <1>1, <1>2, <1>3, ChunkType

\* The variables of xenstore_read() keep their types.
LEMMA CallTypeStep == ASSUME IndInv, [Next]_vars PROVE CallType'
<1>. USE WireAssumption DEF call
<1>0. TypeOK /\ CallType
  BY DEF IndInv, TypeOK
<1>1. CASE \E p \in PathLens : XenstoreRead(p)
  BY <1>0, <1>1 DEF XenstoreRead, CallType
<1>2. CASE ReadCopy
  <2>. DEFINE data == Chunk(rsp, cons, part)
  <2>1. data \in Seq(Bytes) /\ Len(data) = part
    BY <1>2, ReadPart
  <2>2. hdrBytes' \in Seq(Bytes)
    <3>1. hdrBytes' = hdrBytes \o data \/ hdrBytes' = hdrBytes
      BY <1>2 DEF ReadCopy
    <3>2. hdrBytes \in Seq(Bytes)
      BY <1>0 DEF CallType
    <3>3. hdrBytes \o data \in Seq(Bytes)
      BY <2>1, <3>2
    <3>. QED
      BY <3>1, <3>2, <3>3
  <2>3. done \in Nat /\ part \in Nat
    BY <1>0 DEF TypeOK, LoopType
  <2>4. \A i \in done..(done + part - 1) : data[i - done + 1] \in Bytes
    BY <2>1, <2>3
  <2>5. payload' \in [0..PayloadMax -> Bytes]
    BY <1>0, <1>2, <2>4 DEF ReadCopy, CallType
  <2>. QED
    BY <1>0, <1>2, <2>2, <2>5 DEF ReadCopy, CallType
<1>3. CASE KickRequest
  BY <1>0, <1>3 DEF KickRequest, CallType
<1>4. NULL \in [ptr : {"NULL", "payload"}, str : Seq(Bytes)]
  BY DEF NULL
<1>5. CASE HeaderNotRead
  BY <1>0, <1>4, <1>5, HdrsType DEF HeaderNotRead, Return, CallType
<1>6. CASE HeaderTooLong \/ HeaderFits
  BY <1>0, <1>6, HdrsType DEF HeaderTooLong, HeaderFits, CallType
<1>7. CASE DrainNext
  <2>1. hdr' \in [type : {"XS_READ", "XS_ERROR", "none"}, len : Nat]
    BY <1>0, <1>7, DrainLeft DEF CallType
  <2>2. results' \in Seq([ptr : {"NULL", "payload"}, str : Seq(Bytes)])
    <3>1. results' = results \/ results' = Append(results, NULL)
      BY <1>7 DEF DrainNext, Return
    <3>2. results \in Seq([ptr : {"NULL", "payload"}, str : Seq(Bytes)])
      BY <1>0 DEF CallType
    <3>3. Append(results, NULL) \in Seq([ptr : {"NULL", "payload"}, str : Seq(Bytes)])
      BY <1>4, <3>2
    <3>. QED
      BY <3>1, <3>2, <3>3
  <2>. QED
    BY <1>0, <1>7, <2>1, <2>2 DEF DrainNext, CallType
<1>8. CASE FinishPayload
  <2>1. payload' \in [0..PayloadMax -> Bytes]
    BY <1>0, <1>8, NULType DEF FinishPayload, CallType
  <2>2. CString(payload') \in Seq(Bytes)
    BY <2>1, CStringType
  <2>3. String(CString(payload')) \in [ptr : {"NULL", "payload"}, str : Seq(Bytes)]
    BY <2>2 DEF String
  <2>. QED
    BY <1>0, <1>8, <2>1, <2>3 DEF FinishPayload, Return, CallType
<1>9. CASE UNCHANGED callVars
  BY <1>0, <1>9 DEF callVars, CallType
<1>. QED
  BY <1>1, <1>2, <1>3, <1>5, <1>6, <1>7, <1>8, <1>9
  DEF Next, Startup, Loop, Body, Srv, vars, Finished, InitXenbus, XenstoreInit,
     WriteSample, WriteCopy, WritePublish, ReadSample, ReadPublish, Kick, TestAndClear, Poll,
     WritePath, SrvWake, SrvRead, SrvReply, SrvWrite, SrvNotify, SrvSleep

\* xenstored's variables keep their types.
LEMMA SrvTypeStep == ASSUME IndInv, [Next]_vars PROVE SrvType'
<1>. USE WireAssumption
<1>0. TypeOK /\ SrvType
  BY DEF IndInv, TypeOK
<1>1. CASE SrvWake \/ SrvNotify \/ SrvSleep
  BY <1>0, <1>1 DEF SrvWake, SrvNotify, SrvSleep, SrvType
<1>2. CASE SrvRead
  <2>1. PICK n \in 1..SrvReadable : srvIn' = srvIn \o Chunk(req, reqCons, n)
    BY <1>2 DEF SrvRead
  <2>2. n \in 0..RingSize /\ n <= RingSize - Mask(reqCons)
    BY <1>0, <2>1, ReadableRange, RingNumbers, RingAssumption
  <2>3. reqCons \in Nat /\ req \in [0..(RingSize - 1) -> Bytes]
    BY <1>0 DEF TypeOK, RingType, Index
  <2>4. Chunk(req, reqCons, n) \in Seq(Bytes)
    BY <2>2, <2>3, ChunkType
  <2>. QED
    BY <1>0, <1>2, <2>1, <2>4 DEF SrvRead, SrvType
<1>3. CASE SrvReply
  <2>1. PICK r \in Headers :
          /\ reply' = [reply EXCEPT ![srvIn[1][1]] = r]
          /\ srvOut' = srvOut \o [k \in 1..(HdrLen + r.len) |-> <<srvIn[1][1], k>>]
    BY <1>3 DEF SrvReply
  <2>2. Len(srvIn) >= 1
    BY <1>0, <1>3 DEF SrvReply, SrvNeeds, SrvType
  <2>3. srvIn[1][1] \in Nat
    BY <1>0, <2>2 DEF SrvType, Bytes
  <2>4. [k \in 1..(HdrLen + r.len) |-> <<srvIn[1][1], k>>] \in Seq(Bytes)
    <3>1. HdrLen + r.len \in Nat
      BY <2>1 DEF Headers
    <3>2. \A k \in 1..(HdrLen + r.len) : <<srvIn[1][1], k>> \in Bytes
      BY <2>3, <3>1 DEF Bytes
    <3>. QED
      BY <3>1, <3>2
  <2>5. srvOut' \in Seq(Bytes)
    BY <1>0, <2>1, <2>4 DEF SrvType
  <2>6. reply' \in [1..MaxCalls -> Headers \union {None}]
    BY <1>0, <2>1 DEF SrvType
  <2>. QED
    BY <1>0, <1>3, <2>5, <2>6 DEF SrvReply, SrvType
<1>4. CASE SrvWrite
  <2>1. PICK n \in 1..Least(SrvSpace, Len(srvOut)) :
          srvOut' = SubSeq(srvOut, n + 1, Len(srvOut))
    BY <1>4 DEF SrvWrite
  <2>2. srvOut' \in Seq(Bytes)
    BY <1>0, <2>1 DEF SrvType
  <2>. QED
    BY <1>0, <1>4, <2>2 DEF SrvWrite, SrvType
<1>5. CASE UNCHANGED srvVars
  BY <1>0, <1>5 DEF srvVars, SrvType
<1>. QED
  BY <1>1, <1>2, <1>3, <1>4, <1>5
  DEF Next, Startup, Loop, Body, Srv, vars, Finished, InitXenbus, XenstoreInit,
     XenstoreRead, WriteSample, WriteCopy, WritePublish, ReadSample, ReadCopy, ReadPublish,
     Kick, TestAndClear, Poll, WritePath, KickRequest, HeaderNotRead, HeaderTooLong,
     DrainNext, HeaderFits, FinishPayload

\* Every step keeps the types.
LEMMA TypeStep == ASSUME IndInv, [Next]_vars PROVE TypeOK'
  BY RingTypeStep, EvtchnTypeStep, LoopTypeStep, CallTypeStep, SrvTypeStep DEF TypeOK

-----------------------------------------------------------------------------
(* RingBounds and TransferInv.                                             *)

Transferring == pc \in {"copy", "publish"}

\* Where no transfer begins or is under way after a step that leaves the
\* indices alone, there is nothing to show.
LEMMA NoTransfer ==
  ASSUME IndInv, ringVars' = ringVars, pc' = "loop"
  PROVE  RingBounds' /\ TransferInv'
  BY DEF IndInv, RingBounds, TransferInv, ringVars

\* A step that leaves the indices and the loop alone leaves the bounds alone.
LEMMA SameTransfer ==
  ASSUME IndInv, reqProd' = reqProd, reqCons' = reqCons, rspProd' = rspProd,
         rspCons' = rspCons, UNCHANGED <<stage, len, part, cons, prod>>,
         Transferring' => Transferring, pc' # "loop" => pc # "loop"
  PROVE  RingBounds' /\ TransferInv'
  BY DEF IndInv, RingBounds, TransferInv, Transferring, Writing, Reading

\* Every step keeps the rings within bounds, and what the two transfer loops
\* know of them between their samples and their publications.
LEMMA TransferStep == ASSUME IndInv, [Next]_vars PROVE RingBounds' /\ TransferInv'
<1>0. TypeOK /\ RingBounds /\ TransferInv
  BY DEF IndInv
<1>00. /\ reqProd \in Index /\ reqCons \in Index /\ rspProd \in Index /\ rspCons \in Index
       /\ len \in Nat /\ part \in 0..RingSize
  BY <1>0 DEF TypeOK, RingType, LoopType
<1>1. CASE WriteSample
  <2>1. IdxSub(reqProd, reqCons) \in 0..(RingSize - 1)
    BY <1>0, RingNumbers, RingAssumption DEF RingBounds
  <2>2. Mask(IdxSub(reqProd, reqCons)) = IdxSub(reqProd, reqCons)
    BY <2>1, MaskSmall
  <2>3. CASE IdxSub(reqProd, reqCons) = RingSize - 1
    <3>1. pc' = "kick" /\ UNCHANGED <<ringVars, stage, len>>
      BY <1>1, <2>2, <2>3, RingAssumption DEF WriteSample
    <3>. QED
      BY <1>0, <1>1, <3>1 DEF WriteSample, RingBounds, TransferInv, ringVars, Writing, Reading
  <2>4. CASE IdxSub(reqProd, reqCons) # RingSize - 1
    <3>. DEFINE space == (RingSize - 1) - IdxSub(reqProd, reqCons)
    <3>1. /\ pc' = "copy" /\ part' = Least(Least(space, RingSize - Mask(reqProd)), len)
          /\ UNCHANGED <<ringVars, stage, len>> /\ prod' = reqProd
      BY <1>1, <2>1, <2>2, <2>4, RingAssumption DEF WriteSample
    <3>2. len > 0 /\ Writing /\ ~Reading
      BY <1>1 DEF WriteSample, Writing, Reading
    <3>3. part' \in 1..len /\ part' <= space /\ part' <= RingSize - Mask(reqProd)
      BY <1>0, <1>00, <2>1, <2>4, <3>1, <3>2, RingNumbers, RingAssumption DEF Least
    <3>. QED
      BY <1>0, <2>1, <3>1, <3>2, <3>3, RingAssumption
      DEF RingBounds, TransferInv, ringVars, Writing, Reading
  <2>. QED
    BY <2>3, <2>4
<1>2. CASE ReadSample
  <2>1. IdxSub(rspProd, rspCons) \in Nat
    BY <1>0, RingNumbers
  <2>2. CASE IdxSub(rspProd, rspCons) = 0
    <3>1. pc' = "kick" /\ UNCHANGED <<ringVars, stage, len>>
      BY <1>2, <2>2 DEF ReadSample
    <3>. QED
      BY <1>0, <1>2, <3>1 DEF ReadSample, RingBounds, TransferInv, ringVars, Writing, Reading
  <2>3. CASE IdxSub(rspProd, rspCons) # 0
    <3>. DEFINE avail == IdxSub(rspProd, rspCons)
    <3>1. /\ pc' = "copy" /\ part' = Least(Least(avail, RingSize - Mask(rspCons)), len)
          /\ UNCHANGED <<ringVars, stage, len>> /\ cons' = rspCons
      BY <1>2, <2>3 DEF ReadSample
    <3>2. len > 0 /\ Reading /\ ~Writing
      BY <1>2 DEF ReadSample, Writing, Reading
    <3>3. part' \in 1..len /\ part' <= avail /\ part' <= RingSize - Mask(rspCons)
      BY <1>0, <1>00, <2>1, <2>3, <3>1, <3>2, RingNumbers, RingAssumption DEF Least
    <3>. QED
      BY <1>0, <3>1, <3>2, <3>3 DEF RingBounds, TransferInv, ringVars, Writing, Reading
  <2>. QED
    BY <2>2, <2>3
<1>3. CASE WritePublish
  <2>1. /\ reqProd' = IdxAdd(reqProd, part) /\ pc' = "loop"
        /\ UNCHANGED <<reqCons, rspProd, rspCons>>
        /\ IdxSub(reqProd, reqCons) + part <= RingSize - 1
    BY <1>0, <1>3 DEF WritePublish, RingBounds, TransferInv
  <2>2. IdxSub(reqProd', reqCons) = IdxSub(reqProd, reqCons) + part
    BY <1>0, <1>00, <2>1, RingNumbers, ProduceLen, RingAssumption
  <2>. QED
    BY <1>0, <2>1, <2>2 DEF RingBounds, TransferInv
<1>4. CASE ReadPublish
  <2>1. /\ rspCons' = IdxAdd(rspCons, part) /\ pc' = "loop"
        /\ UNCHANGED <<reqProd, reqCons, rspProd>>
        /\ part <= IdxSub(rspProd, rspCons)
    BY <1>0, <1>4 DEF ReadPublish, RingBounds, TransferInv
  <2>2. IdxSub(rspProd, rspCons') = IdxSub(rspProd, rspCons) - part
    BY <1>00, <2>1, ConsumeLen
  <2>3. IdxSub(rspProd, rspCons') <= RingSize
    BY <1>0, <1>00, <2>2, RingNumbers, RingAssumption DEF RingBounds
  <2>. QED
    BY <1>0, <2>1, <2>3 DEF RingBounds, TransferInv
<1>5. CASE SrvRead
  <2>1. PICK n \in 1..SrvReadable : reqCons' = IdxAdd(reqCons, n)
    BY <1>5 DEF SrvRead
  <2>2. n \in 1..RingSize /\ n <= IdxSub(reqProd, reqCons)
    BY <1>0, <2>1, ReadableRange, RingNumbers, RingAssumption
  <2>3. IdxSub(reqProd, reqCons') = IdxSub(reqProd, reqCons) - n
    BY <1>00, <2>1, <2>2, ConsumeLen
  <2>4. UNCHANGED <<reqProd, rspProd, rspCons, stage, pc, len, part, cons, prod>>
    BY <1>5 DEF SrvRead, loopVars
  <2>5. IdxSub(reqProd, reqCons) \in Nat
    BY <1>0, RingNumbers
  <2>. QED
    BY <1>0, <1>00, <2>2, <2>3, <2>4, <2>5, RingAssumption
    DEF RingBounds, TransferInv, Writing, Reading
<1>6. CASE SrvWrite
  <2>1. PICK n \in 1..Least(SrvSpace, Len(srvOut)) : rspProd' = IdxAdd(rspProd, n)
    BY <1>6 DEF SrvWrite
  <2>2. n \in 1..RingSize /\ n <= RingSize - IdxSub(rspProd, rspCons)
    BY <1>0, <2>1, SpaceRange, RingNumbers, RingAssumption DEF Least, TypeOK, SrvType
  <2>5. IdxSub(rspProd, rspCons) \in Nat
    BY <1>0, RingNumbers
  <2>3. IdxSub(rspProd', rspCons) = IdxSub(rspProd, rspCons) + n
    BY <1>00, <2>1, <2>2, <2>5, ProduceLen, RingAssumption
  <2>4. UNCHANGED <<reqProd, reqCons, rspCons, stage, pc, len, part, cons, prod>>
    BY <1>6 DEF SrvWrite, loopVars
  <2>. QED
    BY <1>0, <1>00, <2>2, <2>3, <2>4, <2>5, RingAssumption
    DEF RingBounds, TransferInv, Writing, Reading
<1>7. CASE WriteCopy \/ ReadCopy \/ Kick \/ TestAndClear \/ Poll
  BY <1>7, SameTransfer
  DEF WriteCopy, ReadCopy, Kick, TestAndClear, Poll, ringVars, Transferring
<1>8. CASE (\E p \in PathLens : XenstoreRead(p)) \/ WritePath \/ KickRequest
           \/ HeaderTooLong \/ HeaderFits
  BY <1>8, NoTransfer
  DEF XenstoreRead, WritePath, KickRequest, HeaderTooLong, HeaderFits, StartLoop
<1>9. CASE HeaderNotRead \/ DrainNext \/ FinishPayload
  BY <1>9, NoTransfer
  DEF HeaderNotRead, DrainNext, FinishPayload, StartLoop, Return, LoopDone, loopVars
<1>10. CASE InitXenbus \/ XenstoreInit
  BY <1>0, <1>10 DEF InitXenbus, XenstoreInit, RingBounds, TransferInv, ringVars,
     loopVars, Writing, Reading
<1>11. CASE SrvWake \/ SrvReply \/ SrvNotify \/ SrvSleep \/ Finished \/ UNCHANGED vars
  BY <1>11, SameTransfer DEF SrvWake, SrvReply, SrvNotify, SrvSleep, Finished, vars,
     ringVars, loopVars, Transferring
<1>. QED
  BY <1>1, <1>2, <1>3, <1>4, <1>5, <1>6, <1>7, <1>8, <1>9, <1>10, <1>11
  DEF Next, Startup, Loop, Body, Srv

-----------------------------------------------------------------------------
(* LengthInv and PayloadBounded.                                           *)

\* Every step keeps the lengths that xenstore_read() goes by, and with them all
\* writes to payload[] inside it.
LEMMA LengthStep == ASSUME IndInv, [Next]_vars PROVE LengthInv' /\ PayloadBounded'
<1>. USE WireAssumption
<1>0. /\ LengthInv /\ PayloadBounded /\ len \in Nat /\ done \in Nat
      /\ part \in 0..RingSize /\ payload \in [0..PayloadMax -> Bytes]
  BY DEF IndInv, TypeOK, LoopType, CallType
<1>1. ASSUME stage' \notin {"rpayload", "rdrain"}, payload' = payload
      PROVE  LengthInv' /\ PayloadBounded'
  BY <1>0, <1>1 DEF LengthInv, PayloadBounded
<1>2. CASE HeaderTooLong
  <2>1. PICK h \in ReceivedHdrs : hdr' = h /\ StartLoop("rdrain", Least(h.len, PayloadMax))
    BY <1>2 DEF HeaderTooLong
  <2>2. h.len \in Nat
    BY <2>1, HdrsType DEF IndInv
  <2>. QED
    BY <1>0, <1>2, <2>1, <2>2 DEF HeaderTooLong, StartLoop, Least, LengthInv, PayloadBounded
<1>3. CASE HeaderFits
  <2>1. PICK h \in ReceivedHdrs :
          hdr' = h /\ h.len <= PayloadMax /\ StartLoop("rpayload", h.len)
    BY <1>3 DEF HeaderFits
  <2>2. h.len \in Nat
    BY <2>1, HdrsType DEF IndInv
  <2>. QED
    BY <1>0, <1>3, <2>1, <2>2 DEF HeaderFits, StartLoop, LengthInv, PayloadBounded
<1>4. CASE DrainNext
  <2>1. hdr'.len \in Nat
    BY <1>4, DrainLeft DEF IndInv, TypeOK, CallType
  <2>2. CASE StartLoop("rdrain", Least(hdr'.len, PayloadMax))
    BY <1>0, <1>4, <2>1, <2>2 DEF DrainNext, StartLoop, Least, LengthInv, PayloadBounded
  <2>3. CASE Return(NULL)
    BY <1>1, <1>4, <2>3 DEF DrainNext, Return
  <2>. QED
    BY <1>4, <2>2, <2>3 DEF DrainNext
<1>5. CASE ReadPublish
  <2>1. part \in 1..len
    BY <1>5 DEF ReadPublish, IndInv, RingBounds
  <2>2. done' + len' = done + len
    BY <1>0, <1>5, <2>1 DEF ReadPublish
  <2>. QED
    BY <1>0, <1>5, <2>2 DEF ReadPublish, callVars, LengthInv, PayloadBounded
<1>6. CASE ReadCopy
  <2>1. part \in 1..len
    BY <1>6, ReadPart
  <2>2. payload'[PayloadMax] = payload[PayloadMax]
    <3>1. CASE stage = "rhdr"
      BY <1>6, <3>1 DEF ReadCopy
    <3>2. CASE stage # "rhdr"
      <4>1. done + part - 1 < PayloadMax
        BY <1>0, <1>6, <2>1, <3>2 DEF ReadCopy, Reading, PayloadBounded
      <4>2. PayloadMax \notin done..(done + part - 1) /\ PayloadMax \in DOMAIN payload
        BY <1>0, <4>1
      <4>. QED
        BY <1>6, <3>2, <4>2 DEF ReadCopy
    <3>. QED
      BY <3>1, <3>2
  <2>. QED
    BY <1>0, <1>6, <2>2 DEF ReadCopy, LengthInv, PayloadBounded
<1>7. CASE FinishPayload
  BY <1>0, <1>7 DEF FinishPayload, Return, LengthInv, PayloadBounded
<1>8. CASE InitXenbus \/ XenstoreInit \/ (\E p \in PathLens : XenstoreRead(p)) \/ WriteSample
           \/ WriteCopy \/ WritePublish \/ WritePath \/ KickRequest \/ HeaderNotRead
  BY <1>1, <1>8
  DEF InitXenbus, XenstoreInit, XenstoreRead, WriteSample, WriteCopy, WritePublish,
      WritePath, KickRequest, HeaderNotRead, StartLoop, Return, Writing, callVars
<1>9. CASE ReadSample \/ Kick \/ TestAndClear \/ Poll \/ Srv \/ Finished \/ UNCHANGED vars
  <2>1. UNCHANGED <<stage, len, done, hdr, payload>>
    BY <1>9 DEF ReadSample, Kick, TestAndClear, Poll, Srv, SrvWake, SrvRead, SrvReply,
       SrvWrite, SrvNotify, SrvSleep, Finished, vars, loopVars, callVars
  <2>. QED
    BY <1>0, <2>1 DEF LengthInv, PayloadBounded
<1>. QED
  BY <1>2, <1>3, <1>4, <1>5, <1>6, <1>7, <1>8, <1>9 DEF Next, Startup, Loop, Body

-----------------------------------------------------------------------------
(* NoLostWakeup.                                                           *)

Waiting == pc \in {"kick", "clear", "poll"}

\* No step puts the client to sleep with nobody left to wake it.
LEMMA WakeupStep == ASSUME IndInv, [Next]_vars PROVE NoLostWakeup'
<1>0. TypeOK /\ NoLostWakeup /\ RingBounds /\ TransferInv
  BY DEF IndInv
<1>1. ASSUME pc' \in {"loop", "copy", "publish"} PROVE NoLostWakeup'
  BY <1>1 DEF NoLostWakeup
<1>2. CASE WriteSample
  <2>1. IdxSub(reqProd, reqCons) \in 0..(RingSize - 1)
    BY <1>0, RingNumbers, RingAssumption DEF RingBounds
  <2>2. Mask(IdxSub(reqProd, reqCons)) = IdxSub(reqProd, reqCons)
    BY <2>1, MaskSmall
  <2>. QED
    BY <1>2, <2>1, <2>2, RingAssumption
    DEF WriteSample, NoLostWakeup, MayProceed, Writing, Reading, ringVars
<1>3. CASE ReadSample
  BY <1>3 DEF ReadSample, NoLostWakeup, MayProceed, Writing, Reading, ringVars
<1>4. CASE TestAndClear
  BY <1>0, <1>4 DEF TestAndClear, NoLostWakeup, MayProceed, Writing, Reading, ringVars, srvVars
<1>5. CASE Kick
  BY <1>0, <1>5 DEF Kick, NoLostWakeup, MayProceed, Writing, Reading, ringVars, srvVars
<1>6. CASE SrvRead \/ SrvWrite
  BY <1>6 DEF SrvRead, SrvWrite, NoLostWakeup
<1>7. CASE SrvNotify
  BY <1>7 DEF SrvNotify, NoLostWakeup
<1>8. CASE SrvWake \/ SrvReply \/ SrvSleep
  BY <1>0, <1>8 DEF SrvWake, SrvReply, SrvSleep, NoLostWakeup, MayProceed, Writing, Reading,
     ringVars, evtVars, loopVars
<1>9. CASE InitXenbus \/ XenstoreInit
  BY <1>0, <1>1, <1>9 DEF InitXenbus, XenstoreInit, TransferInv, Writing, Reading, loopVars
<1>10. CASE (\E p \in PathLens : XenstoreRead(p)) \/ WriteCopy \/ WritePublish \/ ReadCopy
            \/ ReadPublish \/ Poll \/ Body
  BY <1>1, <1>10 DEF XenstoreRead, WriteCopy, WritePublish, ReadCopy, ReadPublish, Poll, Body,
     WritePath, KickRequest, HeaderNotRead, HeaderTooLong, DrainNext, HeaderFits,
     FinishPayload, StartLoop, Return, LoopDone, loopVars
<1>11. CASE Finished \/ UNCHANGED vars
  BY <1>0, <1>11 DEF Finished, vars, ringVars, evtVars, loopVars, srvVars, NoLostWakeup,
     MayProceed, Writing, Reading
<1>. QED
  BY <1>2, <1>3, <1>4, <1>5, <1>6, <1>7, <1>8, <1>9, <1>10, <1>11
  DEF Next, Startup, Loop, Srv

-----------------------------------------------------------------------------
(* The theorems.                                                           *)

\* The inductive invariant holds before init_xenbus().
LEMMA IndInvInit == Init => IndInv
<1>. SUFFICES ASSUME Init PROVE IndInv
  OBVIOUS
<1>1. TypeOK
  BY TypeInit
<1>2. IdxSub(reqProd, reqCons) = 0 /\ IdxSub(rspProd, rspCons) = 0
  BY DEF Init, IdxSub
<1>3. RingBounds /\ TransferInv /\ LengthInv /\ NoLostWakeup
  BY <1>2, RingAssumption DEF Init, RingBounds, TransferInv, LengthInv, NoLostWakeup
<1>4. PayloadBounded
  BY WireAssumption DEF Init, PayloadBounded
<1>. QED
  BY <1>1, <1>3, <1>4 DEF IndInv

\* The inductive invariant holds in every state.
THEOREM Invariance == Spec => []IndInv
<1>1. IndInv /\ [Next]_vars => IndInv'
  BY TypeStep, TransferStep, LengthStep, WakeupStep DEF IndInv
<1>. QED
  BY IndInvInit, <1>1, PTL DEF Spec

\* Every variable of the client stays in its type, whatever the sizes.
THEOREM TypeCorrect == Spec => []TypeOK
<1>1. IndInv => TypeOK
  BY DEF IndInv
<1>. QED
  BY Invariance, <1>1, PTL

\* xenbus_write() never fills the ring to its last byte and never writes over
\* a byte that xenstored has not taken; xenbus_read() never takes a byte that
\* was not put there: for every ring size, index width and interleaving.
THEOREM RingsAreSafe == Spec => []RingBounds
<1>1. IndInv => RingBounds
  BY DEF IndInv
<1>. QED
  BY Invariance, <1>1, PTL

\* No reply, of whatever announced length, is stored past payload[].
THEOREM PayloadIsSafe == Spec => []PayloadBounded
<1>1. IndInv => PayloadBounded
  BY DEF IndInv
<1>. QED
  BY Invariance, <1>1, PTL

\* The guest never polls for an event that it has already swallowed.
THEOREM WakeupsArrive == Spec => []NoLostWakeup
<1>1. IndInv => NoLostWakeup
  BY DEF IndInv
<1>. QED
  BY Invariance, <1>1, PTL

-----------------------------------------------------------------------------
(* RequestInOrder.                                                         *)

\* Places are remainders, though indices wrap.
LEMMA PlaceIs ==
    ASSUME NEW c \in Index, NEW k \in 0..RingSize
    PROVE  Place(c, k) = (c + k) % RingSize
<1>1. c \in Nat /\ c < IdxMod /\ RingSize \in Nat \ {0} /\ k \in Nat /\ k <= RingSize
    BY RingAssumption DEF Index
<1>2. CASE c + k < IdxMod
    BY <1>2 DEF Place, Mask, IdxAdd
<1>3. CASE ~(c + k < IdxMod)
    <2>1. Place(c, k) = (c + k - IdxMod) % RingSize
        BY <1>3 DEF Place, Mask, IdxAdd
    <2>2. IdxMod \in Int /\ IdxMod % RingSize = 0
        BY RingAssumption
    <2>3. PICK m \in Int : IdxMod = m * RingSize + (IdxMod % RingSize)
        BY <1>1, <2>2, ModIs, Zenon
    <2>4. IdxMod = m * RingSize
        <3>1. m * RingSize \in Int
            BY <1>1
        <3> QED BY <2>2, <2>3, <3>1
    <2>5. c + k - IdxMod \in Int /\ c + k = (c + k - IdxMod) + m * RingSize
        BY <1>1, <2>2, <2>4
    <2>6. ((c + k - IdxMod) + m * RingSize) % RingSize = (c + k - IdxMod) % RingSize
        BY <1>1, <2>5, ModMult, Zenon
    <2> QED BY <2>1, <2>5, <2>6, Zenon
<1> QED BY <1>2, <1>3

\* Bytes of less than a ring apart have places of their own.
LEMMA PlacesDiffer ==
    ASSUME NEW c \in Index, NEW a \in Nat, NEW b \in 0..RingSize, a < b, b - a < RingSize
    PROVE  Place(c, a) # Place(c, b)
<1>1. c \in Nat /\ RingSize \in Nat \ {0} /\ a \in 0..RingSize /\ b \in Nat
    BY RingAssumption DEF Index
<1>2. Place(c, a) = (c + a) % RingSize /\ Place(c, b) = (c + b) % RingSize
    BY <1>1, PlaceIs
<1> SUFFICES ASSUME (c + a) % RingSize = (c + b) % RingSize PROVE FALSE
    BY <1>2
<1> DEFINE r == (c + a) % RingSize
<1>3. r \in 0..(RingSize - 1) /\ r \in Int
    BY <1>1, ModRange
<1>4. PICK p \in Int : c + a = p * RingSize + r
    <2>1. c + a \in Int
        BY <1>1
    <2> QED BY <1>1, <2>1, ModIs, Zenon
<1>5. PICK q \in Int : c + b = q * RingSize + r
    <2>1. c + b \in Int
        BY <1>1
    <2> QED BY <1>1, <2>1, ModIs, Zenon
<1> HIDE DEF r
<1>6. b - a = (q - p) * RingSize
    BY <1>1, <1>3, <1>4, <1>5
<1>7. q - p >= 1
    BY <1>1, <1>6
<1>8. \A d \in Int : d >= 1 => d * RingSize >= RingSize
    BY <1>1
<1> QED BY <1>1, <1>6, <1>7, <1>8

\* Within the ring's end the places are in a row (xenbus.c:53).
LEMMA PlacesInRow ==
    ASSUME NEW c \in Index, NEW k \in Nat, k < RingSize - Mask(c)
    PROVE  Place(c, k) = Mask(c) + k
<1>1. c \in Nat /\ RingSize \in Nat \ {0}
    BY RingAssumption DEF Index
<1>2. Mask(c) \in 0..(RingSize - 1) /\ Mask(c) = c % RingSize
    BY <1>1, MaskRange DEF Mask
<1>3. k \in 0..RingSize /\ Mask(c) + k \in 0..(RingSize - 1)
    BY <1>1, <1>2
<1>4. Place(c, k) = (c + k) % RingSize
    BY <1>3, PlaceIs
<1>5. (c + k) % RingSize = (Mask(c) + k) % RingSize
    <2>1. c \in Int /\ k \in Int
        BY <1>1
    <2> QED BY <1>1, <1>2, <2>1, ModShift, Zenon
<1>6. (Mask(c) + k) % RingSize = Mask(c) + k
    <2>1. Mask(c) + k \in Int /\ 0 <= Mask(c) + k /\ Mask(c) + k < RingSize
        BY <1>1, <1>3
    <2> QED BY <1>1, <2>1, ModSmall, Zenon
<1> QED BY <1>4, <1>5, <1>6

\* Moving the index is skipping bytes.
LEMMA PlacesSkip ==
    ASSUME NEW c \in Index, NEW n \in Nat, NEW k \in Nat, n + k <= RingSize
    PROVE  Place(IdxAdd(c, n), k) = Place(c, n + k)
<1>1. n \in 0..RingSize /\ k \in 0..RingSize /\ n + k \in 0..RingSize /\ c \in Nat
      /\ RingSize \in Nat \ {0}
    BY RingAssumption DEF Index
<1>2. IdxAdd(c, n) \in Index /\ IdxAdd(c, n) \in Nat
    BY <1>1, IdxAddType DEF Index
<1>3. IdxAdd(c, n) % RingSize = (c + n) % RingSize
    BY <1>1, PlaceIs DEF Place, Mask
<1>4. Place(IdxAdd(c, n), k) = (IdxAdd(c, n) + k) % RingSize
    BY <1>1, <1>2, PlaceIs
<1>5. (IdxAdd(c, n) + k) % RingSize = (((c + n) % RingSize) + k) % RingSize
    <2>1. IdxAdd(c, n) \in Int /\ k \in Int
        BY <1>1, <1>2
    <2> QED BY <1>1, <1>3, <2>1, ModShift, Zenon
<1>6. (((c + n) % RingSize) + k) % RingSize = (c + n + k) % RingSize
    <2>1. c + n \in Int /\ k \in Int
        BY <1>1
    <2> QED BY <1>1, <2>1, ModShift, Zenon
<1>7. Place(c, n + k) = (c + (n + k)) % RingSize /\ c + (n + k) = c + n + k
    BY <1>1, PlaceIs
<1> QED BY <1>4, <1>5, <1>6, <1>7

\* The numbers of the bytes on their way.
LEMMA OnTheWay ==
    ASSUME TypeOK, RingBounds
    PROVE  /\ Len(srvIn) \in Nat /\ InRing \in Nat /\ InRing <= RingSize - 1
           /\ reqProd \in Index /\ reqCons \in Index /\ call \in Nat
           /\ done \in Nat /\ len \in Nat /\ part \in Nat /\ Sent \in Nat
<1>1. Len(srvIn) \in Nat /\ call \in Nat
    BY DEF TypeOK, SrvType, CallType, call
<1>2. InRing \in Nat /\ InRing <= RingSize - 1
    BY RingNumbers DEF InRing, RingBounds
<1> QED BY <1>1, <1>2, RingAssumption, WireAssumption DEF TypeOK, RingType, LoopType, Sent

\* The producer is where the bytes in the ring end.
LEMMA ProducerIs ==
    ASSUME TypeOK, RingBounds
    PROVE  reqProd = IdxAdd(reqCons, InRing)
BY RingAssumption DEF TypeOK, RingType, Index, InRing, IdxSub, IdxAdd

\* The lengths of the requests made.
LEMMA RequestLenIs ==
    ASSUME TypeOK, NEW n \in 1..call
    PROVE  RequestLen(n) \in Nat /\ RequestLen(n) > HdrLen
<1>1. paths[n] \in Nat
    <2>1. paths \in Seq(PathLens) /\ n \in 1..Len(paths)
        BY DEF TypeOK, CallType, call
    <2>2. paths[n] \in PathLens
        BY <2>1
    <2> QED BY <2>2, WireAssumption
<1> QED BY <1>1, WireAssumption DEF RequestLen

\* The chain goes on when the same bytes are on their way.
LEMMA ChainKept ==
    ASSUME TypeOK, RingBounds, ChainInv, Len(srvIn') + InRing' = Len(srvIn) + InRing,
           \A k \in 1..(Len(srvIn) + InRing + 1) : Outgoing(k)' = Outgoing(k),
           call' \in Nat, call <= call', \A n \in 1..call : RequestLen(n)' = RequestLen(n)
    PROVE  ChainInv' /\ Outgoing(1)' = Outgoing(1)
<1> DEFINE L == Len(srvIn) + InRing
<1>1. L \in Nat /\ call \in Nat
    BY OnTheWay
<1>2. L' = L
    OBVIOUS
<1> HIDE DEF L
<1>3. \A k \in 1..(L + 1) : Outgoing(k)' = Outgoing(k)
    BY DEF L
<1>4. Outgoing(1)' = Outgoing(1) /\ Outgoing(1)[2] = 1
    BY <1>1, <1>3 DEF ChainInv
<1>5. ASSUME NEW k \in 1..L
      PROVE  Made(Outgoing(k))' /\ Outgoing(k + 1)' = Follows(Outgoing(k))'
    <2>1. k \in 1..(L + 1) /\ k + 1 \in 1..(L + 1)
        BY <1>1
    <2>2. Made(Outgoing(k)) /\ Outgoing(k + 1) = Follows(Outgoing(k))
        BY DEF ChainInv, L
    <2>3. Outgoing(k)' = Outgoing(k) /\ Outgoing(k + 1)' = Outgoing(k + 1)
        BY <1>3, <2>1
    <2>4. Outgoing(k)[1] \in 1..call /\ Outgoing(k)[1] \in 1..call'
        BY <1>1, <2>2 DEF Made
    <2>5. RequestLen(Outgoing(k)[1])' = RequestLen(Outgoing(k)[1])
        BY <2>3, <2>4 DEF RequestLen
    <2> QED BY <2>2, <2>3, <2>4, <2>5 DEF Made, Follows
<1>6. \A k \in 1..L' : Made(Outgoing(k))' /\ Outgoing(k + 1)' = Follows(Outgoing(k))'
    BY <1>2, <1>5
<1>7. ChainInv'
    BY <1>4, <1>6 DEF ChainInv, L
<1> QED BY <1>4, <1>7

\* So it does when the shared page and the requests are as they were.
LEMMA ChainAsBefore ==
    ASSUME TypeOK, RingBounds, ChainInv, UNCHANGED <<req, reqProd, reqCons, srvIn, paths>>,
           NextByte' = NextByte
    PROVE  ChainInv' /\ Outgoing(1)' = Outgoing(1)
<1>1. \A k : Outgoing(k)' = Outgoing(k)
    BY DEF Outgoing, Stream, InRing
<1>2. Len(srvIn') + InRing' = Len(srvIn) + InRing /\ call' = call /\ call \in Nat
    BY OnTheWay DEF InRing, call
<1>3. \A n \in 1..call : RequestLen(n)' = RequestLen(n)
    BY DEF RequestLen
<1> QED BY <1>1, <1>2, <1>3, ChainKept

\* A step that leaves the copy loop and the call alone leaves what is written alone.
LEMMA WritesAsBefore ==
    ASSUME WritesInv, UNCHANGED <<stage, len, done, paths, hdr>>,
           pc' = "publish" => UNCHANGED <<pc, req, prod, part>>
    PROVE  WritesInv'
BY DEF WritesInv, Writing, call, Sent

\* What a request says of its length.
LEMMA RequestAgrees ==
    ASSUME TypeOK, WritesInv, Writing
    PROVE  call \in 1..call /\ hdr.len \in Nat /\ RequestLen(call) = HdrLen + hdr.len
<1>1. call \in 1..MaxCalls /\ hdr.len = paths[call] + 1 /\ call \in Nat
    BY WireAssumption DEF WritesInv
<1>2. call \in 1..call
    BY <1>1
<1>3. hdr.len \in Nat
    BY DEF TypeOK, CallType
<1>4. paths[call] \in Nat
    <2>1. paths \in Seq(PathLens) /\ call \in 1..Len(paths)
        BY <1>2 DEF TypeOK, CallType, call
    <2>2. paths[call] \in PathLens
        BY <2>1
    <2> QED BY <2>2, WireAssumption
<1> QED BY <1>1, <1>2, <1>3, <1>4, WireAssumption DEF RequestLen

\* A part copied is where it was meant to be (xenbus.c:53).
LEMMA StoredAt ==
    ASSUME NEW ring \in [0..(RingSize - 1) -> Bytes], NEW i \in Nat, NEW s \in Seq(Bytes),
           Len(s) <= RingSize - Mask(i)
    PROVE  /\ \A k \in 1..Len(s) : Stored(ring, i, s)[Mask(i) + k - 1] = s[k]
           /\ \A j \in 0..(RingSize - 1) : j \notin Mask(i)..(Mask(i) + Len(s) - 1) =>
                 Stored(ring, i, s)[j] = ring[j]
<1>1. Mask(i) \in 0..(RingSize - 1) /\ RingSize \in Nat /\ Len(s) \in Nat
    BY MaskRange, RingAssumption
<1>2. ASSUME NEW k \in 1..Len(s) PROVE Stored(ring, i, s)[Mask(i) + k - 1] = s[k]
    <2> DEFINE j == Mask(i) + k - 1
    <2>1. j \in 0..(RingSize - 1) /\ j \in Mask(i)..(Mask(i) + Len(s) - 1) /\ j - Mask(i) + 1 = k
        BY <1>1
    <2> HIDE DEF j
    <2>2. Stored(ring, i, s)[j] = s[j - Mask(i) + 1]
        BY <2>1 DEF Stored
    <2> QED BY <2>1, <2>2 DEF j
<1> QED BY <1>2 DEF Stored

\* The part copied before the producer moves.
LEMMA CopyStep ==
    ASSUME IndInv, WriteCopy
    PROVE  /\ part \in 1..len /\ InRing + part <= RingSize - 1 /\ part <= RingSize - Mask(prod)
           /\ prod = reqProd /\ prod \in Index /\ Mask(prod) \in 0..(RingSize - 1) /\ req' = Stored(req, prod, RequestBytes(part))
           /\ \A k \in 1..part : req'[Mask(prod) + k - 1] = <<call, Sent + k>>
           /\ \A j \in 0..(RingSize - 1) : j \notin Mask(prod)..(Mask(prod) + part - 1) => req'[j] = req[j]
<1>1. part \in 1..len /\ InRing + part <= RingSize - 1 /\ part <= RingSize - Mask(prod) /\ prod = reqProd
    BY DEF WriteCopy, IndInv, RingBounds, TransferInv, InRing
<1>2. prod \in Index /\ prod \in Nat /\ req \in [0..(RingSize - 1) -> Bytes]
    BY DEF IndInv, TypeOK, LoopType, RingType, Index
<1>3. Mask(prod) \in 0..(RingSize - 1)
    BY <1>2, MaskRange
<1>4. req' = Stored(req, prod, RequestBytes(part)) 
    BY DEF WriteCopy
<1> DEFINE s == RequestBytes(part)
<1>5. s \in Seq(Bytes) /\ Len(s) = part /\ \A k \in 1..part : s[k] = <<call, Sent + k>>
    <2>1. s = [k \in 1..part |-> <<call, Sent + k>>]
        BY DEF RequestBytes, Sent
    <2>2. part \in Nat /\ Sent \in Nat /\ call \in Nat
        BY OnTheWay DEF IndInv
    <2>3. \A k \in 1..part : <<call, Sent + k>> \in Bytes
        BY <2>2 DEF Bytes
    <2> HIDE DEF s
    <2>6. s \in [1..part -> Bytes]
        BY <2>1, <2>3
    <2>4. s \in Seq(Bytes) /\ Len(s) = part
        BY <2>2, <2>6
    <2>5. \A k \in 1..part : s[k] = <<call, Sent + k>>
        BY <2>1
    <2> QED BY <2>4, <2>5
<1> HIDE DEF s
<1>8. Len(s) <= RingSize - Mask(prod)
    BY <1>1, <1>5
<1>6. /\ \A k \in 1..Len(s) : Stored(req, prod, s)[Mask(prod) + k - 1] = s[k]
      /\ \A j \in 0..(RingSize - 1) : j \notin Mask(prod)..(Mask(prod) + Len(s) - 1) => Stored(req, prod, s)[j] = req[j]
    BY <1>2, <1>5, <1>8, StoredAt, Zenon
<1>7. req' = Stored(req, prod, s)
    BY <1>4 DEF s
<1> QED BY <1>1, <1>2, <1>3, <1>4, <1>5, <1>6, <1>7

\* Every step keeps to the request that is written.
LEMMA WritesStep == ASSUME IndInv, WritesInv, [Next]_vars PROVE WritesInv'
<1>0. TypeOK /\ RingBounds /\ len \in Nat /\ done \in Nat /\ HdrLen \in Nat
    BY WireAssumption DEF IndInv, TypeOK, LoopType
<1>1. CASE \E p \in PathLens : XenstoreRead(p)
    <2>1. PICK p \in PathLens : XenstoreRead(p)
        BY <1>1
    <2>2. stage' = "whdr" /\ pc' = "loop" /\ len' = HdrLen /\ done' = 0 /\ hdr'.len = p + 1
          /\ paths' = Append(paths, p) /\ call < MaxCalls
        BY <2>1 DEF XenstoreRead, StartLoop
    <2>3. paths \in Seq(PathLens) /\ call \in Nat
        BY <1>0 DEF TypeOK, CallType, call
    <2>4. call' = call + 1 /\ paths'[call + 1] = p
        BY <2>2, <2>3 DEF call
    <2>5. call' \in 1..MaxCalls
        BY <2>2, <2>3, <2>4, WireAssumption
    <2> QED BY <1>0, <2>2, <2>4, <2>5 DEF WritesInv, Writing
<1>2. CASE WritePath
    BY <1>0, <1>2 DEF WritePath, LoopDone, StartLoop, WritesInv, Writing, callVars, call, TypeOK, CallType
<1>3. CASE WriteCopy
    <2>1. Writing' /\ stage' = stage /\ len' = len /\ done' = done /\ call' = call /\ hdr' = hdr /\ paths' = paths
          /\ prod' = prod /\ part' = part /\ Writing
        BY <1>3 DEF WriteCopy, Writing, callVars, call
    <2>2. \A k \in 1..part' : req'[Mask(prod') + k - 1] = <<call', Sent' + k>>
        BY <1>3, <2>1, CopyStep DEF Sent
    <2> QED BY <2>1, <2>2 DEF WritesInv
<1>4. CASE WritePublish
    <2>1. part \in 1..len
        BY <1>4 DEF WritePublish, IndInv, RingBounds
    <2>2. done' + len' = done + len /\ pc' = "loop" /\ UNCHANGED <<stage, hdr, paths>>
        BY <1>0, <1>4, <2>1 DEF WritePublish, callVars
    <2> QED BY <2>2 DEF WritesInv, Writing, call
<1>5. CASE stage' \notin {"whdr", "wpath"}
    BY <1>5 DEF WritesInv, Writing
<1>6. CASE InitXenbus \/ XenstoreInit \/ KickRequest \/ HeaderNotRead \/ HeaderTooLong \/ DrainNext \/ HeaderFits \/ FinishPayload
    BY <1>5, <1>6 DEF InitXenbus, XenstoreInit, KickRequest, HeaderNotRead, HeaderTooLong, DrainNext,
       HeaderFits, FinishPayload, StartLoop, Return
<1>7. CASE ReadSample \/ ReadCopy \/ ReadPublish
    <2>1. Reading /\ stage' = stage
        BY <1>7 DEF ReadSample, ReadCopy, ReadPublish
    <2> QED BY <1>5, <2>1 DEF Reading
<1>8. CASE WriteSample \/ Kick \/ TestAndClear \/ Poll
    BY <1>8, WritesAsBefore DEF WriteSample, Kick, TestAndClear, Poll, callVars
<1>9. CASE Srv \/ Finished \/ UNCHANGED vars
    BY <1>9, WritesAsBefore DEF Srv, SrvWake, SrvRead, SrvReply, SrvWrite, SrvNotify, SrvSleep, Finished,
       vars, loopVars, callVars, ringVars
<1> QED BY <1>1, <1>2, <1>3, <1>4, <1>6, <1>7, <1>8, <1>9 DEF Next, Startup, Loop, Body

\* Where the next byte comes from stays the same...
LEMMA NextAsBefore ==
    ASSUME paths' = paths, UNCHANGED <<stage, done>> \/ ~(Writing \/ Writing')
    PROVE  NextByte' = NextByte
BY DEF NextByte, Writing, Sent, call, RequestLen

\* ... also where the header ends and the path begins (xenbus.c:148)...
LEMMA NextOnWritePath == ASSUME IndInv, WritesInv, WritePath PROVE NextByte' = NextByte
<1>1. stage = "whdr" /\ stage' = "wpath" /\ done' = 0 /\ paths' = paths /\ len = 0
    BY DEF WritePath, LoopDone, StartLoop, callVars
<1>2. done = HdrLen
    <2>1. done \in Nat /\ done + len = HdrLen /\ HdrLen \in Nat
        BY <1>1, WireAssumption DEF WritesInv, IndInv, TypeOK, LoopType
    <2> QED BY <1>1, <2>1
<1>3. Sent = HdrLen /\ Sent' = HdrLen /\ Writing /\ Writing' /\ call' = call
    BY <1>1, <1>2, WireAssumption DEF Sent, Writing, call
<1>4. RequestLen(call)' = RequestLen(call)
    BY <1>1, <1>3 DEF RequestLen
<1> QED BY <1>3, <1>4 DEF NextByte

\* ... and where the request ends.
LEMMA NextOnKick == ASSUME IndInv, WritesInv, KickRequest PROVE NextByte' = NextByte
<1>1. stage = "wpath" /\ stage' = "rhdr" /\ paths' = paths /\ len = 0
    BY DEF KickRequest, LoopDone, StartLoop
<1>2. Writing /\ ~Writing' /\ call' = call
    BY <1>1 DEF Writing, call
<1>3. done = hdr.len
    <2>1. done \in Nat /\ done + len = hdr.len
        BY <1>1 DEF WritesInv, IndInv, TypeOK, LoopType
    <2> QED BY <1>1, <2>1
<1>4. Sent = RequestLen(call) /\ RequestLen(call) \in Nat
    BY <1>1, <1>2, <1>3, RequestAgrees, WireAssumption DEF Sent, IndInv
<1> QED BY <1>2, <1>4 DEF NextByte

\* A new request begins where the one before ended.
LEMMA ChainOnCall ==
    ASSUME IndInv, ChainInv, NEW p \in PathLens, XenstoreRead(p)
    PROVE  ChainInv' /\ Outgoing(1)' = Outgoing(1)
<1>0. TypeOK /\ RingBounds
    BY DEF IndInv
<1>1. UNCHANGED <<req, reqProd, reqCons, srvIn>> /\ stage = "idle" /\ stage' = "whdr" /\ done' = 0
      /\ paths' = Append(paths, p)
    BY DEF XenstoreRead, StartLoop, ringVars, srvVars
<1>2. paths \in Seq(PathLens) /\ call \in Nat /\ p \in Nat
    BY <1>0, WireAssumption DEF TypeOK, CallType, call
<1>3. call' = call + 1 /\ paths'[call + 1] = p /\ \A n \in 1..call : paths'[n] = paths[n]
    BY <1>1, <1>2 DEF call
<1>4. \A n \in 1..call : RequestLen(n)' = RequestLen(n)
    BY <1>3 DEF RequestLen
<1>5. NextByte = <<call + 1, 1>>
    BY <1>1 DEF NextByte, Writing
<1>6. NextByte' = <<call + 1, 1>>
    <2>1. Writing' /\ Sent' = 0
        BY <1>1 DEF Writing, Sent
    <2>2. RequestLen(call)' = HdrLen + p + 1
        BY <1>3 DEF RequestLen
    <2>3. 0 < HdrLen + p + 1
        BY <1>2, WireAssumption
    <2>4. NextByte' = IF Writing' /\ Sent' < RequestLen(call)' THEN <<call', Sent' + 1>> ELSE <<call' + 1, 1>>
        BY DEF NextByte
    <2> QED BY <1>3, <2>1, <2>2, <2>3, <2>4
<1>7. \A k : Outgoing(k)' = Outgoing(k)
    BY <1>1, <1>5, <1>6 DEF Outgoing, Stream, InRing
<1>8. Len(srvIn') + InRing' = Len(srvIn) + InRing
    BY <1>1 DEF InRing
<1>9. call' \in Nat /\ call <= call'
    BY <1>2, <1>3
<1> QED BY <1>0, <1>4, <1>7, <1>8, <1>9, ChainKept

\* The places after those in use.
LEMMA FreePlaces ==
    ASSUME TypeOK, RingBounds, NEW n \in Nat, InRing + n <= RingSize - 1, n <= RingSize - Mask(reqProd)
    PROVE  \A j \in 1..n : Mask(reqProd) + j - 1 = Place(reqCons, InRing + (j - 1))
<1>0. /\ InRing \in Nat /\ reqProd \in Index /\ reqCons \in Index /\ RingSize \in Nat
      /\ Mask(reqProd) \in 0..(RingSize - 1)
    BY OnTheWay, RingAssumption, RingNumbers
<1>1. SUFFICES ASSUME NEW j \in 1..n PROVE Mask(reqProd) + j - 1 = Place(reqCons, InRing + (j - 1))
    OBVIOUS
<1>2. j - 1 \in Nat /\ j - 1 < RingSize - Mask(reqProd) /\ InRing + (j - 1) <= RingSize
    BY <1>0
<1>3. Place(reqProd, j - 1) = Mask(reqProd) + (j - 1)
    BY <1>0, <1>2, PlacesInRow
<1>4. Place(IdxAdd(reqCons, InRing), j - 1) = Place(reqCons, InRing + (j - 1))
    BY <1>0, <1>2, PlacesSkip
<1>5. Mask(reqProd) + (j - 1) = Mask(reqProd) + j - 1
    BY <1>0
<1> QED BY <1>3, <1>4, <1>5, ProducerIs

\* What is copied does not disturb what is on its way (xenbus.c:50).
LEMMA ChainOnCopy ==
    ASSUME IndInv, ChainInv, WriteCopy
    PROVE  ChainInv' /\ Outgoing(1)' = Outgoing(1)
<1>0. TypeOK /\ RingBounds /\ Len(srvIn) \in Nat /\ InRing \in Nat /\ reqCons \in Index /\ RingSize \in Nat
      /\ call \in Nat
    BY OnTheWay, RingAssumption DEF IndInv
<1>1. UNCHANGED <<reqProd, reqCons, srvIn, paths, stage, done>>
    BY DEF WriteCopy, callVars, srvVars
<1>2. NextByte' = NextByte /\ InRing' = InRing
    BY <1>1, NextAsBefore DEF InRing
<1>3. part \in Nat /\ InRing + part <= RingSize - 1 /\ part <= RingSize - Mask(reqProd)
      /\ Mask(reqProd) \in 0..(RingSize - 1)
      /\ \A j \in 0..(RingSize - 1) : j \notin Mask(reqProd)..(Mask(reqProd) + part - 1) => req'[j] = req[j]
    BY <1>0, CopyStep DEF TypeOK, LoopType
<1>4. ASSUME NEW a \in 0..(InRing - 1)
      PROVE  req'[Place(reqCons, a)] = req[Place(reqCons, a)]
    <2>1. Place(reqCons, a) \in 0..(RingSize - 1)
        <3>2. a \in 0..RingSize
            BY <1>0, <1>3
        <3>1. IdxAdd(reqCons, a) \in Index /\ IdxAdd(reqCons, a) \in Nat
            BY <1>0, <3>2, IdxAddType DEF Index
        <3> QED BY <3>1, MaskRange DEF Place
    <2>2. ASSUME NEW j \in 1..part PROVE Place(reqCons, a) # Mask(reqProd) + j - 1
        <3>1. Mask(reqProd) + j - 1 = Place(reqCons, InRing + (j - 1))
            BY <1>0, <1>3, FreePlaces
        <3>2. a \in Nat /\ InRing + (j - 1) \in 0..RingSize /\ a < InRing + (j - 1) /\ (InRing + (j - 1)) - a < RingSize
            BY <1>0, <1>3
        <3>3. Place(reqCons, a) # Place(reqCons, InRing + (j - 1))
            BY <1>0, <3>2, PlacesDiffer
        <3> QED BY <3>1, <3>3
    <2>3. Place(reqCons, a) \notin Mask(reqProd)..(Mask(reqProd) + part - 1)
        <3>1. SUFFICES ASSUME NEW q \in Mask(reqProd)..(Mask(reqProd) + part - 1) PROVE Place(reqCons, a) # q
            OBVIOUS
        <3>2. q - Mask(reqProd) + 1 \in 1..part /\ q = Mask(reqProd) + (q - Mask(reqProd) + 1) - 1
            BY <1>3
        <3> QED BY <2>2, <3>2
    <2> QED BY <1>3, <2>1, <2>3
<1>5. ASSUME NEW k \in 1..(Len(srvIn) + InRing + 1) PROVE Outgoing(k)' = Outgoing(k)
    <2>1. CASE k <= Len(srvIn)
        BY <1>1, <2>1 DEF Outgoing, Stream
    <2>2. CASE ~(k <= Len(srvIn)) /\ k <= Len(srvIn) + InRing
        <3>1. k - Len(srvIn) - 1 \in 0..(InRing - 1)
            BY <1>0, <2>2
        <3>2. req'[Place(reqCons, k - Len(srvIn) - 1)] = req[Place(reqCons, k - Len(srvIn) - 1)]
            BY <1>4, <3>1
        <3>3. Outgoing(k) = req[Place(reqCons, k - Len(srvIn) - 1)]
            BY <2>2 DEF Outgoing, Stream
        <3>4. Outgoing(k)' = req'[Place(reqCons, k - Len(srvIn) - 1)]
            BY <1>1, <1>2, <2>2 DEF Outgoing, Stream, Place
        <3> QED BY <3>2, <3>3, <3>4
    <2>3. CASE ~(k <= Len(srvIn)) /\ ~(k <= Len(srvIn) + InRing)
        BY <1>1, <1>2, <2>3 DEF Outgoing, Stream
    <2> QED BY <2>1, <2>2, <2>3
<1>6. Len(srvIn') + InRing' = Len(srvIn) + InRing /\ call' = call
    BY <1>1, <1>2 DEF call
<1>7. \A n \in 1..call : RequestLen(n)' = RequestLen(n)
    BY <1>1 DEF RequestLen
<1> QED BY <1>0, <1>5, <1>6, <1>7, ChainKept

\* What is published follows what is on its way.
LEMMA ChainOnPublish ==
    ASSUME IndInv, WritesInv, ChainInv, WritePublish
    PROVE  ChainInv' /\ Outgoing(1)' = Outgoing(1)
<1> DEFINE L == Len(srvIn) + InRing
<1>0. TypeOK /\ RingBounds /\ Len(srvIn) \in Nat /\ InRing \in Nat /\ reqCons \in Index /\ reqProd \in Index /\ RingSize \in Nat
      /\ call \in Nat /\ L \in Nat /\ Sent \in Nat /\ done \in Nat /\ len \in Nat /\ HdrLen \in Nat
      /\ srvIn \in Seq(Bytes)
    BY OnTheWay, RingAssumption, WireAssumption DEF IndInv, TypeOK, SrvType
<1>1. UNCHANGED <<req, reqCons, srvIn, paths, stage>> /\ reqProd' = IdxAdd(reqProd, part) /\ done' = done + part /\ Writing
      /\ pc = "publish" /\ prod = reqProd
    BY DEF WritePublish, callVars, srvVars, IndInv, TransferInv
<1>2. part \in 1..len /\ part \in 0..RingSize /\ InRing + part <= RingSize - 1 /\ part <= RingSize - Mask(reqProd)
    BY <1>1 DEF IndInv, RingBounds, TransferInv, InRing, TypeOK, LoopType
<1>3. InRing' = InRing + part
    BY <1>0, <1>1, <1>2, ProduceLen DEF InRing
<1>4. L' = L + part /\ Writing' /\ call' = call /\ Sent' = Sent + part /\ Len(srvIn') = Len(srvIn) /\ part \in Nat
    <2>1. L' = L + part
        BY <1>0, <1>1, <1>2, <1>3
    <2>2. Sent' = Sent + part
        BY <1>0, <1>1, <1>2 DEF Sent
    <2> QED BY <1>1, <1>2, <2>1, <2>2 DEF Writing, call
<1>5. call \in 1..call /\ RequestLen(call) \in Nat /\ Sent + part <= RequestLen(call)
    <2>1. call \in 1..call /\ hdr.len \in Nat /\ RequestLen(call) = HdrLen + hdr.len
        BY <1>0, <1>1, RequestAgrees
    <2>2. stage = "whdr" => done + len = HdrLen
        BY DEF WritesInv
    <2>3. stage = "wpath" => done + len = hdr.len
        BY DEF WritesInv
    <2> QED BY <1>0, <1>1, <1>2, <2>1, <2>2, <2>3 DEF Sent, Writing
<1>6. \A n \in 1..call : RequestLen(n)' = RequestLen(n)
    BY <1>1 DEF RequestLen
<1>7. NextByte = <<call, Sent + 1>>
    BY <1>0, <1>1, <1>2, <1>5 DEF NextByte
<1>8. ASSUME NEW k \in 1..L PROVE Outgoing(k)' = Outgoing(k)
    <2>1. CASE k <= Len(srvIn)
        BY <1>1, <2>1 DEF Outgoing, Stream
    <2>2. CASE ~(k <= Len(srvIn))
        <3>1. k <= Len(srvIn) + InRing /\ k <= Len(srvIn') + InRing'
            BY <1>0, <1>3, <1>4
        <3> QED BY <1>1, <2>2, <3>1 DEF Outgoing, Stream, Place
    <2> QED BY <2>1, <2>2
<1>9. ASSUME NEW k \in (L + 1)..(L + part) PROVE Outgoing(k)' = <<call, Sent + (k - L)>>
    <2>1. ~(k <= Len(srvIn)) /\ k <= Len(srvIn) + InRing' /\ k - L \in 1..part
        BY <1>0, <1>3, <1>4
    <2>2. Outgoing(k)' = req[Place(reqCons, k - Len(srvIn) - 1)]
        BY <1>1, <1>4, <2>1 DEF Outgoing, Stream, Place
    <2>3. k - Len(srvIn) - 1 = InRing + ((k - L) - 1)
        BY <1>0
    <2>4. Mask(reqProd) + (k - L) - 1 = Place(reqCons, InRing + ((k - L) - 1))
        BY <1>0, <1>2, <1>4, <2>1, FreePlaces
    <2>5. req[Mask(reqProd) + (k - L) - 1] = <<call, Sent + (k - L)>>
        BY <1>1, <2>1 DEF WritesInv
    <2> QED BY <2>2, <2>3, <2>4, <2>5
<1>10. ASSUME NEW k \in Nat, k = L + part + 1
      PROVE  Outgoing(k)' = IF Sent + part < RequestLen(call) THEN <<call, Sent + part + 1>> ELSE <<call + 1, 1>>
    <2>1. ~(k <= Len(srvIn')) /\ ~(k <= Len(srvIn') + InRing')
        BY <1>0, <1>3, <1>4, <1>10
    <2>2. Outgoing(k)' = NextByte'
        BY <2>1 DEF Outgoing, Stream
    <2>3. RequestLen(call)' = RequestLen(call)
        BY <1>4, <1>5, <1>6 DEF RequestLen
    <2> QED BY <1>4, <2>2, <2>3 DEF NextByte
<1>11. ASSUME NEW k \in Nat, k = L + 1 PROVE Outgoing(k)' = Outgoing(k)
    <2>1. ~(k <= Len(srvIn)) /\ ~(k <= Len(srvIn) + InRing) /\ k \in (L + 1)..(L + part) /\ k - L = 1
        BY <1>0, <1>2, <1>4, <1>11
    <2>2. Outgoing(k) = NextByte
        BY <2>1 DEF Outgoing, Stream
    <2>3. Outgoing(k)' = <<call, Sent + (k - L)>>
        BY <1>9, <2>1
    <2> HIDE DEF L
    <2> QED BY <1>7, <2>1, <2>2, <2>3
<1> HIDE DEF L
<1>12. ASSUME NEW k \in 1..L PROVE Made(Outgoing(k))' /\ Outgoing(k + 1)' = Follows(Outgoing(k))'
    <2>1. Outgoing(k)' = Outgoing(k)
        BY <1>8
    <2>2. Outgoing(k + 1)' = Outgoing(k + 1)
        <3>1. k + 1 \in Nat /\ (k + 1 \in 1..L \/ k + 1 = L + 1)
            BY <1>0
        <3> QED BY <1>8, <1>11, <3>1
    <2>3. Made(Outgoing(k)) /\ Outgoing(k + 1) = Follows(Outgoing(k))
        BY DEF ChainInv, L
    <2>4. Outgoing(k)[1] \in 1..call
        BY <2>3 DEF Made
    <2>5. RequestLen(Outgoing(k)[1])' = RequestLen(Outgoing(k)[1])
        BY <1>6, <2>1, <2>4 DEF RequestLen
    <2> QED BY <1>4, <2>1, <2>2, <2>3, <2>5 DEF Made, Follows
<1>13. ASSUME NEW k \in (L + 1)..(L + part) PROVE Made(Outgoing(k))' /\ Outgoing(k + 1)' = Follows(Outgoing(k))'
    <2>1. Outgoing(k)' = <<call, Sent + (k - L)>>
        BY <1>9
    <2>2. RequestLen(Outgoing(k)[1])' = RequestLen(call)
        BY <1>5, <1>6, <2>1 DEF RequestLen
    <2>3. Sent + (k - L) \in 1..RequestLen(call)
        BY <1>0, <1>4, <1>5
    <2>4. Made(Outgoing(k))'
        BY <1>4, <1>5, <2>1, <2>2, <2>3 DEF Made
    <2>5. Follows(Outgoing(k))' = IF Sent + (k - L) < RequestLen(call) THEN <<call, Sent + (k - L) + 1>> ELSE <<call + 1, 1>>
        BY <2>1, <2>2 DEF Follows
    <2>6. CASE k < L + part
        <3> DEFINE m == k + 1
        <3>1. m \in (L + 1)..(L + part) /\ Sent + (m - L) = Sent + (k - L) + 1 /\ Sent + (k - L) < RequestLen(call)
            BY <1>0, <1>4, <1>5, <2>6
        <3> HIDE DEF m
        <3>2. Outgoing(m)' = <<call, Sent + (m - L)>>
            BY <1>9, <3>1
        <3> QED BY <2>4, <2>5, <3>1, <3>2 DEF m
    <2>7. CASE k = L + part
        <3>1. k + 1 \in Nat /\ k + 1 = L + part + 1 /\ k - L = part
            BY <1>0, <1>4, <2>7
        <3>2. Outgoing(k + 1)' = IF Sent + part < RequestLen(call) THEN <<call, Sent + part + 1>> ELSE <<call + 1, 1>>
            BY <1>10, <3>1
        <3> QED BY <2>4, <2>5, <3>1, <3>2
    <2> QED BY <1>0, <1>4, <2>6, <2>7
<1>14. ASSUME NEW k \in 1..L' PROVE Made(Outgoing(k))' /\ Outgoing(k + 1)' = Follows(Outgoing(k))'
    <2>1. k \in 1..L \/ k \in (L + 1)..(L + part)
        BY <1>0, <1>4
    <2> QED BY <1>12, <1>13, <2>1
<1>15. Outgoing(1)' = Outgoing(1)
    <2>1. 1 \in 1..L \/ 1 = L + 1
        BY <1>0
    <2> QED BY <1>8, <1>11, <2>1
<1>16. ChainInv'
    BY <1>14, <1>15 DEF ChainInv, L
<1> QED BY <1>15, <1>16

\* xenstored takes what is at the front of the ring (xenbus.c:50).
LEMMA ChainOnSrvRead ==
    ASSUME IndInv, ChainInv, SrvRead
    PROVE  ChainInv' /\ Outgoing(1)' = Outgoing(1)
<1>0. TypeOK /\ RingBounds /\ Len(srvIn) \in Nat /\ InRing \in Nat /\ InRing <= RingSize - 1 /\ reqCons \in Index /\ reqProd \in Index
      /\ RingSize \in Nat /\ call \in Nat /\ srvIn \in Seq(Bytes)
      /\ Mask(reqCons) \in 0..(RingSize - 1) /\ req \in [0..(RingSize - 1) -> Bytes] /\ reqCons \in Nat
    <2>1. TypeOK /\ RingBounds
        BY DEF IndInv
    <2>2. srvIn \in Seq(Bytes) /\ req \in [0..(RingSize - 1) -> Bytes] /\ reqCons \in Nat
        BY <2>1 DEF TypeOK, SrvType, RingType, Index
    <2>3. RingSize \in Nat /\ Mask(reqCons) \in 0..(RingSize - 1)
        BY <2>1, RingAssumption, RingNumbers
    <2> QED BY <2>1, <2>2, <2>3, OnTheWay
<1>1. PICK n \in 1..SrvReadable : srvIn' = srvIn \o Chunk(req, reqCons, n) /\ reqCons' = IdxAdd(reqCons, n)
    BY DEF SrvRead
<1>2. UNCHANGED <<req, reqProd, paths, stage, done>>
    BY DEF SrvRead, callVars, loopVars
<1>3. n \in Nat /\ n \in 0..RingSize /\ n <= InRing /\ n <= RingSize - Mask(reqCons)
    BY <1>0, ReadableRange DEF InRing
<1>4. InRing' = InRing - n
    <2>1. IdxSub(reqProd, IdxAdd(reqCons, n)) = IdxSub(reqProd, reqCons) - n
        BY <1>0, <1>3, ConsumeLen DEF InRing
    <2> QED BY <1>1, <1>2, <2>1 DEF InRing
<1>5. Chunk(req, reqCons, n) \in Seq(Bytes) /\ Len(Chunk(req, reqCons, n)) = n
      /\ \A i \in 1..n : Chunk(req, reqCons, n)[i] = req[Mask(reqCons) + i - 1]
    BY <1>0, <1>3, ChunkType DEF Chunk
<1> DEFINE c == Chunk(req, reqCons, n)
<1>6. srvIn' = srvIn \o c
    BY <1>1
<1>7. c \in Seq(Bytes) /\ Len(c) = n /\ \A i \in 1..n : c[i] = req[Mask(reqCons) + i - 1]
    BY <1>5
<1> HIDE DEF c
<1>8. Len(srvIn') = Len(srvIn) + n /\ (\A k \in 1..Len(srvIn) : srvIn'[k] = srvIn[k])
      /\ (\A k \in (Len(srvIn) + 1)..(Len(srvIn) + n) : srvIn'[k] = c[k - Len(srvIn)])
    BY <1>0, <1>3, <1>6, <1>7
<1>9. NextByte' = NextByte
    BY <1>2, NextAsBefore
<1>10. ASSUME NEW k \in 1..(Len(srvIn) + InRing + 1) PROVE Outgoing(k)' = Outgoing(k)
    <2>1. CASE k <= Len(srvIn)
        <3>1. k <= Len(srvIn') /\ srvIn'[k] = srvIn[k]
            BY <1>0, <1>3, <1>8, <2>1
        <3> QED BY <2>1, <3>1 DEF Outgoing, Stream
    <2>2. CASE ~(k <= Len(srvIn)) /\ k <= Len(srvIn) + n
        <3> DEFINE i == k - Len(srvIn)
        <3>1. k <= Len(srvIn') /\ k \in (Len(srvIn) + 1)..(Len(srvIn) + n) /\ k <= Len(srvIn) + InRing
              /\ i \in 1..n /\ i - 1 \in Nat /\ i - 1 < RingSize - Mask(reqCons)
              /\ i - 1 = k - Len(srvIn) - 1 /\ Mask(reqCons) + (i - 1) = Mask(reqCons) + i - 1
            BY <1>0, <1>3, <1>8, <2>2
        <3>2. srvIn'[k] = c[i]
            BY <1>8, <3>1
        <3> HIDE DEF i
        <3>3. c[i] = req[Mask(reqCons) + i - 1]
            BY <1>7, <3>1
        <3>4. Place(reqCons, i - 1) = Mask(reqCons) + (i - 1)
            BY <1>0, <3>1, PlacesInRow
        <3>5. Outgoing(k) = req[Place(reqCons, i - 1)]
            BY <2>2, <3>1 DEF Outgoing, Stream
        <3>6. Outgoing(k)' = srvIn'[k]
            BY <3>1 DEF Outgoing, Stream
        <3> QED BY <3>1, <3>2, <3>3, <3>4, <3>5, <3>6
    <2>3. CASE ~(k <= Len(srvIn) + n) /\ k <= Len(srvIn) + InRing
        <3> DEFINE i == k - Len(srvIn') - 1
        <3>1. ~(k <= Len(srvIn)) /\ ~(k <= Len(srvIn')) /\ k <= Len(srvIn') + InRing' /\ i \in Nat /\ n + i <= RingSize
              /\ n + i = k - Len(srvIn) - 1
            BY <1>0, <1>3, <1>4, <1>8, <2>3
        <3>2. Outgoing(k)' = req[Place(reqCons', i)]
            BY <1>2, <3>1 DEF Outgoing, Stream, Place
        <3> HIDE DEF i
        <3>3. Outgoing(k) = req[Place(reqCons, n + i)]
            BY <2>3, <3>1 DEF Outgoing, Stream
        <3>4. Place(IdxAdd(reqCons, n), i) = Place(reqCons, n + i)
            BY <1>0, <1>3, <3>1, PlacesSkip
        <3> QED BY <1>1, <3>2, <3>3, <3>4
    <2>4. CASE ~(k <= Len(srvIn) + InRing)
        <3>1. ~(k <= Len(srvIn)) /\ ~(k <= Len(srvIn')) /\ ~(k <= Len(srvIn') + InRing')
            BY <1>0, <1>3, <1>4, <1>8, <2>4
        <3> QED BY <1>9, <2>4, <3>1 DEF Outgoing, Stream
    <2> QED BY <2>1, <2>2, <2>3, <2>4
<1>11. Len(srvIn') + InRing' = Len(srvIn) + InRing /\ call' = call
    BY <1>0, <1>2, <1>3, <1>4, <1>8 DEF call
<1>12. \A i \in 1..call : RequestLen(i)' = RequestLen(i)
    BY <1>2 DEF RequestLen
<1> QED BY <1>0, <1>10, <1>11, <1>12, ChainKept

\* A request that xenstored has is one request, from its first byte to its last.
LEMMA OneRequest ==
    ASSUME IndInv, ChainInv, Len(srvIn) = SrvNeeds
    PROVE  /\ srvIn[1][1] \in 1..call /\ Len(srvIn) = RequestLen(srvIn[1][1])
           /\ Outgoing(Len(srvIn) + 1) = <<srvIn[1][1] + 1, 1>>
<1>0. TypeOK /\ RingBounds /\ Len(srvIn) \in Nat /\ InRing \in Nat /\ HdrLen \in Nat \ {0} /\ call \in Nat
    BY OnTheWay, WireAssumption DEF IndInv
<1> DEFINE n == srvIn[1][1]
<1>1. Len(srvIn) >= HdrLen /\ Len(srvIn) = RequestLen(n) /\ Len(srvIn) >= 1
    BY <1>0 DEF SrvNeeds
<1>2. n \in 1..call /\ srvIn[1] = <<n, 1>>
    <2>1. 1 \in 1..(Len(srvIn) + InRing) /\ 1 <= Len(srvIn) /\ 1 \in 1..Len(srvIn)
        BY <1>0, <1>1
    <2>2. Outgoing(1) = srvIn[1]
        BY <2>1 DEF Outgoing, Stream
    <2>3. Made(srvIn[1]) /\ srvIn[1][2] = 1
        BY <2>1, <2>2 DEF ChainInv
    <2>4. srvIn[1] \in Bytes
        BY <1>0, <2>1 DEF TypeOK, SrvType
    <2> QED BY <2>3, <2>4 DEF Made, Bytes
<1> HIDE DEF n
<1> DEFINE S == {k \in Nat : k + 1 <= Len(srvIn) => Outgoing(k + 1) = <<n, k + 1>>}
<1>3. 0 \in S
    <2>1. 1 <= Len(srvIn)
        BY <1>0, <1>1
    <2>2. Outgoing(1) = srvIn[1]
        BY <2>1 DEF Outgoing, Stream
    <2> QED BY <1>2, <2>2
<1>4. ASSUME NEW k \in S \cap Nat PROVE k + 1 \in S
    <2>1. SUFFICES ASSUME k + 1 + 1 <= Len(srvIn) PROVE Outgoing(k + 1 + 1) = <<n, k + 1 + 1>>
        OBVIOUS
    <2> DEFINE m == k + 1
    <2>2. m <= Len(srvIn) /\ m \in 1..(Len(srvIn) + InRing) /\ m < RequestLen(n)
        BY <1>0, <1>1, <2>1
    <2>3. Outgoing(m) = <<n, m>>
        BY <2>2
    <2> HIDE DEF m
    <2>4. Outgoing(m + 1) = Follows(Outgoing(m))
        BY <2>2 DEF ChainInv
    <2>5. Outgoing(m + 1) = <<n, m + 1>>
        BY <2>2, <2>3, <2>4 DEF Follows
    <2> QED BY <2>5 DEF m
<1> HIDE DEF S
<1>5. Nat \subseteq S
    BY <1>3, <1>4, SetInduction
<1>6. Outgoing(Len(srvIn)) = <<n, Len(srvIn)>>
    <2>1. Len(srvIn) - 1 \in S /\ Len(srvIn) - 1 + 1 = Len(srvIn)
        BY <1>0, <1>1, <1>5
    <2> QED BY <2>1 DEF S
<1>7. Outgoing(Len(srvIn) + 1) = Follows(Outgoing(Len(srvIn)))
    <2>1. Len(srvIn) \in 1..(Len(srvIn) + InRing)
        BY <1>0, <1>1
    <2> QED BY <2>1 DEF ChainInv
<1>8. Follows(<<n, Len(srvIn)>>) = <<n + 1, 1>>
    BY <1>0, <1>1 DEF Follows
<1> QED BY <1>1, <1>2, <1>6, <1>7, <1>8 DEF n

\* Once it is answered, the next one begins.
LEMMA ChainOnReply ==
    ASSUME IndInv, ChainInv, SrvReply
    PROVE  ChainInv' /\ Outgoing(1)' = <<srvIn[1][1] + 1, 1>>
<1>0. TypeOK /\ RingBounds /\ Len(srvIn) \in Nat /\ InRing \in Nat /\ call \in Nat
    BY OnTheWay DEF IndInv
<1>1. srvIn' = <<>> /\ UNCHANGED <<req, reqProd, reqCons, paths, stage, done>> /\ Len(srvIn) = SrvNeeds
    BY DEF SrvReply, ringVars, callVars, loopVars
<1>2. NextByte' = NextByte /\ InRing' = InRing /\ Len(srvIn') = 0 /\ call' = call
    BY <1>1, NextAsBefore DEF InRing, call
<1> DEFINE L == Len(srvIn)
<1>3. ASSUME NEW k \in 1..(InRing + 1) PROVE Outgoing(k)' = Outgoing(L + k)
    <2>1. CASE k <= InRing
        <3>1. ~(k <= 0) /\ ~(L + k <= Len(srvIn)) /\ L + k <= Len(srvIn) + InRing /\ k <= 0 + InRing
              /\ L + k - Len(srvIn) - 1 = k - 1 /\ k - 0 - 1 = k - 1
            BY <1>0, <2>1
        <3>2. Outgoing(k)' = req[Place(reqCons, k - 1)]
            BY <1>1, <1>2, <3>1 DEF Outgoing, Stream, Place
        <3>3. Outgoing(L + k) = req[Place(reqCons, k - 1)]
            BY <3>1 DEF Outgoing, Stream
        <3> QED BY <3>2, <3>3
    <2>2. CASE ~(k <= InRing)
        <3>1. ~(k <= 0) /\ ~(L + k <= Len(srvIn)) /\ ~(L + k <= Len(srvIn) + InRing) /\ ~(k <= 0 + InRing)
            BY <1>0, <2>2
        <3>2. Outgoing(k)' = NextByte
            BY <1>1, <1>2, <3>1 DEF Outgoing, Stream
        <3>3. Outgoing(L + k) = NextByte
            BY <3>1 DEF Outgoing, Stream
        <3> QED BY <3>2, <3>3
    <2> QED BY <2>1, <2>2
<1>4. \A i \in 1..call : RequestLen(i)' = RequestLen(i)
    BY <1>1 DEF RequestLen
<1>5. ASSUME NEW k \in 1..InRing PROVE Made(Outgoing(k))' /\ Outgoing(k + 1)' = Follows(Outgoing(k))'
    <2> DEFINE m == L + k
    <2>1. m \in 1..(Len(srvIn) + InRing) /\ k \in 1..(InRing + 1) /\ k + 1 \in 1..(InRing + 1) /\ L + (k + 1) = m + 1
        BY <1>0
    <2>2. Outgoing(k)' = Outgoing(m)
        BY <1>3, <2>1
    <2>3. Outgoing(k + 1)' = Outgoing(m + 1)
        BY <1>3, <2>1
    <2> HIDE DEF m
    <2>4. Made(Outgoing(m)) /\ Outgoing(m + 1) = Follows(Outgoing(m))
        BY <2>1 DEF ChainInv
    <2>5. Outgoing(m)[1] \in 1..call
        BY <2>4 DEF Made
    <2>6. RequestLen(Outgoing(k)[1])' = RequestLen(Outgoing(m)[1])
        BY <1>4, <2>2, <2>5 DEF RequestLen
    <2> QED BY <1>2, <2>2, <2>3, <2>4, <2>6 DEF Made, Follows
<1>6. Outgoing(1)' = <<srvIn[1][1] + 1, 1>>
    <2>1. 1 \in 1..(InRing + 1)
        BY <1>0
    <2>2. Outgoing(1)' = Outgoing(L + 1)
        BY <1>3, <2>1
    <2>3. Outgoing(L + 1) = <<srvIn[1][1] + 1, 1>>
        BY <1>1, OneRequest
    <2> QED BY <2>2, <2>3
<1>7. \A k \in 1..(Len(srvIn') + InRing') : Made(Outgoing(k))' /\ Outgoing(k + 1)' = Follows(Outgoing(k))'
    <2>1. Len(srvIn') + InRing' = InRing
        BY <1>0, <1>2
    <2> QED BY <1>5, <2>1
<1>8. ChainInv'
    BY <1>6, <1>7 DEF ChainInv
<1> QED BY <1>6, <1>8

\* Every step keeps the requests in order, and only an answer moves on to the
\* next one.
LEMMA ChainStep ==
    ASSUME IndInv, OrderInv, [Next]_vars
    PROVE  ChainInv' /\ (SrvReply \/ Outgoing(1)' = Outgoing(1))
<1>0. TypeOK /\ RingBounds /\ WritesInv /\ ChainInv
    BY DEF IndInv, OrderInv
<1>1. CASE \E p \in PathLens : XenstoreRead(p)
    BY <1>0, <1>1, ChainOnCall
<1>2. CASE WriteCopy
    BY <1>0, <1>2, ChainOnCopy
<1>3. CASE WritePublish
    BY <1>0, <1>3, ChainOnPublish
<1>4. CASE SrvRead
    BY <1>0, <1>4, ChainOnSrvRead
<1>5. CASE SrvReply
    BY <1>0, <1>5, ChainOnReply
<1>6. ASSUME UNCHANGED <<req, reqProd, reqCons, srvIn, paths>>, NextByte' = NextByte
      PROVE  ChainInv' /\ Outgoing(1)' = Outgoing(1)
    BY <1>0, <1>6, ChainAsBefore
<1>7. CASE WritePath
    <2>1. UNCHANGED <<req, reqProd, reqCons, srvIn, paths>>
        BY <1>7 DEF WritePath, ringVars, srvVars, callVars
    <2> QED BY <1>0, <1>6, <1>7, <2>1, NextOnWritePath
<1>8. CASE KickRequest
    <2>1. UNCHANGED <<req, reqProd, reqCons, srvIn, paths>>
        BY <1>8 DEF KickRequest, ringVars, srvVars
    <2> QED BY <1>0, <1>6, <1>8, <2>1, NextOnKick
<1>9. CASE WriteSample \/ Kick \/ TestAndClear \/ Poll \/ SrvWake \/ SrvWrite \/ SrvNotify \/ SrvSleep
           \/ Finished \/ UNCHANGED vars
    <2>1. UNCHANGED <<req, reqProd, reqCons, srvIn, paths, stage, done>>
        BY <1>9 DEF WriteSample, Kick, TestAndClear, Poll, SrvWake, SrvWrite, SrvNotify, SrvSleep, Finished,
           vars, ringVars, srvVars, callVars, loopVars
    <2> QED BY <1>6, <2>1, NextAsBefore
<1>10. CASE InitXenbus \/ XenstoreInit \/ HeaderNotRead \/ HeaderTooLong \/ DrainNext \/ HeaderFits \/ FinishPayload
    <2>1. UNCHANGED <<req, reqProd, reqCons, srvIn, paths>>
        BY <1>10 DEF InitXenbus, XenstoreInit, HeaderNotRead, HeaderTooLong, DrainNext, HeaderFits, FinishPayload,
           ringVars, srvVars, callVars
    <2>2. ~Writing /\ ~Writing'
        BY <1>10 DEF InitXenbus, XenstoreInit, HeaderNotRead, HeaderTooLong, DrainNext, HeaderFits, FinishPayload,
           LoopDone, StartLoop, Return, Writing
    <2> QED BY <1>6, <2>1, <2>2, NextAsBefore
<1>11. CASE ReadSample \/ ReadCopy \/ ReadPublish
    <2>1. UNCHANGED <<req, reqProd, reqCons, srvIn, paths>> /\ Reading /\ stage' = stage
        BY <1>11 DEF ReadSample, ReadCopy, ReadPublish, ringVars, srvVars, callVars
    <2>2. ~Writing /\ ~Writing'
        BY <2>1 DEF Writing, Reading
    <2> QED BY <1>6, <2>1, <2>2, NextAsBefore
<1> QED BY <1>1, <1>2, <1>3, <1>4, <1>5, <1>7, <1>8, <1>9, <1>10, <1>11 DEF Next, Startup, Loop, Body, Srv

\* Before init_xenbus() nothing is on its way.
LEMMA OrderInit == Init => OrderInv
<1>1. SUFFICES ASSUME Init PROVE OrderInv
    OBVIOUS
<1>2. WritesInv
    <2>1. stage = "boot"
        BY <1>1 DEF Init
    <2> QED BY <2>1 DEF WritesInv, Writing
<1>3. InRing = 0 /\ Len(srvIn) = 0 /\ NextByte = <<1, 1>>
    <2>1. stage = "boot" /\ reqProd = 0 /\ reqCons = 0 /\ srvIn = <<>> /\ paths = <<>>
        BY <1>1 DEF Init
    <2> QED BY <2>1 DEF InRing, IdxSub, NextByte, Writing, call
<1>4. Outgoing(1) = <<1, 1>>
    BY <1>3 DEF Outgoing, Stream
<1> QED BY <1>2, <1>3, <1>4 DEF OrderInv, ChainInv

\* The requests in order are what xenstored reads.
LEMMA OrderIsAsked == ASSUME IndInv, OrderInv PROVE RequestInOrder
<1> DEFINE used == IdxSub(reqProd, reqCons)
           ring == [k \in 1..used |-> req[Mask(IdxAdd(reqCons, k - 1))]]
           stream == srvIn \o ring
<1>0. TypeOK /\ RingBounds /\ Len(srvIn) \in Nat /\ InRing \in Nat /\ srvIn \in Seq(Bytes) /\ used = InRing /\ used \in Nat
      /\ used <= RingSize - 1 /\ RingSize \in Nat /\ reqCons \in Index /\ req \in [0..(RingSize - 1) -> Bytes]
    BY OnTheWay, RingAssumption DEF IndInv, TypeOK, SrvType, InRing, RingType
<1>1. ring \in Seq(Bytes) /\ Len(ring) = used
    <2>1. ASSUME NEW k \in 1..used PROVE req[Mask(IdxAdd(reqCons, k - 1))] \in Bytes
        <3>1. k - 1 \in 0..RingSize
            BY <1>0
        <3>2. IdxAdd(reqCons, k - 1) \in Nat
            BY <1>0, <3>1, IdxAddType DEF Index
        <3> QED BY <1>0, <3>2, MaskRange
    <2> HIDE DEF used
    <2>2. ring \in [1..used -> Bytes]
        BY <2>1
    <2> HIDE DEF ring
    <2>3. ring \in Seq(Bytes)
        BY <1>0, <2>2
    <2> QED BY <1>0, <2>2, <2>3
<1> HIDE DEF ring, used
<1>2. Len(stream) = Len(srvIn) + InRing /\ (\A k \in 1..Len(srvIn) : stream[k] = srvIn[k])
      /\ \A k \in (Len(srvIn) + 1)..(Len(srvIn) + InRing) : stream[k] = ring[k - Len(srvIn)]
    BY <1>0, <1>1
<1> HIDE DEF stream
<1>3. ASSUME NEW k \in 1..Len(stream) PROVE stream[k] = Outgoing(k)
    <2>1. CASE k <= Len(srvIn)
        BY <1>0, <1>2, <2>1 DEF Outgoing, Stream
    <2>2. CASE ~(k <= Len(srvIn))
        <3> DEFINE i == k - Len(srvIn)
        <3>1. k \in (Len(srvIn) + 1)..(Len(srvIn) + InRing) /\ k <= Len(srvIn) + InRing /\ i \in 1..used
              /\ i - 1 = k - Len(srvIn) - 1
            BY <1>0, <1>2, <2>2
        <3>2. stream[k] = ring[i]
            BY <1>2, <3>1
        <3> HIDE DEF i
        <3>3. ring[i] = req[Mask(IdxAdd(reqCons, i - 1))]
            BY <3>1 DEF ring
        <3>4. Outgoing(k) = req[Mask(IdxAdd(reqCons, i - 1))]
            BY <2>2, <3>1 DEF Outgoing, Stream, Place
        <3> QED BY <3>2, <3>3, <3>4
    <2> QED BY <2>1, <2>2
<1>4. srvIn # <<>> => srvIn[1][2] = 1
    <2>1. SUFFICES ASSUME srvIn # <<>> PROVE srvIn[1][2] = 1
        OBVIOUS
    <2>2. 1 \in 1..Len(srvIn) /\ 1 \in 1..Len(stream)
        BY <1>0, <1>2, <2>1
    <2>3. Outgoing(1) = srvIn[1]
        BY <1>2, <1>3, <2>2
    <2> QED BY <2>3 DEF OrderInv, ChainInv
<1>5. ASSUME NEW k \in 1..Len(stream)
      PROVE  stream[k][1] \in 1..call /\ stream[k][2] \in 1..RequestLen(stream[k][1])
    <2>1. Made(Outgoing(k))
        BY <1>2 DEF OrderInv, ChainInv
    <2> QED BY <1>3, <2>1 DEF Made
<1>6. ASSUME NEW k \in 2..Len(stream)
      PROVE  LET b == stream[k - 1]
             IN  stream[k] = IF b[2] < RequestLen(b[1]) THEN <<b[1], b[2] + 1>> ELSE <<b[1] + 1, 1>>
    <2> DEFINE m == k - 1
    <2>1. m \in 1..(Len(srvIn) + InRing) /\ m \in 1..Len(stream) /\ k \in 1..Len(stream) /\ m + 1 = k
        BY <1>0, <1>2
    <2>2. stream[k] = Outgoing(k) /\ stream[m] = Outgoing(m)
        BY <1>3, <2>1
    <2> HIDE DEF m
    <2>3. Outgoing(m + 1) = Follows(Outgoing(m))
        BY <2>1 DEF OrderInv, ChainInv
    <2>4. stream[k] = Follows(stream[m])
        BY <2>1, <2>2, <2>3
    <2> QED BY <2>4 DEF Follows, m
<1> QED BY <1>4, <1>5, <1>6 DEF RequestInOrder, stream, ring, used

\* What is written and what is on its way stay in order in every state.
LEMMA InOrder == Spec => [](IndInv /\ OrderInv)
<1>1. Init => IndInv /\ OrderInv
    BY IndInvInit, OrderInit
<1>2. IndInv /\ OrderInv /\ [Next]_vars => (IndInv /\ OrderInv)'
    <2>1. IndInv /\ [Next]_vars => IndInv'
        BY TypeStep, TransferStep, LengthStep, WakeupStep DEF IndInv
    <2>2. IndInv /\ OrderInv /\ [Next]_vars => OrderInv'
        BY WritesStep, ChainStep DEF OrderInv
    <2> QED BY <2>1, <2>2
<1> QED BY <1>1, <1>2, PTL DEF Spec

\* xenstored receives every request as it was sent, however the ring cuts it to
\* pieces, and whatever the two sides do in between (xenbus.c:21).
THEOREM RequestsArriveInOrder == Spec => []RequestInOrder
<1>1. IndInv /\ OrderInv => RequestInOrder
    BY OrderIsAsked
<1> QED BY InOrder, <1>1, PTL

-----------------------------------------------------------------------------
(* The replies.                                                            *)

\* The numbers of the bytes of a reply.
LEMMA ReplyNumbers ==
    ASSUME TypeOK, RingBounds
    PROVE  /\ Available \in Nat /\ Available <= RingSize /\ Len(srvOut) \in Nat
           /\ rspProd \in Index /\ rspCons \in Index /\ RingSize \in Nat
           /\ rsp \in [0..(RingSize - 1) -> Bytes] /\ srvOut \in Seq(Bytes)
           /\ call \in Nat /\ done \in Nat /\ len \in Nat /\ part \in Nat /\ part <= RingSize /\ hdr.len \in Nat
           /\ HdrLen \in Nat /\ HdrLen > 0 /\ MaxCalls \in Nat
<1>1. Available \in Nat /\ Available <= RingSize
    BY RingNumbers DEF Available, RingBounds
<1>2. srvOut \in Seq(Bytes) /\ Len(srvOut) \in Nat /\ call \in Nat
    BY DEF TypeOK, SrvType, CallType, call
<1>3. rspProd \in Index /\ rspCons \in Index /\ rsp \in [0..(RingSize - 1) -> Bytes]
    BY DEF TypeOK, RingType
<1>4. done \in Nat /\ len \in Nat /\ part \in Nat /\ part <= RingSize /\ hdr.len \in Nat
    BY RingAssumption DEF TypeOK, LoopType, CallType
<1> QED BY <1>1, <1>2, <1>3, <1>4, RingAssumption, WireAssumption

\* The reply to the call, once xenstored has answered.
LEMMA ReplyIs ==
    ASSUME TypeOK, TurnInv, InCall, Answers(call)
    PROVE  /\ call \in 1..MaxCalls /\ reply[call] \in Replies[call]
           /\ reply[call] \in Headers /\ reply[call].len \in Nat
<1>1. call \in 1..MaxCalls /\ reply[call] \in Replies[call]
    BY DEF TurnInv
<1>2. reply[call] \in Headers
    BY <1>1, WireAssumption
<1> QED BY <1>1, <1>2 DEF Headers

\* Only what is answered can be received: what is read as a header is the reply's.
LEMMA HeaderIs ==
    ASSUME TypeOK, RingBounds, TurnInv, ReceivedInv, LoopDone("rhdr")
    PROVE  Answers(call) /\ ReceivedHdrs = {reply[call]} /\ done = HdrLen
<1>0. stage = "rhdr" /\ pc = "loop" /\ len = 0 /\ Reading /\ InCall
    BY DEF LoopDone, InCall, Reading
<1>1. done = HdrLen
    BY <1>0, ReplyNumbers DEF ReceivedInv
<1>2. Answers(call)
    <2>1. Got = done
        BY <1>0 DEF Got
    <2> QED BY <1>0, <1>1, <2>1, ReplyNumbers DEF TurnInv
<1>3. hdrBytes = HeaderBytes(call)
    <2>1. Copied = HdrLen
        BY <1>0, <1>1, ReplyNumbers DEF Copied
    <2> QED BY <1>0, <2>1 DEF ReceivedInv, HeaderBytes
<1>4. \A n \in 1..MaxCalls : hdrBytes = HeaderBytes(n) => n = call
    <2>1. ASSUME NEW n \in 1..MaxCalls, hdrBytes = HeaderBytes(n) PROVE n = call
        <3>1. 1 \in 1..HdrLen
            BY ReplyNumbers
        <3>2. HeaderBytes(n)[1] = <<n, 1>> /\ HeaderBytes(call)[1] = <<call, 1>>
            BY <3>1 DEF HeaderBytes
        <3> QED BY <1>3, <2>1, <3>2
    <2> QED BY <2>1
<1>5. {n \in 1..MaxCalls : reply[n] # None /\ hdrBytes = HeaderBytes(n)} = {call}
    BY <1>0, <1>2, <1>3, <1>4, ReplyIs DEF Answers
<1> QED BY <1>1, <1>2, <1>5 DEF ReceivedHdrs

\* A call is answered with what is expected of it, whatever happens to the others.
LEMMA ExpectedKept ==
    ASSUME NEW n \in Nat, reply'[n] = reply[n]
    PROVE  Expected(n)' = Expected(n)
BY DEF Expected

\* A step on one side of a call changes nothing of what is still to be read...
LEMMA ReplyKept ==
    ASSUME TypeOK, RingBounds, ReplyInv, Outgoing(1)' = Outgoing(1), Got' = Got, ReceivedInv',
           InCall' <=> InCall, stage' # "idle" => stage # "idle" \/ call < MaxCalls,
           UNCHANGED <<rsp, rspProd, rspCons, srvOut, paths, results, reply>>
    PROVE  ReplyInv'
<1>1. call' = call /\ (\A n : Answers(n)' <=> Answers(n)) /\ Available' = Available
    BY DEF call, Answers, Available
<1>2. Owed' = Owed
    BY <1>1 DEF Owed, Answers
<1>3. TurnInv'
    BY <1>1 DEF ReplyInv, TurnInv, Answers
<1>4. IncomingInv'
    <2>1. \A k : Incoming(k)' = Incoming(k)
        BY <1>1 DEF Incoming, Place
    <2> QED BY <1>1, <1>2, <2>1 DEF ReplyInv, IncomingInv
<1>5. ReadReturnsReply'
    BY DEF ReplyInv, ReadReturnsReply, Expected
<1> QED BY <1>3, <1>4, <1>5 DEF ReplyInv

\* ... nor does one that moves nothing.
LEMMA ReplyAsBefore ==
    ASSUME TypeOK, RingBounds, ReplyInv, Outgoing(1)' = Outgoing(1), Copied' = Copied,
           UNCHANGED <<rsp, rspProd, rspCons, stage, len, paths, hdr, hdrBytes, payload, results, reply, srvOut>>,
           Reading => done' = done
    PROVE  ReplyInv'
<1>1. call' = call /\ (InCall' <=> InCall) /\ (Reading' <=> Reading)
    BY DEF call, InCall, Writing, Reading
<1>2. Got' = Got
    BY <1>1 DEF Got
<1>3. ReceivedInv'
    BY <1>1 DEF ReplyInv, ReceivedInv, Reading
<1> QED BY <1>1, <1>2, <1>3, ReplyKept

\* A call that returns has read its reply, or was the last.
LEMMA ReplyOnReturn ==
    ASSUME TypeOK, RingBounds, ReplyInv, Outgoing(1)' = Outgoing(1), Reading, Answers(call), stage' = "idle",
           results' = Append(results, Expected(call)), call < MaxCalls => Owed = 0,
           UNCHANGED <<rspProd, rspCons, srvOut, paths, reply>>
    PROVE  ReplyInv'
<1>0. TurnInv /\ IncomingInv /\ ReadReturnsReply
    BY DEF ReplyInv
<1>1. InCall /\ ~InCall' /\ call' = call /\ (\A n : Answers(n)' <=> Answers(n)) /\ Available' = Available
    BY DEF InCall, Writing, Reading, call, Answers, Available
<1>2. call \in 1..MaxCalls /\ call \in Nat /\ Len(results) = call - 1
    BY <1>0, <1>1, ReplyNumbers DEF TurnInv
<1>3. Len(results') = call /\ results'[call] = Expected(call) /\ \A n \in 1..(call - 1) : results'[n] = results[n]
    <2>1. results \in Seq([ptr : {"NULL", "payload"}, str : Seq(Bytes)])
        BY DEF TypeOK, CallType
    <2> QED BY <1>2, <2>1
<1>4. ReadReturnsReply'
    <2>1. \A n \in 1..(call - 1) : reply[n] # None /\ results[n] = Expected(n)
        BY <1>0, <1>2 DEF ReadReturnsReply
    <2>2. \A n \in 1..call : reply[n] # None /\ results'[n] = Expected(n)
        BY <1>2, <1>3, <2>1 DEF Answers
    <2> QED BY <1>3, <2>2 DEF ReadReturnsReply, Expected
<1>5. TurnInv'
    <2>1. Outgoing(1) = <<call + 1, 1>> /\ \A n \in 1..MaxCalls : Answers(n) => n <= call /\ reply[n] \in Replies[n]
        BY <1>0 DEF TurnInv
    <2> QED BY <1>1, <1>3, <2>1 DEF TurnInv
<1>6. ReceivedInv'
    BY DEF ReceivedInv
<1>7. IncomingInv'
    <2>1. SUFFICES ASSUME call < MaxCalls PROVE IncomingInv'
        BY <1>1 DEF IncomingInv
    <2>2. Owed = 0 /\ Owed' = 0
        BY <1>1, <2>1 DEF Owed
    <2>3. Available + Len(srvOut) = 0
        BY <1>0, <2>1, <2>2 DEF IncomingInv
    <2> QED BY <1>1, <2>2, <2>3 DEF IncomingInv
<1> QED BY <1>4, <1>5, <1>6, <1>7 DEF ReplyInv

\* A call begins when nothing of an earlier reply is left.
LEMMA ReplyOnCall ==
    ASSUME IndInv, ReplyInv, NEW p \in PathLens, XenstoreRead(p), Outgoing(1)' = Outgoing(1)
    PROVE  ReplyInv'
<1>0. TypeOK /\ RingBounds /\ TurnInv /\ IncomingInv /\ ReadReturnsReply
    BY DEF IndInv, ReplyInv
<1>1. stage = "idle" /\ stage' = "whdr" /\ call < MaxCalls /\ paths' = Append(paths, p)
      /\ UNCHANGED <<rspProd, rspCons, srvOut, results, reply>>
    BY DEF XenstoreRead, StartLoop, ringVars, srvVars
<1>2. call \in Nat /\ call' = call + 1 /\ call + 1 \in 1..MaxCalls
    <2>1. paths \in Seq(PathLens)
        BY <1>0 DEF TypeOK, CallType
    <2>2. call' = call + 1
        BY <1>1, <2>1 DEF call
    <2> QED BY <1>0, <1>1, <2>2, ReplyNumbers
<1>3. ~InCall /\ InCall' /\ ~Reading' /\ Got' = 0
    BY <1>1 DEF InCall, Writing, Reading, Got
<1>4. ~Answers(call + 1)
    BY <1>0, <1>2 DEF TurnInv
<1>5. ~Answers(call)'
    BY <1>1, <1>2, <1>4 DEF Answers
<1>6. Available' + Len(srvOut') = 0 /\ Owed' = 0
    <2>1. Owed = 0 /\ Owed' = 0
        BY <1>3, <1>5 DEF Owed
    <2>2. Available' = Available
        BY <1>1 DEF Available
    <2> QED BY <1>0, <1>1, <2>1, <2>2 DEF IncomingInv
<1>7. TurnInv'
    <2>1. Len(results) = call /\ Outgoing(1) = <<call + 1, 1>>
          /\ \A n \in 1..MaxCalls : Answers(n) => n <= call /\ reply[n] \in Replies[n]
        BY <1>0, <1>3 DEF TurnInv
    <2>2. Len(results') = call' - 1 /\ Outgoing(1)' = <<call', 1>>
        BY <1>1, <1>2, <2>1
    <2>3. \A n \in 1..MaxCalls : Answers(n)' => n <= call' /\ reply'[n] \in Replies[n]
        BY <1>1, <1>2, <2>1 DEF Answers
    <2>4. call' \in 1..MaxCalls
        BY <1>2
    <2> QED BY <1>3, <1>5, <2>2, <2>3, <2>4 DEF TurnInv
<1>8. ReceivedInv'
    BY <1>1 DEF ReceivedInv
<1>9. IncomingInv'
    BY <1>6 DEF IncomingInv
<1>10. ReadReturnsReply'
    BY <1>0, <1>1 DEF ReadReturnsReply, Expected
<1> QED BY <1>7, <1>8, <1>9, <1>10 DEF ReplyInv

\* The path follows the header...
LEMMA ReplyOnWritePath ==
    ASSUME IndInv, ReplyInv, WritePath, Outgoing(1)' = Outgoing(1)
    PROVE  ReplyInv'
<1>0. TypeOK /\ RingBounds
    BY DEF IndInv
<1>1. stage = "whdr" /\ stage' = "wpath"
      /\ UNCHANGED <<rsp, rspProd, rspCons, srvOut, results, reply, paths>>
    BY DEF WritePath, LoopDone, StartLoop, ringVars, srvVars, callVars
<1>2. InCall /\ InCall' /\ Got = 0 /\ Got' = 0
    BY <1>1 DEF InCall, Writing, Reading, Got
<1>3. ReceivedInv'
    BY <1>1 DEF ReceivedInv
<1> QED BY <1>0, <1>1, <1>2, <1>3, ReplyKept

\* ... and then the reply is read, from its first byte on.
LEMMA ReplyOnKick ==
    ASSUME IndInv, ReplyInv, KickRequest, Outgoing(1)' = Outgoing(1)
    PROVE  ReplyInv'
<1>0. TypeOK /\ RingBounds
    BY DEF IndInv
<1>1. stage = "wpath" /\ stage' = "rhdr" /\ pc' = "loop" /\ len' = HdrLen /\ done' = 0 /\ hdrBytes' = <<>>
      /\ UNCHANGED <<rsp, rspProd, rspCons, srvOut, results, reply, paths>>
    BY DEF KickRequest, LoopDone, StartLoop, ringVars, srvVars
<1>2. InCall /\ InCall' /\ Got = 0 /\ Got' = 0
    BY <1>1 DEF InCall, Writing, Reading, Got
<1>3. ReceivedInv'
    <2>1. Copied' = 0 /\ done' + len' = HdrLen
        BY <1>0, <1>1, ReplyNumbers DEF Copied
    <2>2. hdrBytes' = [k \in 1..Copied' |-> <<call', k>>]
        BY <1>1, <2>1
    <2> QED BY <1>1, <2>1, <2>2 DEF ReceivedInv
<1> QED BY <1>0, <1>1, <1>2, <1>3, ReplyKept

\* The header says what xenstored answered: no value (xenbus.c:156)...
LEMMA ReplyOnNotRead ==
    ASSUME ErrorsAreEmpty, IndInv, ReplyInv, HeaderNotRead, Outgoing(1)' = Outgoing(1)
    PROVE  ReplyInv'
<1>0. TypeOK /\ RingBounds /\ TurnInv /\ ReceivedInv /\ LoopDone("rhdr")
    BY DEF IndInv, ReplyInv, HeaderNotRead
<1>1. Answers(call) /\ ReceivedHdrs = {reply[call]} /\ done = HdrLen
    BY <1>0, HeaderIs
<1>2. stage = "rhdr" /\ stage' = "idle" /\ results' = Append(results, NULL) /\ reply[call].type # "XS_READ"
      /\ UNCHANGED <<rspProd, rspCons, srvOut, reply, paths>>
    BY <1>0, <1>1 DEF HeaderNotRead, LoopDone, Return, ringVars, srvVars
<1>3. InCall /\ Reading
    BY <1>2 DEF InCall, Reading
<1>4. call \in 1..MaxCalls /\ reply[call] \in Replies[call] /\ reply[call].len \in Nat
    BY <1>0, <1>1, <1>3, ReplyIs
<1>5. Expected(call) = NULL
    BY <1>2 DEF Expected
<1>6. ASSUME call < MaxCalls PROVE Owed = 0
    <2>1. call \in 1..(MaxCalls - 1)
        BY <1>0, <1>4, <1>6, ReplyNumbers
    <2>2. reply[call].len = 0
        BY <1>2, <1>4, <2>1 DEF ErrorsAreEmpty
    <2>3. Got = HdrLen
        BY <1>1, <1>2, <1>3 DEF Got
    <2> QED BY <1>0, <2>2, <2>3, ReplyNumbers DEF Owed
<1> QED BY <1>0, <1>1, <1>2, <1>3, <1>5, <1>6, ReplyOnReturn

\* ... one that is drained, since it is too long (xenbus.c:159)...
LEMMA ReplyOnTooLong ==
    ASSUME IndInv, ReplyInv, HeaderTooLong, Outgoing(1)' = Outgoing(1)
    PROVE  ReplyInv'
<1>0. TypeOK /\ RingBounds /\ TurnInv /\ ReceivedInv /\ LoopDone("rhdr")
    BY DEF IndInv, ReplyInv, HeaderTooLong
<1>1. Answers(call) /\ ReceivedHdrs = {reply[call]} /\ done = HdrLen
    BY <1>0, HeaderIs
<1>2. stage = "rhdr" /\ stage' = "rdrain" /\ done' = 0 /\ hdr' = reply[call]
      /\ reply[call].type = "XS_READ" /\ reply[call].len > PayloadMax
      /\ UNCHANGED <<rsp, rspProd, rspCons, srvOut, results, reply, paths>>
    BY <1>0, <1>1 DEF HeaderTooLong, LoopDone, StartLoop, ringVars, srvVars
<1>3. InCall /\ InCall' /\ Reading /\ Reading' /\ call' = call
    BY <1>2 DEF InCall, Reading, call
<1>4. reply[call].len \in Nat
    BY <1>0, <1>1, <1>3, ReplyIs
<1>5. Got' = Got
    <2>1. Got = HdrLen
        BY <1>1, <1>2, <1>3 DEF Got
    <2>2. Got' = HdrLen + (reply[call].len - reply[call].len) + 0
        BY <1>2, <1>3 DEF Got
    <2> QED BY <1>0, <1>4, <2>1, <2>2, ReplyNumbers
<1>6. ReceivedInv'
    BY <1>2, <1>3, <1>4 DEF ReceivedInv
<1> QED BY <1>0, <1>2, <1>3, <1>5, <1>6, ReplyKept

\* ... or one that is read.
LEMMA ReplyOnFits ==
    ASSUME IndInv, ReplyInv, HeaderFits, Outgoing(1)' = Outgoing(1)
    PROVE  ReplyInv'
<1>0. TypeOK /\ RingBounds /\ TurnInv /\ ReceivedInv /\ LoopDone("rhdr")
    BY DEF IndInv, ReplyInv, HeaderFits
<1>1. Answers(call) /\ ReceivedHdrs = {reply[call]} /\ done = HdrLen
    BY <1>0, HeaderIs
<1>2. stage = "rhdr" /\ stage' = "rpayload" /\ pc' = "loop" /\ done' = 0 /\ hdr' = reply[call]
      /\ reply[call].type = "XS_READ" /\ reply[call].len <= PayloadMax
      /\ UNCHANGED <<rsp, rspProd, rspCons, srvOut, results, reply, paths>>
    BY <1>0, <1>1 DEF HeaderFits, LoopDone, StartLoop, ringVars, srvVars
<1>3. InCall /\ InCall' /\ Reading /\ Reading' /\ call' = call
    BY <1>2 DEF InCall, Reading, call
<1>5. Got' = Got
    BY <1>0, <1>1, <1>2, <1>3, ReplyNumbers DEF Got
<1>6. ReceivedInv'
    <2>1. Copied' = 0
        BY <1>2 DEF Copied
    <2> QED BY <1>2, <1>3, <2>1 DEF ReceivedInv
<1> QED BY <1>0, <1>2, <1>3, <1>5, <1>6, ReplyKept

\* The drain loop reads on until nothing is left (xenbus.c:165).
LEMMA ReplyOnDrain ==
    ASSUME IndInv, ReplyInv, DrainNext, Outgoing(1)' = Outgoing(1)
    PROVE  ReplyInv'
<1>0. TypeOK /\ RingBounds /\ TurnInv /\ ReceivedInv /\ LoopDone("rdrain") /\ hdr.len \in Nat /\ done \in Nat
      /\ HdrLen \in Nat
    BY ReplyNumbers DEF IndInv, ReplyInv, DrainNext
<1>1. stage = "rdrain" /\ UNCHANGED <<rsp, rspProd, rspCons, srvOut, reply, paths>>
    BY <1>0 DEF DrainNext, LoopDone, ringVars, srvVars
<1>2. InCall /\ Reading /\ call' = call
    BY <1>1 DEF InCall, Reading, call
<1>3. reply[call].type = "XS_READ" /\ reply[call].len > PayloadMax /\ hdr.len <= reply[call].len
    BY <1>0, <1>1 DEF ReceivedInv
<1>4. Answers(call)
    BY <1>3 DEF Answers, None
<1>5. reply[call].len \in Nat
    BY <1>0, <1>2, <1>4, ReplyIs
<1>6. hdr.len - done \in Nat /\ hdr'.len = hdr.len - done
    <2>1. hdr \in [type : {"XS_READ", "XS_ERROR", "none"}, len : Nat]
        BY <1>0 DEF TypeOK, CallType
    <2> QED BY <2>1, DrainLeft
<1>7. Got = HdrLen + (reply[call].len - hdr.len) + done
    BY <1>1, <1>2 DEF Got
<1>8. CASE hdr'.len > 0
    <2>1. stage' = "rdrain" /\ done' = 0 /\ results' = results
        BY <1>8 DEF DrainNext, StartLoop
    <2>2. Reading' /\ InCall'
        BY <2>1 DEF Reading, InCall
    <2>3. Got' = Got
        BY <1>0, <1>1, <1>2, <1>5, <1>6, <1>7, <2>1, <2>2 DEF Got
    <2>4. ReceivedInv'
        BY <1>0, <1>1, <1>2, <1>3, <1>5, <1>6, <2>1 DEF ReceivedInv
    <2> QED BY <1>0, <1>1, <1>2, <2>1, <2>2, <2>3, <2>4, ReplyKept
<1>9. CASE ~(hdr'.len > 0)
    <2>1. stage' = "idle" /\ results' = Append(results, NULL)
        BY <1>9 DEF DrainNext, Return
    <2>2. Expected(call) = NULL
        BY <1>3, <1>5, WireAssumption DEF Expected
    <2>3. Owed = 0
        BY <1>0, <1>5, <1>6, <1>7, <1>9 DEF Owed
    <2> QED BY <1>0, <1>1, <1>2, <1>4, <2>1, <2>2, <2>3, ReplyOnReturn
<1> QED BY <1>8, <1>9

\* The string that is returned is the payload, up to the terminator.
LEMMA PayloadString ==
    ASSUME NEW buf \in [0..PayloadMax -> Bytes], NEW n \in 0..PayloadMax, NEW c \in Nat \ {0},
           \A i \in 0..(n - 1) : buf[i] = <<c, HdrLen + i + 1>>, buf[n] = NUL
    PROVE  CString(buf) = [k \in 1..n |-> <<c, HdrLen + k>>]
<1> DEFINE S == {i \in DOMAIN buf : \A j \in 0..i : buf[j] # NUL}
<1>0. n \in Nat /\ PayloadMax \in Nat
    BY WireAssumption
<1>1. S = 0..(n - 1)
    <2>1. ASSUME NEW i \in 0..(n - 1) PROVE i \in S
        <3>1. i \in 0..PayloadMax /\ i \in Nat
            BY <1>0
        <3>2. \A j \in 0..i : buf[j] = <<c, HdrLen + j + 1>>
            BY <1>0
        <3>3. \A j \in 0..i : buf[j] # NUL
            BY <3>2 DEF NUL
        <3> QED BY <3>1, <3>3
    <2>2. ASSUME NEW i \in S PROVE i \in 0..(n - 1)
        <3>1. i \in 0..PayloadMax /\ \A j \in 0..i : buf[j] # NUL
            OBVIOUS
        <3>2. n \notin 0..i
            BY <3>1
        <3> QED BY <1>0, <3>1, <3>2
    <2> HIDE DEF S
    <2> QED BY <2>1, <2>2
<1>2. Cardinality(S) = n
    <2>1. Cardinality(0..(n - 1)) = IF 0 > n - 1 THEN 0 ELSE (n - 1) - 0 + 1
        BY <1>0, FS_Interval
    <2> HIDE DEF S
    <2> QED BY <1>0, <1>1, <2>1
<1>3. CString(buf) = [k \in 1..n |-> buf[k - 1]]
    BY <1>2 DEF CString, StrLen
<1>4. \A k \in 1..n : buf[k - 1] = <<c, HdrLen + k>>
    <2>1. ASSUME NEW k \in 1..n PROVE buf[k - 1] = <<c, HdrLen + k>>
        <3>1. k - 1 \in 0..(n - 1) /\ HdrLen + (k - 1) + 1 = HdrLen + k
            BY <1>0, WireAssumption
        <3> DEFINE i == k - 1
        <3>2. i \in 0..(n - 1) /\ HdrLen + i + 1 = HdrLen + k
            BY <3>1
        <3> HIDE DEF i
        <3>3. buf[i] = <<c, HdrLen + k>>
            BY <3>2
        <3> QED BY <3>3 DEF i
    <2> QED BY <2>1
<1> QED BY <1>3, <1>4

\* A value that fits is returned, and all of it (xenbus.c:181).
LEMMA ReplyOnFinish ==
    ASSUME IndInv, ReplyInv, FinishPayload, Outgoing(1)' = Outgoing(1)
    PROVE  ReplyInv'
<1>0. TypeOK /\ RingBounds /\ TurnInv /\ ReceivedInv /\ hdr.len \in Nat /\ done \in Nat /\ HdrLen \in Nat
      /\ payload \in [0..PayloadMax -> Bytes] /\ PayloadMax \in Nat
    BY ReplyNumbers, WireAssumption DEF IndInv, ReplyInv, TypeOK, CallType
<1>1. stage = "rpayload" /\ pc = "loop" /\ len = 0 /\ stage' = "idle"
      /\ payload' = [payload EXCEPT ![hdr.len] = NUL] /\ results' = Append(results, String(CString(payload')))
      /\ UNCHANGED <<rspProd, rspCons, srvOut, reply, paths>>
    BY DEF FinishPayload, LoopDone, Return, ringVars, srvVars
<1>2. InCall /\ Reading
    BY <1>1 DEF InCall, Reading
<1>3. hdr = reply[call] /\ hdr.type = "XS_READ" /\ hdr.len <= PayloadMax
      /\ \A i \in 0..(Copied - 1) : payload[i] = <<call, HdrLen + i + 1>>
    BY <1>0, <1>1 DEF ReceivedInv
<1>4. done = hdr.len /\ Copied = hdr.len
    BY <1>0, <1>1 DEF IndInv, LengthInv, Copied
<1>5. Answers(call)
    BY <1>3 DEF Answers, None
<1>6. call \in Nat \ {0}
    BY <1>0, <1>2, <1>5, ReplyIs
<1>7. CString(payload') = [k \in 1..hdr.len |-> <<call, HdrLen + k>>]
    <2>1. hdr.len \in 0..PayloadMax
        BY <1>0, <1>3
    <2>2. payload' \in [0..PayloadMax -> Bytes] /\ payload'[hdr.len] = NUL
          /\ \A i \in 0..(hdr.len - 1) : payload'[i] = payload[i]
        BY <1>0, <1>1, <2>1, NULType
    <2>3. \A i \in 0..(hdr.len - 1) : payload'[i] = <<call, HdrLen + i + 1>>
        BY <1>3, <1>4, <2>2
    <2> QED BY <1>6, <2>1, <2>2, <2>3, PayloadString
<1>8. Expected(call) = String(CString(payload'))
    BY <1>3, <1>7 DEF Expected
<1>9. Owed = 0
    <2>1. Got = HdrLen + done
        BY <1>1, <1>2 DEF Got
    <2>2. reply[call].len = hdr.len
        BY <1>3
    <2>3. HdrLen + hdr.len - Got = 0
        BY <1>0, <1>4, <2>1, <2>2
    <2> QED BY <2>2, <2>3 DEF Owed
<1> QED BY <1>0, <1>1, <1>2, <1>5, <1>8, <1>9, ReplyOnReturn

\* What is copied out of the ring are the next bytes of the reply (xenbus.c:97).
LEMMA CopiedBytes ==
    ASSUME IndInv, ReplyInv, ReadCopy
    PROVE  /\ Answers(call)
           /\ \A i \in 1..part : Chunk(rsp, cons, part)[i] = <<call, Got + i>>
<1>0. TypeOK /\ RingBounds /\ TurnInv /\ IncomingInv
    BY DEF IndInv, ReplyInv
<1>1. Reading /\ stage # "idle" /\ InCall
    BY DEF ReadCopy, Reading, InCall
<1>2. cons = rspCons /\ part \in 1..len /\ part <= Available /\ part <= RingSize - Mask(rspCons)
    BY DEF ReadCopy, IndInv, RingBounds, TransferInv, Available
<1>3. Available + Len(srvOut) = Owed /\ \A k \in 1..Owed : Incoming(k) = <<call, Got + k>>
    BY <1>0, <1>1 DEF IncomingInv
<1>4. part \in Nat /\ part > 0 /\ Available \in Nat /\ Len(srvOut) \in Nat /\ rspCons \in Index
      /\ Mask(rspCons) \in 0..(RingSize - 1) /\ RingSize \in Nat
    BY <1>0, <1>2, ReplyNumbers, RingNumbers
<1>5. Answers(call)
    <2>1. Owed # 0
        BY <1>2, <1>3, <1>4
    <2> QED BY <2>1 DEF Owed
<1>6. ASSUME NEW i \in 1..part PROVE Chunk(rsp, cons, part)[i] = <<call, Got + i>>
    <2>1. i \in 1..Owed /\ i <= Available
        BY <1>2, <1>3, <1>4
    <2>2. i - 1 \in Nat /\ i - 1 < RingSize - Mask(rspCons)
        BY <1>2, <1>4
    <2>3. Place(rspCons, i - 1) = Mask(rspCons) + (i - 1)
        BY <1>4, <2>2, PlacesInRow
    <2>4. Incoming(i) = rsp[Place(rspCons, i - 1)]
        BY <2>1 DEF Incoming
    <2>5. Chunk(rsp, cons, part)[i] = rsp[Mask(rspCons) + i - 1]
        BY <1>2 DEF Chunk
    <2>6. Mask(rspCons) + i - 1 = Mask(rspCons) + (i - 1)
        BY <1>4
    <2> QED BY <1>3, <2>1, <2>3, <2>4, <2>5, <2>6
<1> QED BY <1>5, <1>6

\* They go behind those that were copied before.
LEMMA ReplyOnCopy ==
    ASSUME IndInv, ReplyInv, ReadCopy, Outgoing(1)' = Outgoing(1)
    PROVE  ReplyInv'
<1> DEFINE data == Chunk(rsp, cons, part)
<1>0. TypeOK /\ RingBounds /\ TurnInv /\ ReceivedInv /\ done \in Nat /\ len \in Nat /\ part \in Nat /\ HdrLen \in Nat
      /\ call \in Nat
    BY ReplyNumbers DEF IndInv, ReplyInv
<1>1. Reading /\ pc = "copy" /\ pc' = "publish"
      /\ UNCHANGED <<rsp, rspProd, rspCons, srvOut, stage, len, done, part, paths, hdr, results, reply>>
    BY DEF ReadCopy, ringVars, srvVars
<1>2. InCall /\ InCall' /\ Reading' /\ call' = call /\ Copied = done /\ Copied' = done + part
    BY <1>0, <1>1 DEF InCall, Reading, call, Copied
<1>3. part \in 1..len /\ data \in Seq(Bytes) /\ Len(data) = part
    BY ReadPart
<1>4. \A i \in 1..part : data[i] = <<call, Got + i>>
    BY CopiedBytes
<1> HIDE DEF data
<1>5. Got' = Got
    BY <1>1, <1>2 DEF Got
<1>6. ASSUME stage = "rhdr"
      PROVE  done' + len' = HdrLen /\ hdrBytes' = [k \in 1..Copied' |-> <<call', k>>]
    <2>1. hdrBytes' = hdrBytes \o data
        BY <1>6 DEF ReadCopy, data
    <2>2. Got = done
        BY <1>1, <1>6 DEF Got
    <2>3. done + len = HdrLen /\ hdrBytes = [k \in 1..done |-> <<call, k>>]
        BY <1>2, <1>6, <1>0 DEF ReceivedInv
    <2>4. hdrBytes \in Seq(Bytes)
        BY <1>0 DEF TypeOK, CallType
    <2>5. Len(hdrBytes) = done
        BY <1>0, <2>3
    <2>6. /\ Len(hdrBytes') = Len(hdrBytes) + part
          /\ \A k \in 1..Len(hdrBytes) : hdrBytes'[k] = hdrBytes[k]
          /\ \A k \in (Len(hdrBytes) + 1)..(Len(hdrBytes) + part) : hdrBytes'[k] = data[k - Len(hdrBytes)]
        <3>1. part = Len(data) /\ data \in Seq(Bytes)
            BY <1>3
        <3> QED BY <2>1, <2>4, <3>1
    <2>9. hdrBytes' \in Seq(Bytes)
        BY <1>3, <2>1, <2>4
    <2>7. ASSUME NEW k \in 1..(done + part) PROVE hdrBytes'[k] = <<call, k>>
        <3>1. CASE k <= done
            <4>1. hdrBytes'[k] = hdrBytes[k]
                BY <1>0, <2>5, <2>6, <3>1
            <4> QED BY <1>0, <2>3, <3>1, <4>1
        <3>2. CASE ~(k <= done)
            <4> DEFINE i == k - done
            <4>1. i \in 1..part /\ done + i = k
                BY <1>0, <3>2
            <4>2. hdrBytes'[k] = data[i]
                BY <1>0, <2>5, <2>6, <3>2
            <4> HIDE DEF i
            <4>3. data[i] = <<call, Got + i>>
                BY <1>4, <4>1
            <4> QED BY <2>2, <4>1, <4>2, <4>3
        <3> QED BY <3>1, <3>2
    <2>8. hdrBytes' = [k \in 1..(done + part) |-> <<call, k>>]
        <3>1. DOMAIN hdrBytes' = 1..(done + part)
            BY <2>5, <2>6, <2>9
        <3>2. hdrBytes' \in [1..(done + part) -> Bytes]
            BY <2>5, <2>6, <2>9
        <3> QED BY <2>7, <3>1, <3>2
    <2> QED BY <1>1, <1>2, <2>3, <2>8
<1>7. ASSUME stage = "rpayload"
      PROVE  /\ hdr' = reply'[call'] /\ hdr'.type = "XS_READ" /\ hdr'.len <= PayloadMax
             /\ \A i \in 0..(Copied' - 1) : payload'[i] = <<call', HdrLen + i + 1>>
    <2>1. payload' = [i \in DOMAIN payload |-> IF i \in done..(done + part - 1) THEN data[i - done + 1] ELSE payload[i]]
        BY <1>7 DEF ReadCopy, data
    <2>2. hdr = reply[call] /\ hdr.type = "XS_READ" /\ hdr.len <= PayloadMax
          /\ \A i \in 0..(done - 1) : payload[i] = <<call, HdrLen + i + 1>>
        BY <1>0, <1>2, <1>7 DEF ReceivedInv
    <2>3. Got = HdrLen + done
        BY <1>0, <1>1, <1>7, <2>2, ReplyNumbers DEF Got
    <2>4. done + part - 1 <= PayloadMax /\ DOMAIN payload = 0..PayloadMax /\ PayloadMax \in Nat
        <3>1. done + len <= PayloadMax
            BY <1>7 DEF IndInv, PayloadBounded
        <3>2. payload \in [0..PayloadMax -> Bytes]
            BY <1>0 DEF TypeOK, CallType
        <3> QED BY <1>0, <1>3, <3>1, <3>2, WireAssumption
    <2>5. ASSUME NEW i \in 0..(done + part - 1) PROVE payload'[i] = <<call, HdrLen + i + 1>>
        <3>0. i \in 0..PayloadMax /\ i \in Nat
            BY <1>0, <2>4
        <3>1. CASE i < done
            <4>1. i \notin done..(done + part - 1) /\ i \in 0..(done - 1)
                BY <1>0, <3>1
            <4>2. payload'[i] = payload[i]
                BY <2>1, <2>4, <3>0, <4>1
            <4> QED BY <2>2, <4>1, <4>2
        <3>2. CASE ~(i < done)
            <4> DEFINE m == i - done + 1
            <4>1. i \in done..(done + part - 1) /\ m \in 1..part /\ HdrLen + done + m = HdrLen + i + 1
                BY <1>0, <3>2
            <4>2. payload'[i] = data[m]
                BY <2>1, <2>4, <3>0, <4>1
            <4> HIDE DEF m
            <4>3. data[m] = <<call, Got + m>>
                BY <1>4, <4>1
            <4> QED BY <2>3, <4>1, <4>2, <4>3
        <3> QED BY <3>1, <3>2
    <2>6. hdr' = reply'[call'] /\ hdr'.type = "XS_READ" /\ hdr'.len <= PayloadMax
        BY <1>1, <1>2, <2>2
    <2>7. \A i \in 0..(Copied' - 1) : payload'[i] = <<call', HdrLen + i + 1>>
        <3>1. SUFFICES ASSUME NEW i \in 0..(Copied' - 1) PROVE payload'[i] = <<call', HdrLen + i + 1>>
            OBVIOUS
        <3>2. payload'[i] = <<call, HdrLen + i + 1>>
            BY <1>0, <1>2, <2>5
        <3> QED BY <1>2, <3>2
    <2> QED BY <2>6, <2>7
<1>8. ReceivedInv'
    <2>1. stage = "rdrain" =>
             reply[call].type = "XS_READ" /\ reply[call].len > PayloadMax /\ hdr.len <= reply[call].len
        BY <1>0 DEF ReceivedInv
    <2> QED BY <1>1, <1>2, <1>6, <1>7, <2>1 DEF ReceivedInv
<1> QED BY <1>0, <1>1, <1>2, <1>5, <1>8, ReplyKept

\* What is left to read is what was behind them, once the consumer moves.
LEMMA ReplyOnConsume ==
    ASSUME IndInv, ReplyInv, ReadPublish, Outgoing(1)' = Outgoing(1)
    PROVE  ReplyInv'
<1>0. TypeOK /\ RingBounds /\ TurnInv /\ ReceivedInv /\ IncomingInv /\ ReadReturnsReply
      /\ done \in Nat /\ len \in Nat /\ HdrLen \in Nat /\ call \in Nat /\ Available \in Nat /\ Available <= RingSize
      /\ Len(srvOut) \in Nat /\ rspCons \in Index /\ rspProd \in Index /\ RingSize \in Nat
    BY ReplyNumbers DEF IndInv, ReplyInv
<1>1. Reading /\ pc = "publish" /\ pc' = "loop" /\ len' = len - part /\ done' = done + part
      /\ UNCHANGED <<rsp, rspProd, srvOut, stage, part, paths, hdr, hdrBytes, payload, results, reply>>
      /\ rspCons' = IdxAdd(cons, part)
    BY DEF ReadPublish, srvVars, callVars
<1>2. cons = rspCons /\ part \in 1..len /\ part \in 0..RingSize /\ part <= Available
    BY <1>1 DEF IndInv, RingBounds, TransferInv, Available, TypeOK, LoopType
<1>3. InCall /\ InCall' /\ Reading' /\ call' = call /\ stage # "idle" /\ (\A n : Answers(n)' <=> Answers(n))
    BY <1>1 DEF InCall, Reading, call, Answers
<1>4. Available' = Available - part
    BY <1>0, <1>1, <1>2, ConsumeLen DEF Available
<1>5. Available + Len(srvOut) = Owed /\ \A k \in 1..Owed : Incoming(k) = <<call, Got + k>>
    BY <1>0, <1>3 DEF IncomingInv
<1>6. Answers(call) /\ part \in Nat /\ part > 0
    <2>1. part \in Nat /\ part > 0 /\ Owed # 0
        BY <1>0, <1>2, <1>5
    <2> QED BY <2>1 DEF Owed
<1>7. reply[call].len \in Nat /\ hdr.len \in Nat
    BY <1>0, <1>3, <1>6, ReplyIs, ReplyNumbers
<1>8. Got' = Got + part /\ Got \in Int
    <2>1. CASE stage = "rhdr"
        BY <1>0, <1>1, <1>3, <1>6, <2>1 DEF Got
    <2>2. CASE stage = "rpayload"
        BY <1>0, <1>1, <1>3, <1>6, <2>2 DEF Got
    <2>3. CASE stage = "rdrain"
        <3>1. Got = HdrLen + (reply[call].len - hdr.len) + done
            BY <1>1, <2>3 DEF Got
        <3>2. Got' = HdrLen + (reply[call].len - hdr.len) + (done + part)
            BY <1>1, <1>3, <2>3 DEF Got
        <3>3. reply[call].len - hdr.len \in Int /\ done \in Nat /\ part \in Nat /\ HdrLen \in Nat
            BY <1>0, <1>6, <1>7
        <3> QED BY <3>1, <3>2, <3>3
    <2> QED BY <1>1, <2>1, <2>2, <2>3 DEF Reading
<1>9. Owed' = Owed - part
    <2>1. Owed = HdrLen + reply[call].len - Got
        BY <1>3, <1>6 DEF Owed
    <2>2. Owed' = HdrLen + reply[call].len - Got'
        BY <1>1, <1>3, <1>6 DEF Owed
    <2> DEFINE h == HdrLen
               l == reply[call].len
    <2>3. h \in Int /\ l \in Int
        BY <1>0, <1>6, <1>7
    <2>4. Owed = h + l - Got /\ Owed' = h + l - Got'
        BY <2>1, <2>2, Zenon
    <2> HIDE DEF h, l
    <2> QED BY <1>6, <1>8, <2>3, <2>4
<1>10. TurnInv'
    BY <1>0, <1>1, <1>3, <1>6 DEF TurnInv, Answers
<1>11. ReceivedInv'
    <2>1. Copied = done + part /\ Copied' = done + part /\ done' + len' = done + len
        BY <1>0, <1>1, <1>6 DEF Copied
    <2> QED BY <1>0, <1>1, <1>3, <2>1 DEF ReceivedInv
<1>12. IncomingInv'
    <2>1. Available' + Len(srvOut') = Owed'
        BY <1>0, <1>1, <1>4, <1>5, <1>6, <1>9
    <2>2. ASSUME NEW k \in 1..Owed' PROVE Incoming(k)' = <<call', Got' + k>>
        <3> DEFINE m == part + k
        <3>1. m \in 1..Owed /\ m \in Nat /\ k \in Nat /\ k > 0 /\ Got + m = Got' + k
            BY <1>0, <1>5, <1>6, <1>8, <1>9
        <3>2. CASE k <= Available'
            <4>1. m <= Available /\ part + (k - 1) = m - 1 /\ k - 1 \in Nat /\ part + (k - 1) <= RingSize
                BY <1>0, <1>4, <1>6, <3>1, <3>2
            <4>2. Incoming(k)' = rsp[Place(rspCons', k - 1)]
                BY <1>1, <3>2 DEF Incoming, Place
            <4> HIDE DEF m
            <4>3. Incoming(m) = rsp[Place(rspCons, m - 1)]
                BY <4>1 DEF Incoming
            <4>4. Place(IdxAdd(rspCons, part), k - 1) = Place(rspCons, part + (k - 1))
                BY <1>0, <1>6, <4>1, PlacesSkip
            <4>5. Incoming(m) = <<call, Got + m>>
                BY <1>5, <3>1
            <4> QED BY <1>1, <1>2, <1>3, <3>1, <4>1, <4>2, <4>3, <4>4, <4>5
        <3>3. CASE ~(k <= Available')
            <4>1. ~(m <= Available) /\ m - Available = k - Available'
                BY <1>0, <1>4, <1>6, <3>1, <3>3
            <4>2. Incoming(k)' = srvOut[k - Available']
                BY <1>1, <3>3 DEF Incoming
            <4> HIDE DEF m
            <4>3. Incoming(m) = srvOut[m - Available]
                BY <4>1 DEF Incoming
            <4>4. Incoming(m) = <<call, Got + m>>
                BY <1>5, <3>1
            <4> QED BY <1>3, <3>1, <4>1, <4>2, <4>3, <4>4
        <3> QED BY <3>2, <3>3
    <2> QED BY <2>1, <2>2 DEF IncomingInv
<1>13. ReadReturnsReply'
    BY <1>0, <1>1 DEF ReadReturnsReply, Expected
<1> QED BY <1>10, <1>11, <1>12, <1>13 DEF ReplyInv

\* xenstored answers the call that waits, once, and when nothing is left of the
\* reply before it.
LEMMA AnswerIs ==
    ASSUME IndInv, OrderInv, TurnInv, SrvReply
    PROVE  /\ InCall /\ ~Answers(call) /\ srvIn[1][1] = call /\ call \in Nat
           /\ \E r \in Replies[call] :
                 /\ reply' = [reply EXCEPT ![call] = r]
                 /\ srvOut' = srvOut \o [k \in 1..(HdrLen + r.len) |-> <<call, k>>]
<1>0. TypeOK /\ RingBounds /\ ChainInv /\ Len(srvIn) \in Nat /\ InRing \in Nat /\ call \in Nat /\ HdrLen \in Nat \ {0}
    BY OnTheWay, WireAssumption DEF IndInv, OrderInv
<1> DEFINE n == srvIn[1][1]
<1>1. Len(srvIn) = SrvNeeds
    BY DEF SrvReply
<1>2. n \in 1..call /\ Len(srvIn) = RequestLen(n)
    BY <1>0, <1>1, OneRequest
<1>3. Len(srvIn) >= 1
    BY <1>0, <1>2, RequestLenIs
<1>4. Outgoing(1) = srvIn[1]
    BY <1>0, <1>3 DEF Outgoing, Stream
<1> HIDE DEF n
<1>5. Outgoing(1)[1] = n
    BY <1>4 DEF n
<1>6. InCall /\ ~Answers(call) /\ n = call
    <2>1. SUFFICES ASSUME ~(InCall /\ ~Answers(call)) PROVE FALSE
        BY <1>5 DEF TurnInv
    <2>2. n = call + 1
        BY <1>5, <2>1 DEF TurnInv
    <2> QED BY <1>0, <1>2, <2>2
<1>7. \E r \in Replies[n] :
         /\ reply' = [reply EXCEPT ![n] = r]
         /\ srvOut' = srvOut \o [k \in 1..(HdrLen + r.len) |-> <<n, k>>]
    BY DEF SrvReply, n
<1>8. \E r \in Replies[call] :
         /\ reply' = [reply EXCEPT ![call] = r]
         /\ srvOut' = srvOut \o [k \in 1..(HdrLen + r.len) |-> <<call, k>>]
    BY <1>6, <1>7, Zenon
<1> QED BY <1>0, <1>6, <1>8 DEF n

\* The answer is all that there is to read.
LEMMA ReplyOnAnswer ==
    ASSUME IndInv, OrderInv, ReplyInv, SrvReply
    PROVE  ReplyInv'
<1>0. TypeOK /\ RingBounds /\ ChainInv /\ TurnInv /\ ReceivedInv /\ IncomingInv /\ ReadReturnsReply
      /\ HdrLen \in Nat /\ call \in Nat /\ Available \in Nat /\ Len(srvOut) \in Nat /\ srvOut \in Seq(Bytes)
      /\ MaxCalls \in Nat
    BY ReplyNumbers DEF IndInv, OrderInv, ReplyInv
<1>1. UNCHANGED <<rsp, rspProd, rspCons, stage, pc, len, done, part, paths, hdr, hdrBytes, payload, results>>
    BY DEF SrvReply, ringVars, loopVars, callVars
<1>2. InCall /\ ~Answers(call) /\ srvIn[1][1] = call
    BY <1>0, AnswerIs
<1>3. InCall' /\ call' = call /\ (Reading' <=> Reading) /\ stage # "idle" /\ Available' = Available /\ Copied' = Copied
    BY <1>1, <1>2 DEF InCall, Writing, Reading, call, Available, Copied
<1>4. PICK r \in Replies[call] :
         /\ reply' = [reply EXCEPT ![call] = r]
         /\ srvOut' = srvOut \o [k \in 1..(HdrLen + r.len) |-> <<call, k>>]
    BY <1>0, AnswerIs
<1>5. call \in 1..MaxCalls /\ r \in Headers /\ r.len \in Nat /\ r # None
    <2>1. call \in 1..MaxCalls
        BY <1>0, <1>2 DEF TurnInv
    <2>2. r \in Headers
        BY <1>4, <2>1, WireAssumption
    <2> QED BY <2>1, <2>2 DEF Headers, None
<1>6. reply'[call] = r /\ \A n \in 1..MaxCalls : n # call => reply'[n] = reply[n]
    <2>1. reply \in [1..MaxCalls -> Headers \union {None}]
        BY <1>0 DEF TypeOK, SrvType
    <2> QED BY <1>4, <1>5, <2>1
<1>7. Got = 0 /\ stage \notin {"rpayload", "rdrain"}
    <2>1. reply[call] = None
        BY <1>2 DEF Answers
    <2>2. stage # "rpayload" /\ stage # "rdrain"
        BY <1>0, <2>1 DEF ReceivedInv, None
    <2> QED BY <1>0, <1>2, <2>2 DEF TurnInv
<1>8. Got' = 0
    BY <1>1, <1>3, <1>7 DEF Got, Reading
<1>9. Available = 0 /\ srvOut = <<>>
    <2>1. Owed = 0
        BY <1>2 DEF Owed
    <2>2. Available + Len(srvOut) = 0
        BY <1>0, <1>3, <2>1 DEF IncomingInv
    <2>3. Available = 0 /\ Len(srvOut) = 0
        BY <1>0, <2>2
    <2> QED BY <1>0, <2>3
<1> DEFINE m == HdrLen + r.len
<1>10. m \in Nat /\ srvOut' = [k \in 1..m |-> <<call, k>>] /\ Len(srvOut') = m
    <2>1. m \in Nat
        BY <1>0, <1>5
    <2> DEFINE s == [k \in 1..m |-> <<call, k>>]
    <2>2. \A k \in 1..m : <<call, k>> \in Bytes
        BY <1>0, <2>1 DEF Bytes
    <2>3. srvOut' = <<>> \o s
        BY <1>4, <1>9
    <2> HIDE DEF m
    <2>4. s \in [1..m -> Bytes]
        BY <2>2
    <2>5. s \in Seq(Bytes) /\ Len(s) = m
        BY <2>1, <2>4
    <2> HIDE DEF s
    <2>6. <<>> \o s = s
        BY <2>5
    <2> QED BY <2>1, <2>3, <2>5, <2>6 DEF s
<1>11. Owed' = m
    <2>1. Answers(call)'
        BY <1>3, <1>5, <1>6 DEF Answers
    <2> QED BY <1>0, <1>3, <1>5, <1>6, <1>8, <1>10, <2>1 DEF Owed
<1> HIDE DEF m
<1>12. IncomingInv'
    <2>1. ASSUME NEW k \in 1..m PROVE Incoming(k)' = <<call', Got' + k>>
        <3>1. Incoming(k)' = srvOut'[k - 0]
            BY <1>0, <1>3, <1>9 DEF Incoming
        <3>2. k - 0 = k /\ 0 + k = k
            BY <1>10
        <3> QED BY <1>3, <1>8, <1>10, <3>1, <3>2
    <2>2. Available' + Len(srvOut') = m
        BY <1>3, <1>9, <1>10
    <2> QED BY <1>11, <2>1, <2>2 DEF IncomingInv
<1>13. TurnInv'
    <2>1. Outgoing(1)' = <<call + 1, 1>>
        BY <1>0, <1>2, ChainOnReply
    <2>2. Len(results) = call - 1 /\ \A n \in 1..MaxCalls : Answers(n) => n <= call /\ reply[n] \in Replies[n]
        BY <1>0, <1>2 DEF TurnInv
    <2>3. \A n \in 1..MaxCalls : Answers(n)' => n <= call' /\ reply'[n] \in Replies[n]
        BY <1>0, <1>3, <1>4, <1>5, <1>6, <2>2 DEF Answers
    <2>4. Answers(call)'
        BY <1>3, <1>5, <1>6 DEF Answers
    <2> QED BY <1>1, <1>3, <1>5, <2>1, <2>2, <2>3, <2>4 DEF TurnInv
<1>14. ReceivedInv'
    BY <1>0, <1>1, <1>3, <1>7 DEF ReceivedInv
<1>15. ReadReturnsReply'
    <2>1. Len(results') = call - 1 /\ results' = results
        BY <1>0, <1>1, <1>2 DEF TurnInv
    <2>2. ASSUME NEW n \in 1..(call - 1) PROVE reply'[n] # None /\ results'[n] = Expected(n)'
        <3>1. reply'[n] = reply[n]
            BY <1>0, <1>5, <1>6
        <3>2. reply[n] # None /\ results[n] = Expected(n)
            BY <1>0, <2>1 DEF ReadReturnsReply
        <3> QED BY <2>1, <3>1, <3>2 DEF Expected
    <2> QED BY <2>1, <2>2 DEF ReadReturnsReply
<1> QED BY <1>12, <1>13, <1>14, <1>15 DEF ReplyInv

\* The places of the response ring after those in use.
LEMMA FreeRspPlaces ==
    ASSUME TypeOK, RingBounds, NEW n \in Nat, Available + n <= RingSize, n <= RingSize - Mask(rspProd)
    PROVE  \A j \in 1..n : Mask(rspProd) + j - 1 = Place(rspCons, Available + (j - 1))
<1>0. /\ Available \in Nat /\ Available <= RingSize /\ rspProd \in Index /\ rspCons \in Index /\ RingSize \in Nat
      /\ Mask(rspProd) \in 0..(RingSize - 1)
    BY ReplyNumbers, RingNumbers
<1>1. SUFFICES ASSUME NEW j \in 1..n PROVE Mask(rspProd) + j - 1 = Place(rspCons, Available + (j - 1))
    OBVIOUS
<1>2. j - 1 \in Nat /\ j - 1 < RingSize - Mask(rspProd) /\ Available + (j - 1) <= RingSize
    BY <1>0
<1>3. Place(rspProd, j - 1) = Mask(rspProd) + (j - 1)
    BY <1>0, <1>2, PlacesInRow
<1>4. Place(IdxAdd(rspCons, Available), j - 1) = Place(rspCons, Available + (j - 1))
    BY <1>0, <1>2, PlacesSkip
<1>5. Mask(rspProd) + (j - 1) = Mask(rspProd) + j - 1
    BY <1>0
<1>6. rspProd = IdxAdd(rspCons, Available)
    BY <1>0, RingAssumption DEF Index, Available, IdxSub, IdxAdd
<1> QED BY <1>3, <1>4, <1>5, <1>6

\* What xenstored moves to the ring is read in the same order.
LEMMA ReplyOnSrvWrite ==
    ASSUME IndInv, ReplyInv, SrvWrite, Outgoing(1)' = Outgoing(1)
    PROVE  ReplyInv'
<1>0. TypeOK /\ RingBounds /\ TurnInv /\ ReceivedInv /\ IncomingInv /\ ReadReturnsReply
      /\ Available \in Nat /\ Available <= RingSize /\ Len(srvOut) \in Nat /\ srvOut \in Seq(Bytes)
      /\ rspProd \in Index /\ rspCons \in Index /\ RingSize \in Nat /\ rsp \in [0..(RingSize - 1) -> Bytes]
    BY ReplyNumbers DEF IndInv, ReplyInv
<1>1. UNCHANGED <<rspCons, stage, pc, len, done, part, paths, hdr, hdrBytes, payload, results, reply>>
    BY DEF SrvWrite, loopVars, callVars
<1>2. PICK n \in 1..Least(SrvSpace, Len(srvOut)) :
         /\ rsp' = Stored(rsp, rspProd, SubSeq(srvOut, 1, n))
         /\ rspProd' = IdxAdd(rspProd, n)
         /\ srvOut' = SubSeq(srvOut, n + 1, Len(srvOut))
    BY DEF SrvWrite
<1>3. n \in Nat /\ n > 0 /\ n <= Len(srvOut) /\ n <= RingSize - Mask(rspProd) /\ Available + n <= RingSize
      /\ n \in 0..RingSize /\ Mask(rspProd) \in 0..(RingSize - 1)
    <2>1. SrvSpace \in 0..RingSize /\ SrvSpace <= RingSize - Mask(rspProd) /\ SrvSpace <= RingSize - Available
        BY <1>0, SpaceRange DEF Available
    <2>2. n \in Nat /\ n > 0 /\ n <= SrvSpace /\ n <= Len(srvOut)
        BY <1>0, <2>1 DEF Least
    <2>3. Mask(rspProd) \in 0..(RingSize - 1)
        BY <1>0, RingNumbers
    <2> QED BY <1>0, <2>1, <2>2, <2>3
<1>4. Available' = Available + n
    BY <1>0, <1>1, <1>2, <1>3, ProduceLen DEF Available
<1> DEFINE s == SubSeq(srvOut, 1, n)
<1>5. s \in Seq(Bytes) /\ Len(s) = n /\ \A k \in 1..n : s[k] = srvOut[k]
    BY <1>0, <1>3
<1>6. /\ \A k \in 1..n : rsp'[Mask(rspProd) + k - 1] = srvOut[k]
      /\ \A j \in 0..(RingSize - 1) : j \notin Mask(rspProd)..(Mask(rspProd) + n - 1) => rsp'[j] = rsp[j]
    <2>1. rsp' = Stored(rsp, rspProd, s)
        BY <1>2
    <2> HIDE DEF s
    <2>2. rspProd \in Nat /\ Len(s) <= RingSize - Mask(rspProd)
        BY <1>0, <1>3, <1>5 DEF Index
    <2>3. /\ \A k \in 1..Len(s) : Stored(rsp, rspProd, s)[Mask(rspProd) + k - 1] = s[k]
          /\ \A j \in 0..(RingSize - 1) : j \notin Mask(rspProd)..(Mask(rspProd) + Len(s) - 1) =>
                Stored(rsp, rspProd, s)[j] = rsp[j]
        BY <1>0, <1>5, <2>2, StoredAt, Zenon
    <2> QED BY <1>5, <2>1, <2>3
<1> HIDE DEF s
<1>7. Len(srvOut') = Len(srvOut) - n /\ \A k \in 1..(Len(srvOut) - n) : srvOut'[k] = srvOut[n + k]
    BY <1>0, <1>2, <1>3
<1>8. ASSUME NEW a \in 0..(Available - 1)
      PROVE  rsp'[Place(rspCons, a)] = rsp[Place(rspCons, a)]
    <2>1. Place(rspCons, a) \in 0..(RingSize - 1)
        <3>1. a \in 0..RingSize
            BY <1>0
        <3>2. IdxAdd(rspCons, a) \in Index /\ IdxAdd(rspCons, a) \in Nat
            BY <1>0, <3>1, IdxAddType DEF Index
        <3> QED BY <3>2, MaskRange DEF Place
    <2>2. ASSUME NEW j \in 1..n PROVE Place(rspCons, a) # Mask(rspProd) + j - 1
        <3>1. Mask(rspProd) + j - 1 = Place(rspCons, Available + (j - 1))
            BY <1>0, <1>3, FreeRspPlaces
        <3>2. a \in Nat /\ Available + (j - 1) \in 0..RingSize /\ a < Available + (j - 1)
              /\ (Available + (j - 1)) - a < RingSize
            BY <1>0, <1>3
        <3>3. Place(rspCons, a) # Place(rspCons, Available + (j - 1))
            BY <1>0, <3>2, PlacesDiffer
        <3> QED BY <3>1, <3>3
    <2>3. Place(rspCons, a) \notin Mask(rspProd)..(Mask(rspProd) + n - 1)
        <3>1. SUFFICES ASSUME NEW q \in Mask(rspProd)..(Mask(rspProd) + n - 1) PROVE Place(rspCons, a) # q
            OBVIOUS
        <3>2. q - Mask(rspProd) + 1 \in 1..n /\ q = Mask(rspProd) + (q - Mask(rspProd) + 1) - 1
            BY <1>3
        <3> QED BY <2>2, <3>2
    <2> QED BY <1>6, <2>1, <2>3
<1>9. ASSUME NEW k \in 1..(Available + Len(srvOut)) PROVE Incoming(k)' = Incoming(k)
    <2>1. CASE k <= Available
        <3>1. k <= Available' /\ k - 1 \in 0..(Available - 1)
            BY <1>0, <1>3, <1>4, <2>1
        <3>2. rsp'[Place(rspCons, k - 1)] = rsp[Place(rspCons, k - 1)]
            BY <1>8, <3>1
        <3>3. Incoming(k)' = rsp'[Place(rspCons, k - 1)]
            BY <1>1, <3>1 DEF Incoming, Place
        <3> QED BY <2>1, <3>2, <3>3 DEF Incoming
    <2>2. CASE ~(k <= Available) /\ k <= Available'
        <3> DEFINE i == k - Available
        <3>1. i \in 1..n /\ k - 1 = Available + (i - 1)
            BY <1>0, <1>3, <1>4, <2>2
        <3>2. Incoming(k) = srvOut[i]
            BY <2>2 DEF Incoming
        <3>3. Incoming(k)' = rsp'[Place(rspCons, k - 1)]
            BY <1>1, <2>2 DEF Incoming, Place
        <3> HIDE DEF i
        <3>4. Mask(rspProd) + i - 1 = Place(rspCons, Available + (i - 1))
            BY <1>0, <1>3, <3>1, FreeRspPlaces
        <3>5. rsp'[Mask(rspProd) + i - 1] = srvOut[i]
            BY <1>6, <3>1
        <3> QED BY <3>1, <3>2, <3>3, <3>4, <3>5
    <2>3. CASE ~(k <= Available')
        <3> DEFINE i == k - Available'
        <3>1. ~(k <= Available) /\ k \in Nat /\ i \in 1..(Len(srvOut) - n) /\ n + i = k - Available
            BY <1>0, <1>3, <1>4, <2>3
        <3>2. Incoming(k)' = srvOut'[i]
            BY <2>3 DEF Incoming
        <3>3. Incoming(k) = srvOut[k - Available]
            BY <3>1 DEF Incoming
        <3> HIDE DEF i
        <3> QED BY <1>7, <3>1, <3>2, <3>3
    <2> QED BY <2>1, <2>2, <2>3
<1>10. call' = call /\ (InCall' <=> InCall) /\ (Reading' <=> Reading) /\ (\A i : Answers(i)' <=> Answers(i))
       /\ Copied' = Copied
    BY <1>1 DEF InCall, Writing, Reading, call, Answers, Copied
<1>11. Got' = Got
    BY <1>1, <1>10 DEF Got
<1>12. Owed' = Owed
    BY <1>1, <1>10, <1>11 DEF Owed, Answers
<1>13. TurnInv'
    BY <1>0, <1>1, <1>10, <1>11 DEF TurnInv, Answers
<1>14. ReceivedInv'
    BY <1>0, <1>1, <1>10 DEF ReceivedInv
<1>15. IncomingInv'
    <2>1. SUFFICES ASSUME stage # "idle" \/ call < MaxCalls PROVE IncomingInv'
        BY <1>1, <1>10 DEF IncomingInv
    <2>2. Available + Len(srvOut) = Owed /\ \A k \in 1..Owed : Incoming(k) = <<call, Got + k>>
        BY <1>0, <2>1 DEF IncomingInv
    <2>3. Available' + Len(srvOut') = Owed'
        BY <1>0, <1>3, <1>4, <1>7, <1>12, <2>2
    <2>4. \A k \in 1..Owed : Incoming(k)' = Incoming(k)
        BY <1>9, <2>2
    <2> QED BY <1>10, <1>11, <1>12, <2>2, <2>3, <2>4 DEF IncomingInv
<1>16. ReadReturnsReply'
    BY <1>0, <1>1 DEF ReadReturnsReply, Expected
<1> QED BY <1>13, <1>14, <1>15, <1>16 DEF ReplyInv

\* Before xenstore_init() has returned no reply is read.
LEMMA ReplyOnStartup ==
    ASSUME IndInv, ReplyInv, Startup, Outgoing(1)' = Outgoing(1)
    PROVE  ReplyInv'
<1>1. stage \in {"boot", "ready"} /\ stage' \in {"panic", "ready", "nodev", "idle"}
      /\ UNCHANGED <<rsp, rspProd, rspCons, srvOut, paths, results, reply>>
    BY DEF Startup, InitXenbus, XenstoreInit, ringVars, srvVars, callVars
<1>2. ~InCall /\ ~InCall' /\ Got = 0 /\ Got' = 0 /\ stage # "idle"
    BY <1>1 DEF InCall, Writing, Reading, Got
<1>3. ReceivedInv'
    BY <1>1 DEF ReceivedInv
<1> QED BY <1>1, <1>2, <1>3, ReplyKept DEF IndInv

\* Every step keeps the replies to their calls.
LEMMA ReplyStep ==
    ASSUME ErrorsAreEmpty, IndInv, OrderInv, ReplyInv, [Next]_vars
    PROVE  ReplyInv'
<1>0. TypeOK /\ RingBounds
    BY DEF IndInv
<1>1. CASE SrvReply
    BY <1>1, ReplyOnAnswer
<1>2. SUFFICES ASSUME Outgoing(1)' = Outgoing(1) PROVE ReplyInv'
    BY <1>1, ChainStep
<1>3. CASE \E p \in PathLens : XenstoreRead(p)
    BY <1>2, <1>3, ReplyOnCall
<1>4. CASE Startup \/ SrvWrite
    BY <1>2, <1>4, ReplyOnStartup, ReplyOnSrvWrite
<1>5. CASE ReadCopy \/ ReadPublish
    BY <1>2, <1>5, ReplyOnCopy, ReplyOnConsume
<1>6. CASE Body
    BY <1>2, <1>6, ReplyOnWritePath, ReplyOnKick, ReplyOnNotRead, ReplyOnTooLong, ReplyOnDrain, ReplyOnFits,
       ReplyOnFinish DEF Body
<1>7. CASE WriteSample \/ WriteCopy \/ WritePublish
    <2>1. UNCHANGED <<rsp, rspProd, rspCons, stage, paths, hdr, hdrBytes, payload, results, reply, srvOut>>
          /\ Writing
        BY <1>7 DEF WriteSample, WriteCopy, WritePublish, ringVars, callVars, srvVars
    <2>2. ~Reading /\ ~Reading'
        BY <2>1 DEF Writing, Reading
    <2>3. (InCall' <=> InCall) /\ Got = 0 /\ Got' = 0
        BY <2>1, <2>2 DEF InCall, Writing, Got
    <2>4. ReceivedInv'
        BY <2>2 DEF ReceivedInv, Reading
    <2> QED BY <1>0, <1>2, <2>1, <2>3, <2>4, ReplyKept
<1>8. CASE ReadSample \/ Kick \/ TestAndClear \/ Poll \/ SrvWake \/ SrvRead \/ SrvNotify \/ SrvSleep \/ Finished
           \/ UNCHANGED vars
    <2>1. UNCHANGED <<rsp, rspProd, rspCons, stage, len, done, paths, hdr, hdrBytes, payload, results, reply, srvOut>>
        BY <1>8 DEF ReadSample, Kick, TestAndClear, Poll, SrvWake, SrvRead, SrvNotify, SrvSleep, Finished, vars,
           ringVars, loopVars, callVars, srvVars
    <2>2. UNCHANGED <<pc, part>> \/ (pc # "publish" /\ pc' # "publish")
        BY <1>8 DEF ReadSample, Kick, TestAndClear, Poll, SrvWake, SrvRead, SrvNotify, SrvSleep, Finished, vars, loopVars
    <2>3. Copied' = Copied
        BY <2>1, <2>2 DEF Copied
    <2> QED BY <1>0, <1>2, <2>1, <2>3, ReplyAsBefore
<1> QED BY <1>1, <1>3, <1>4, <1>5, <1>6, <1>7, <1>8 DEF Next, Loop, Srv

\* Before init_xenbus() nothing was asked, and nothing is to be read.
LEMMA ReplyInit == Init => ReplyInv
<1>1. SUFFICES ASSUME Init PROVE ReplyInv
    OBVIOUS
<1>2. stage = "boot" /\ paths = <<>> /\ results = <<>> /\ srvOut = <<>> /\ rspProd = 0 /\ rspCons = 0
      /\ reply = [n \in 1..MaxCalls |-> None] /\ srvIn = <<>> /\ reqProd = 0 /\ reqCons = 0
    BY <1>1 DEF Init
<1>3. ~InCall /\ ~Reading /\ ~Writing /\ call = 0 /\ \A n \in 1..MaxCalls : ~Answers(n)
    BY <1>2 DEF InCall, Reading, Writing, call, Answers
<1>4. Outgoing(1) = <<call + 1, 1>>
    <2>1. InRing = 0 /\ NextByte = <<call + 1, 1>>
        BY <1>2, <1>3 DEF InRing, IdxSub, NextByte
    <2> QED BY <1>2, <2>1 DEF Outgoing, Stream
<1>5. TurnInv
    BY <1>2, <1>3, <1>4 DEF TurnInv
<1>6. IncomingInv
    <2>1. Available = 0 /\ Owed = 0
        BY <1>2, <1>3 DEF Available, IdxSub, Owed
    <2> QED BY <1>2, <2>1 DEF IncomingInv
<1> QED BY <1>2, <1>5, <1>6 DEF ReplyInv, ReceivedInv, ReadReturnsReply

\* What is asked and what is answered stay in step in every state.
LEMMA InStep == ASSUME ErrorsAreEmpty PROVE Spec => [](IndInv /\ OrderInv /\ ReplyInv)
<1>1. Init => IndInv /\ OrderInv /\ ReplyInv
    BY IndInvInit, OrderInit, ReplyInit
<1>2. IndInv /\ OrderInv /\ ReplyInv /\ [Next]_vars => (IndInv /\ OrderInv /\ ReplyInv)'
    <2>1. IndInv /\ [Next]_vars => IndInv'
        BY TypeStep, TransferStep, LengthStep, WakeupStep DEF IndInv
    <2>2. IndInv /\ OrderInv /\ [Next]_vars => OrderInv'
        BY WritesStep, ChainStep DEF OrderInv
    <2>3. IndInv /\ OrderInv /\ ReplyInv /\ [Next]_vars => ReplyInv'
        BY ReplyStep
    <2> QED BY <2>1, <2>2, <2>3
<1> QED BY <1>1, <1>2, PTL DEF Spec

\* xenstore_read() returns the reply to its own call, however that reply is cut
\* to pieces, unless an earlier call was answered with an error whose text it
\* left in the ring (xenbus.c:156).
THEOREM RepliesReturn == ASSUME ErrorsAreEmpty PROVE Spec => []ReadReturnsReply
<1>1. ReplyInv => ReadReturnsReply
    BY DEF ReplyInv
<1> QED BY InStep, <1>1, PTL

-----------------------------------------------------------------------------
(* The synchronous call of XenstoreRpc.                                    *)

\* The calls that are answered are the first ones.
LEMMA AnsweredIs ==
    ASSUME TypeOK, RingBounds, ReplyInv
    PROVE  LET m == IF InCall /\ ~Answers(call) THEN call - 1 ELSE call
           IN  Answered = 1..m /\ Cardinality(Answered) = m
<1> DEFINE m == IF InCall /\ ~Answers(call) THEN call - 1 ELSE call
<1>1. call \in Nat /\ MaxCalls \in Nat /\ TurnInv /\ ReadReturnsReply /\ call <= MaxCalls
    BY ReplyNumbers DEF ReplyInv, TypeOK, CallType
<1>2. InCall => call > 0
    BY <1>1 DEF TurnInv
<1>3. m \in Nat /\ m <= call /\ call - 1 <= m
    BY <1>1, <1>2
<1>4. \A n \in 1..(call - 1) : Answers(n)
    BY <1>1 DEF TurnInv, ReadReturnsReply, Answers
<1>5. call > 0 /\ ~InCall => Answers(call)
    BY <1>1 DEF TurnInv, ReadReturnsReply, Answers
<1>6. \A n \in 1..MaxCalls : Answers(n) => n <= call
    BY <1>1 DEF TurnInv
<1>7. Answered = 1..m
    <2>1. ASSUME NEW n \in 1..m PROVE n \in Answered
        <3>1. n \in 1..MaxCalls /\ (n \in 1..(call - 1) \/ n = call)
            BY <1>1, <1>3
        <3>2. n = call => Answers(call)
            BY <1>1, <1>5
        <3> QED BY <1>4, <3>1, <3>2 DEF Answered, Answers
    <2>2. ASSUME NEW n \in Answered PROVE n \in 1..m
        <3>1. n \in 1..MaxCalls /\ Answers(n)
            BY DEF Answered, Answers
        <3>2. n <= call /\ n \in Nat
            BY <1>1, <1>6, <3>1
        <3>3. n = call => m = call
            BY <3>1
        <3> QED BY <1>1, <1>3, <3>1, <3>2, <3>3
    <2> HIDE DEF m
    <2> QED BY <2>1, <2>2 DEF Answered
<1> HIDE DEF m
<1>8. Cardinality(1..m) = IF 1 > m THEN 0 ELSE m - 1 + 1
    BY <1>3, FS_Interval
<1>9. Cardinality(Answered) = m
    BY <1>3, <1>7, <1>8
<1> QED BY <1>7, <1>9 DEF m

\* What a returned string stands for is what XenstoreRpc promises of the answer.
LEMMA ReplyOfIs ==
    ASSUME NEW n \in Nat, results[n] = Expected(n), reply[n] # None
    PROVE  ReplyOf(n) = Rpc!Outcome(reply[n])
<1>1. CASE reply[n].type = "XS_READ" /\ reply[n].len <= PayloadMax
    <2>1. results[n] # NULL
        BY <1>1 DEF Expected, String, NULL
    <2> QED BY <1>1, <2>1 DEF ReplyOf, Rpc!Outcome
<1>2. CASE ~(reply[n].type = "XS_READ" /\ reply[n].len <= PayloadMax)
    BY <1>2 DEF ReplyOf, Expected, Rpc!Outcome, Rpc!NULL
<1> QED BY <1>1, <1>2

\* Between calls, answers and returns nothing of XenstoreRpc changes.
LEMMA RpcStutters ==
    ASSUME UNCHANGED <<reply, results>>, InCall' <=> InCall
    PROVE  UNCHANGED Rpc!vars
<1> DEFINE S == {"whdr", "wpath", "rhdr", "rpayload", "rdrain"}
<1>1. (stage' \in S) = (stage \in S)
    BY DEF InCall, Writing, Reading
<1>2. \A n : ReplyOf(n)' = ReplyOf(n)
    BY DEF ReplyOf, Expected
<1>3. Answered' = Answered
    BY DEF Answered
<1> HIDE DEF S
<1>4. [n \in 1..Len(results) |-> ReplyOf(n)]' = [n \in 1..Len(results) |-> ReplyOf(n)]
    BY <1>2
<1>5. [n \in 1..Cardinality(Answered) |-> reply[n]]' = [n \in 1..Cardinality(Answered) |-> reply[n]]
    BY <1>3
<1> QED BY <1>1, <1>4, <1>5 DEF Rpc!vars, S

\* The first write of a request is the call...
LEMMA RpcCall ==
    ASSUME IndInv, ReplyInv, NEW p \in PathLens, XenstoreRead(p)
    PROVE  Rpc!Call
<1>1. stage = "idle" /\ stage' = "whdr" /\ call < MaxCalls /\ UNCHANGED <<reply, results>>
    BY DEF XenstoreRead, StartLoop, srvVars
<1>2. Len(results) = call
    BY <1>1 DEF ReplyInv, TurnInv, InCall, Writing, Reading
<1> DEFINE S == {"whdr", "wpath", "rhdr", "rpayload", "rdrain"}
           res == [n \in 1..Len(results) |-> ReplyOf(n)]
           ans == [n \in 1..Cardinality(Answered) |-> reply[n]]
<1>3. stage \notin S /\ (stage' \in S) = TRUE
    BY <1>1
<1>4. res' = res
    <2>1. \A n : ReplyOf(n)' = ReplyOf(n)
        BY <1>1 DEF ReplyOf, Expected
    <2> QED BY <1>1, <2>1
<1>5. ans' = ans
    BY <1>1 DEF Answered
<1>6. Len(res) = call
    <2>1. call \in Nat
        BY ReplyNumbers DEF IndInv
    <2> QED BY <1>2, <2>1
<1> HIDE DEF S, res, ans
<1> QED BY <1>1, <1>3, <1>4, <1>5, <1>6 DEF Rpc!Call, S, res, ans

\* ... xenstored's answer is the answer ...
LEMMA RpcAnswer ==
    ASSUME IndInv, OrderInv, ReplyInv, ReplyInv', TypeOK', RingBounds', SrvReply
    PROVE  Rpc!Answer
<1> DEFINE res == [n \in 1..Len(results) |-> ReplyOf(n)]
           ans == [n \in 1..Cardinality(Answered) |-> reply[n]]
           S == {"whdr", "wpath", "rhdr", "rpayload", "rdrain"}
<1>0. TypeOK /\ RingBounds /\ TurnInv /\ ReadReturnsReply
    BY DEF IndInv, ReplyInv
<1>1. InCall /\ ~Answers(call) /\ call \in Nat /\ UNCHANGED <<stage, paths, results>>
    BY <1>0, AnswerIs DEF SrvReply, callVars
<1>2. PICK r \in Replies[call] : reply' = [reply EXCEPT ![call] = r]
    BY <1>0, AnswerIs
<1>3. call \in 1..MaxCalls /\ call - 1 \in Nat /\ Len(results) = call - 1
    BY <1>0, <1>1 DEF TurnInv
<1>4. reply'[call] = r /\ \A n \in 1..(call - 1) : reply'[n] = reply[n]
    <2>1. reply \in [1..MaxCalls -> Headers \union {None}]
        BY <1>0 DEF TypeOK, SrvType
    <2>2. \A n \in 1..(call - 1) : n \in 1..MaxCalls /\ n # call
        BY <1>1, <1>3, WireAssumption
    <2> QED BY <1>2, <1>3, <2>1, <2>2
<1>5. Answered = 1..(call - 1) /\ Cardinality(Answered) = call - 1
    BY <1>0, <1>1, AnsweredIs
<1>6. Answered' = 1..call /\ Cardinality(Answered)' = call
    <2>1. r # None
        <3>1. r \in Headers
            BY <1>3, WireAssumption
        <3> QED BY <3>1 DEF Headers, None
    <2>2. \A n \in 1..MaxCalls : reply'[n] # None <=> n \in Answered \/ n = call
        <3>1. reply \in [1..MaxCalls -> Headers \union {None}]
            BY <1>0 DEF TypeOK, SrvType
        <3> QED BY <1>2, <1>3, <2>1, <3>1 DEF Answered
    <2>3. Answered' = {n \in 1..MaxCalls : n \in 1..(call - 1) \/ n = call}
        BY <1>5, <2>2 DEF Answered
    <2>4. Answered' = 1..call
        BY <1>1, <1>3, <2>3, WireAssumption
    <2>5. Cardinality(1..call) = IF 1 > call THEN 0 ELSE call - 1 + 1
        BY <1>1, FS_Interval
    <2>6. Cardinality(1..call) = call
        BY <1>1, <1>3, <2>5
    <2> QED BY <2>4, <2>6
<1>7. Len(ans) = call - 1 /\ Len(res) = call - 1
    BY <1>3, <1>5
<1>8. ans' = Append(ans, r)
    <2>1. ans = [n \in 1..(call - 1) |-> reply[n]] /\ ans' = [n \in 1..call |-> reply'[n]]
        BY <1>5, <1>6
    <2> HIDE DEF ans
    <2> QED BY <1>1, <1>3, <1>4, <2>1
<1>9. res' = res
    <2>1. \A n \in 1..Len(results) : ReplyOf(n)' = ReplyOf(n)
        BY <1>1, <1>3, <1>4 DEF ReplyOf, Expected
    <2> QED BY <1>1, <2>1
<1>10. stage \in S /\ (stage' \in S) = (stage \in S)
    BY <1>1 DEF InCall, Writing, Reading
<1> HIDE DEF res, ans, S
<1>11. Len(ans) + 1 = call
    BY <1>1, <1>7
<1>12. r \in Replies[Len(ans) + 1]
    BY <1>11
<1> QED BY <1>7, <1>8, <1>9, <1>10, <1>12 DEF Rpc!Answer, res, ans, S

\* ... and the end of a call its return.
LEMMA RpcReturn ==
    ASSUME IndInv, ReplyInv, ReplyInv', InCall, ~InCall', Answers(call), UNCHANGED <<reply, paths>>
    PROVE  Rpc!Return
<1> DEFINE res == [n \in 1..Len(results) |-> ReplyOf(n)]
           ans == [n \in 1..Cardinality(Answered) |-> reply[n]]
           S == {"whdr", "wpath", "rhdr", "rpayload", "rdrain"}
<1>0. TypeOK /\ RingBounds /\ TurnInv /\ ReadReturnsReply /\ call \in Nat
    BY ReplyNumbers DEF IndInv, ReplyInv
<1>1. call' = call /\ call \in 1..MaxCalls /\ call - 1 \in Nat /\ Len(results) = call - 1 /\ Len(results') = call
    BY <1>0 DEF ReplyInv, TurnInv, call
<1>2. Cardinality(Answered) = call
    BY <1>0, AnsweredIs
<1>3. Len(ans) = call /\ Len(res) = call - 1 /\ ans[call] = reply[call] /\ ans' = ans
    BY <1>1, <1>2 DEF Answered
<1>4. \A n \in 1..(call - 1) : ReplyOf(n) = Rpc!Outcome(reply[n])
    BY <1>0, <1>1, ReplyOfIs DEF ReadReturnsReply
<1>5. \A n \in 1..call : ReplyOf(n)' = Rpc!Outcome(reply[n])
    <2>1. ReadReturnsReply'
        BY DEF ReplyInv
    <2>2. ASSUME NEW n \in 1..call PROVE ReplyOf(n)' = Rpc!Outcome(reply[n])'
        <3>1. results'[n] = Expected(n)' /\ reply'[n] # None
            BY <1>1, <2>1 DEF ReadReturnsReply
        <3>2. CASE reply'[n].type = "XS_READ" /\ reply'[n].len <= PayloadMax
            <4>1. results'[n] # NULL
                BY <3>1, <3>2 DEF Expected, String, NULL
            <4> QED BY <3>1, <3>2, <4>1 DEF ReplyOf, Rpc!Outcome
        <3>3. CASE ~(reply'[n].type = "XS_READ" /\ reply'[n].len <= PayloadMax)
            BY <3>1, <3>3 DEF ReplyOf, Expected, Rpc!Outcome, Rpc!NULL
        <3> QED BY <3>2, <3>3
    <2> QED BY <2>2 DEF Rpc!Outcome
<1>6. res' = Append(res, Rpc!Outcome(ans[Len(ans)]))
    <2>1. res = [n \in 1..(call - 1) |-> Rpc!Outcome(reply[n])] /\ res' = [n \in 1..call |-> Rpc!Outcome(reply[n])]
        BY <1>1, <1>4, <1>5
    <2> HIDE DEF res, ans
    <2> QED BY <1>1, <1>3, <2>1
<1>7. stage \in S /\ (stage' \in S) = FALSE
    BY DEF InCall, Writing, Reading
<1> HIDE DEF res, ans, S
<1>8. Len(ans) = Len(res) + 1
    BY <1>1, <1>3
<1> QED BY <1>3, <1>6, <1>7, <1>8 DEF Rpc!Return, res, ans, S

\* Every step of xenbus.c and xenstored is one of XenstoreRpc, or none.
LEMMA RpcStep ==
    ASSUME ErrorsAreEmpty, IndInv, OrderInv, ReplyInv, IndInv', ReplyInv', [Next]_vars
    PROVE  [Rpc!Next]_(Rpc!vars)
<1>0. TypeOK /\ RingBounds /\ TypeOK' /\ RingBounds' /\ TurnInv /\ ReceivedInv
    BY DEF IndInv, ReplyInv
<1>1. CASE \E p \in PathLens : XenstoreRead(p)
    BY <1>1, RpcCall DEF Rpc!Next
<1>2. CASE SrvReply
    BY <1>0, <1>2, RpcAnswer DEF Rpc!Next
<1>3. CASE HeaderNotRead
    <2>1. Answers(call)
        BY <1>0, <1>3, HeaderIs DEF HeaderNotRead
    <2>2. InCall /\ ~InCall' /\ UNCHANGED <<reply, paths>>
        BY <1>3 DEF HeaderNotRead, LoopDone, Return, InCall, Writing, Reading, srvVars
    <2> QED BY <2>1, <2>2, RpcReturn DEF Rpc!Next
<1>4. CASE DrainNext
    <2>1. stage = "rdrain" /\ UNCHANGED <<reply, paths>> /\ InCall
        BY <1>4 DEF DrainNext, LoopDone, InCall, Reading, srvVars
    <2>2. Answers(call)
        BY <1>0, <2>1 DEF ReceivedInv, Answers, None
    <2>3. CASE hdr'.len > 0
        <3>1. stage' = "rdrain" /\ results' = results
            BY <1>4, <2>3 DEF DrainNext, StartLoop
        <3> QED BY <2>1, <3>1, RpcStutters DEF InCall, Reading
    <2>4. CASE ~(hdr'.len > 0)
        <3>1. stage' = "idle"
            BY <1>4, <2>4 DEF DrainNext, Return
        <3>2. ~InCall'
            BY <3>1 DEF InCall, Writing, Reading
        <3> QED BY <2>1, <2>2, <3>2, RpcReturn DEF Rpc!Next
    <2> QED BY <2>3, <2>4
<1>5. CASE FinishPayload
    <2>1. stage = "rpayload" /\ stage' = "idle" /\ UNCHANGED <<reply, paths>>
        BY <1>5 DEF FinishPayload, LoopDone, Return, srvVars
    <2>2. Answers(call)
        BY <1>0, <2>1 DEF ReceivedInv, Answers, None
    <2>3. InCall /\ ~InCall'
        BY <2>1 DEF InCall, Writing, Reading
    <2> QED BY <2>1, <2>2, <2>3, RpcReturn DEF Rpc!Next
<1>6. ASSUME UNCHANGED <<reply, results, stage>> PROVE [Rpc!Next]_(Rpc!vars)
    <2>1. InCall' <=> InCall
        BY <1>6 DEF InCall, Writing, Reading
    <2> QED BY <1>6, <2>1, RpcStutters
<1>7. CASE Startup
    <2>1. UNCHANGED <<reply, results>> /\ ~InCall /\ ~InCall'
        BY <1>7 DEF Startup, InitXenbus, XenstoreInit, callVars, srvVars, InCall, Writing, Reading
    <2> QED BY <2>1, RpcStutters
<1>8. CASE WritePath \/ KickRequest \/ HeaderTooLong \/ HeaderFits
    <2>1. UNCHANGED <<reply, results>> /\ InCall /\ InCall'
        BY <1>8 DEF WritePath, KickRequest, HeaderTooLong, HeaderFits, LoopDone, StartLoop, callVars, srvVars,
           InCall, Writing, Reading
    <2> QED BY <2>1, RpcStutters
<1>9. CASE Loop
    <2>1. UNCHANGED <<reply, results, stage>>
        BY <1>9 DEF Loop, WriteSample, WriteCopy, WritePublish, ReadSample, ReadCopy, ReadPublish, Kick, TestAndClear,
           Poll, callVars, srvVars
    <2> QED BY <1>6, <2>1
<1>10. CASE SrvWake \/ SrvRead \/ SrvWrite \/ SrvNotify \/ SrvSleep \/ Finished \/ UNCHANGED vars
    <2>1. UNCHANGED <<reply, results, stage>>
        BY <1>10 DEF SrvWake, SrvRead, SrvWrite, SrvNotify, SrvSleep, Finished, vars, callVars, srvVars
    <2> QED BY <1>6, <2>1
<1> QED BY <1>1, <1>2, <1>3, <1>4, <1>5, <1>7, <1>8, <1>9, <1>10 DEF Next, Body, Srv

\* Before the first call XenstoreRpc has not begun either.
LEMMA RpcInit == Init => Rpc!Init
<1>1. SUFFICES ASSUME Init PROVE Rpc!Init
    OBVIOUS
<1>2. stage = "boot" /\ results = <<>> /\ reply = [n \in 1..MaxCalls |-> None]
    BY <1>1 DEF Init
<1>3. Answered = {}
    BY <1>2 DEF Answered
<1>4. Cardinality(Answered) = 0
    BY <1>3, FS_EmptySet
<1>5. [n \in 1..Cardinality(Answered) |-> reply[n]] = <<>>
    BY <1>4
<1>6. [n \in 1..Len(results) |-> ReplyOf(n)] = <<>>
    BY <1>2
<1> QED BY <1>2, <1>5, <1>6 DEF Rpc!Init

\* xenbus.c does what XenstoreRpc allows, and nothing else: with the rings, the
\* partial transfers and the waits left out, each call is answered once, by an
\* answer that it then returns (xenbus.c:139).  This is ImplementsRpc without its
\* fairness.
THEOREM CallsAreSynchronous == ASSUME ErrorsAreEmpty PROVE Spec => Rpc!Spec
<1>1. Init => Rpc!Init
    BY RpcInit
<1>2. (IndInv /\ OrderInv /\ ReplyInv) /\ (IndInv /\ OrderInv /\ ReplyInv)' /\ [Next]_vars => [Rpc!Next]_(Rpc!vars)
    BY RpcStep
<1> QED BY InStep, <1>1, <1>2, PTL DEF Spec, Rpc!Spec
=============================================================================
