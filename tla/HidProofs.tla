----------------------------- MODULE HidProofs -----------------------------
(***************************************************************************)
(* Type correctness of HidClient, for any number of callers and Close      *)
(* callers, any queue depths, buffer limits and number of attempts, and    *)
(* the lemmas about requests, queues and packets that every later proof    *)
(* about the client uses; and the lifecycle gate with the lease slot:      *)
(* GateInv and SlotInv are inductive, so the usable generation always      *)
(* belongs to the holder of the slot, and closed is terminal; and the      *)
(* queues between the goroutines and the writer: QueueInv is inductive     *)
(* relative to the gate. It is what ties a completed request to the very   *)
(* report its release is waiting for.                                      *)
(***************************************************************************)
EXTENDS HidInvariant, TLAPS

\* Elements, head and tail of a sequence over S.
LEMMA QueueElements ==
    ASSUME NEW S, NEW q \in Seq(S)
    PROVE  /\ Len(q) \in Nat
           /\ \A n \in 1..Len(q) : q[n] \in S
           /\ q # <<>> => /\ Len(q) \in Nat \ {0} /\ Head(q) = q[1] /\ Head(q) \in S
                          /\ Tail(q) \in Seq(S) /\ Len(Tail(q)) = Len(q) - 1
                          /\ \A n \in 1..Len(Tail(q)) : Tail(q)[n] = q[n + 1]
  OBVIOUS

\* What Append does to length and elements.
LEMMA Appended ==
    ASSUME NEW S, NEW q \in Seq(S), NEW e \in S
    PROVE  /\ Append(q, e) \in Seq(S) /\ Len(Append(q, e)) = Len(q) + 1 /\ Len(q) \in Nat
           /\ Append(q, e)[Len(q) + 1] = e
           /\ \A n \in 1..Len(q) : Append(q, e)[n] = q[n]
  OBVIOUS

\* The request the writer holds between two writes is well formed.
LEMMA NoRequestType == NoRequest \in Request
  BY ConstantsAssumption
  DEF ConstantsAssumption, NoRequest, NoFrame, Request, Frame, Privileged

\* The reports that users send, and the drain barrier's zero report, are frames.
LEMMA ReportTypes == KeyboardRelease \in Frame /\ Reports \subseteq Frame
  BY ConstantsAssumption
  DEF ConstantsAssumption, KeyboardRelease, Frame, InputFrame, Ifaces

\* Every report of a neutralization plan makes a well-formed privileged request.
LEMMA PrivRequestType ==
    ASSUME TypeOK, NEW r \in Privileged, NEW i \in 1..3
    PROVE  PrivRequest(r, i) \in Request
  BY ConstantsAssumption
  DEF ConstantsAssumption, TypeOK, RelTypes, PrivRequest, PlanFrame, NoFrame, Request,
      Frame, Ifaces

\* Killing a request, or every request of one caller in a queue, keeps the types.
LEMMA KillType ==
    ASSUME NEW req \in Request, NEW p, NEW b
    PROVE  Kill(req, p, b) \in Request
  BY DEF Kill, Request

\* ... also in a queue.
LEMMA KillSeq ==
    ASSUME NEW q \in Seq(Request), NEW p, NEW b
    PROVE  [i \in DOMAIN q |-> Kill(q[i], p, b)] \in Seq(Request)
  BY KillType

\* A caller that leaves enqueue leaves well-formed queues behind.
LEMMA AbandonTypes ==
    ASSUME TypeOK, NEW p, NEW b, Abandon(p, b)
    PROVE  WriterTypes'
  BY KillType, KillSeq DEF TypeOK, WriterTypes, Abandon

\* The writer between two writes.
LEMMA LoopTypes ==
    ASSUME NEW q, Loop(q)
    PROVE  writerPc' \in WriterPcs /\ writerReq' \in Request /\ writerGen' \in Nat
  BY NoRequestType DEF Loop, WriterPcs

\* complete delivers one of the four outcomes.
LEMMA CompleteTypes ==
    ASSUME TypeOK, NEW req, NEW res \in Results, Complete(req, res)
    PROVE  relRes' \in [Privileged -> Results] /\ callRes' \in [Callers -> Results]
  BY DEF TypeOK, CallTypes, RelTypes, Complete

\* The first validation of write.
LEMMA TakeTypes ==
    ASSUME TypeOK, NEW req \in Request, NEW q, Take(req, q)
    PROVE  /\ writerPc' \in WriterPcs /\ writerReq' \in Request /\ writerGen' \in Nat
           /\ relRes' \in [Privileged -> Results] /\ callRes' \in [Callers -> Results]
<1>1. CASE ContextErr(req) \/ ~Writable(req) \/ BufferFull(req)
  <2>1. PICK res \in Results : Complete(req, res)
    BY <1>1 DEF Take, Results
  <2> QED
    BY <1>1, <2>1, CompleteTypes, LoopTypes DEF Take
<1>2. CASE ~(ContextErr(req) \/ ~Writable(req) \/ BufferFull(req))
  BY <1>2 DEF Take, TypeOK, WriterTypes, CallTypes, RelTypes, WriterPcs
<1> QED
  BY <1>1, <1>2

\* closeWith, whatever happens to the gate and to the slot in the same step.
LEMMA CloseWithTypes ==
    ASSUME TypeOK, CloseWith,
           lifecycle' \in Privileged \cup {None}, slot' \in Callers \cup {None}
    PROVE  HidTypes'
  BY DEF TypeOK, HidTypes, CloseWith, InvalidateLease

\* The return of releaseAllLocked.
LEMMA FinishTypes ==
    ASSUME TypeOK, NEW r \in Privileged, NEW out \in {"ok", "unverified"}, Finish(r, out)
    PROVE  RelTypes'
  BY DEF TypeOK, RelTypes, Finish, RelPcs, Results

\* What Send appends to Pion's buffer.
LEMMA PacketSent ==
    ASSUME TypeOK
    PROVE  Sent(writerReq) \in Seq(Packet)
<1>1. [frame |-> writerReq.frame, priv |-> writerReq.priv] \in Packet
  BY DEF TypeOK, WriterTypes, Request, Packet
<1> QED
  BY <1>1, Appended DEF TypeOK, PionTypes, Sent

\* The packet an acknowledgement removes.
LEMMA OldestPacket ==
    ASSUME TypeOK, wire # <<>>
    PROVE  /\ Tail(wire) \in Seq(Packet) /\ Head(wire) = wire[1] /\ wire[1] \in Packet
           /\ wire[1].frame.hold => wire[1].frame.ifc \in Ifaces
           /\ wire[1].frame.pos \in Positions \cup {None}
<1>1. Tail(wire) \in Seq(Packet) /\ Head(wire) = wire[1] /\ wire[1] \in Packet
  BY QueueElements DEF TypeOK, PionTypes
<1> QED
  BY <1>1 DEF Packet, Frame

\* Every step of the client keeps TypeOK: one case per action, one fact per group of
\* variables the action can disturb.
LEMMA TypeStep == TypeOK /\ [Next]_vars => TypeOK'
<1> SUFFICES ASSUME TypeOK, [Next]_vars PROVE TypeOK'
  OBVIOUS
<1> USE ConstantsAssumption DEF ConstantsAssumption, Neutralizers, Privileged,
        hidVars, queueVars, writeVars, pionVars, callVars, relVars
<1>1. CASE WriterTakePriority
  <2>1. WriterTypes'
    BY <1>1, QueueElements, TakeTypes DEF TypeOK, WriterTypes, WriterPcs, WriterTakePriority
  <2>2. CallTypes'
    BY <1>1, QueueElements, TakeTypes
    DEF TypeOK, CallTypes, CallPcs, Results, WriterTakePriority, WriterTypes
  <2>3. RelTypes'
    BY <1>1, QueueElements, TakeTypes
    DEF TypeOK, RelTypes, RelPcs, Results, WriterTakePriority, WriterTypes
  <2>4. HidTypes' /\ PionTypes'
    BY <1>1 DEF TypeOK, HidTypes, PionTypes, WriterTakePriority
  <2> QED
    BY <2>1, <2>2, <2>3, <2>4 DEF TypeOK
<1>2. CASE WriterTakeInput
  <2>1. WriterTypes'
    BY <1>2, QueueElements, TakeTypes DEF TypeOK, WriterTypes, WriterPcs, WriterTakeInput
  <2>2. CallTypes'
    BY <1>2, QueueElements, TakeTypes
    DEF TypeOK, CallTypes, CallPcs, Results, WriterTakeInput, WriterTypes
  <2>3. RelTypes'
    BY <1>2, QueueElements, TakeTypes
    DEF TypeOK, RelTypes, RelPcs, Results, WriterTakeInput, WriterTypes
  <2>4. HidTypes' /\ PionTypes'
    BY <1>2 DEF TypeOK, HidTypes, PionTypes, WriterTakeInput
  <2> QED
    BY <2>1, <2>2, <2>3, <2>4 DEF TypeOK
<1>3. CASE WriterStop
  <2>1. WriterTypes'
    BY <1>3 DEF TypeOK, WriterTypes, WriterPcs, WriterStop
  <2>2. CallTypes'
    BY <1>3 DEF TypeOK, CallTypes, CallPcs, Results, WriterStop
  <2>3. RelTypes'
    BY <1>3 DEF TypeOK, RelTypes, RelPcs, Results, WriterStop
  <2>4. HidTypes' /\ PionTypes'
    BY <1>3 DEF TypeOK, HidTypes, PionTypes, WriterStop
  <2> QED
    BY <2>1, <2>2, <2>3, <2>4 DEF TypeOK
<1>4. CASE WriterFinal
  <2>1. HidTypes'
    BY <1>4 DEF TypeOK, HidTypes, WriterFinal, HeldAdd, WriterTypes, Request, Frame, Ifaces
  <2>2. WriterTypes'
    BY <1>4, LoopTypes DEF TypeOK, WriterTypes, WriterPcs, WriterFinal, HidTypes
  <2>3. CallTypes'
    BY <1>4, CompleteTypes DEF TypeOK, CallTypes, CallPcs, Results, WriterFinal
  <2>4. RelTypes'
    BY <1>4, CompleteTypes DEF TypeOK, RelTypes, RelPcs, Results, WriterFinal
  <2>5. PionTypes'
    BY <1>4 DEF TypeOK, PionTypes, WriterFinal
  <2> QED
    BY <2>1, <2>2, <2>3, <2>4, <2>5 DEF TypeOK
<1>5. CASE WriterSend
  <2>1. WriterTypes'
    BY <1>5, LoopTypes DEF TypeOK, WriterTypes, WriterPcs, WriterSend
  <2>2. PionTypes'
    BY <1>5, PacketSent DEF TypeOK, PionTypes, WriterSend
  <2>3. CallTypes'
    BY <1>5, CompleteTypes DEF TypeOK, CallTypes, CallPcs, Results, WriterSend
  <2>4. RelTypes'
    BY <1>5, CompleteTypes DEF TypeOK, RelTypes, RelPcs, Results, WriterSend
  <2>5. HidTypes'
    BY <1>5 DEF TypeOK, HidTypes, WriterSend
  <2> QED
    BY <2>1, <2>2, <2>3, <2>4, <2>5 DEF TypeOK
<1>6. CASE WriterSendError
  <2>1. WriterTypes'
    BY <1>6, LoopTypes DEF TypeOK, WriterTypes, WriterPcs, WriterSendError
  <2>2. PionTypes'
    BY <1>6, PacketSent DEF TypeOK, PionTypes, WriterSendError
  <2>3. CallTypes'
    BY <1>6, CompleteTypes DEF TypeOK, CallTypes, CallPcs, Results, WriterSendError
  <2>4. RelTypes'
    BY <1>6, CompleteTypes DEF TypeOK, RelTypes, RelPcs, Results, WriterSendError
  <2>5. HidTypes'
    BY <1>6 DEF TypeOK, HidTypes, WriterSendError
  <2> QED
    BY <2>1, <2>2, <2>3, <2>4, <2>5 DEF TypeOK
<1>7. CASE WriterDrainCheck
  <2>1. WriterTypes'
    BY <1>7, LoopTypes DEF TypeOK, WriterTypes, WriterPcs, WriterDrainCheck
  <2>2. CallTypes'
    BY <1>7, CompleteTypes DEF TypeOK, CallTypes, CallPcs, Results, WriterDrainCheck
  <2>3. RelTypes'
    BY <1>7, CompleteTypes DEF TypeOK, RelTypes, RelPcs, Results, WriterDrainCheck
  <2>4. HidTypes' /\ PionTypes'
    BY <1>7 DEF TypeOK, HidTypes, PionTypes, WriterDrainCheck
  <2> QED
    BY <2>1, <2>2, <2>3, <2>4 DEF TypeOK
<1>8. CASE WriterDrainEdge
  <2>1. WriterTypes'
    BY <1>8 DEF TypeOK, WriterTypes, WriterPcs, WriterDrainEdge
  <2>2. PionTypes'
    BY <1>8 DEF TypeOK, PionTypes, WriterDrainEdge
  <2>3. HidTypes' /\ CallTypes' /\ RelTypes'
    BY <1>8 DEF TypeOK, HidTypes, CallTypes, RelTypes, WriterDrainEdge
  <2> QED
    BY <2>1, <2>2, <2>3 DEF TypeOK
<1>9. CASE WriterDrainEnd
  <2>1. WriterTypes'
    BY <1>9, LoopTypes DEF TypeOK, WriterTypes, WriterPcs, WriterDrainEnd
  <2>2. CallTypes'
    BY <1>9, CompleteTypes DEF TypeOK, CallTypes, CallPcs, Results, WriterDrainEnd
  <2>3. RelTypes'
    BY <1>9, CompleteTypes DEF TypeOK, RelTypes, RelPcs, Results, WriterDrainEnd
  <2>4. HidTypes' /\ PionTypes'
    BY <1>9 DEF TypeOK, HidTypes, PionTypes, WriterDrainEnd
  <2> QED
    BY <2>1, <2>2, <2>3, <2>4 DEF TypeOK
<1>10. CASE HandshakeSend
  <2>1. HidTypes'
    BY <1>10 DEF TypeOK, HidTypes, HandshakeSend
  <2>2. WriterTypes'
    BY <1>10, PrivRequestType, Appended DEF TypeOK, WriterTypes, WriterPcs, HandshakeSend
  <2>3. RelTypes'
    BY <1>10 DEF TypeOK, RelTypes, RelPcs, Results, HandshakeSend
  <2>4. PionTypes' /\ CallTypes'
    BY <1>10 DEF TypeOK, PionTypes, CallTypes, HandshakeSend
  <2> QED
    BY <2>1, <2>2, <2>3, <2>4 DEF TypeOK
<1>11. CASE HandshakeWritten
  <2>1. RelTypes'
    BY <1>11 DEF TypeOK, RelTypes, RelPcs, Results, HandshakeWritten
  <2>2. HidTypes' /\ WriterTypes' /\ PionTypes' /\ CallTypes'
    BY <1>11 DEF TypeOK, HidTypes, WriterTypes, PionTypes, CallTypes, HandshakeWritten
  <2> QED
    BY <2>1, <2>2 DEF TypeOK
<1>12. CASE HandshakeReady
  <2>1. HidTypes'
    BY <1>12 DEF TypeOK, HidTypes, HandshakeReady
  <2>2. RelTypes'
    BY <1>12 DEF TypeOK, RelTypes, RelPcs, Results, HandshakeReady
  <2>3. WriterTypes' /\ PionTypes' /\ CallTypes'
    BY <1>12 DEF TypeOK, WriterTypes, PionTypes, CallTypes, HandshakeReady
  <2> QED
    BY <2>1, <2>2, <2>3 DEF TypeOK
<1>13. CASE HandshakeFail
  <2>1. HidTypes'
    BY <1>13, CloseWithTypes DEF TypeOK, HidTypes, HandshakeFail
  <2>2. WriterTypes'
    BY <1>13, AbandonTypes DEF TypeOK, WriterTypes, WriterPcs, HandshakeFail
  <2>3. RelTypes'
    BY <1>13 DEF TypeOK, RelTypes, RelPcs, Results, HandshakeFail
  <2>4. PionTypes' /\ CallTypes'
    BY <1>13 DEF TypeOK, PionTypes, CallTypes, HandshakeFail
  <2> QED
    BY <2>1, <2>2, <2>3, <2>4 DEF TypeOK
<1>14. CASE Ack
  <2>1. PionTypes'
    BY <1>14, OldestPacket DEF TypeOK, PionTypes, Ack
  <2>2. HidTypes' /\ WriterTypes' /\ CallTypes' /\ RelTypes'
    BY <1>14 DEF TypeOK, HidTypes, WriterTypes, CallTypes, RelTypes, Ack
  <2> QED
    BY <2>1, <2>2 DEF TypeOK
<1>15. CASE TransportDown
  <2>1. HidTypes'
    BY <1>15, CloseWithTypes DEF TypeOK, HidTypes, TransportDown
  <2>2. WriterTypes' /\ PionTypes' /\ CallTypes' /\ RelTypes'
    BY <1>15 DEF TypeOK, WriterTypes, PionTypes, CallTypes, RelTypes, TransportDown
  <2> QED
    BY <2>1, <2>2 DEF TypeOK
<1>16. ASSUME NEW c \in Callers, AcquireSlot(c) PROVE TypeOK'
  <2>1. HidTypes'
    BY <1>16 DEF TypeOK, HidTypes, AcquireSlot
  <2>2. CallTypes'
    BY <1>16 DEF TypeOK, CallTypes, CallPcs, Results, AcquireSlot
  <2>3. WriterTypes' /\ PionTypes' /\ RelTypes'
    BY <1>16 DEF TypeOK, WriterTypes, PionTypes, RelTypes, AcquireSlot
  <2> QED
    BY <2>1, <2>2, <2>3 DEF TypeOK
<1>17. ASSUME NEW c \in Callers, BeginLease(c) PROVE TypeOK'
  <2>1. HidTypes'
    BY <1>17 DEF TypeOK, HidTypes, BeginLease
  <2>2. CallTypes'
    BY <1>17 DEF TypeOK, CallTypes, CallPcs, Results, BeginLease, HidTypes
  <2>3. WriterTypes' /\ PionTypes' /\ RelTypes'
    BY <1>17 DEF TypeOK, WriterTypes, PionTypes, RelTypes, BeginLease
  <2> QED
    BY <2>1, <2>2, <2>3 DEF TypeOK
<1>18. ASSUME NEW c \in Callers, AcquireFail(c) PROVE TypeOK'
  <2>1. HidTypes'
    BY <1>18 DEF TypeOK, HidTypes, AcquireFail
  <2>2. CallTypes'
    BY <1>18 DEF TypeOK, CallTypes, CallPcs, Results, AcquireFail
  <2>3. WriterTypes' /\ PionTypes' /\ RelTypes'
    BY <1>18 DEF TypeOK, WriterTypes, PionTypes, RelTypes, AcquireFail
  <2> QED
    BY <2>1, <2>2, <2>3 DEF TypeOK
<1>19. ASSUME NEW c \in Callers, SendReport(c) PROVE TypeOK'
  <2>1. WriterTypes'
    BY <1>19, ReportTypes, Appended
    DEF TypeOK, WriterTypes, WriterPcs, SendReport, Submit, CallTypes, Request
  <2>2. CallTypes'
    BY <1>19 DEF TypeOK, CallTypes, CallPcs, Results, SendReport, Submit
  <2>3. HidTypes' /\ PionTypes' /\ RelTypes'
    BY <1>19 DEF TypeOK, HidTypes, PionTypes, RelTypes, SendReport, Submit
  <2> QED
    BY <2>1, <2>2, <2>3 DEF TypeOK
<1>20. ASSUME NEW c \in Callers, ReleaseKeyboard(c) PROVE TypeOK'
  <2>1. WriterTypes'
    BY <1>20, ReportTypes, Appended
    DEF TypeOK, WriterTypes, WriterPcs, ReleaseKeyboard, Submit, CallTypes, Request
  <2>2. CallTypes'
    BY <1>20 DEF TypeOK, CallTypes, CallPcs, Results, ReleaseKeyboard, Submit
  <2>3. HidTypes' /\ PionTypes' /\ RelTypes'
    BY <1>20 DEF TypeOK, HidTypes, PionTypes, RelTypes, ReleaseKeyboard, Submit
  <2> QED
    BY <2>1, <2>2, <2>3 DEF TypeOK
<1>21. ASSUME NEW c \in Callers, CallReturn(c) PROVE TypeOK'
  <2>1. WriterTypes'
    BY <1>21, AbandonTypes DEF TypeOK, WriterTypes, WriterPcs, CallReturn
  <2>2. CallTypes'
    BY <1>21 DEF TypeOK, CallTypes, CallPcs, Results, CallReturn
  <2>3. HidTypes' /\ PionTypes' /\ RelTypes'
    BY <1>21 DEF TypeOK, HidTypes, PionTypes, RelTypes, CallReturn
  <2> QED
    BY <2>1, <2>2, <2>3 DEF TypeOK
<1>22. ASSUME NEW c \in Callers, CallContextEnds(c) PROVE TypeOK'
  <2>1. CallTypes'
    BY <1>22 DEF TypeOK, CallTypes, CallPcs, Results, CallContextEnds
  <2>2. HidTypes' /\ WriterTypes' /\ PionTypes' /\ RelTypes'
    BY <1>22 DEF TypeOK, HidTypes, WriterTypes, PionTypes, RelTypes, CallContextEnds
  <2> QED
    BY <2>1, <2>2 DEF TypeOK
<1>23. ASSUME NEW c \in Callers, UserRelease(c) PROVE TypeOK'
  <2>1. CallTypes'
    BY <1>23 DEF TypeOK, CallTypes, CallPcs, Results, UserRelease
  <2>2. RelTypes'
    BY <1>23 DEF TypeOK, RelTypes, RelPcs, Results, UserRelease, StartRelease
  <2>3. HidTypes' /\ WriterTypes' /\ PionTypes'
    BY <1>23 DEF TypeOK, HidTypes, WriterTypes, PionTypes, UserRelease
  <2> QED
    BY <2>1, <2>2, <2>3 DEF TypeOK
<1>24. ASSUME NEW c \in Callers, Watchdog(c) PROVE TypeOK'
  <2>1. RelTypes'
    BY <1>24 DEF TypeOK, RelTypes, RelPcs, Results, Watchdog, StartRelease
  <2>2. HidTypes' /\ WriterTypes' /\ PionTypes' /\ CallTypes'
    BY <1>24 DEF TypeOK, HidTypes, WriterTypes, PionTypes, CallTypes, Watchdog
  <2> QED
    BY <2>1, <2>2 DEF TypeOK
<1>25. ASSUME NEW c \in Callers, ReleaseReturn(c) PROVE TypeOK'
  <2>1. CallTypes'
    BY <1>25 DEF TypeOK, CallTypes, CallPcs, Results, ReleaseReturn
  <2>2. RelTypes'
    BY <1>25 DEF TypeOK, RelTypes, RelPcs, Results, ReleaseReturn
  <2>3. HidTypes' /\ WriterTypes' /\ PionTypes'
    BY <1>25 DEF TypeOK, HidTypes, WriterTypes, PionTypes, ReleaseReturn
  <2> QED
    BY <2>1, <2>2, <2>3 DEF TypeOK
<1>26. ASSUME NEW c \in Callers, FreeSlot(c) PROVE TypeOK'
  <2>1. HidTypes'
    BY <1>26 DEF TypeOK, HidTypes, FreeSlot
  <2>2. RelTypes'
    BY <1>26 DEF TypeOK, RelTypes, RelPcs, Results, FreeSlot
  <2>3. WriterTypes' /\ PionTypes' /\ CallTypes'
    BY <1>26 DEF TypeOK, WriterTypes, PionTypes, CallTypes, FreeSlot
  <2> QED
    BY <2>1, <2>2, <2>3 DEF TypeOK
<1>27. ASSUME NEW k \in Closers, Close(k) PROVE TypeOK'
  <2>1. RelTypes'
    BY <1>27 DEF TypeOK, RelTypes, RelPcs, Results, Close, StartRelease
  <2>2. HidTypes' /\ WriterTypes' /\ PionTypes' /\ CallTypes'
    BY <1>27 DEF TypeOK, HidTypes, WriterTypes, PionTypes, CallTypes, Close
  <2> QED
    BY <2>1, <2>2 DEF TypeOK
<1>28. ASSUME NEW r \in Neutralizers, RelLock(r) PROVE TypeOK'
  <2>1. HidTypes'
    BY <1>28 DEF TypeOK, HidTypes, RelLock
  <2>2. RelTypes'
    BY <1>28 DEF TypeOK, RelTypes, RelPcs, Results, RelLock
  <2>3. WriterTypes' /\ PionTypes' /\ CallTypes'
    BY <1>28 DEF TypeOK, WriterTypes, PionTypes, CallTypes, RelLock
  <2> QED
    BY <2>1, <2>2, <2>3 DEF TypeOK
<1>29. ASSUME NEW r \in Neutralizers, RelLockTimeout(r) PROVE TypeOK'
  <2>1. HidTypes'
    BY <1>29, CloseWithTypes DEF TypeOK, HidTypes, RelLockTimeout
  <2>2. RelTypes'
    BY <1>29 DEF TypeOK, RelTypes, RelPcs, Results, RelLockTimeout
  <2>3. WriterTypes' /\ PionTypes' /\ CallTypes'
    BY <1>29 DEF TypeOK, WriterTypes, PionTypes, CallTypes, RelLockTimeout
  <2> QED
    BY <2>1, <2>2, <2>3 DEF TypeOK
<1>30. ASSUME NEW r \in Neutralizers, RelInvalidate(r) PROVE TypeOK'
  <2>1. HidTypes'
    BY <1>30 DEF TypeOK, HidTypes, RelInvalidate, InvalidateLease
  <2>2. RelTypes'
    BY <1>30, FinishTypes DEF TypeOK, RelTypes, RelPcs, Results, RelInvalidate, HidTypes
  <2>3. WriterTypes' /\ PionTypes' /\ CallTypes'
    BY <1>30 DEF TypeOK, WriterTypes, PionTypes, CallTypes, RelInvalidate
  <2> QED
    BY <2>1, <2>2, <2>3 DEF TypeOK
<1>31. ASSUME NEW r \in Neutralizers, RelEnqueue(r) PROVE TypeOK'
  <2>1. WriterTypes'
    BY <1>31, PrivRequestType, Appended
    DEF TypeOK, WriterTypes, WriterPcs, RelEnqueue, RelTypes
  <2>2. RelTypes'
    BY <1>31 DEF TypeOK, RelTypes, RelPcs, Results, RelEnqueue
  <2>3. HidTypes' /\ PionTypes' /\ CallTypes'
    BY <1>31 DEF TypeOK, HidTypes, PionTypes, CallTypes, RelEnqueue
  <2> QED
    BY <2>1, <2>2, <2>3 DEF TypeOK
<1>32. ASSUME NEW r \in Neutralizers, RelWritten(r) PROVE TypeOK'
  <2>1. RelTypes'
    BY <1>32 DEF TypeOK, RelTypes, RelPcs, Results, RelWritten, PlanLen
  <2>2. HidTypes' /\ WriterTypes' /\ PionTypes' /\ CallTypes'
    BY <1>32 DEF TypeOK, HidTypes, WriterTypes, PionTypes, CallTypes, RelWritten
  <2> QED
    BY <2>1, <2>2 DEF TypeOK
<1>33. ASSUME NEW r \in Neutralizers, RelDrainCheck(r) PROVE TypeOK'
  <2>1. RelTypes'
    BY <1>33 DEF TypeOK, RelTypes, RelPcs, Results, RelDrainCheck
  <2>2. HidTypes' /\ WriterTypes' /\ PionTypes' /\ CallTypes'
    BY <1>33 DEF TypeOK, HidTypes, WriterTypes, PionTypes, CallTypes, RelDrainCheck
  <2> QED
    BY <2>1, <2>2 DEF TypeOK
<1>34. ASSUME NEW r \in Neutralizers, RelDrainEdge(r) PROVE TypeOK'
  <2>1. PionTypes'
    BY <1>34 DEF TypeOK, PionTypes, RelDrainEdge
  <2>2. RelTypes'
    BY <1>34 DEF TypeOK, RelTypes, RelPcs, Results, RelDrainEdge
  <2>3. HidTypes' /\ WriterTypes' /\ CallTypes'
    BY <1>34 DEF TypeOK, HidTypes, WriterTypes, CallTypes, RelDrainEdge
  <2> QED
    BY <2>1, <2>2, <2>3 DEF TypeOK
<1>35. ASSUME NEW r \in Neutralizers, RelDrainDown(r) PROVE TypeOK'
  <2>1. RelTypes'
    BY <1>35 DEF TypeOK, RelTypes, RelPcs, Results, RelDrainDown
  <2>2. HidTypes' /\ WriterTypes' /\ PionTypes' /\ CallTypes'
    BY <1>35 DEF TypeOK, HidTypes, WriterTypes, PionTypes, CallTypes, RelDrainDown
  <2> QED
    BY <2>1, <2>2 DEF TypeOK
<1>36. ASSUME NEW r \in Neutralizers, RelAttemptFailed(r) PROVE TypeOK'
  <2>1. WriterTypes'
    BY <1>36, AbandonTypes DEF TypeOK, WriterTypes, WriterPcs, RelAttemptFailed
  <2>2. RelTypes'
    BY <1>36, FinishTypes DEF TypeOK, RelTypes, RelPcs, Results, RelAttemptFailed
  <2>3. HidTypes' /\ PionTypes' /\ CallTypes'
    BY <1>36 DEF TypeOK, HidTypes, PionTypes, CallTypes, RelAttemptFailed
  <2> QED
    BY <2>1, <2>2, <2>3 DEF TypeOK
<1>37. ASSUME NEW r \in Neutralizers, RelClear(r) PROVE TypeOK'
  <2>1. HidTypes'
    BY <1>37 DEF TypeOK, HidTypes, RelClear
  <2>2. RelTypes'
    BY <1>37, FinishTypes DEF TypeOK, RelTypes, RelPcs, Results, RelClear
  <2>3. WriterTypes' /\ PionTypes' /\ CallTypes'
    BY <1>37 DEF TypeOK, WriterTypes, PionTypes, CallTypes, RelClear
  <2> QED
    BY <2>1, <2>2, <2>3 DEF TypeOK
<1>38. ASSUME NEW r \in Neutralizers, RelUnlock(r) PROVE TypeOK'
  <2>1. HidTypes'
    BY <1>38, CloseWithTypes DEF TypeOK, HidTypes, RelUnlock
  <2>2. RelTypes'
    BY <1>38 DEF TypeOK, RelTypes, RelPcs, Results, RelUnlock
  <2>3. WriterTypes' /\ PionTypes' /\ CallTypes'
    BY <1>38 DEF TypeOK, WriterTypes, PionTypes, CallTypes, RelUnlock
  <2> QED
    BY <2>1, <2>2, <2>3 DEF TypeOK
<1>39. ASSUME NEW r \in Privileged, RelContextEnds(r) PROVE TypeOK'
  <2>1. RelTypes'
    BY <1>39 DEF TypeOK, RelTypes, RelPcs, Results, RelContextEnds
  <2>2. HidTypes' /\ WriterTypes' /\ PionTypes' /\ CallTypes'
    BY <1>39 DEF TypeOK, HidTypes, WriterTypes, PionTypes, CallTypes, RelContextEnds
  <2> QED
    BY <2>1, <2>2 DEF TypeOK
<1>40. CASE UNCHANGED vars
  BY <1>40 DEF vars, TypeOK, HidTypes, WriterTypes, PionTypes, CallTypes, RelTypes
<1> QED
  BY <1>1, <1>2, <1>3, <1>4, <1>5, <1>6, <1>7, <1>8, <1>9, <1>10, <1>11, <1>12, <1>13,
     <1>14, <1>15, <1>16, <1>17, <1>18, <1>19, <1>20, <1>21, <1>22, <1>23, <1>24, <1>25,
     <1>26, <1>27, <1>28, <1>29, <1>30, <1>31, <1>32, <1>33, <1>34, <1>35, <1>36, <1>37,
     <1>38, <1>39, <1>40 DEF Next, Writer, Handshake, Pion, User, Release

\* The initial state of newHIDClient is well typed.
LEMMA TypeInit == Init => TypeOK
<1> SUFFICES ASSUME Init PROVE TypeOK
  OBVIOUS
<1>1. HidTypes
  BY DEF Init, HidTypes
<1>2. WriterTypes
  BY NoRequestType DEF Init, WriterTypes, WriterPcs
<1>3. PionTypes
  <2>1. wire \in Seq(Packet) /\ dev \in SUBSET Ifaces /\ devPos \in Positions \cup {None}
    BY DEF Init
  <2>2. lowEdge \in BOOLEAN /\ handshakeDone \in BOOLEAN
    BY Zenon DEF Init
  <2> QED
    BY <2>1, <2>2 DEF PionTypes
<1>4. CallTypes
  BY DEF Init, CallTypes, CallPcs, Results
<1>5. RelTypes
  BY DEF Init, RelTypes, RelPcs, Results
<1> QED
  BY <1>1, <1>2, <1>3, <1>4, <1>5 DEF TypeOK

\* Type correctness: in every reachable state every variable of the HID client has its
\* declared type, whatever the constants; in particular releaseAllLocked never indexes
\* past the reports of its plan.
THEOREM TypeCorrect == Spec => []TypeOK
  BY TypeInit, TypeStep, PTL DEF Spec

-----------------------------------------------------------------------------
(***************************************************************************)
(* The lifecycle gate and the lease slot.                                  *)
(***************************************************************************)

\* GateInv depends on three variables beyond the types.
LEMMA GateFrame ==
    ASSUME GateInv, TypeOK', UNCHANGED <<relPc, lifecycle, activeGen>>
    PROVE  GateInv'
  BY DEF GateInv, PhasesOK, GateOK, RevokedOK

\* Every step keeps the gate invariant; only these actions touch what it speaks of.
LEMMA GateStep == GateInv /\ [Next]_vars => GateInv'
<1> SUFFICES ASSUME GateInv, [Next]_vars PROVE GateInv'
  OBVIOUS
<1>1. TypeOK /\ TypeOK'
  BY TypeStep DEF GateInv
<1>2. CASE UNCHANGED <<relPc, lifecycle, activeGen>>
  BY <1>1, <1>2, GateFrame
<1> USE ConstantsAssumption
    DEF GateInv, PhasesOK, GateOK, RevokedOK, Gated, Revoked, TypeOK, HidTypes, RelTypes,
        ConstantsAssumption, Neutralizers, Privileged
<1>3. CASE HandshakeSend
  BY <1>1, <1>3 DEF HandshakeSend
<1>4. CASE HandshakeWritten
  BY <1>1, <1>4 DEF HandshakeWritten, hidVars
<1>5. CASE HandshakeReady
  BY <1>1, <1>5 DEF HandshakeReady
<1>6. CASE HandshakeFail
  BY <1>1, <1>6 DEF HandshakeFail, CloseWith, InvalidateLease
<1>7. CASE TransportDown
  BY <1>1, <1>7 DEF TransportDown, CloseWith, InvalidateLease, relVars
<1>8. ASSUME NEW c \in Callers, BeginLease(c) PROVE GateInv'
  BY <1>1, <1>8 DEF BeginLease, relVars
<1>9. ASSUME NEW c \in Callers, UserRelease(c) PROVE GateInv'
  BY <1>1, <1>9 DEF UserRelease, StartRelease, hidVars, relVars
<1>10. ASSUME NEW c \in Callers, Watchdog(c) PROVE GateInv'
  BY <1>1, <1>10 DEF Watchdog, StartRelease, hidVars
<1>11. ASSUME NEW c \in Callers, ReleaseReturn(c) PROVE GateInv'
  BY <1>1, <1>11 DEF ReleaseReturn, hidVars
<1>12. ASSUME NEW c \in Callers, FreeSlot(c) PROVE GateInv'
  BY <1>1, <1>12 DEF FreeSlot, hidVars
<1>13. ASSUME NEW k \in Closers, Close(k) PROVE GateInv'
  BY <1>1, <1>13 DEF Close, StartRelease, hidVars
<1>14. ASSUME NEW r \in Neutralizers, RelLock(r) PROVE GateInv'
  BY <1>1, <1>14 DEF RelLock, hidVars
<1>15. ASSUME NEW r \in Neutralizers, RelLockTimeout(r) PROVE GateInv'
  BY <1>1, <1>15 DEF RelLockTimeout, CloseWith, InvalidateLease, hidVars
<1>16. ASSUME NEW r \in Neutralizers, RelInvalidate(r) PROVE GateInv'
  BY <1>1, <1>16 DEF RelInvalidate, InvalidateLease, Finish
<1>17. ASSUME NEW r \in Neutralizers, RelEnqueue(r) PROVE GateInv'
  BY <1>1, <1>17 DEF RelEnqueue, hidVars
<1>18. ASSUME NEW r \in Neutralizers, RelWritten(r) PROVE GateInv'
  BY <1>1, <1>18 DEF RelWritten, hidVars
<1>19. ASSUME NEW r \in Neutralizers, RelDrainCheck(r) PROVE GateInv'
  BY <1>1, <1>19 DEF RelDrainCheck, hidVars
<1>20. ASSUME NEW r \in Neutralizers, RelDrainEdge(r) PROVE GateInv'
  BY <1>1, <1>20 DEF RelDrainEdge, hidVars
<1>21. ASSUME NEW r \in Neutralizers, RelDrainDown(r) PROVE GateInv'
  BY <1>1, <1>21 DEF RelDrainDown, hidVars
<1>22. ASSUME NEW r \in Neutralizers, RelAttemptFailed(r) PROVE GateInv'
  BY <1>1, <1>22 DEF RelAttemptFailed, AttemptFails, Finish, hidVars
<1>23. ASSUME NEW r \in Neutralizers, RelClear(r) PROVE GateInv'
  BY <1>1, <1>23 DEF RelClear, Finish
<1>24. ASSUME NEW r \in Neutralizers, RelUnlock(r) PROVE GateInv'
  BY <1>1, <1>24 DEF RelUnlock, CloseWith, InvalidateLease, hidVars
<1>25. ASSUME ~UNCHANGED <<relPc, lifecycle, activeGen>>
       PROVE  \/ Handshake \/ TransportDown
              \/ \E c \in Callers : \/ BeginLease(c) \/ UserRelease(c) \/ Watchdog(c)
                                    \/ ReleaseReturn(c) \/ FreeSlot(c)
              \/ \E k \in Closers : Close(k)
              \/ \E r \in Neutralizers : Release(r)
  BY <1>25
  DEF Next, vars, Writer, Pion, User, hidVars, relVars, WriterTakePriority, WriterTakeInput,
      WriterStop, WriterFinal, WriterSend, WriterSendError, WriterDrainCheck,
      WriterDrainEdge, WriterDrainEnd, Ack, AcquireSlot, AcquireFail, SendReport,
      ReleaseKeyboard, Submit, CallReturn, CallContextEnds, RelContextEnds
<1> QED
  BY <1>2, <1>3, <1>4, <1>5, <1>6, <1>7, <1>8, <1>9, <1>10, <1>11, <1>12, <1>13, <1>14,
     <1>15, <1>16, <1>17, <1>18, <1>19, <1>20, <1>21, <1>22, <1>23, <1>24, <1>25
  DEF Handshake, Release

\* The gate invariant holds initially.
LEMMA GateInit == Init => GateInv
  BY TypeInit, ConstantsAssumption
  DEF Init, GateInv, PhasesOK, GateOK, RevokedOK, Gated, Revoked, ConstantsAssumption,
      Neutralizers, Privileged

\* One lifecycle transaction at a time: the semaphore's owner is exactly the release
\* inside releaseAllLocked, and from the moment it revokes the lease until it unlocks no
\* generation is usable (hid.go:229-233).
THEOREM GateCorrect == Spec => []GateInv
  BY GateInit, GateStep, PTL DEF Spec

-----------------------------------------------------------------------------
\* SlotInv depends on six variables.
LEMMA SlotFrame ==
    ASSUME SlotInv, UNCHANGED <<slot, callPc, relPc, relDone, token, activeGen>>
    PROVE  SlotInv'
  BY DEF SlotInv, SlotOK, DoneOK, HolderOK, HasHandle

\* Every step keeps the slot invariant, given the gate.
LEMMA SlotStep == GateInv /\ GateInv' /\ SlotInv /\ [Next]_vars => SlotInv'
<1> SUFFICES ASSUME GateInv, GateInv', SlotInv, [Next]_vars PROVE SlotInv'
  OBVIOUS
<1>1. CASE UNCHANGED <<slot, callPc, relPc, relDone, token, activeGen>>
  BY <1>1, SlotFrame
<1> USE ConstantsAssumption
    DEF GateInv, PhasesOK, GateOK, RevokedOK, Gated, Revoked, SlotInv, SlotOK, DoneOK,
        HolderOK, HasHandle, TypeOK, HidTypes, RelTypes, CallTypes,
        ConstantsAssumption, Neutralizers, Privileged, hidVars, callVars, relVars
<1>2. CASE HandshakeSend
  BY <1>2 DEF HandshakeSend
<1>3. CASE HandshakeWritten
  BY <1>3 DEF HandshakeWritten
<1>4. CASE HandshakeReady
  BY <1>4 DEF HandshakeReady
<1>5. CASE HandshakeFail
  BY <1>5 DEF HandshakeFail, CloseWith, InvalidateLease
<1>6. CASE TransportDown
  BY <1>6 DEF TransportDown, CloseWith, InvalidateLease
<1>7. ASSUME NEW c \in Callers, AcquireSlot(c) PROVE SlotInv'
  BY <1>7 DEF AcquireSlot
<1>8. ASSUME NEW c \in Callers, BeginLease(c) PROVE SlotInv'
  BY <1>8 DEF BeginLease
<1>9. ASSUME NEW c \in Callers, AcquireFail(c) PROVE SlotInv'
  BY <1>9 DEF AcquireFail
<1>10. ASSUME NEW c \in Callers, SendReport(c) PROVE SlotInv'
  BY <1>10 DEF SendReport, Submit
<1>11. ASSUME NEW c \in Callers, ReleaseKeyboard(c) PROVE SlotInv'
  BY <1>11 DEF ReleaseKeyboard, Submit
<1>12. ASSUME NEW c \in Callers, CallReturn(c) PROVE SlotInv'
  BY <1>12 DEF CallReturn
<1>13. ASSUME NEW c \in Callers, UserRelease(c) PROVE SlotInv'
  BY <1>13 DEF UserRelease, StartRelease
<1>14. ASSUME NEW c \in Callers, Watchdog(c) PROVE SlotInv'
  BY <1>14 DEF Watchdog, HasLease, StartRelease
<1>15. ASSUME NEW c \in Callers, ReleaseReturn(c) PROVE SlotInv'
  BY <1>15 DEF ReleaseReturn
<1>16. ASSUME NEW c \in Callers, FreeSlot(c) PROVE SlotInv'
  BY <1>16 DEF FreeSlot
<1>17. ASSUME NEW k \in Closers, Close(k) PROVE SlotInv'
  BY <1>17 DEF Close, StartRelease
<1>18. ASSUME NEW r \in Neutralizers, RelLock(r) PROVE SlotInv'
  BY <1>18 DEF RelLock
<1>19. ASSUME NEW r \in Neutralizers, RelLockTimeout(r) PROVE SlotInv'
  BY <1>19 DEF RelLockTimeout, CloseWith, InvalidateLease
<1>20. ASSUME NEW r \in Neutralizers, RelInvalidate(r) PROVE SlotInv'
  BY <1>20 DEF RelInvalidate, InvalidateLease, Finish
<1>21. ASSUME NEW r \in Neutralizers, RelEnqueue(r) PROVE SlotInv'
  BY <1>21 DEF RelEnqueue
<1>22. ASSUME NEW r \in Neutralizers, RelWritten(r) PROVE SlotInv'
  BY <1>22 DEF RelWritten
<1>23. ASSUME NEW r \in Neutralizers, RelDrainCheck(r) PROVE SlotInv'
  BY <1>23 DEF RelDrainCheck
<1>24. ASSUME NEW r \in Neutralizers, RelDrainEdge(r) PROVE SlotInv'
  BY <1>24 DEF RelDrainEdge
<1>25. ASSUME NEW r \in Neutralizers, RelDrainDown(r) PROVE SlotInv'
  BY <1>25 DEF RelDrainDown
<1>26. ASSUME NEW r \in Neutralizers, RelAttemptFailed(r) PROVE SlotInv'
  BY <1>26 DEF RelAttemptFailed, AttemptFails, Finish
<1>27. ASSUME NEW r \in Neutralizers, RelClear(r) PROVE SlotInv'
  BY <1>27 DEF RelClear, Finish
<1>28. ASSUME NEW r \in Neutralizers, RelUnlock(r) PROVE SlotInv'
  BY <1>28 DEF RelUnlock, CloseWith, InvalidateLease
<1>29. ASSUME NEW r \in Privileged, RelContextEnds(r) PROVE SlotInv'
  BY <1>29 DEF RelContextEnds
<1>30. ASSUME ~UNCHANGED <<slot, callPc, relPc, relDone, token, activeGen>>
       PROVE  \/ Handshake \/ TransportDown
              \/ \E c \in Callers : User(c) /\ ~CallContextEnds(c)
              \/ \E k \in Closers : Close(k)
              \/ \E r \in Neutralizers : Release(r)
              \/ \E r \in Privileged : RelContextEnds(r)
  BY <1>30
  DEF Next, vars, Writer, Pion, WriterTakePriority, WriterTakeInput, WriterStop,
      WriterFinal, WriterSend, WriterSendError, WriterDrainCheck, WriterDrainEdge,
      WriterDrainEnd, Ack, CallContextEnds
<1> QED
  BY <1>1, <1>2, <1>3, <1>4, <1>5, <1>6, <1>7, <1>8, <1>9, <1>10, <1>11, <1>12, <1>13,
     <1>14, <1>15, <1>16, <1>17, <1>18, <1>19, <1>20, <1>21, <1>22, <1>23, <1>24, <1>25,
     <1>26, <1>27, <1>28, <1>29, <1>30
  DEF Handshake, User, Release

\* The slot invariant holds initially.
LEMMA SlotInit == Init => SlotInv
  BY ConstantsAssumption
  DEF Init, SlotInv, SlotOK, DoneOK, HolderOK, HasHandle, ConstantsAssumption, Neutralizers,
      Privileged

\* Freeing the slot never leaves a usable token behind (Held.Release, owner.go:212-223),
\* for any number of callers, releases and Close callers: the active generation is the
\* token of the slot's owner, also when a release gave up at the lifecycle gate.
THEOREM SlotCorrect == Spec => []SlotOwnsGeneration
<1>1. SlotInv => SlotOwnsGeneration
  BY DEF SlotInv, HolderOK, SlotOwnsGeneration
<1>2. SlotInv /\ GateInv /\ GateInv' /\ [Next]_vars => SlotInv'
  BY SlotStep
<1> QED
  BY <1>1, <1>2, SlotInit, GateCorrect, PTL DEF Spec

-----------------------------------------------------------------------------
\* A closed channel has no active generation.
ClosedInv == state = "closed" => activeGen = 0

\* Every step keeps it, and a closed channel closed.
LEMMA ClosedStep ==
    ASSUME GateInv, ClosedInv, [Next]_vars
    PROVE  ClosedInv' /\ (state = "closed" => state' = "closed" /\ activeGen' = 0)
<1> USE DEF ClosedInv, hidVars
<1>1. CASE UNCHANGED <<state, activeGen>>
  BY <1>1
<1>2. CASE HandshakeSend
  BY <1>2 DEF HandshakeSend
<1>3. CASE HandshakeReady
  BY <1>3 DEF HandshakeReady
<1>4. CASE CloseWith
  BY <1>4 DEF CloseWith, InvalidateLease
<1>5. ASSUME NEW c \in Callers, BeginLease(c) PROVE ClosedInv' /\ state # "closed"
  BY <1>5 DEF BeginLease
<1>6. ASSUME NEW r \in Neutralizers, RelInvalidate(r) PROVE activeGen' = 0 /\
      UNCHANGED state
  BY <1>6 DEF RelInvalidate, InvalidateLease
<1>7. ASSUME ~UNCHANGED <<state, activeGen>>
      PROVE  \/ HandshakeSend \/ HandshakeReady \/ CloseWith
             \/ \E c \in Callers : BeginLease(c)
             \/ \E r \in Neutralizers : RelInvalidate(r)
  BY <1>7
  DEF Next, vars, Writer, Handshake, Pion, User, Release, WriterTakePriority,
      WriterTakeInput, WriterStop, WriterFinal, WriterSend, WriterSendError,
      WriterDrainCheck, WriterDrainEdge, WriterDrainEnd, Ack, TransportDown,
      HandshakeWritten, HandshakeFail, AcquireSlot, AcquireFail, SendReport,
      ReleaseKeyboard, Submit, CallReturn, CallContextEnds, UserRelease, Watchdog,
      ReleaseReturn, FreeSlot, Close, RelContextEnds, RelLock, RelLockTimeout, RelEnqueue,
      RelWritten, RelDrainCheck, RelDrainEdge, RelDrainDown, RelAttemptFailed, RelClear,
      RelUnlock
<1> QED
  BY <1>1, <1>2, <1>3, <1>4, <1>5, <1>6, <1>7

\* closed is terminal (hid.go:36-39, closeWith 874-883): no interleaving of handshake,
\* teardown and lease operations revives the channel or activates a generation on it.
THEOREM ClosedCorrect == Spec => ClosedIsTerminal
<1>1. Init => ClosedInv
  BY DEF Init, ClosedInv
<1>2. GateInv /\ ClosedInv /\ [Next]_vars
          => ClosedInv' /\ [state = "closed" => state' = "closed" /\ activeGen' = 0]_vars
  BY ClosedStep
<1> QED
  BY <1>1, <1>2, GateCorrect, PTL DEF Spec, ClosedIsTerminal

-----------------------------------------------------------------------------
(***************************************************************************)
(* The queues between the goroutines and the writer.                       *)
(***************************************************************************)

\* complete writes the result of one waiting release, and of nobody else.
LEMMA Completed ==
    ASSUME TypeOK, NEW req \in Request, NEW res \in Results, Complete(req, res)
    PROVE  \A r \in Privileged :
              relRes'[r] = IF req.live /\ req.priv /\ r = req.who THEN res ELSE relRes[r]
  BY DEF TypeOK, RelTypes, Complete

\* Whoever waits in a queue, or is in the writer's hands, is a goroutine of the model.
LEMMA QueuedTypes ==
    ASSUME TypeOK
    PROVE  /\ Len(prioQ) \in Nat /\ Len(sendQ) \in Nat
           /\ \A n \in 1..Len(prioQ) : prioQ[n] \in Request /\ prioQ[n].who \in Privileged
           /\ \A n \in 1..Len(sendQ) : sendQ[n] \in Request
           /\ writerReq \in Request /\ writerReq.who \in Privileged
<1>1. \A q \in Request : q.who \in Privileged
  BY DEF Request
<1> QED
  BY <1>1, QueueElements DEF TypeOK, WriterTypes

\* The requests of p die, the others stay.
LEMMA Abandoned ==
    ASSUME TypeOK, NEW p, NEW b, Abandon(p, b)
    PROVE  /\ Len(sendQ') = Len(sendQ) /\ Len(prioQ') = Len(prioQ)
           /\ \A n \in 1..Len(prioQ) : prioQ'[n] = Kill(prioQ[n], p, b)
           /\ \A n \in 1..Len(sendQ) : sendQ'[n] = Kill(sendQ[n], p, b)
<1> DEFINE K(q) == [i \in DOMAIN q |-> Kill(q[i], p, b)]
<1>1. ASSUME NEW q \in Seq(Request)
      PROVE  Len(K(q)) = Len(q) /\ \A n \in 1..Len(q) : K(q)[n] = Kill(q[n], p, b)
  OBVIOUS
<1> QED
  BY <1>1 DEF TypeOK, WriterTypes, Abandon

\* Killing the privileged requests of p touches nothing but live.
LEMMA Killed ==
    ASSUME NEW req \in Request, NEW p
    PROVE  /\ Kill(req, p, TRUE).who = req.who
           /\ Kill(req, p, TRUE).priv = req.priv
           /\ Kill(req, p, TRUE).drain = req.drain
           /\ Kill(req, p, TRUE).frame = req.frame
           /\ Kill(req, p, TRUE).live => req.live
           /\ Kill(req, p, TRUE).live /\ req.priv => req.who # p
<1>1. CASE req.who = p /\ req.priv = TRUE
  BY <1>1 DEF Kill, Request
<1>2. CASE ~(req.who = p /\ req.priv = TRUE)
  <2>1. Kill(req, p, TRUE) = req
    BY <1>2 DEF Kill
  <2>2. req.priv => req.priv = TRUE
    BY DEF Request
  <2> QED
    BY <1>2, <2>1, <2>2
<1> QED
  BY <1>1, <1>2

\* Only r moves.
OnlyMoves(r) ==
    \A q \in Privileged \ {r} :
        /\ relPc'[q] = relPc[q] /\ relRes'[q] = relRes[q]
        /\ relIdx'[q] = relIdx[q] /\ relAbs'[q] = relAbs[q]

\* ... so what others wait for stays as it is.
LEMMA LivePrivKept ==
    ASSUME TypeOK, NEW r \in Privileged, OnlyMoves(r), NEW q \in Request,
           q.live => q.who # r, LivePriv(q)
    PROVE  LivePriv(q)'
<1>1. q.who \in Privileged
  BY DEF Request
<1> QED
  BY <1>1 DEF LivePriv, PlanFrame, OnlyMoves

\* A release that waits for nothing may move without touching the queues.
LEMMA IdleMove ==
    ASSUME TypeOK, PrioOK, InputsOK, HandOK, UniqueOK, NEW r \in Privileged, OnlyMoves(r),
           relPc[r] # "await" \/ relRes[r] # "none",
           UNCHANGED <<sendQ, prioQ, writerReq, writerPc>>
    PROVE  PrioOK' /\ InputsOK' /\ HandOK' /\ UniqueOK'
<1>1. InputsOK' /\ UniqueOK'
  BY DEF InputsOK, InputShape, UniqueOK
<1>2. PrioOK'
  <2> SUFFICES ASSUME NEW n \in 1..Len(prioQ) PROVE PrivShape(prioQ[n])'
    BY DEF PrioOK
  <2>1. PICK q \in Request : q = prioQ[n]
    BY QueuedTypes
  <2>2. PrivShape(q) /\ (q.live => q.who # r)
    BY <2>1 DEF PrioOK, PrivShape, LivePriv
  <2>3. LivePriv(q)'
    BY <2>2, LivePrivKept DEF PrivShape
  <2> QED
    BY <2>1, <2>2, <2>3 DEF PrivShape
<1>3. HandOK'
  BY QueuedTypes DEF HandOK, InputShape, PrivShape, LivePriv, PlanFrame, OnlyMoves
<1> QED
  BY <1>1, <1>2, <1>3

\* The writer finishes with the request in its hands.
LEMMA HandDone ==
    ASSUME TypeOK, PrioOK, InputsOK, HandOK, UniqueOK, ResultOK,
           NEW res \in Results, Complete(writerReq, res), Loop(prioQ),
           UNCHANGED <<sendQ, prioQ, relPc, relIdx, relAbs>>
    PROVE  PrioOK' /\ InputsOK' /\ HandOK' /\ UniqueOK' /\ ResultOK'
<1>0. \A r \in Privileged :
         relRes'[r] = IF writerReq.live /\ writerReq.priv /\ r = writerReq.who THEN res ELSE relRes[r]
  BY Completed, QueuedTypes
<1>1. InputsOK' 
  BY DEF InputsOK, InputShape
<1>2. PrioOK'
  BY <1>0, QueuedTypes DEF PrioOK, PrivShape, LivePriv, PlanFrame, UniqueOK
<1>3. HandOK' /\ UniqueOK'
  BY DEF HandOK, PrivShape, LivePriv, UniqueOK, Loop, NoRequest, NoFrame
<1>4. ResultOK'
  BY <1>0, ConstantsAssumption DEF ResultOK, HandOK, PrivShape, InputShape, LivePriv, ConstantsAssumption, Privileged
<1> QED
  BY <1>1, <1>2, <1>3, <1>4

\* ... or goes on working on it.
LEMMA HandKept ==
    ASSUME PrioOK, InputsOK, HandOK, UniqueOK, ResultOK, writerPc' \notin {"select", "priority", "done"},
           UNCHANGED <<sendQ, prioQ, writerReq, relPc, relRes, relIdx, relAbs>>
    PROVE  PrioOK' /\ InputsOK' /\ HandOK' /\ UniqueOK' /\ ResultOK'
  BY DEF PrioOK, InputsOK, HandOK, UniqueOK, ResultOK, PrivShape, InputShape, LivePriv, PlanFrame

\* A release, or the handshake, hands its next report to the writer.
LEMMA Enqueued ==
    ASSUME TypeOK, PrioOK, InputsOK, HandOK, UniqueOK, NEW r \in Privileged, OnlyMoves(r),
           relPc[r] # "await", relPc'[r] = "await", relRes'[r] = "none", relRes[r] = "none",
           relIdx'[r] = relIdx[r], relAbs'[r] = relAbs[r],
           prioQ' = Append(prioQ, PrivRequest(r, relIdx[r])),
           UNCHANGED <<sendQ, writerReq, writerPc>>
    PROVE  PrioOK' /\ InputsOK' /\ HandOK' /\ UniqueOK'
<1> DEFINE e == PrivRequest(r, relIdx[r])
<1>1. /\ Len(prioQ') = Len(prioQ) + 1 /\ Len(prioQ) \in Nat
      /\ prioQ'[Len(prioQ) + 1] = e
      /\ \A n \in 1..Len(prioQ) : prioQ'[n] = prioQ[n]
  BY PrivRequestType, Appended DEF TypeOK, WriterTypes, RelTypes
<1>2. e.who = r /\ e.priv /\ ~e.drain /\ e.live /\ e.frame = PlanFrame(r, relIdx[r]) /\ ~e.frame.hold
  BY DEF PrivRequest, PlanFrame, NoFrame
<1>3. \A n \in 1..Len(prioQ) : prioQ[n].live => prioQ[n].who # r
  BY DEF PrioOK, PrivShape, LivePriv
<1>4. InputsOK'
  BY DEF InputsOK, InputShape
<1>5. HandOK'
  BY QueuedTypes DEF HandOK, InputShape, PrivShape, LivePriv, PlanFrame, OnlyMoves
<1>6. UniqueOK'
  BY <1>1, <1>2, <1>3 DEF UniqueOK, HandOK, PrivShape, InputShape, LivePriv
<1>7. PrioOK'
  <2> SUFFICES ASSUME NEW n \in 1..Len(prioQ') PROVE PrivShape(prioQ[n])'
    BY DEF PrioOK
  <2>1. CASE n = Len(prioQ) + 1
    <3>1. PICK q : q = e /\ q = prioQ'[n]
      BY <1>1, <2>1
    <3>2. LivePriv(q)'
      BY <1>2, <3>1 DEF LivePriv, PlanFrame
    <3> QED
      BY <1>2, <3>1, <3>2 DEF PrivShape
  <2>2. CASE n \in 1..Len(prioQ)
    <3>1. PICK q \in Request : q = prioQ[n] /\ q = prioQ'[n]
      BY <1>1, <2>2, QueuedTypes
    <3>2. PrivShape(q) /\ (q.live => q.who # r)
      BY <1>3, <2>2, <3>1 DEF PrioOK
    <3>3. LivePriv(q)'
      BY <3>2, LivePrivKept DEF PrivShape
    <3> QED
      BY <3>1, <3>2, <3>3 DEF PrivShape
  <2> QED
    BY <1>1, <2>1, <2>2
<1> QED
  BY <1>4, <1>5, <1>6, <1>7

\* A release, or the handshake, walks away from its request.
LEMMA LeftBehind ==
    ASSUME TypeOK, PrioOK, InputsOK, HandOK, UniqueOK, NEW r \in Privileged, OnlyMoves(r),
           Abandon(r, TRUE)
    PROVE  PrioOK' /\ InputsOK' /\ HandOK' /\ UniqueOK'
<1>1. /\ \A n \in 1..Len(prioQ) : prioQ'[n] = Kill(prioQ[n], r, TRUE)
      /\ \A n \in 1..Len(sendQ) : sendQ'[n] = Kill(sendQ[n], r, TRUE)
      /\ writerReq' = Kill(writerReq, r, TRUE)
      /\ Len(prioQ') = Len(prioQ) /\ Len(sendQ') = Len(sendQ) /\ writerPc' = writerPc
  BY Abandoned DEF Abandon
<1>2. \A n \in 1..Len(prioQ) :
         /\ prioQ'[n].who = prioQ[n].who /\ prioQ'[n].priv = prioQ[n].priv
         /\ prioQ'[n].drain = prioQ[n].drain /\ prioQ'[n].frame = prioQ[n].frame
         /\ prioQ'[n].live => prioQ[n].live
         /\ prioQ'[n].live /\ prioQ[n].priv => prioQ[n].who # r
  <2> TAKE n \in 1..Len(prioQ)
  <2>1. PICK q \in Request : q = prioQ[n]
    BY QueuedTypes
  <2>2. prioQ'[n] = Kill(q, r, TRUE)
    BY <1>1, <2>1
  <2>3. PICK k : k = Kill(q, r, TRUE)
    OBVIOUS
  <2>4. /\ k.who = q.who /\ k.priv = q.priv /\ k.drain = q.drain /\ k.frame = q.frame
        /\ (k.live => q.live) /\ (k.live /\ q.priv => q.who # r)
    BY <2>3, Killed
  <2>5. k = prioQ'[n]
    BY <2>2, <2>3
  <2> QED
    BY <2>1, <2>4, <2>5
<1>3. \A n \in 1..Len(sendQ) :
         /\ sendQ'[n].who = sendQ[n].who /\ sendQ'[n].priv = sendQ[n].priv
         /\ sendQ'[n].frame = sendQ[n].frame
  <2> TAKE n \in 1..Len(sendQ)
  <2>1. PICK q \in Request : q = sendQ[n]
    BY QueuedTypes
  <2>2. sendQ'[n] = Kill(q, r, TRUE)
    BY <1>1, <2>1
  <2>3. PICK k : k = Kill(q, r, TRUE)
    OBVIOUS
  <2>4. /\ k.who = q.who /\ k.priv = q.priv /\ k.drain = q.drain /\ k.frame = q.frame
        /\ (k.live => q.live) /\ (k.live /\ q.priv => q.who # r)
    BY <2>3, Killed
  <2>5. k = sendQ'[n]
    BY <2>2, <2>3
  <2> QED
    BY <2>1, <2>4, <2>5
<1>4. /\ writerReq'.who = writerReq.who /\ writerReq'.priv = writerReq.priv
      /\ writerReq'.drain = writerReq.drain /\ writerReq'.frame = writerReq.frame
      /\ writerReq'.live => writerReq.live
      /\ writerReq'.live /\ writerReq.priv => writerReq.who # r
  BY <1>1, Killed, QueuedTypes
<1>5. InputsOK'
  BY <1>1, <1>3 DEF InputsOK, InputShape
<1>6. PrioOK'
  <2> SUFFICES ASSUME NEW n \in 1..Len(prioQ) PROVE PrivShape(prioQ[n])'
    BY <1>1 DEF PrioOK
  <2>1. PICK q \in Request : q = prioQ'[n]
    BY <1>1, KillType, QueuedTypes
  <2>2. PrivShape(q) /\ (q.live => q.who # r)
    BY <1>2, <2>1 DEF PrioOK, PrivShape, LivePriv
  <2>3. LivePriv(q)'
    BY <2>2, LivePrivKept DEF PrivShape
  <2> QED
    BY <2>1, <2>2, <2>3 DEF PrivShape
<1>7. HandOK'
  <2>1. PICK q \in Request : q = writerReq'
    BY <1>1, KillType, QueuedTypes
  <2>2. CASE InputShape(writerReq)
    BY <1>1, <1>4, <2>2 DEF HandOK, InputShape
  <2>3. CASE PrivShape(writerReq)
    <3>1. PrivShape(q) /\ (q.live => q.who # r)
      BY <1>4, <2>1, <2>3 DEF PrivShape, LivePriv
    <3>2. LivePriv(q)'
      BY <3>1, LivePrivKept DEF PrivShape
    <3> QED
      BY <1>1, <1>4, <2>1, <3>1, <3>2 DEF PrivShape, HandOK
  <2> QED
    BY <2>2, <2>3 DEF HandOK
<1>8. UniqueOK'
  BY <1>1, <1>2, <1>4 DEF UniqueOK
<1> QED
  BY <1>5, <1>6, <1>7, <1>8


\* A user walks away from its frame: nothing privileged is touched.
LEMMA CallLeft ==
    ASSUME TypeOK, PrioOK, InputsOK, HandOK, UniqueOK, NEW c \in Callers, Abandon(c, FALSE),
           UNCHANGED <<relPc, relRes, relIdx, relAbs>>
    PROVE  PrioOK' /\ InputsOK' /\ HandOK' /\ UniqueOK'
<1>1. ASSUME NEW q \in Request, q.priv PROVE Kill(q, c, FALSE) = q
  BY <1>1 DEF Kill, Request
<1>2. ASSUME NEW q \in Request, NEW k, k = Kill(q, c, FALSE), InputShape(q)
      PROVE  InputShape(k) /\ (k.live => q.live) /\ ~k.priv
  BY <1>2 DEF Kill, Request, InputShape
<1>3. prioQ' = prioQ
  <2>1. \A n \in 1..Len(prioQ) : Kill(prioQ[n], c, FALSE) = prioQ[n]
    BY <1>1, QueuedTypes DEF PrioOK, PrivShape
  <2>2. prioQ' \in Seq(Request) /\ prioQ \in Seq(Request)
    BY AbandonTypes DEF TypeOK, WriterTypes
  <2>3. Len(prioQ') = Len(prioQ) /\ \A n \in 1..Len(prioQ) : prioQ'[n] = prioQ[n]
    BY <2>1, Abandoned
  <2> QED
    BY <2>2, <2>3
<1>4. InputsOK'
  <2> SUFFICES ASSUME NEW n \in 1..Len(sendQ) PROVE InputShape(sendQ[n])'
    BY Abandoned DEF InputsOK
  <2>1. PICK q \in Request : q = sendQ[n]
    BY QueuedTypes
  <2>2. PICK k : k = Kill(q, c, FALSE)
    OBVIOUS
  <2>3. k = sendQ'[n]
    BY <2>1, <2>2, Abandoned
  <2> QED
    BY <1>2, <2>1, <2>2, <2>3 DEF InputsOK, InputShape
<1>5. HandOK' /\ (writerReq'.priv => writerReq' = writerReq)
  <2>1. PICK q \in Request, k \in Request : q = writerReq /\ k = Kill(q, c, FALSE) /\ k = writerReq'
    BY QueuedTypes, KillType DEF Abandon
  <2>2. CASE PrivShape(writerReq)
    BY <1>1, <2>1, <2>2 DEF Abandon, HandOK, PrivShape, LivePriv, PlanFrame
  <2>3. CASE InputShape(writerReq)
    BY <1>2, <2>1, <2>3 DEF Abandon, HandOK, InputShape
  <2> QED
    BY <2>2, <2>3 DEF HandOK
<1>6. PrioOK' /\ UniqueOK'
  BY <1>3, <1>5 DEF PrioOK, UniqueOK, PrivShape, LivePriv, PlanFrame
<1> QED
  BY <1>4, <1>5, <1>6

\* The writer takes a request from the priority queue.
LEMMA TookPriority ==
    ASSUME TypeOK, PrioOK, InputsOK, HandOK, UniqueOK, ResultOK, prioQ # <<>>,
           ~writerReq.live, prioQ' = Tail(prioQ), Take(Head(prioQ), Tail(prioQ)),
           UNCHANGED <<sendQ, relPc, relIdx, relAbs>>
    PROVE  PrioOK' /\ InputsOK' /\ HandOK' /\ UniqueOK' /\ ResultOK'
<1>1. PICK h \in Request : h = Head(prioQ) /\ h = prioQ[1]
  BY QueueElements DEF TypeOK, WriterTypes
<1>2. /\ Len(prioQ) \in Nat \ {0} /\ Len(prioQ') = Len(prioQ) - 1
      /\ \A n \in 1..Len(prioQ') : prioQ'[n] = prioQ[n + 1] /\ n + 1 \in 1..Len(prioQ)
  BY QueueElements DEF TypeOK, WriterTypes
<1>3. PrivShape(h) /\ h.who \in Privileged
  BY <1>1, <1>2, QueuedTypes DEF PrioOK
<1>4. \A n \in 1..Len(prioQ') : prioQ'[n].live => prioQ'[n].who # h.who \/ ~h.live
  BY <1>1, <1>2 DEF UniqueOK
<1>5. InputsOK'
  BY DEF InputsOK, InputShape
<1>6. CASE ContextErr(h) \/ ~Writable(h) \/ BufferFull(h)
  <2>1. PICK res \in Results : Complete(h, res) /\ Loop(prioQ')
    BY <1>1, <1>6 DEF Take, Results
  <2>2. \A r \in Privileged : relRes'[r] = IF h.live /\ r = h.who THEN res ELSE relRes[r]
    BY <1>3, <2>1, Completed DEF PrivShape
  <2>3. PrioOK'
    <3> SUFFICES ASSUME NEW n \in 1..Len(prioQ') PROVE PrivShape(prioQ[n])'
      BY DEF PrioOK
    <3>1. PICK q \in Request : q = prioQ'[n] /\ q = prioQ[n + 1]
      BY <1>2, QueuedTypes
    <3>2. PrivShape(q) /\ q.who \in Privileged /\ (q.live => relRes'[q.who] = relRes[q.who])
      BY <1>2, <1>4, <2>2, <3>1, QueuedTypes DEF PrioOK
    <3>3. LivePriv(q)'
      BY <3>2 DEF PrivShape, LivePriv, PlanFrame
    <3> QED
      BY <3>1, <3>2, <3>3 DEF PrivShape
  <2>4. HandOK' /\ UniqueOK'
    BY <1>2, <2>1 DEF HandOK, PrivShape, LivePriv, UniqueOK, Loop, NoRequest, NoFrame
  <2>5. ResultOK'
    BY <1>3, <2>2, ConstantsAssumption DEF ResultOK, PrivShape, LivePriv, ConstantsAssumption, Privileged
  <2> QED
    BY <1>5, <2>3, <2>4, <2>5
<1>7. CASE ~(ContextErr(h) \/ ~Writable(h) \/ BufferFull(h))
  <2>1. writerPc' = "final" /\ writerReq' = h /\ UNCHANGED relRes
    BY <1>1, <1>7 DEF Take
  <2>2. PrioOK'
    <3> SUFFICES ASSUME NEW n \in 1..Len(prioQ') PROVE PrivShape(prioQ[n])'
      BY DEF PrioOK
    <3>1. PICK q \in Request : q = prioQ'[n] /\ q = prioQ[n + 1]
      BY <1>2, QueuedTypes
    <3>2. PrivShape(q)
      BY <1>2, <3>1 DEF PrioOK
    <3>3. LivePriv(q)'
      BY <2>1, <3>2 DEF PrivShape, LivePriv, PlanFrame
    <3> QED
      BY <3>1, <3>2, <3>3 DEF PrivShape
  <2>3. HandOK'
    BY <1>3, <2>1 DEF HandOK, PrivShape, LivePriv, PlanFrame
  <2>4. UniqueOK'
    BY <1>2, <1>4, <2>1 DEF UniqueOK
  <2>5. ResultOK'
    BY <2>1 DEF ResultOK
  <2> QED
    BY <1>5, <2>2, <2>3, <2>4, <2>5
<1> QED
  BY <1>6, <1>7

\* The writer takes a request from the input queue.
LEMMA TookInput ==
    ASSUME TypeOK, PrioOK, InputsOK, HandOK, UniqueOK, ResultOK, sendQ # <<>>,
           sendQ' = Tail(sendQ), Take(Head(sendQ), prioQ),
           UNCHANGED <<prioQ, relPc, relIdx, relAbs>>
    PROVE  PrioOK' /\ InputsOK' /\ HandOK' /\ UniqueOK' /\ ResultOK'
<1>1. PICK h \in Request : h = Head(sendQ) /\ h = sendQ[1]
  BY QueueElements DEF TypeOK, WriterTypes
<1>2. /\ Len(sendQ) \in Nat \ {0} /\ Len(sendQ') = Len(sendQ) - 1
      /\ \A n \in 1..Len(sendQ') : sendQ'[n] = sendQ[n + 1] /\ n + 1 \in 1..Len(sendQ)
  BY QueueElements DEF TypeOK, WriterTypes
<1>3. InputShape(h)
  BY <1>1, <1>2 DEF InputsOK
<1>4. InputsOK'
  BY <1>2 DEF InputsOK, InputShape
<1>5. relRes' = relRes
  BY <1>1, <1>3 DEF Take, Complete, InputShape
<1>6. PrioOK' /\ ResultOK'
  BY <1>5 DEF PrioOK, PrivShape, LivePriv, PlanFrame, ResultOK
<1>7. CASE ContextErr(h) \/ ~Writable(h) \/ BufferFull(h)
  BY <1>1, <1>4, <1>6, <1>7
  DEF Take, HandOK, PrivShape, LivePriv, UniqueOK, Loop, NoRequest, NoFrame
<1>8. CASE ~(ContextErr(h) \/ ~Writable(h) \/ BufferFull(h))
  BY <1>1, <1>3, <1>4, <1>6, <1>8 DEF Take, HandOK, InputShape, UniqueOK
<1> QED
  BY <1>7, <1>8

-----------------------------------------------------------------------------
\* Every step keeps what is said of the two queues, of the request in the writer's
\* hands and of the results: one case per action.
LEMMA QueueStep ==
    GateInv /\ QueueInv /\ [Next]_vars => PrioOK' /\ InputsOK' /\ HandOK' /\ UniqueOK' /\ ResultOK'
<1> DEFINE Goal == PrioOK' /\ InputsOK' /\ HandOK' /\ UniqueOK' /\ ResultOK'
<1> SUFFICES ASSUME TypeOK, PhasesOK, PrioOK, InputsOK, HandOK, UniqueOK, ResultOK, [Next]_vars
             PROVE  Goal
  BY DEF GateInv, QueueInv
<1>0. Conn \in Privileged /\ Conn \notin Neutralizers /\ Neutralizers \subseteq Privileged
      /\ Callers \subseteq Neutralizers /\ Closers \subseteq Neutralizers
  BY ConstantsAssumption DEF ConstantsAssumption, Neutralizers, Privileged
<1>1. CASE UNCHANGED <<sendQ, prioQ, writerReq, writerPc, relPc, relRes, relIdx, relAbs>>
  BY <1>1 DEF PrioOK, InputsOK, HandOK, UniqueOK, ResultOK, PrivShape, InputShape, LivePriv,
     PlanFrame
<1>2. CASE WriterTakePriority
  BY <1>2, TookPriority DEF WriterTakePriority, HandOK
<1>3. CASE WriterTakeInput
  BY <1>3, TookInput DEF WriterTakeInput
<1>4. CASE WriterStop
  <2>1. PrioOK' /\ InputsOK' /\ UniqueOK' /\ HandOK'
    BY <1>4 DEF WriterStop, PrioOK, InputsOK, UniqueOK, HandOK, PrivShape, InputShape, LivePriv
  <2>2. ASSUME NEW r \in Privileged, relPc[r] # "await" PROVE relRes'[r] = relRes[r]
    BY <1>4, <2>2, QueueElements
    DEF WriterStop, LiveIn, PrioOK, PrivShape, LivePriv, TypeOK, WriterTypes
  <2> QED
    BY <1>0, <1>4, <2>1, <2>2 DEF ResultOK, WriterStop
<1>5. CASE WriterFinal
  BY <1>5, HandKept, HandDone DEF WriterFinal, queueVars, Results
<1>6. CASE WriterSend
  BY <1>6, HandKept, HandDone DEF WriterSend, queueVars, Results
<1>7. CASE WriterSendError
  BY <1>7, HandDone DEF WriterSendError, queueVars, Results
<1>8. CASE WriterDrainCheck
  BY <1>8, HandKept, HandDone DEF WriterDrainCheck, queueVars, Results
<1>9. CASE WriterDrainEdge
  BY <1>9, HandKept DEF WriterDrainEdge, queueVars, relVars
<1>10. CASE WriterDrainEnd
  BY <1>10, HandDone DEF WriterDrainEnd, queueVars, Results
<1>11. CASE HandshakeSend
  <2>1. PrivRequest(Conn, 1) = PrivRequest(Conn, relIdx[Conn])
    BY DEF PrivRequest, PlanFrame
  <2>2. OnlyMoves(Conn) /\ relPc'[Conn] = "await"
    BY <1>0, <1>11 DEF HandshakeSend, OnlyMoves, TypeOK, RelTypes
  <2>3. relPc[Conn] # "await" /\ relRes[Conn] = "none"
    BY <1>11 DEF HandshakeSend, ResultOK
  <2>4. PrioOK' /\ InputsOK' /\ HandOK' /\ UniqueOK'
    BY <1>0, <1>11, <2>1, <2>2, <2>3, Enqueued DEF HandshakeSend, writeVars
  <2>5. ResultOK'
    BY <1>0, <1>11, <2>2 DEF HandshakeSend, ResultOK, OnlyMoves
  <2> QED
    BY <2>4, <2>5
<1>12. CASE HandshakeWritten \/ HandshakeReady
  <2>1. OnlyMoves(Conn) /\ UNCHANGED <<sendQ, prioQ, writerReq, writerPc>>
    BY <1>0, <1>12 DEF HandshakeWritten, HandshakeReady, OnlyMoves, TypeOK, RelTypes, queueVars, writeVars
  <2>2. /\ relPc[Conn] # "await" \/ relRes[Conn] # "none"
        /\ relPc'[Conn] # "idle"
    BY <1>0, <1>12 DEF HandshakeWritten, HandshakeReady, TypeOK, RelTypes
  <2>3. PrioOK' /\ InputsOK' /\ HandOK' /\ UniqueOK'
    BY <1>0, <2>1, <2>2, IdleMove
  <2>4. ResultOK'
    BY <1>0, <2>1, <2>2 DEF ResultOK, OnlyMoves
  <2> QED
    BY <2>3, <2>4
<1>13. CASE HandshakeFail
  <2>1. OnlyMoves(Conn) /\ relPc'[Conn] # "idle"
    BY <1>0, <1>13 DEF HandshakeFail, OnlyMoves, TypeOK, RelTypes
  <2> QED
    BY <1>0, <1>13, <2>1, LeftBehind DEF HandshakeFail, ResultOK, OnlyMoves
<1>14. ASSUME NEW c \in Callers, SendReport(c) \/ ReleaseKeyboard(c) PROVE Goal
  <2>1. PICK f \in Frame, d \in BOOLEAN : Submit(c, f, d) /\ f.ifc \in Ifaces /\ (f.ifc = "absolute" => f.pos # None)
    BY <1>14, ReportTypes, ConstantsAssumption
    DEF SendReport, ReleaseKeyboard, KeyboardRelease, ConstantsAssumption, InputFrame, Ifaces
  <2> DEFINE e == [who |-> c, token |-> token[c], priv |-> FALSE, drain |-> d, live |-> TRUE, frame |-> f]
  <2>2. e \in Request /\ InputShape(e)
    BY <1>0, <2>1 DEF Request, InputShape, TypeOK, CallTypes
  <2>3. sendQ' = Append(sendQ, e)
    BY <2>1 DEF Submit
  <2> HIDE DEF e
  <2>4. InputsOK'
    BY <2>2, <2>3, Appended DEF InputsOK, InputShape, TypeOK, WriterTypes
  <2>5. PrioOK' /\ HandOK' /\ UniqueOK' /\ ResultOK'
    BY <2>1 DEF Submit, PrioOK, HandOK, UniqueOK, ResultOK, PrivShape, InputShape, LivePriv,
       PlanFrame, writeVars, relVars
  <2> QED
    BY <2>4, <2>5
<1>15. ASSUME NEW c \in Callers, CallReturn(c) PROVE Goal
  BY <1>15, CallLeft DEF CallReturn, relVars, ResultOK
<1>16. ASSUME NEW r \in Neutralizers, OnlyMoves(r), relPc[r] # "await",
              relPc'[r] # "await" /\ relRes'[r] = "none",
              UNCHANGED <<sendQ, prioQ, writerReq, writerPc>>
       PROVE  Goal
  BY <1>0, <1>16, IdleMove DEF ResultOK, OnlyMoves
<1>17. ASSUME NEW r \in Neutralizers, StartRelease(r), UNCHANGED <<sendQ, prioQ, writerReq, writerPc>> PROVE Goal
  <2>1. OnlyMoves(r) /\ relPc[r] = "idle" /\ relPc'[r] = "lock"
    BY <1>0, <1>17 DEF StartRelease, OnlyMoves, TypeOK, RelTypes
  <2> QED
    BY <1>16, <1>17, <2>1 DEF StartRelease, ResultOK
<1>18. ASSUME NEW c \in Callers, UserRelease(c) \/ Watchdog(c) PROVE Goal
  BY <1>0, <1>1, <1>17, <1>18 DEF UserRelease, Watchdog, queueVars, writeVars, relVars
<1>19. ASSUME NEW k \in Closers, Close(k) PROVE Goal
  BY <1>0, <1>17, <1>19 DEF Close, queueVars, writeVars
<1>20. ASSUME NEW c \in Callers, ReleaseReturn(c) \/ FreeSlot(c) PROVE Goal
  <2>1. OnlyMoves(c) /\ relPc[c] \in {"done", "free"} /\ relPc'[c] \in {"idle", "done"}
    BY <1>0, <1>20 DEF ReleaseReturn, FreeSlot, OnlyMoves, TypeOK, RelTypes
  <2> QED
    BY <1>0, <1>16, <1>20, <2>1 DEF ReleaseReturn, FreeSlot, ResultOK, queueVars, writeVars
<1>21. ASSUME NEW r \in Neutralizers,
              \/ RelLock(r) \/ RelLockTimeout(r) \/ RelUnlock(r)
              \/ RelDrainCheck(r) \/ RelDrainEdge(r) \/ RelDrainDown(r)
       PROVE  Goal
  <2>1. OnlyMoves(r) /\ relPc[r] # "await" /\ relPc'[r] # "await"
    BY <1>0, <1>21
    DEF RelLock, RelLockTimeout, RelUnlock, RelDrainCheck, RelDrainEdge, RelDrainDown, OnlyMoves, TypeOK, RelTypes
  <2>2. UNCHANGED <<sendQ, prioQ, writerReq, writerPc, relRes>>
    BY <1>21
    DEF RelLock, RelLockTimeout, RelUnlock, RelDrainCheck, RelDrainEdge, RelDrainDown, queueVars, writeVars
  <2> QED
    BY <1>16, <2>1, <2>2 DEF ResultOK
<1>22. ASSUME NEW r \in Neutralizers, RelInvalidate(r) \/ RelClear(r) PROVE Goal
  <2>1. OnlyMoves(r) /\ relPc[r] # "await" /\ relPc'[r] # "await"
    BY <1>0, <1>22 DEF RelInvalidate, RelClear, Finish, OnlyMoves, TypeOK, RelTypes
  <2>2. relRes'[r] = "none" /\ UNCHANGED <<sendQ, prioQ, writerReq, writerPc>>
    BY <1>0, <1>22
    DEF RelInvalidate, RelClear, Finish, ResultOK, TypeOK, RelTypes, queueVars, writeVars
  <2> QED
    BY <1>16, <2>1, <2>2
<1>23. ASSUME NEW r \in Neutralizers, RelEnqueue(r) PROVE Goal
  <2>1. OnlyMoves(r) /\ relPc[r] = "enqueue" /\ relPc'[r] = "await" /\ relRes[r] = "none"
    BY <1>0, <1>23 DEF RelEnqueue, OnlyMoves, TypeOK, RelTypes, ResultOK
  <2>2. PrioOK' /\ InputsOK' /\ HandOK' /\ UniqueOK'
    BY <1>0, <1>23, <2>1, Enqueued DEF RelEnqueue, writeVars
  <2>3. ResultOK'
    BY <1>0, <1>23, <2>1 DEF RelEnqueue, ResultOK, OnlyMoves
  <2> QED
    BY <2>2, <2>3
<1>24. ASSUME NEW r \in Neutralizers, RelWritten(r) PROVE Goal
  <2>1. OnlyMoves(r) /\ relRes[r] = "ok" /\ relRes'[r] = "none"
    BY <1>0, <1>24 DEF RelWritten, OnlyMoves, TypeOK, RelTypes
  <2>2. PrioOK' /\ InputsOK' /\ HandOK' /\ UniqueOK'
    BY <1>0, <1>24, <2>1, IdleMove DEF RelWritten, queueVars, writeVars
  <2>3. ResultOK'
    BY <1>0, <2>1 DEF ResultOK, OnlyMoves
  <2> QED
    BY <2>2, <2>3
<1>25. ASSUME NEW r \in Neutralizers, RelAttemptFailed(r) PROVE Goal
  <2>1. OnlyMoves(r) /\ relRes'[r] = "none"
    BY <1>0, <1>25 DEF RelAttemptFailed, Finish, OnlyMoves, TypeOK, RelTypes
  <2>2. PrioOK' /\ InputsOK' /\ HandOK' /\ UniqueOK'
    BY <1>0, <1>25, <2>1, LeftBehind DEF RelAttemptFailed
  <2>3. ResultOK'
    BY <1>0, <2>1 DEF ResultOK, OnlyMoves
  <2> QED
    BY <2>2, <2>3
<1>26. CASE \/ Ack \/ TransportDown \/ \E c \in Callers : AcquireSlot(c) \/ BeginLease(c) \/ AcquireFail(c) \/ CallContextEnds(c)
            \/ \E r \in Privileged : RelContextEnds(r)
  BY <1>1, <1>26
  DEF Ack, TransportDown, AcquireSlot, BeginLease, AcquireFail, CallContextEnds, RelContextEnds,
      queueVars, writeVars, relVars
<1>27. CASE UNCHANGED vars
  BY <1>1, <1>27 DEF vars, queueVars, writeVars, relVars
<1> QED
  BY <1>2, <1>3, <1>4, <1>5, <1>6, <1>7, <1>8, <1>9, <1>10, <1>11, <1>12, <1>13, <1>14, <1>15,
     <1>18, <1>19, <1>20, <1>21, <1>22, <1>23, <1>24, <1>25, <1>26, <1>27
  DEF Next, Writer, Handshake, Pion, User, Release

\* The place in the plan: releaseAllLocked starts each attempt at the first report
\* and never asks for one the plan does not have.
LEMMA IndexStep == GateInv /\ IndexOK /\ [Next]_vars => IndexOK'
<1> SUFFICES ASSUME TypeOK, PhasesOK, IndexOK, [Next]_vars, NEW q \in Neutralizers
             PROVE  /\ relPc'[q] \notin Planning => relIdx'[q] = 1
                    /\ relPc'[q] \in {"enqueue", "await"} => relIdx'[q] <= PlanLen(q)'
  BY DEF GateInv, IndexOK
<1> DEFINE Goal == /\ relPc'[q] \notin Planning => relIdx'[q] = 1
                   /\ relPc'[q] \in {"enqueue", "await"} => relIdx'[q] <= PlanLen(q)'
<1>0. q \in Privileged /\ q # Conn /\ Neutralizers \subseteq Privileged /\ Conn \in Privileged
      /\ Callers \subseteq Privileged /\ Closers \subseteq Privileged
  BY ConstantsAssumption DEF ConstantsAssumption, Neutralizers, Privileged
<1>1. /\ relPc[q] \notin Planning => relIdx[q] = 1
      /\ relPc[q] \in {"enqueue", "await"} => relIdx[q] <= PlanLen(q)
  BY DEF IndexOK
<1>2. CASE relPc'[q] = relPc[q] /\ relIdx'[q] = relIdx[q] /\ relAbs'[q] = relAbs[q]
  BY <1>1, <1>2 DEF PlanLen
<1>3. CASE UNCHANGED <<relPc, relIdx, relAbs>>
  BY <1>2, <1>3
<1>4. CASE Writer \/ Pion \/ UNCHANGED vars
  BY <1>3, <1>4
  DEF Writer, WriterTakePriority, WriterTakeInput, WriterStop, WriterFinal, WriterSend,
      WriterSendError, WriterDrainCheck, WriterDrainEdge, WriterDrainEnd,
      Pion, Ack, TransportDown, vars, relVars
<1>5. CASE Handshake
  <2>1. UNCHANGED <<relIdx, relAbs>> /\ relPc'[q] = relPc[q]
    BY <1>0, <1>5
    DEF Handshake, HandshakeSend, HandshakeWritten, HandshakeReady, HandshakeFail, TypeOK, RelTypes
  <2> QED
    BY <1>2, <2>1
<1>6. ASSUME NEW r \in Neutralizers, relPc' = [relPc EXCEPT ![r] = relPc'[r]],
             UNCHANGED <<relIdx, relAbs>>,
             relPc[r] \notin Planning \/ relPc'[r] \in Planning,
             relPc'[r] \in {"enqueue", "await"} => relPc[r] = "enqueue"
      PROVE  Goal
  <2>1. CASE q = r
    BY <1>1, <1>6, <2>1 DEF Planning, PlanLen
  <2>2. CASE q # r
    <3>1. relPc'[q] = relPc[q]
      BY <1>0, <1>6, <2>2 DEF TypeOK, RelTypes
    <3> QED
      BY <1>2, <1>6, <3>1
  <2> QED
    BY <2>1, <2>2
<1>7. ASSUME NEW r \in Neutralizers, StartRelease(r) PROVE Goal
  BY <1>0, <1>6, <1>7 DEF StartRelease, Planning, TypeOK, RelTypes
<1>8. ASSUME NEW c \in Callers, User(c) PROVE Goal
  <2>1. CASE UserRelease(c) \/ Watchdog(c)
    BY <1>3, <1>7, <1>8, <2>1 DEF UserRelease, Watchdog, relVars, Neutralizers
  <2>2. CASE ReleaseReturn(c) \/ FreeSlot(c)
    BY <1>0, <1>6, <1>8, <2>2 DEF ReleaseReturn, FreeSlot, Planning, TypeOK, RelTypes, Neutralizers
  <2>3. CASE ~(UserRelease(c) \/ Watchdog(c) \/ ReleaseReturn(c) \/ FreeSlot(c))
    BY <1>3, <1>8, <2>3
    DEF User, AcquireSlot, BeginLease, AcquireFail, SendReport, ReleaseKeyboard, Submit,
        CallReturn, CallContextEnds, relVars
  <2> QED
    BY <2>1, <2>2, <2>3
<1>9. ASSUME NEW k \in Closers, Close(k) PROVE Goal
  BY <1>7, <1>9 DEF Close, Neutralizers
<1>10. ASSUME NEW r \in Neutralizers, Finish(r, relOut'[r]) PROVE Goal
  <2>1. CASE q = r
    BY <1>0, <1>10, <2>1 DEF Finish, Planning, TypeOK, RelTypes
  <2>2. CASE q # r
    <3>1. relPc'[q] = relPc[q] /\ relIdx'[q] = relIdx[q] /\ relAbs'[q] = relAbs[q]
      BY <1>0, <1>10, <2>2 DEF Finish, TypeOK, RelTypes
    <3> QED
      BY <1>2, <3>1
  <2> QED
    BY <2>1, <2>2
<1>11. ASSUME NEW r \in Neutralizers, Release(r) PROVE Goal
  <2>0. r \in Privileged
    BY <1>0
  <2>1. CASE RelLock(r) \/ RelLockTimeout(r) \/ RelUnlock(r) \/ RelEnqueue(r)
             \/ RelDrainCheck(r) \/ RelDrainEdge(r) \/ RelDrainDown(r)
    <3>1. UNCHANGED <<relIdx, relAbs>> /\ relPc' = [relPc EXCEPT ![r] = relPc'[r]]
      BY <2>0, <2>1 DEF RelLock, RelLockTimeout, RelUnlock, RelEnqueue, RelDrainCheck, RelDrainEdge,
         RelDrainDown, TypeOK, RelTypes
    <3>2. /\ relPc[r] \notin Planning \/ relPc'[r] \in Planning
          /\ relPc'[r] \in {"enqueue", "await"} => relPc[r] = "enqueue"
      BY <2>0, <2>1 DEF RelLock, RelLockTimeout, RelUnlock, RelEnqueue, RelDrainCheck, RelDrainEdge,
         RelDrainDown, TypeOK, RelTypes, Planning
    <3> QED
      BY <1>6, <3>1, <3>2
  <2>2. CASE RelInvalidate(r)
    <3>1. CASE \E o : Finish(r, o)
      BY <1>10, <2>0, <3>1 DEF Finish, TypeOK, RelTypes
    <3>2. CASE /\ relPc' = [relPc EXCEPT ![r] = "enqueue"]
               /\ relAbs' = [relAbs EXCEPT ![r] = IF "absolute" \in held THEN heldPos ELSE None]
               /\ UNCHANGED relIdx
      <4>1. CASE q = r
        <5>1. relIdx[q] = 1
          BY <1>1, <2>2, <4>1 DEF RelInvalidate, Planning
        <5> QED
          BY <1>0, <3>2, <4>1, <5>1 DEF PlanLen, TypeOK, RelTypes, Planning
      <4>2. CASE q # r
        <5>1. relPc'[q] = relPc[q] /\ relIdx'[q] = relIdx[q] /\ relAbs'[q] = relAbs[q]
          BY <1>0, <3>2, <4>2 DEF TypeOK, RelTypes
        <5> QED
          BY <1>2, <5>1
      <4> QED
        BY <4>1, <4>2
    <3> QED
      BY <2>2, <3>1, <3>2 DEF RelInvalidate
  <2>3. CASE RelWritten(r)
    <3>1. CASE q = r
      BY <1>0, <1>1, <2>3, <3>1 DEF RelWritten, PlanLen, TypeOK, RelTypes, Planning
    <3>2. CASE q # r
      <4>1. relPc'[q] = relPc[q] /\ relIdx'[q] = relIdx[q] /\ relAbs'[q] = relAbs[q]
        BY <1>0, <2>3, <3>2 DEF RelWritten, TypeOK, RelTypes
      <4> QED
        BY <1>2, <4>1
    <3> QED
      BY <3>1, <3>2
  <2>4. CASE RelAttemptFailed(r)
    <3>1. CASE \E o : Finish(r, o)
      BY <1>10, <2>0, <3>1 DEF Finish, TypeOK, RelTypes
    <3>2. CASE /\ relPc' = [relPc EXCEPT ![r] = "enqueue"]
               /\ relIdx' = [relIdx EXCEPT ![r] = 1]
               /\ UNCHANGED relAbs
      <4>1. CASE q = r
        BY <1>0, <3>2, <4>1 DEF PlanLen, TypeOK, RelTypes, Planning
      <4>2. CASE q # r
        <5>1. relPc'[q] = relPc[q] /\ relIdx'[q] = relIdx[q] /\ relAbs'[q] = relAbs[q]
          BY <1>0, <3>2, <4>2 DEF TypeOK, RelTypes
        <5> QED
          BY <1>2, <5>1
      <4> QED
        BY <4>1, <4>2
    <3> QED
      BY <2>4, <3>1, <3>2 DEF RelAttemptFailed
  <2>5. CASE RelClear(r)
    BY <1>10, <2>0, <2>5 DEF RelClear, Finish, TypeOK, RelTypes
  <2> QED
    BY <1>11, <2>1, <2>2, <2>3, <2>4, <2>5 DEF Release
<1>12. ASSUME NEW r \in Privileged, RelContextEnds(r) PROVE Goal
  BY <1>3, <1>12 DEF RelContextEnds
<1> QED
  BY <1>4, <1>5, <1>8, <1>9, <1>11, <1>12 DEF Next

\* Send returns to the loop at once for everything but a user's drain barrier.
LEMMA BarrierStep == TypeOK /\ QueueInv /\ [Next]_vars => BarrierOK'
<1> SUFFICES ASSUME TypeOK, HandOK, BarrierOK, [Next]_vars PROVE BarrierOK'
  BY DEF QueueInv
<1>1. CASE writerPc' \notin {"check", "drain"}
  BY <1>1 DEF BarrierOK
<1>2. CASE UNCHANGED <<writerPc, writerReq>>
  BY <1>2 DEF BarrierOK
<1>3. CASE WriterSend
  BY <1>3 DEF WriterSend, Loop, BarrierOK, HandOK, PrivShape, InputShape
<1>4. CASE WriterDrainCheck \/ WriterDrainEdge
  BY <1>4 DEF WriterDrainCheck, WriterDrainEdge, Loop, BarrierOK
<1>5. CASE WriterTakePriority \/ WriterTakeInput \/ WriterStop \/ WriterFinal \/ WriterSendError \/ WriterDrainEnd
  BY <1>1, <1>5
  DEF WriterTakePriority, WriterTakeInput, WriterStop, WriterFinal, WriterSendError, WriterDrainEnd,
      Take, Loop
<1>6. ASSUME NEW p, NEW b, Abandon(p, b) PROVE BarrierOK'
  <2>1. PICK q \in Request : q = writerReq
    BY QueuedTypes
  <2>2. Kill(q, p, b).priv = q.priv
    BY DEF Kill, Request
  <2> QED
    BY <1>6, <2>1, <2>2 DEF Abandon, BarrierOK
<1>7. CASE Handshake
  BY <1>2, <1>6, <1>7
  DEF Handshake, HandshakeSend, HandshakeWritten, HandshakeReady, HandshakeFail, writeVars
<1>8. CASE Pion \/ UNCHANGED vars
  BY <1>2, <1>8 DEF Pion, Ack, TransportDown, writeVars, vars
<1>9. ASSUME NEW c \in Callers, User(c) PROVE BarrierOK'
  BY <1>2, <1>6, <1>9
  DEF User, AcquireSlot, BeginLease, AcquireFail, SendReport, ReleaseKeyboard, Submit,
      CallReturn, CallContextEnds, UserRelease, Watchdog, ReleaseReturn, FreeSlot, writeVars
<1>10. ASSUME NEW k \in Closers, Close(k) PROVE BarrierOK'
  BY <1>2, <1>10 DEF Close, writeVars
<1>11. ASSUME NEW r \in Neutralizers, Release(r) PROVE BarrierOK'
  BY <1>2, <1>6, <1>11
  DEF Release, RelLock, RelLockTimeout, RelInvalidate, RelEnqueue, RelWritten, RelDrainCheck,
      RelDrainEdge, RelDrainDown, RelAttemptFailed, RelClear, RelUnlock, writeVars
<1>12. ASSUME NEW r \in Privileged, RelContextEnds(r) PROVE BarrierOK'
  BY <1>2, <1>12 DEF RelContextEnds, writeVars
<1> QED
  BY <1>3, <1>4, <1>5, <1>7, <1>8, <1>9, <1>10, <1>11, <1>12 DEF Next, Writer

\* Nothing is queued at first.
LEMMA QueueInit == Init => QueueInv
  BY ConstantsAssumption
  DEF Init, QueueInv, PrioOK, InputsOK, HandOK, UniqueOK, ResultOK, IndexOK, BarrierOK, PrivShape,
      LivePriv, NoRequest, NoFrame, PlanLen, Neutralizers, Privileged, ConstantsAssumption

\* Every request the writer can still complete is the report its release waits for,
\* and there is at most one per release (hid.go: enqueue, write, releaseAllLocked).
THEOREM QueueCorrect == Spec => []QueueInv
<1>1. GateInv /\ QueueInv /\ [Next]_vars => QueueInv'
  BY QueueStep, IndexStep, BarrierStep DEF QueueInv, GateInv
<1> QED
  BY <1>1, GateCorrect, QueueInit, PTL DEF Spec
=============================================================================
