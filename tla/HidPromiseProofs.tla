------------------------ MODULE HidPromiseProofs ------------------------
(***************************************************************************)
(* What the client promises to those who use it: a drain barrier that      *)
(* wakes up and means what it says, a bounded buffer, the control lease,   *)
(* which the whole client implements, and a pointer that stays where it    *)
(* is when its buttons are released.                                       *)
(***************************************************************************)
EXTENDS HidNeutralProofs, FiniteSetTheorems, WellFoundedInduction

\* Nobody begins to wait for an edge unless something is unacknowledged.
LEMMA WaiterMoves ==
    ASSUME TypeOK, [Next]_vars
    PROVE  /\ writerPc' = "drain" => writerPc = "drain" \/ (wire # <<>> /\ wire' = wire)
           /\ \A r \in Neutralizers :
                  relPc'[r] = "drain" => relPc[r] = "drain" \/ (wire # <<>> /\ wire' = wire)
<1>1. CASE UNCHANGED <<writerPc, relPc>>
  BY <1>1
<1>2. CASE Writer \/ Pion \/ UNCHANGED vars
  BY <1>2
  DEF Writer, WriterTakePriority, WriterTakeInput, WriterStop, WriterFinal, WriterSend,
      WriterSendError, WriterDrainCheck, WriterDrainEdge, WriterDrainEnd, Take, Loop,
      Pion, Ack, TransportDown, vars, pionVars, relVars, writeVars
<1>3. ASSUME NEW r \in Privileged, NEW pc \in RelPcs \ {"drain"}, writerPc' = writerPc,
             relPc' = [relPc EXCEPT ![r] = pc]
      PROVE  /\ writerPc' = "drain" => writerPc = "drain"
             /\ \A q \in Neutralizers : relPc'[q] = "drain" => relPc[q] = "drain"
  BY <1>3 DEF TypeOK, RelTypes, Neutralizers, Privileged
<1>4. CASE Handshake
  BY <1>3, <1>4
  DEF Handshake, HandshakeSend, HandshakeWritten, HandshakeReady, HandshakeFail, Abandon,
      writeVars, Privileged, RelPcs
<1>5. ASSUME NEW c \in Callers, User(c)
      PROVE  UNCHANGED <<writerPc, relPc>>
             \/ \E pc \in RelPcs \ {"drain"} : writerPc' = writerPc /\ relPc' = [relPc EXCEPT ![c] = pc]
  BY <1>5
  DEF User, AcquireSlot, BeginLease, AcquireFail, SendReport, ReleaseKeyboard, Submit,
      CallReturn, CallContextEnds, UserRelease, Watchdog, ReleaseReturn, FreeSlot, Abandon,
      StartRelease, writeVars, relVars, RelPcs
<1>6. ASSUME NEW r \in Neutralizers, Release(r), ~RelDrainCheck(r)
      PROVE  \E pc \in RelPcs \ {"drain"} : writerPc' = writerPc /\ relPc' = [relPc EXCEPT ![r] = pc]
  BY <1>6
  DEF Release, RelLock, RelLockTimeout, RelInvalidate, RelEnqueue, RelWritten,
      RelDrainEdge, RelDrainDown, RelAttemptFailed, RelClear, RelUnlock, Abandon, Finish,
      writeVars, RelPcs
<1>7. ASSUME NEW r \in Neutralizers, RelDrainCheck(r)
      PROVE  /\ writerPc' = "drain" => writerPc = "drain"
             /\ \A q \in Neutralizers :
                    relPc'[q] = "drain" => relPc[q] = "drain" \/ (wire # <<>> /\ wire' = wire)
  BY <1>7 DEF RelDrainCheck, TypeOK, RelTypes, Neutralizers, Privileged, writeVars, pionVars
<1>8. ASSUME NEW k \in Closers, Close(k)
      PROVE  writerPc' = writerPc /\ relPc' = [relPc EXCEPT ![k] = "lock"]
  BY <1>8 DEF Close, StartRelease, writeVars
<1>9. CASE \E r \in Privileged : RelContextEnds(r)
  BY <1>1, <1>9 DEF RelContextEnds, writeVars
<1>10. Callers \subseteq Privileged /\ Closers \subseteq Privileged
       /\ Neutralizers \subseteq Privileged /\ "lock" \in RelPcs \ {"drain"}
  BY DEF Neutralizers, Privileged, RelPcs
<1>11. CASE \E c \in Callers : User(c)
  BY <1>1, <1>3, <1>5, <1>10, <1>11
<1>12. CASE \E r \in Neutralizers : Release(r)
  BY <1>3, <1>6, <1>7, <1>10, <1>12
<1>13. CASE \E k \in Closers : Close(k)
  BY <1>3, <1>8, <1>10, <1>13
<1> QED
  BY <1>2, <1>4, <1>9, <1>11, <1>12, <1>13 DEF Next

\* Who touches the buffer or the edge.
LEMMA EdgeMoves ==
    ASSUME [Next]_vars
    PROVE  \/ UNCHANGED lowEdge /\ wire' \in {wire, Sent(writerReq)}
           \/ Ack \/ WriterDrainEdge
           \/ \E r \in Neutralizers : RelDrainEdge(r)
<1>1. CASE Writer \/ Handshake \/ Pion \/ UNCHANGED vars
  BY <1>1
  DEF Writer, WriterTakePriority, WriterTakeInput, WriterStop, WriterFinal, WriterSend,
      WriterSendError, WriterDrainCheck, WriterDrainEnd,
      Handshake, HandshakeSend, HandshakeWritten, HandshakeReady, HandshakeFail,
      Pion, TransportDown, vars, pionVars
<1>2. ASSUME NEW c \in Callers, User(c) PROVE UNCHANGED <<wire, lowEdge>>
  BY <1>2
  DEF User, AcquireSlot, BeginLease, AcquireFail, SendReport, ReleaseKeyboard, Submit,
      CallReturn, CallContextEnds, UserRelease, Watchdog, ReleaseReturn, FreeSlot, pionVars
<1>3. ASSUME NEW r \in Neutralizers, Release(r), ~RelDrainEdge(r) PROVE UNCHANGED <<wire, lowEdge>>
  BY <1>3
  DEF Release, RelLock, RelLockTimeout, RelInvalidate, RelEnqueue, RelWritten, RelDrainCheck,
      RelDrainDown, RelAttemptFailed, RelClear, RelUnlock, pionVars
<1>4. CASE (\E k \in Closers : Close(k)) \/ (\E r \in Privileged : RelContextEnds(r))
  BY <1>4 DEF Close, RelContextEnds, pionVars
<1> QED
  BY <1>1, <1>2, <1>3, <1>4 DEF Next

\* An edge that somebody needs is taken by nobody else.
LEMMA WakeStep ==
    ASSUME TypeOK, SoleDrainWaiter, NoLostWakeup, [Next]_vars
    PROVE  NoLostWakeup'
<1>0. Conn \notin Neutralizers
  BY ConstantsAssumption DEF ConstantsAssumption
<1>1. CASE UNCHANGED lowEdge /\ wire' \in {wire, Sent(writerReq)}
  <2>1. wire' = <<>> => wire = <<>>
    BY <1>1, WireSent, WireTypes
  <2> QED
    BY <1>1, <2>1, WaiterMoves DEF NoLostWakeup
<1>2. CASE Ack
  <2>0. Len(wire) \in Nat \ {0} /\ Len(wire') = Len(wire) - 1
    BY <1>2, WireTypes DEF Ack
  <2>1. wire' = <<>> => Len(wire) = 1
    BY <2>0
  <2> QED
    BY <1>2, <2>1 DEF Ack, NoLostWakeup
<1>3. CASE WriterDrainEdge
  <2>1. \A r \in Neutralizers : relPc[r] # "drain"
    BY <1>0, <1>3 DEF SoleDrainWaiter, DrainWaiters, WriterDrainEdge
  <2> QED
    BY <1>3, <2>1 DEF WriterDrainEdge, NoLostWakeup, relVars
<1>4. ASSUME NEW r \in Neutralizers, RelDrainEdge(r) PROVE NoLostWakeup'
  <2>1. writerPc # "drain" /\ \A q \in Neutralizers : relPc[q] = "drain" => q = r
    BY <1>0, <1>4 DEF SoleDrainWaiter, DrainWaiters, RelDrainEdge
  <2>2. relPc'[r] = "check" /\ (\A q \in Neutralizers : q # r => relPc'[q] = relPc[q])
    BY <1>4 DEF RelDrainEdge, TypeOK, RelTypes, Neutralizers, Privileged
  <2> QED
    BY <1>4, <2>1, <2>2 DEF RelDrainEdge, NoLostWakeup, writeVars
<1> QED
  BY <1>1, <1>2, <1>3, <1>4, EdgeMoves

\* The one-slot, non-blocking signal (hid.go:284-292, 443-484) is enough.
THEOREM WakeCorrect == Spec => []NoLostWakeup
<1>1. Init => NoLostWakeup
  BY DEF Init, NoLostWakeup, Neutralizers, Privileged
<1>2. TypeOK /\ SoleDrainWaiter /\ NoLostWakeup /\ [Next]_vars => NoLostWakeup'
  BY WakeStep
<1> QED
  BY <1>1, <1>2, TypeCorrect, DrainWaiterCorrect, PTL DEF Spec

\* The whole invariant holds of every behaviour.
THEOREM InvariantCorrect == Spec => []HidInv
<1>1. GateInv /\ GateInv' /\ SlotInv /\ [Next]_vars => SlotInv'
  BY SlotStep
<1>2. GateInv /\ SlotInv /\ QueueInv /\ WireInv => HidInv
  BY DEF HidInv
<1> QED
  BY <1>1, <1>2, SlotInit, GateCorrect, QueueCorrect, WireCorrect, PTL DEF Spec

-----------------------------------------------------------------------------
\* What the writer has validated still fits when it is sent: nobody else sends.
RoomOK == writerPc \in {"final", "send"} => ~BufferFull(writerReq)

Ordinary(w) == {n \in 1..Len(w) : ~w[n].priv}

BufferInv ==
    RoomOK /\ Len(wire) <= MaxBuffered /\ Cardinality(Ordinary(wire)) <= MaxBuffered - Reserve

\* Whoever gives up on a request leaves its kind as it is.
LEMMA KilledKind ==
    ASSUME TypeOK, NEW p, NEW b, Abandon(p, b)
    PROVE  writerPc' = writerPc /\ writerReq'.priv = writerReq.priv
<1>1. \A req \in Request : Kill(req, p, b).priv = req.priv
  BY DEF Kill, Request
<1> QED
  BY <1>1 DEF Abandon, TypeOK, WriterTypes

\* Room is checked before the last validation, and kept until Send.
LEMMA RoomStep ==
    ASSUME TypeOK, RoomOK, [Next]_vars
    PROVE  RoomOK'
<1>1. CASE writerPc' = writerPc /\ writerReq'.priv = writerReq.priv /\ wire' = wire
  BY <1>1 DEF RoomOK, BufferFull
<1>2. CASE WriterTakePriority \/ WriterTakeInput
  BY <1>2 DEF WriterTakePriority, WriterTakeInput, Take, Loop, RoomOK, BufferFull, pionVars
<1>3. CASE WriterFinal
  BY <1>3 DEF WriterFinal, Loop, RoomOK, BufferFull, pionVars
<1>4. CASE WriterStop \/ WriterSend \/ WriterSendError \/ WriterDrainCheck \/ WriterDrainEdge \/ WriterDrainEnd
  BY <1>4
  DEF WriterStop, WriterSend, WriterSendError, WriterDrainCheck, WriterDrainEdge, WriterDrainEnd,
      Loop, RoomOK
<1>5. CASE Ack
  <2>1. Len(wire) \in Nat \ {0} /\ Len(wire') = Len(wire) - 1
    BY <1>5, WireTypes DEF Ack
  <2> QED
    BY <1>5, <2>1, ConstantsAssumption DEF Ack, RoomOK, BufferFull, writeVars, ConstantsAssumption
<1>6. CASE TransportDown \/ Handshake \/ UNCHANGED vars
  BY <1>1, <1>6, KilledKind
  DEF TransportDown, Handshake, HandshakeSend, HandshakeWritten, HandshakeReady, HandshakeFail,
      vars, writeVars, pionVars
<1>7. ASSUME NEW c \in Callers, User(c) PROVE RoomOK'
  BY <1>1, <1>7, KilledKind
  DEF User, AcquireSlot, BeginLease, AcquireFail, SendReport, ReleaseKeyboard, Submit,
      CallReturn, CallContextEnds, UserRelease, Watchdog, ReleaseReturn, FreeSlot, writeVars, pionVars
<1>8. ASSUME NEW r \in Neutralizers, Release(r) PROVE RoomOK'
  BY <1>1, <1>8, KilledKind
  DEF Release, RelLock, RelLockTimeout, RelInvalidate, RelEnqueue, RelWritten, RelDrainCheck,
      RelDrainEdge, RelDrainDown, RelAttemptFailed, RelClear, RelUnlock, writeVars, pionVars
<1>9. CASE (\E k \in Closers : Close(k)) \/ (\E r \in Privileged : RelContextEnds(r))
  BY <1>1, <1>9 DEF Close, RelContextEnds, writeVars, pionVars
<1> QED
  BY <1>2, <1>3, <1>4, <1>5, <1>6, <1>7, <1>8, <1>9 DEF Next, Writer, Pion

\* Send adds one frame, and an ordinary one only below the reserve.
LEMMA SendStep ==
    ASSUME TypeOK, BufferInv, writerPc = "send", wire' = Sent(writerReq)
    PROVE  Len(wire') <= MaxBuffered /\ Cardinality(Ordinary(wire')) <= MaxBuffered - Reserve
<1>1. /\ Len(wire) \in Nat /\ Len(wire') = Len(wire) + 1
      /\ wire'[Len(wire) + 1].priv = writerReq.priv
      /\ \A n \in 1..Len(wire) : wire'[n] = wire[n]
  <2>1. [frame |-> writerReq.frame, priv |-> writerReq.priv] \in Packet
    BY DEF TypeOK, WriterTypes, Request, Packet
  <2> QED
    BY <2>1, Appended DEF TypeOK, PionTypes, Sent
<1>2. ~BufferFull(writerReq) /\ MaxBuffered \in Nat /\ Reserve \in 0..MaxBuffered
  BY ConstantsAssumption DEF BufferInv, RoomOK, ConstantsAssumption
<1>3. CASE writerReq.priv
  <2>1. Ordinary(wire') = Ordinary(wire)
    <3>1. \A n \in 1..Len(wire') : n = Len(wire) + 1 \/ n \in 1..Len(wire)
      BY <1>1
    <3>2. wire'[Len(wire) + 1].priv
      BY <1>1, <1>3
    <3>3. \A n : n \in Ordinary(wire') <=> n \in Ordinary(wire)
      BY <1>1, <3>1, <3>2 DEF Ordinary
    <3> QED
      BY <3>3
  <2>2. Len(wire') <= MaxBuffered
    BY <1>1, <1>2, <1>3 DEF BufferFull
  <2> QED
    BY <2>1, <2>2 DEF BufferInv
<1>4. CASE ~writerReq.priv
  <2>1. Len(wire') \in Nat /\ Len(wire') <= MaxBuffered - Reserve
    BY <1>1, <1>2, <1>4 DEF BufferFull
  <2>2. IsFiniteSet(1..Len(wire')) /\ Cardinality(1..Len(wire')) = Len(wire')
    <3>1. \A k \in Nat : IsFiniteSet(1..k) /\ Cardinality(1..k) = IF 1 > k THEN 0 ELSE k - 1 + 1
      BY FS_Interval
    <3> QED
      BY <2>1, <3>1
  <2>3. Ordinary(wire') \in SUBSET (1..Len(wire'))
    BY DEF Ordinary
  <2>4. Cardinality(Ordinary(wire')) <= Len(wire')
    BY <2>2, <2>3, FS_Subset
  <2>5. Cardinality(Ordinary(wire')) \in Nat
    BY <2>2, <2>3, FS_Subset, FS_CardinalityType
  <2> QED
    BY <1>2, <2>1, <2>4, <2>5
<1> QED
  BY <1>3, <1>4

\* An acknowledgement adds nothing.
LEMMA AckStep ==
    ASSUME TypeOK, BufferInv, Ack
    PROVE  Len(wire') <= MaxBuffered /\ Cardinality(Ordinary(wire')) <= MaxBuffered - Reserve
<1>1. /\ Len(wire) \in Nat \ {0} /\ Len(wire') = Len(wire) - 1
      /\ \A n \in 1..Len(wire') : wire'[n] = wire[n + 1]
  BY WireTypes DEF Ack
<1>2. IsFiniteSet(Ordinary(wire))
  <2>1. IsFiniteSet(1..Len(wire)) /\ Ordinary(wire) \in SUBSET (1..Len(wire))
    BY <1>1, FS_Interval DEF Ordinary
  <2> QED
    BY <2>1, FS_Subset
<1> DEFINE f == [n \in Ordinary(wire') |-> n + 1]
<1>3. f \in Injection(Ordinary(wire'), Ordinary(wire))
  <2>1. f \in [Ordinary(wire') -> Ordinary(wire)]
    BY <1>1 DEF Ordinary
  <2>2. \A a, b \in Ordinary(wire') : f[a] = f[b] => a = b
    BY <1>1 DEF Ordinary
  <2> QED
    BY <2>1, <2>2 DEF Injection, IsInjective
<1>4. Cardinality(Ordinary(wire')) <= Cardinality(Ordinary(wire)) /\ IsFiniteSet(Ordinary(wire'))
  BY <1>2, <1>3, FS_Injection
<1>5. Cardinality(Ordinary(wire)) \in Nat /\ Cardinality(Ordinary(wire')) \in Nat
  BY <1>2, <1>4, FS_CardinalityType
<1> QED
  BY <1>1, <1>4, <1>5, ConstantsAssumption DEF BufferInv, ConstantsAssumption

\* The level that checkBufferedAmount reads (hid.go:424-441), not atomic with Send, still
\* bounds Pion's buffer, for any limit and any reserve.
THEOREM BufferCorrect == Spec => []BufferBounded
<1>1. Init => BufferInv
  <2> SUFFICES ASSUME Init PROVE BufferInv
    OBVIOUS
  <2>1. Len(wire) = 0 /\ Ordinary(wire) = {} /\ RoomOK
    BY DEF Init, Ordinary, RoomOK
  <2>2. Cardinality(Ordinary(wire)) = 0
    BY <2>1, FS_EmptySet
  <2>3. 0 <= MaxBuffered /\ 0 <= MaxBuffered - Reserve
    BY ConstantsAssumption DEF ConstantsAssumption
  <2> QED
    BY <2>1, <2>2, <2>3 DEF BufferInv
<1>2. TypeOK /\ BufferInv /\ [Next]_vars => BufferInv'
  <2> SUFFICES ASSUME TypeOK, BufferInv, [Next]_vars PROVE BufferInv'
    OBVIOUS
  <2>1. RoomOK'
    BY RoomStep DEF BufferInv
  <2>2. CASE wire' = wire
    BY <2>1, <2>2 DEF BufferInv
  <2>3. CASE WriterSend \/ WriterSendError
    BY <2>1, <2>2, <2>3, SendStep DEF BufferInv, WriterSend, WriterSendError
  <2>4. CASE Ack
    BY <2>1, <2>4, AckStep DEF BufferInv
  <2> QED
    BY <2>2, <2>3, <2>4, WireMoves
<1>3. BufferInv => BufferBounded
  BY DEF BufferInv, BufferBounded, Ordinary
<1> QED
  BY <1>1, <1>2, <1>3, TypeCorrect, PTL DEF Spec

-----------------------------------------------------------------------------
\* Only ReleaseKeyboard asks for a drain barrier.
Releasing(req) == req.drain => req.frame = KeyboardRelease
DrainOK == Releasing(writerReq) /\ \A n \in 1..Len(sendQ) : Releasing(sendQ[n])

\* While the writer waits behind it, the keyboard is quelled.
BarrierInv == DrainOK /\ (writerPc \in {"check", "drain"} => Quelled("keyboard"))

\* A request that is given up keeps its frame.
LEMMA KilledFrame ==
    ASSUME TypeOK, DrainOK, NEW p, NEW b, Abandon(p, b)
    PROVE  DrainOK' /\ writerPc' = writerPc
<1>1. \A req \in Request : Kill(req, p, b).drain = req.drain /\ Kill(req, p, b).frame = req.frame
  BY DEF Kill, Request
<1>2. Releasing(writerReq)' /\ writerPc' = writerPc
  BY <1>1 DEF Abandon, TypeOK, WriterTypes, DrainOK, Releasing, KeyboardRelease
<1>3. \A n \in 1..Len(sendQ') : Releasing(sendQ[n]) /\ sendQ[n] \in Request /\ sendQ'[n] = Kill(sendQ[n], p, b)
  BY Abandoned, QueuedTypes DEF DrainOK
<1>4. \A n \in 1..Len(sendQ') : Releasing(sendQ'[n])
  BY <1>1, <1>3 DEF Releasing
<1> QED
  BY <1>2, <1>4 DEF DrainOK, Releasing, KeyboardRelease

\* Requests move from the queues to the writer as they were submitted.
LEMMA DrainStep ==
    ASSUME TypeOK, QueueInv, DrainOK, [Next]_vars
    PROVE  DrainOK'
<1> USE DEF DrainOK, Releasing, KeyboardRelease
<1>1. CASE UNCHANGED <<sendQ, writerReq>>
  BY <1>1
<1>2. CASE sendQ' = sendQ /\ Loop(prioQ)
  BY <1>2 DEF Loop, NoRequest
<1>3. CASE WriterTakePriority
  <2>1. ~Head(prioQ).drain /\ sendQ' = sendQ
    BY <1>3, QueueElements DEF WriterTakePriority, QueueInv, PrioOK, PrivShape, TypeOK, WriterTypes
  <2>2. writerReq' = Head(prioQ) \/ writerReq' = NoRequest
    BY <1>3 DEF WriterTakePriority, Take, Loop
  <2>3. ~writerReq'.drain
    BY <2>1, <2>2 DEF NoRequest
  <2> QED
    BY <2>1, <2>3
<1>4. CASE WriterTakeInput
  <2>1. /\ Head(sendQ) = sendQ[1] /\ 1 \in 1..Len(sendQ) /\ Len(Tail(sendQ)) = Len(sendQ) - 1
        /\ Len(sendQ) \in Nat
        /\ \A n \in 1..Len(Tail(sendQ)) : Tail(sendQ)[n] = sendQ[n + 1]
    BY <1>4, QueueElements DEF WriterTakeInput, TypeOK, WriterTypes
  <2>2. sendQ' = Tail(sendQ) /\ (writerReq' = sendQ[1] \/ writerReq' = NoRequest)
    BY <1>4, <2>1 DEF WriterTakeInput, Take, Loop
  <2>3. ASSUME NEW n \in 1..Len(sendQ') PROVE n + 1 \in 1..Len(sendQ) /\ sendQ'[n] = sendQ[n + 1]
    BY <2>1, <2>2
  <2>4. ~NoRequest.drain
    BY DEF NoRequest
  <2> QED
    BY <2>1, <2>2, <2>3, <2>4
<1>5. CASE WriterStop
  BY <1>5 DEF WriterStop
<1>6. CASE WriterFinal \/ WriterSend \/ WriterSendError \/ WriterDrainCheck \/ WriterDrainEdge \/ WriterDrainEnd
  BY <1>1, <1>2, <1>6
  DEF WriterFinal, WriterSend, WriterSendError, WriterDrainCheck, WriterDrainEdge, WriterDrainEnd,
      queueVars
<1>7. CASE Handshake \/ Pion \/ UNCHANGED vars
  BY <1>1, <1>7, KilledFrame
  DEF Pion, Ack, TransportDown, Handshake, HandshakeSend, HandshakeWritten, HandshakeReady,
      HandshakeFail, vars, writeVars, queueVars
<1>8. ASSUME NEW c \in Callers, NEW f, NEW d, Submit(c, f, d), d => f = KeyboardRelease,
             f \in Frame, d \in BOOLEAN
      PROVE  DrainOK'
  <2> DEFINE e == [who |-> c, token |-> token[c], priv |-> FALSE, drain |-> d, live |-> TRUE, frame |-> f]
  <2>1. e \in Request /\ e.drain = d /\ e.frame = f
    BY <1>8 DEF Request, TypeOK, CallTypes, Privileged, Neutralizers
  <2>2. Len(sendQ') = Len(sendQ) + 1 /\ Len(sendQ) \in Nat /\ sendQ'[Len(sendQ) + 1] = e
        /\ \A n \in 1..Len(sendQ) : sendQ'[n] = sendQ[n]
    BY <1>8, <2>1, Appended DEF Submit, TypeOK, WriterTypes
  <2>3. writerReq' = writerReq
    BY <1>8 DEF Submit, writeVars
  <2>4. \A n \in 1..Len(sendQ') : n = Len(sendQ) + 1 \/ n \in 1..Len(sendQ)
    BY <2>2
  <2> QED
    BY <1>8, <2>1, <2>2, <2>3, <2>4
<1>9. ASSUME NEW c \in Callers, User(c) PROVE DrainOK'
  <2>1. CASE SendReport(c) \/ ReleaseKeyboard(c)
    BY <1>8, <2>1, ReportTypes DEF SendReport, ReleaseKeyboard
  <2> QED
    BY <1>1, <1>9, <2>1, KilledFrame
    DEF User, AcquireSlot, BeginLease, AcquireFail, CallReturn, CallContextEnds, UserRelease,
        Watchdog, ReleaseReturn, FreeSlot, writeVars, queueVars
<1>10. ASSUME NEW r \in Neutralizers, Release(r) PROVE DrainOK'
  BY <1>1, <1>10, KilledFrame
  DEF Release, RelLock, RelLockTimeout, RelInvalidate, RelEnqueue, RelWritten, RelDrainCheck,
      RelDrainEdge, RelDrainDown, RelAttemptFailed, RelClear, RelUnlock, writeVars, queueVars
<1>11. CASE (\E k \in Closers : Close(k)) \/ (\E r \in Privileged : RelContextEnds(r))
  BY <1>1, <1>11 DEF Close, RelContextEnds, writeVars, queueVars
<1> QED
  BY <1>3, <1>4, <1>5, <1>6, <1>7, <1>9, <1>10, <1>11 DEF Next, Writer

\* The writer enters the wait with Send of the report itself, and sends nothing meanwhile.
LEMMA WaitStep ==
    ASSUME [Next]_vars, writerPc' \in {"check", "drain"}
    PROVE  (writerPc = "send" /\ WriterSend /\ writerReq.drain) \/ writerPc \in {"check", "drain"}
<1>1. CASE writerPc' = writerPc
  BY <1>1
<1>2. CASE Writer \/ Handshake \/ Pion \/ UNCHANGED vars
  BY <1>2
  DEF Writer, WriterTakePriority, WriterTakeInput, WriterStop, WriterFinal, WriterSend,
      WriterSendError, WriterDrainCheck, WriterDrainEdge, WriterDrainEnd, Take, Loop,
      Handshake, HandshakeSend, HandshakeWritten, HandshakeReady, HandshakeFail, Abandon,
      Pion, Ack, TransportDown, vars, writeVars
<1>3. ASSUME NEW c \in Callers, User(c) PROVE writerPc' = writerPc
  BY <1>3
  DEF User, AcquireSlot, BeginLease, AcquireFail, SendReport, ReleaseKeyboard, Submit, Abandon,
      CallReturn, CallContextEnds, UserRelease, Watchdog, ReleaseReturn, FreeSlot, writeVars
<1>4. ASSUME NEW r \in Neutralizers, Release(r) PROVE writerPc' = writerPc
  BY <1>4
  DEF Release, RelLock, RelLockTimeout, RelInvalidate, RelEnqueue, RelWritten, RelDrainCheck,
      RelDrainEdge, RelDrainDown, RelAttemptFailed, RelClear, RelUnlock, Abandon, writeVars
<1>5. CASE (\E k \in Closers : Close(k)) \/ (\E r \in Privileged : RelContextEnds(r))
  BY <1>1, <1>5 DEF Close, RelContextEnds, writeVars
<1> QED
  BY <1>1, <1>2, <1>3, <1>4, <1>5 DEF Next

\* The keyboard stays quelled behind the barrier.
LEMMA BarrierKept ==
    ASSUME TypeOK, QueueInv, BarrierInv, [Next]_vars
    PROVE  BarrierInv'
<1>1. DrainOK'
  BY DrainStep DEF BarrierInv
<1>2. ASSUME writerPc' \in {"check", "drain"} PROVE Quelled("keyboard")'
  <2>1. CASE WriterSend /\ writerReq.drain
    <3>1. wire' = Sent(writerReq) /\ UNCHANGED dev /\ writerReq.frame.ifc = "keyboard"
          /\ ~writerReq.frame.hold
      BY <2>1 DEF WriterSend, BarrierInv, DrainOK, Releasing, KeyboardRelease
    <3> QED
      BY <3>1, QuelledSent DEF Ifaces
  <2>2. CASE writerPc \in {"check", "drain"}
    <3>1. Quelled("keyboard") /\ ~WriterSend /\ ~WriterSendError
      BY <2>2 DEF BarrierInv, WriterSend, WriterSendError
    <3>2. CASE UNCHANGED <<wire, dev>>
      BY <3>1, <3>2 DEF Quelled, Releases
    <3> QED
      BY <3>1, <3>2, WireMoves, QuelledAck DEF Ifaces
  <2> QED
    BY <1>2, <2>1, <2>2, WaitStep
<1> QED
  BY <1>1, <1>2 DEF BarrierInv

\* A waiting user is told "ok" only by the writer, of the request in its hands.
LEMMA TellsOk ==
    ASSUME TypeOK, QueueInv, [Next]_vars, NEW c \in Callers, callRes[c] # "ok", callRes'[c] = "ok",
           writerReq.drain
    PROVE  wire = <<>> /\ writerPc \in {"check", "drain"}
<1>1. ASSUME NEW req \in Request, NEW res \in {"stale", "err"}, Complete(req, res)
      PROVE  FALSE
  BY <1>1 DEF Complete, TypeOK, CallTypes
<1>2. CASE UNCHANGED callRes
  BY <1>2
<1>3. CASE WriterTakePriority \/ WriterTakeInput
  BY <1>1, <1>2, <1>3, QueueElements
  DEF WriterTakePriority, WriterTakeInput, Take, TypeOK, WriterTypes
<1>4. CASE WriterStop
  BY <1>4 DEF WriterStop
<1>5. CASE WriterFinal \/ WriterSend \/ WriterSendError
  BY <1>1, <1>2, <1>5 DEF WriterFinal, WriterSend, WriterSendError, TypeOK, WriterTypes
<1>6. CASE WriterDrainCheck \/ WriterDrainEdge \/ WriterDrainEnd
  BY <1>1, <1>2, <1>6
  DEF WriterDrainCheck, WriterDrainEdge, WriterDrainEnd, callVars, TypeOK, WriterTypes
<1>7. CASE Handshake \/ Pion \/ UNCHANGED vars
  BY <1>2, <1>7
  DEF Handshake, HandshakeSend, HandshakeWritten, HandshakeReady, HandshakeFail, Pion, Ack,
      TransportDown, vars, callVars
<1>8. ASSUME NEW u \in Callers, User(u) PROVE FALSE
  <2>1. CASE CallReturn(u) \/ CallContextEnds(u)
    BY <2>1 DEF CallReturn, CallContextEnds, TypeOK, CallTypes
  <2> QED
    BY <1>2, <1>8, <2>1
    DEF User, AcquireSlot, BeginLease, AcquireFail, SendReport, ReleaseKeyboard, Submit,
        UserRelease, Watchdog, ReleaseReturn, FreeSlot, callVars
<1>9. ASSUME NEW r \in Neutralizers, Release(r) PROVE FALSE
  BY <1>2, <1>9
  DEF Release, RelLock, RelLockTimeout, RelInvalidate, RelEnqueue, RelWritten, RelDrainCheck,
      RelDrainEdge, RelDrainDown, RelAttemptFailed, RelClear, RelUnlock, callVars
<1>10. CASE (\E k \in Closers : Close(k)) \/ (\E r \in Privileged : RelContextEnds(r))
  BY <1>2, <1>10 DEF Close, RelContextEnds, callVars
<1> QED
  BY <1>3, <1>4, <1>5, <1>6, <1>7, <1>8, <1>9, <1>10 DEF Next, Writer

\* Held.ReleaseKeyboard answers nil (hid.go:930-942, owner.go:254-266) only when the
\* device has acknowledged everything and holds no key.
THEOREM BarrierCorrect == Spec => DrainBarrierIsReal
<1> DEFINE Real == \A c \in Callers :
                     (writerReq.drain /\ writerReq.who = c /\ callRes[c] = "none" /\ callRes'[c] = "ok")
                         => wire = <<>> /\ "keyboard" \notin dev
<1>1. Init => BarrierInv
  BY DEF Init, BarrierInv, DrainOK, Releasing, NoRequest
<1>2. TypeOK /\ QueueInv /\ BarrierInv /\ [Next]_vars => BarrierInv'
  BY BarrierKept
<1>3. TypeOK /\ QueueInv /\ BarrierInv /\ [Next]_vars => [Real]_vars
  <2> SUFFICES ASSUME TypeOK, QueueInv, BarrierInv, [Next]_vars, NEW c \in Callers, writerReq.drain,
                      callRes[c] = "none", callRes'[c] = "ok"
               PROVE  wire = <<>> /\ "keyboard" \notin dev
    OBVIOUS
  <2>1. wire = <<>> /\ Quelled("keyboard")
    BY TellsOk DEF BarrierInv
  <2>2. Len(wire) = 0
    BY <2>1
  <2> QED
    BY <2>1, <2>2 DEF Quelled
<1> QED
  BY <1>1, <1>2, <1>3, TypeCorrect, QueueCorrect, PTL DEF Spec, DrainBarrierIsReal

-----------------------------------------------------------------------------
\* The owner of the lease, seen from outside.
Owner == IF activeGen = 0 THEN None ELSE slot

\* What may be pressed, seen from outside.
Pressed == {i \in Ifaces : MayPress(i)}

\* Leaving alone what is on its way, and the frame in the writer's hands, leaves
\* alone what may be pressed.
LEMMA PressKept ==
    ASSUME UNCHANGED <<wire, dev, writerPc>>, writerReq'.frame = writerReq.frame
    PROVE  Pressed' = Pressed
  BY DEF Pressed, MayPress

\* A caller that walks away does not change the frame in the writer's hands.
LEMMA PressAbandon ==
    ASSUME TypeOK, NEW p, NEW b, Abandon(p, b), UNCHANGED <<wire, dev>>
    PROVE  Pressed' = Pressed
<1>1. PICK q \in Request : q = writerReq
  BY QueuedTypes
<1>2. Kill(q, p, b).frame = q.frame
  BY DEF Kill, Request
<1> QED
  BY <1>1, <1>2, PressKept DEF Abandon

\* The lease ends, or starts, and nothing else happens.
Ends == Owner' = None /\ Pressed' = Pressed /\ UNCHANGED held
Starts == \E c \in Callers : /\ Owner = None /\ Owner' = c /\ held = {}
                             /\ Pressed' = Pressed /\ UNCHANGED held

\* A change of owner is one of the two.
LEMMA OwnerMove ==
    ASSUME TypeOK, SlotInv, [Next]_vars
    PROVE  Owner' = Owner \/ Ends \/ Starts
<1> DEFINE Goal == Owner' = Owner \/ Ends \/ Starts
<1>1. ASSUME UNCHANGED activeGen, activeGen = 0 \/ UNCHANGED slot PROVE Goal
  <2>1. Owner' = Owner
    BY <1>1 DEF Owner
  <2> QED
    BY <2>1
<1>2. ASSUME activeGen' = 0, UNCHANGED held, Pressed' = Pressed PROVE Goal
  BY <1>2 DEF Owner, Ends
<1>3. ASSUME CloseWith, UNCHANGED slot, Pressed' = Pressed PROVE Goal
  <2>1. UNCHANGED <<activeGen, slot>> \/ activeGen' = 0
    BY <1>3 DEF CloseWith, InvalidateLease
  <2> QED
    BY <1>1, <1>2, <1>3, <2>1 DEF CloseWith
<1>4. CASE Writer \/ UNCHANGED vars
  <2>1. UNCHANGED <<activeGen, slot>>
    BY <1>4
    DEF Writer, WriterTakePriority, WriterTakeInput, WriterStop, WriterFinal, WriterSend,
        WriterSendError, WriterDrainCheck, WriterDrainEdge, WriterDrainEnd, vars, hidVars
  <2> QED
    BY <1>1, <2>1
<1>5. CASE Pion
  <2>1. CASE Ack
    BY <1>1, <2>1 DEF Ack, hidVars
  <2>2. CASE TransportDown
    <3>1. CloseWith /\ UNCHANGED slot /\ UNCHANGED <<wire, dev, writerPc>> /\ UNCHANGED writerReq
      BY <2>2 DEF TransportDown, writeVars, pionVars
    <3> QED
      BY <1>3, <3>1, PressKept
  <2> QED
    BY <1>5, <2>1, <2>2 DEF Pion
<1>6. CASE Handshake
  <2>1. CASE HandshakeFail
    <3>1. CloseWith /\ UNCHANGED slot /\ UNCHANGED <<wire, dev>> /\ Abandon(Conn, TRUE)
      BY <2>1 DEF HandshakeFail, pionVars
    <3> QED
      BY <1>3, <3>1, PressAbandon
  <2>2. CASE HandshakeSend \/ HandshakeWritten \/ HandshakeReady
    BY <1>1, <2>2 DEF HandshakeSend, HandshakeWritten, HandshakeReady, hidVars
  <2> QED
    BY <1>6, <2>1, <2>2 DEF Handshake
<1>7. ASSUME NEW c \in Callers, User(c) PROVE Goal
  <2>1. CASE BeginLease(c)
    <3>1. slot = c /\ activeGen = 0
      BY <2>1 DEF BeginLease, SlotInv, SlotOK, HolderOK, HasHandle
    <3>2. held = {} /\ UNCHANGED held /\ UNCHANGED slot /\ activeGen' # 0
      BY <2>1 DEF BeginLease, TypeOK, HidTypes
    <3>3. Pressed' = Pressed
      BY <2>1, PressKept DEF BeginLease, pionVars, writeVars
    <3> QED
      BY <3>1, <3>2, <3>3 DEF Owner, Starts
  <2>2. CASE AcquireSlot(c)
    <3>1. activeGen = 0 /\ UNCHANGED activeGen
      BY <2>2, ConstantsAssumption
      DEF AcquireSlot, SlotInv, hidVars, ConstantsAssumption, Neutralizers, Privileged
    <3> QED
      BY <1>1, <3>1
  <2>3. CASE AcquireFail(c) \/ FreeSlot(c)
    <3>1. activeGen = 0 /\ UNCHANGED activeGen
      BY <2>3 DEF AcquireFail, FreeSlot, SlotInv, SlotOK, HolderOK, HasHandle, hidVars
    <3> QED
      BY <1>1, <3>1
  <2>4. CASE ~(BeginLease(c) \/ AcquireSlot(c) \/ AcquireFail(c) \/ FreeSlot(c))
    <3>1. UNCHANGED <<activeGen, slot>>
      BY <1>7, <2>4
      DEF User, SendReport, ReleaseKeyboard, Submit,
          CallReturn, CallContextEnds, UserRelease, Watchdog, ReleaseReturn, hidVars
    <3> QED
      BY <1>1, <3>1
  <2> QED
    BY <2>1, <2>2, <2>3, <2>4
<1>8. ASSUME NEW r \in Neutralizers, Release(r) PROVE Goal
  <2>1. CASE RelInvalidate(r)
    <3>1. activeGen' = 0 /\ UNCHANGED held /\ UNCHANGED <<wire, dev, writerPc>> /\ UNCHANGED writerReq
      BY <2>1 DEF RelInvalidate, InvalidateLease, writeVars, pionVars
    <3> QED
      BY <1>2, <3>1, PressKept
  <2>2. CASE RelLockTimeout(r) \/ RelUnlock(r)
    <3>1. /\ CloseWith \/ UNCHANGED activeGen
          /\ UNCHANGED slot /\ UNCHANGED <<wire, dev, writerPc>> /\ UNCHANGED writerReq
      BY <2>2 DEF RelLockTimeout, RelUnlock, writeVars, pionVars, hidVars
    <3>2. Pressed' = Pressed
      BY <3>1, PressKept
    <3>3. CASE CloseWith
      BY <1>3, <3>1, <3>2, <3>3
    <3>4. CASE UNCHANGED activeGen
      BY <1>1, <3>1, <3>4
    <3> QED
      BY <3>1, <3>3, <3>4
  <2>3. CASE ~(RelInvalidate(r) \/ RelLockTimeout(r) \/ RelUnlock(r))
    <3>1. UNCHANGED <<activeGen, slot>>
      BY <1>8, <2>3
      DEF Release, RelLock, RelEnqueue, RelWritten, RelDrainCheck,
          RelDrainEdge, RelDrainDown, RelAttemptFailed, RelClear, hidVars
    <3> QED
      BY <1>1, <3>1
  <2> QED
    BY <2>1, <2>2, <2>3
<1>9. CASE (\E k \in Closers : Close(k)) \/ (\E r \in Privileged : RelContextEnds(r))
  <2>1. UNCHANGED <<activeGen, slot>>
    BY <1>9 DEF Close, RelContextEnds, hidVars
  <2> QED
    BY <1>1, <2>1
<1> QED
  BY <1>4, <1>5, <1>6, <1>7, <1>8, <1>9 DEF Next

\* Every step of the client is a step of the lease, or leaves it as it is.
LEMMA LeaseStep ==
    ASSUME GateInv, SlotInv, QueueInv, WireInv, [Next]_vars
    PROVE  [Lease!Next]_(Lease!vars)
<1> DEFINE AGrant == \E c \in Callers : Owner = None /\ held = {} /\ Pressed = {} /\ Owner' = c
                          /\ UNCHANGED held /\ Pressed' = Pressed
           AInput == \E i \in Ifaces : Owner # None /\ held' = held \cup {i} /\ Pressed' = Pressed \cup {i} /\ Owner' = Owner
           ASettle == Pressed' \in SUBSET Pressed /\ Owner' = Owner /\ UNCHANGED held
           ARevoke == Owner # None /\ Owner' = None /\ UNCHANGED held /\ Pressed' = Pressed
           AConfirm == Owner = None /\ (\E S \in SUBSET Ifaces : S \cap Pressed = {} /\ held' = held \ S)
                        /\ Owner' = Owner /\ Pressed' = Pressed
<1>0. TypeOK /\ HandOK
  BY DEF GateInv, QueueInv
<1>1. AGrant \/ AInput \/ ASettle \/ ARevoke \/ AConfirm
  <2>1. CASE Owner' # Owner
    <3>1. CASE Ends
      BY <2>1, <3>1 DEF Ends
    <3>2. CASE Starts
      BY <3>2 DEF Starts, WireInv, HeldIsConservative, Pressed
    <3> QED
      BY <1>0, <2>1, <3>1, <3>2, OwnerMove
  <2>2. CASE Owner' = Owner /\ UNCHANGED <<held, heldPos>>
    <3>1. CASE Pressed' \in SUBSET Pressed
      BY <2>2, <3>1
    <3>2. ASSUME NEW i \in Ifaces, MayPress(i)', ~MayPress(i) PROVE AInput
      <4>1. PressesAt(i)
        BY <1>0, <3>2, PressStep
      <4>2. activeGen # 0 /\ HeldAdd(writerReq) /\ UNCHANGED <<wire, dev, writerReq>>
        BY <1>0, <4>1, Presses DEF PressesAt, WriterFinal, pionVars
      <4>3. i \in held' /\ Owner # None
        BY <4>1, <4>2, ConstantsAssumption
        DEF HeldAdd, PressesAt, Owner, SlotInv, ConstantsAssumption, Neutralizers, Privileged
      <4>4. Pressed' = Pressed \cup {i}
        BY <4>1, <4>2 DEF Pressed, MayPress, PressesAt, WriterFinal
      <4> QED
        BY <2>2, <4>3, <4>4
    <3> QED
      BY <3>1, <3>2 DEF Pressed
  <2>3. CASE Owner' = Owner /\ WriterFinal /\ writerPc' = "send" /\ HeldAdd(writerReq)
    <3>1. writerPc = "final" /\ UNCHANGED <<wire, dev, writerReq>>
      BY <2>3 DEF WriterFinal, pionVars, Loop
    <3>2. CASE writerReq.frame.hold /\ ~writerReq.priv
      <4>1. PICK i \in Ifaces : i = writerReq.frame.ifc
        BY <1>0, <2>3, <3>2, Presses
      <4>2. Pressed' = Pressed \cup {i}
        BY <2>3, <3>1, <3>2, <4>1 DEF Pressed, MayPress
      <4>3. held' = held \cup {i} /\ activeGen # 0
        BY <1>0, <2>3, <3>2, <4>1, Presses DEF HeldAdd
      <4>4. Owner # None
        BY <4>3, ConstantsAssumption
        DEF Owner, SlotInv, ConstantsAssumption, Neutralizers, Privileged
      <4> QED
        BY <2>3, <4>2, <4>3, <4>4
    <3>3. CASE ~(writerReq.frame.hold /\ ~writerReq.priv)
      <4>1. UNCHANGED held
        BY <2>3, <3>3 DEF HeldAdd
      <4>2. ~writerReq.frame.hold
        BY <1>0, <3>3 DEF HandOK, PrivShape, InputShape
      <4>3. Pressed' = Pressed
        BY <2>3, <3>1, <4>2 DEF Pressed, MayPress
      <4> QED
        BY <2>3, <4>1, <4>3
    <3> QED
      BY <3>2, <3>3
  <2>4. ASSUME Owner' = Owner, NEW r \in Neutralizers, RelClear(r) PROVE AConfirm
    <3>1. activeGen = 0 /\ held' = held \ Planned(r) /\ relPc[r] = "clear"
      BY <2>4 DEF RelClear, GateInv, RevokedOK, Revoked, Gated
    <3>2. Planned(r) \in SUBSET Ifaces /\ Planned(r) \cap Pressed = {}
      BY <3>1 DEF WireInv, ClearOK, Planned, Ifaces, Pressed
    <3>3. Pressed' = Pressed
      BY <2>4, PressKept DEF RelClear, pionVars, writeVars
    <3> QED
      BY <2>4, <3>1, <3>2, <3>3 DEF Owner
  <2> QED
    BY <2>1, <2>2, <2>3, <2>4, HeldStep
<1> QED
  BY <1>1 DEF Lease!Next, Lease!vars, Lease!Grant, Lease!Input, Lease!Settle, Lease!Revoke, Lease!Confirm,
     Owner, Pressed

\* The client starts as the lease does.
LEMMA LeaseInit == Init => Lease!Init
  BY DEF Init, Lease!Init, MayPress

\* hidClient with controlLease implements ControlLease (owner.go:22-49): only the slot's
\* owner presses anything, and leases start and releases are confirmed only on a truly
\* neutral target, for every value of the constants.
THEOREM LeaseCorrect == Spec => ImplementsControlLease
<1>1. GateInv /\ SlotInv /\ QueueInv /\ WireInv /\ [Next]_vars => [Lease!Next]_(Lease!vars)
  BY LeaseStep
<1>2. GateInv /\ GateInv' /\ SlotInv /\ [Next]_vars => SlotInv'
  BY SlotStep
<1>3. Spec => []SlotInv
  BY <1>2, GateCorrect, SlotInit, PTL DEF Spec
<1> QED
  BY <1>1, <1>3, LeaseInit, GateCorrect, QueueCorrect, WireCorrect, PTL DEF Spec, ImplementsControlLease, Lease!Spec

-----------------------------------------------------------------------------
(***************************************************************************)
(* Neutralization does not move the pointer.                               *)
(***************************************************************************)

Absolute(w, n) == w[n].frame.ifc = "absolute"

\* A pointer at d is at x once it has followed the first n - 1 packets of w.
Follows(w, d, n, x) ==
    /\ \A m \in 1..(n-1) :
           Absolute(w, m) /\ (\A k \in (m+1)..(n-1) : ~Absolute(w, k)) => w[m].frame.pos = x
    /\ (\A m \in 1..(n-1) : ~Absolute(w, m)) => d = x

\* An absolute report of a user is validated and about to be sent.
PointerInHand == writerPc = "send" /\ ~writerReq.priv /\ writerReq.frame.ifc = "absolute"

\* The recorded coordinates are where the pointer ends up; a plan, and the absolute
\* report in the writer's hands, carry these coordinates.
EndsAtRecorded == PointerInHand \/ Follows(wire, devPos, Len(wire) + 1, heldPos)
PlansRecorded ==
    \A r \in Neutralizers : relPc[r] \in Planning => relAbs[r] \in {None, heldPos}
SendsRecorded ==
    writerPc = "send" /\ writerReq.frame.ifc = "absolute" => writerReq.frame.pos = heldPos
ReportsStay ==
    \A n \in 1..Len(wire) : wire[n].priv /\ Absolute(wire, n) => Follows(wire, devPos, n, wire[n].frame.pos)

PointerInv == EndsAtRecorded /\ PlansRecorded /\ SendsRecorded /\ ReportsStay

\* The coordinates a request carries, and what kind of request it is, stay with it when
\* its caller leaves.
LEMMA KilledReport ==
    ASSUME TypeOK, NEW p, NEW b, Abandon(p, b)
    PROVE  /\ writerPc' = writerPc /\ writerReq'.priv = writerReq.priv
           /\ writerReq'.frame = writerReq.frame
<1>1. \A req \in Request : Kill(req, p, b).priv = req.priv /\ Kill(req, p, b).frame = req.frame
  BY DEF Kill, Request
<1> QED
  BY <1>1 DEF Abandon, TypeOK, WriterTypes

\* A report behind packet n - 1 changes nothing for those before it; an absolute one is
\* followed.
LEMMA FollowsSent ==
    ASSUME TypeOK, wire' = Sent(writerReq), UNCHANGED devPos, NEW x
    PROVE  /\ \A n \in 1..(Len(wire) + 1) : Follows(wire, devPos, n, x) => Follows(wire', devPos', n, x)
           /\ writerReq.frame.ifc = "absolute"
                  => Follows(wire', devPos', Len(wire') + 1, writerReq.frame.pos)
           /\ writerReq.frame.ifc # "absolute" /\ Follows(wire, devPos, Len(wire) + 1, x)
                  => Follows(wire', devPos', Len(wire') + 1, x)
<1>1. /\ Len(wire) \in Nat /\ Len(wire') = Len(wire) + 1
      /\ wire'[Len(wire) + 1].frame = writerReq.frame
      /\ \A n \in 1..Len(wire) : wire'[n] = wire[n]
  BY WireSent
<1>2. PICK l \in Nat : l = Len(wire) /\ Len(wire') = l + 1
  BY <1>1
<1>3. /\ \A n \in 1..l : wire'[n].frame = wire[n].frame /\ (Absolute(wire', n) <=> Absolute(wire, n))
      /\ Absolute(wire', l + 1) <=> writerReq.frame.ifc = "absolute"
      /\ wire'[l + 1].frame = writerReq.frame
  BY <1>1, <1>2 DEF Absolute
<1> HIDE DEF Absolute
<1>4. ASSUME NEW n \in 1..(l + 1), Follows(wire, devPos, n, x) PROVE Follows(wire', devPos', n, x)
  <2>1. \A m \in 1..(n-1) : m \in 1..l
    OBVIOUS
  <2>2. \A m \in 1..(n-1) : \A k \in (m+1)..(n-1) : k \in 1..l
    OBVIOUS
  <2> QED
    BY <1>3, <1>4, <2>1, <2>2 DEF Follows
<1>5. CASE writerReq.frame.ifc = "absolute"
  <2>1. \A m \in 1..(l+1) : m # l + 1 => l + 1 \in (m+1)..(l+1)
    OBVIOUS
  <2>2. l + 1 \in 1..(l+1) /\ l + 1 + 1 - 1 = l + 1
    OBVIOUS
  <2>3. Follows(wire', devPos', l + 1 + 1, writerReq.frame.pos)
    BY <1>3, <1>5, <2>1, <2>2 DEF Follows
  <2> QED
    BY <1>2, <1>4, <1>5, <2>3
<1>6. CASE writerReq.frame.ifc # "absolute" /\ Follows(wire, devPos, l + 1, x)
  <2>1. ASSUME NEW m \in 1..(l+1), Absolute(wire', m), \A k \in (m+1)..(l+1) : ~Absolute(wire', k)
        PROVE  wire'[m].frame.pos = x
    <3>1. m \in 1..l
      BY <1>3, <1>6, <2>1
    <3>2. \A k \in (m+1)..l : ~Absolute(wire, k)
      BY <1>3, <2>1
    <3> QED
      BY <1>3, <1>6, <2>1, <3>1, <3>2 DEF Follows
  <2>2. (\A m \in 1..(l+1) : ~Absolute(wire', m)) => devPos' = x
    BY <1>3, <1>6 DEF Follows
  <2>3. Follows(wire', devPos', l + 1 + 1, x)
    BY <2>1, <2>2 DEF Follows
  <2> QED
    BY <1>2, <1>4, <1>6, <2>3
<1>7. \A n \in 1..(Len(wire) + 1) : Follows(wire, devPos, n, x) => Follows(wire', devPos', n, x)
  BY <1>2, <1>4
<1> QED
  BY <1>2, <1>5, <1>6, <1>7

\* The peer acts on the oldest packet.
LEMMA FollowsAck ==
    ASSUME TypeOK, Ack, NEW x, NEW n \in 1..Len(wire), Follows(wire, devPos, n + 1, x)
    PROVE  Follows(wire', devPos', n, x)
<1>1. PICK l \in Nat \ {0} : l = Len(wire) /\ Len(wire') = l - 1
  BY WireTypes DEF Ack
<1>2. /\ \A m \in 1..(l - 1) : wire'[m] = wire[m + 1] /\ m + 1 \in 1..l
      /\ devPos' = IF Absolute(wire, 1) THEN wire[1].frame.pos ELSE devPos
  BY <1>1, WireTypes DEF Ack, Absolute
<1>3. \A m \in 1..(l - 1) : Absolute(wire', m) <=> Absolute(wire, m + 1)
  BY <1>2 DEF Absolute
<1>4. n \in 1..l /\ n + 1 - 1 = n
  BY <1>1
<1>5. ASSUME NEW m \in 1..(n - 1), Absolute(wire', m), \A k \in (m + 1)..(n - 1) : ~Absolute(wire', k)
      PROVE  wire'[m].frame.pos = x
  <2>1. Absolute(wire, m + 1) /\ m + 1 \in 1..n /\ wire'[m] = wire[m + 1]
    BY <1>2, <1>3, <1>4, <1>5
  <2>2. ASSUME NEW k \in (m + 1 + 1)..n PROVE ~Absolute(wire, k)
    <3>1. k - 1 \in (m + 1)..(n - 1) /\ k - 1 \in 1..(l - 1) /\ k - 1 + 1 = k
      BY <1>4, <2>2
    <3>2. PICK j \in (m + 1)..(n - 1) : j = k - 1 /\ j \in 1..(l - 1) /\ j + 1 = k
      BY <3>1
    <3> QED
      BY <1>3, <1>5, <3>2
  <2> QED
    BY <1>4, <2>1, <2>2 DEF Follows
<1>6. ASSUME \A m \in 1..(n - 1) : ~Absolute(wire', m) PROVE devPos' = x
  <2>1. ASSUME NEW k \in 2..n PROVE ~Absolute(wire, k)
    <3>1. PICK j \in 1..(n - 1) : k = j + 1
      BY <1>4, <2>1
    <3> QED
      BY <1>3, <1>4, <1>6, <3>1
  <2>2. CASE Absolute(wire, 1)
    <3>1. 1 \in 1..n /\ 1 + 1 = 2
      BY <1>4
    <3> QED
      BY <1>2, <1>4, <2>1, <2>2, <3>1 DEF Follows
  <2>3. CASE ~Absolute(wire, 1)
    <3>1. \A k \in 1..n : ~Absolute(wire, k)
      BY <1>4, <2>1, <2>3
    <3> QED
      BY <1>2, <1>4, <2>3, <3>1 DEF Follows
  <2> QED
    BY <2>2, <2>3
<1> QED
  BY <1>5, <1>6 DEF Follows

\* Only Send and the acknowledgement touch what the pointer follows.
LEMMA PointerMoves ==
    ASSUME "send" \notin Faults, [Next]_vars
    PROVE  (UNCHANGED <<wire, devPos>> /\ ~WriterSend) \/ Ack \/ WriterSend
<1>1. CASE Writer \/ Handshake \/ Pion \/ UNCHANGED vars
  BY <1>1
  DEF Writer, WriterTakePriority, WriterTakeInput, WriterStop, WriterFinal, WriterSendError,
      WriterDrainCheck, WriterDrainEdge, WriterDrainEnd,
      Handshake, HandshakeSend, HandshakeWritten, HandshakeReady, HandshakeFail,
      Pion, TransportDown, vars, pionVars
<1>2. ASSUME NEW c \in Callers, User(c) PROVE UNCHANGED <<wire, devPos>>
  BY <1>2
  DEF User, AcquireSlot, BeginLease, AcquireFail, SendReport, ReleaseKeyboard, Submit,
      CallReturn, CallContextEnds, UserRelease, Watchdog, ReleaseReturn, FreeSlot, pionVars
<1>3. ASSUME NEW r \in Neutralizers, Release(r) PROVE UNCHANGED <<wire, devPos>>
  BY <1>3
  DEF Release, RelLock, RelLockTimeout, RelInvalidate, RelEnqueue, RelWritten, RelDrainCheck,
      RelDrainEdge, RelDrainDown, RelAttemptFailed, RelClear, RelUnlock, pionVars
<1>4. CASE (\E k \in Closers : Close(k)) \/ (\E r \in Privileged : RelContextEnds(r))
  BY <1>4 DEF Close, RelContextEnds, pionVars
<1> QED
  BY <1>1, <1>2, <1>3, <1>4 DEF Next

\* A validated report stays in the writer's hands until Send.
LEMMA HandStays ==
    ASSUME "send" \notin Faults, TypeOK, [Next]_vars, writerPc = "send", ~WriterSend
    PROVE  UNCHANGED writerPc /\ writerReq'.priv = writerReq.priv /\ writerReq'.frame = writerReq.frame
<1>1. CASE Writer \/ Pion \/ UNCHANGED vars
  BY <1>1
  DEF Writer, WriterTakePriority, WriterTakeInput, WriterStop, WriterFinal, WriterSendError,
      WriterDrainCheck, WriterDrainEdge, WriterDrainEnd, Pion, Ack, TransportDown, writeVars, vars
<1>2. CASE Handshake
  BY <1>2, KilledReport
  DEF Handshake, HandshakeSend, HandshakeWritten, HandshakeReady, HandshakeFail, writeVars
<1>3. ASSUME NEW c \in Callers, User(c)
      PROVE  UNCHANGED <<writerPc, writerReq>> \/ Abandon(c, FALSE)
  BY <1>3
  DEF User, AcquireSlot, BeginLease, AcquireFail, SendReport, ReleaseKeyboard, Submit,
      CallReturn, CallContextEnds, UserRelease, Watchdog, ReleaseReturn, FreeSlot, writeVars
<1>4. ASSUME NEW r \in Neutralizers, Release(r)
      PROVE  UNCHANGED <<writerPc, writerReq>> \/ Abandon(r, TRUE)
  BY <1>4
  DEF Release, RelLock, RelLockTimeout, RelInvalidate, RelEnqueue, RelWritten, RelDrainCheck,
      RelDrainEdge, RelDrainDown, RelAttemptFailed, RelClear, RelUnlock, writeVars
<1>5. CASE (\E k \in Closers : Close(k)) \/ (\E r \in Privileged : RelContextEnds(r))
  BY <1>5 DEF Close, RelContextEnds, writeVars
<1> QED
  BY <1>1, <1>2, <1>3, <1>4, <1>5, KilledReport DEF Next

\* What the writer has in its hands, and what it sends, moves in four ways.
LEMMA HandMoves ==
    ASSUME TypeOK, [Next]_vars
    PROVE  \/ writerPc' # "send"
           \/ UNCHANGED writerPc /\ writerReq'.priv = writerReq.priv
              /\ writerReq'.frame = writerReq.frame
           \/ WriterFinal /\ writerPc' = "send" /\ HeldAdd(writerReq) /\ UNCHANGED writerReq
              /\ Writable(writerReq) /\ ~ContextErr(writerReq)
<1> DEFINE Same == UNCHANGED writerPc /\ writerReq'.priv = writerReq.priv
                   /\ writerReq'.frame = writerReq.frame
<1>1. CASE UNCHANGED <<writerPc, writerReq>>
  BY <1>1
<1>2. CASE Writer
  BY <1>2
  DEF Writer, WriterTakePriority, WriterTakeInput, WriterStop, WriterFinal, WriterSend,
      WriterSendError, WriterDrainCheck, WriterDrainEdge, WriterDrainEnd, Take, Loop
<1>3. CASE Pion \/ UNCHANGED vars
  BY <1>3 DEF Pion, Ack, TransportDown, writeVars, vars
<1>4. CASE Handshake
  BY <1>4, KilledReport
  DEF Handshake, HandshakeSend, HandshakeWritten, HandshakeReady, HandshakeFail, writeVars
<1>5. ASSUME NEW c \in Callers, User(c) PROVE Same
  BY <1>5, KilledReport
  DEF User, AcquireSlot, BeginLease, AcquireFail, SendReport, ReleaseKeyboard, Submit,
      CallReturn, CallContextEnds, UserRelease, Watchdog, ReleaseReturn, FreeSlot, writeVars
<1>6. ASSUME NEW r \in Neutralizers, Release(r) PROVE Same
  BY <1>6, KilledReport
  DEF Release, RelLock, RelLockTimeout, RelInvalidate, RelEnqueue, RelWritten, RelDrainCheck,
      RelDrainEdge, RelDrainDown, RelAttemptFailed, RelClear, RelUnlock, writeVars
<1>7. CASE (\E k \in Closers : Close(k)) \/ (\E r \in Privileged : RelContextEnds(r))
  BY <1>7 DEF Close, RelContextEnds, writeVars
<1> QED
  BY <1>2, <1>3, <1>4, <1>5, <1>6, <1>7 DEF Next

\* The recorded coordinates move only when a user's absolute report passes the last check,
\* and that happens under no release.
LEMMA RecordMoves ==
    ASSUME GateInv, HandOK, [Next]_vars
    PROVE  \/ UNCHANGED heldPos
           \/ PointerInHand' /\ heldPos' = writerReq'.frame.pos
              /\ \A r \in Neutralizers : relPc[r] \notin Revoked
<1>1. CASE WriterFinal /\ writerPc' = "send" /\ HeldAdd(writerReq)
  <2>1. CASE writerReq.priv \/ writerReq.frame.ifc # "absolute"
    BY <1>1, <2>1 DEF HeldAdd
  <2>2. CASE ~writerReq.priv /\ writerReq.frame.ifc = "absolute"
    <3>1. activeGen # 0 /\ UNCHANGED writerReq
      BY <1>1, <2>2, Presses DEF GateInv
    <3> QED
      BY <1>1, <2>2, <3>1 DEF HeldAdd, PointerInHand, GateInv, RevokedOK
  <2> QED
    BY <2>1, <2>2
<1>2. ASSUME NEW r \in Neutralizers, RelClear(r) PROVE UNCHANGED heldPos
  BY <1>2 DEF RelClear
<1> QED
  BY <1>1, <1>2, HeldStep

\* A plan is made of the recorded coordinates, and nobody moves them while it is carried out.
LEMMA PlansStep ==
    ASSUME GateInv, HandOK, PlansRecorded, [Next]_vars
    PROVE  PlansRecorded'
<1> SUFFICES ASSUME NEW r \in Neutralizers, relPc'[r] \in Planning PROVE relAbs'[r] \in {None, heldPos'}
  BY DEF PlansRecorded
<1>0. r \in Privileged /\ Planning \subseteq Revoked
  BY DEF Neutralizers, Privileged, Planning, Revoked, Gated
<1>1. CASE relPc[r] \in Planning /\ relAbs'[r] = relAbs[r]
  <2>1. UNCHANGED heldPos
    BY <1>0, <1>1, RecordMoves
  <2> QED
    BY <1>1, <2>1 DEF PlansRecorded
<1>2. CASE RelInvalidate(r)
  BY <1>0, <1>2 DEF RelInvalidate, Finish, GateInv, TypeOK, RelTypes
<1>3. CASE RelClear(r) \/ GaveUp(r) \/ OffPlan(r)
  <2>1. relPc'[r] \notin Planning
    BY <1>0, <1>3 DEF RelClear, Finish, GaveUp, OffPlan, Planning, GateInv, TypeOK, RelTypes
  <2> QED
    BY <2>1
<1> QED
  BY <1>1, <1>2, <1>3, PlanMove DEF Unmoved, OnPlan, GateInv

\* Whatever absolute report is about to be sent carries the recorded coordinates.
LEMMA SendsStep ==
    ASSUME GateInv, QueueInv, PlansRecorded, SendsRecorded, [Next]_vars
    PROVE  SendsRecorded'
<1> SUFFICES ASSUME writerPc' = "send", writerReq'.frame.ifc = "absolute"
             PROVE  writerReq'.frame.pos = heldPos'
  BY DEF SendsRecorded
<1>0. TypeOK /\ HandOK
  BY DEF GateInv, QueueInv
<1>1. CASE UNCHANGED writerPc /\ writerReq'.priv = writerReq.priv /\ writerReq'.frame = writerReq.frame
  <2>1. CASE UNCHANGED heldPos
    BY <1>1, <2>1 DEF SendsRecorded
  <2>2. CASE ~UNCHANGED heldPos
    BY <1>0, <2>2, RecordMoves
  <2> QED
    BY <2>1, <2>2
<1>2. CASE /\ WriterFinal /\ HeldAdd(writerReq) /\ UNCHANGED writerReq
           /\ Writable(writerReq) /\ ~ContextErr(writerReq)
  <2>1. CASE ~writerReq.priv
    BY <1>2, <2>1 DEF HeldAdd
  <2>2. CASE writerReq.priv
    <3> DEFINE r == writerReq.who
    <3>1. r \in Privileged /\ writerReq.live /\ UNCHANGED heldPos
      BY <1>0, <1>2, <2>2, QueuedTypes DEF HeldAdd, ContextErr
    <3>2. relPc[r] = "await" /\ writerReq.frame = PlanFrame(r, relIdx[r])
      BY <1>0, <2>2, <3>1 DEF HandOK, PrivShape, InputShape, LivePriv
    <3>3. r # Conn /\ r \in Neutralizers /\ relIdx[r] \notin {1, 2} /\ writerReq.frame.pos = relAbs[r]
      BY <1>2, <3>1, <3>2 DEF PlanFrame, NoFrame, Privileged
    <3>4. relIdx[r] \in 1..3 /\ relIdx[r] <= PlanLen(r)
      BY <1>0, <3>1, <3>2, <3>3 DEF QueueInv, IndexOK, TypeOK, RelTypes
    <3>5. relAbs[r] # None
      BY <3>3, <3>4 DEF PlanLen
    <3>6. relAbs[r] = heldPos
      BY <3>2, <3>3, <3>5 DEF PlansRecorded, Planning
    <3> QED
      BY <1>2, <3>1, <3>3, <3>6
  <2> QED
    BY <2>1, <2>2
<1> QED
  BY <1>0, <1>1, <1>2, HandMoves

\* Where the pointer ends up, and where each absolute report of a release finds it.
LEMMA ReportsStep ==
    ASSUME "send" \notin Faults, GateInv, QueueInv, EndsAtRecorded, SendsRecorded, ReportsStay, [Next]_vars
    PROVE  EndsAtRecorded' /\ ReportsStay'
<1>0. TypeOK /\ HandOK /\ Len(wire) \in Nat
  BY WireTypes DEF GateInv, QueueInv
<1>1. CASE WriterSend
  <2>1. wire' = Sent(writerReq) /\ UNCHANGED <<devPos, heldPos>> /\ writerPc = "send" /\ writerPc' # "send"
    BY <1>1 DEF WriterSend, Loop, hidVars
  <2>2. /\ Len(wire') = Len(wire) + 1
        /\ \A n \in 1..Len(wire) : wire'[n] = wire[n]
        /\ wire'[Len(wire) + 1].frame = writerReq.frame
    BY <1>0, <2>1, WireSent
  <2>3. wire'[Len(wire) + 1].priv = writerReq.priv
    <3>1. [frame |-> writerReq.frame, priv |-> writerReq.priv] \in Packet
      BY <1>0 DEF TypeOK, WriterTypes, Request, Packet
    <3> QED
      BY <1>0, <2>1, <3>1, Appended DEF TypeOK, PionTypes, Sent
  <2>4. Follows(wire', devPos', Len(wire') + 1, heldPos')
    BY <1>0, <2>1, FollowsSent DEF EndsAtRecorded, SendsRecorded, PointerInHand
  <2>5. ASSUME NEW n \in 1..Len(wire), wire'[n].priv, Absolute(wire', n)
        PROVE  Follows(wire', devPos', n, wire'[n].frame.pos)
    <3>1. wire[n].priv /\ Absolute(wire, n) /\ wire'[n].frame.pos = wire[n].frame.pos
          /\ n \in 1..(Len(wire) + 1)
      BY <1>0, <2>2, <2>5 DEF Absolute
    <3>2. PICK x : x = wire[n].frame.pos /\ Follows(wire, devPos, n, x)
      BY <3>1 DEF ReportsStay
    <3>3. Follows(wire', devPos', n, x)
      BY <1>0, <2>1, <3>1, <3>2, FollowsSent
    <3> QED
      BY <3>1, <3>2, <3>3
  <2>6. ASSUME writerReq.priv, writerReq.frame.ifc = "absolute"
        PROVE  Follows(wire', devPos', Len(wire) + 1, writerReq.frame.pos)
    <3>1. PICK x : x = heldPos /\ x = writerReq.frame.pos
      BY <2>1, <2>6 DEF SendsRecorded
    <3>2. Follows(wire, devPos, Len(wire) + 1, x)
      BY <2>6, <3>1 DEF EndsAtRecorded, PointerInHand
    <3>3. Len(wire) + 1 \in 1..(Len(wire) + 1)
      BY <1>0
    <3>4. Follows(wire', devPos', Len(wire) + 1, x)
      BY <1>0, <2>1, <3>2, <3>3, FollowsSent
    <3> QED
      BY <3>1, <3>4
  <2>7. ReportsStay'
    <3> SUFFICES ASSUME NEW n \in 1..Len(wire'), wire'[n].priv, Absolute(wire', n)
                 PROVE  Follows(wire', devPos', n, wire'[n].frame.pos)
      BY DEF ReportsStay, Absolute
    <3>1. CASE n \in 1..Len(wire)
      BY <2>5, <3>1
    <3>2. CASE n = Len(wire) + 1
      <4>1. writerReq.priv /\ writerReq.frame.ifc = "absolute" /\ wire'[n].frame.pos = writerReq.frame.pos
        BY <2>2, <2>3, <3>2 DEF Absolute
      <4> QED
        BY <2>6, <3>2, <4>1
    <3> QED
      BY <1>0, <2>2, <3>1, <3>2
  <2> QED
    BY <2>4, <2>7 DEF EndsAtRecorded, Follows, Absolute
<1>2. CASE Ack
  <2>1. UNCHANGED <<writerPc, writerReq, heldPos>>
    BY <1>2 DEF Ack, writeVars, hidVars
  <2>2. /\ Len(wire) \in Nat \ {0} /\ Len(wire') = Len(wire) - 1
        /\ \A n \in 1..Len(wire') : wire'[n] = wire[n + 1] /\ n + 1 \in 1..Len(wire) /\ n \in 1..Len(wire)
    BY <1>0, <1>2, WireTypes DEF Ack
  <2>3. EndsAtRecorded'
    <3>1. CASE PointerInHand
      BY <2>1, <3>1 DEF EndsAtRecorded, PointerInHand
    <3>2. CASE Follows(wire, devPos, Len(wire) + 1, heldPos)
      <4>1. Len(wire) \in 1..Len(wire) /\ Len(wire') + 1 = Len(wire)
        BY <2>2
      <4>2. Follows(wire', devPos', Len(wire), heldPos)
        BY <1>0, <1>2, <3>2, <4>1, FollowsAck
      <4>3. Follows(wire', devPos', Len(wire') + 1, heldPos')
        BY <2>1, <4>1, <4>2
      <4> QED
        BY <4>3 DEF EndsAtRecorded, Follows, Absolute
    <3> QED
      BY <3>1, <3>2 DEF EndsAtRecorded
  <2>4. ReportsStay'
    <3> SUFFICES ASSUME NEW n \in 1..Len(wire'), wire'[n].priv, Absolute(wire', n)
                 PROVE  Follows(wire', devPos', n, wire'[n].frame.pos)
      BY DEF ReportsStay, Absolute
    <3>1. n \in 1..Len(wire) /\ n + 1 \in 1..Len(wire) /\ wire'[n] = wire[n + 1]
      BY <2>2
    <3>2. Follows(wire, devPos, n + 1, wire[n + 1].frame.pos)
      BY <3>1 DEF ReportsStay, Absolute
    <3>3. Follows(wire', devPos', n, wire[n + 1].frame.pos)
      BY <1>0, <1>2, <3>1, <3>2, FollowsAck
    <3> QED
      BY <3>1, <3>3
  <2> QED
    BY <2>3, <2>4
<1>3. CASE UNCHANGED <<wire, devPos>> /\ ~WriterSend
  <2>1. ReportsStay'
    BY <1>3 DEF ReportsStay, Follows, Absolute
  <2>2. EndsAtRecorded'
    <3>1. CASE UNCHANGED heldPos
      <4>1. CASE PointerInHand
        <5>1. PointerInHand'
          BY <1>0, <1>3, <4>1, HandStays DEF PointerInHand
        <5> QED
          BY <5>1 DEF EndsAtRecorded
      <4>2. CASE Follows(wire, devPos, Len(wire) + 1, heldPos)
        BY <1>3, <3>1, <4>2 DEF EndsAtRecorded, Follows, Absolute
      <4> QED
        BY <4>1, <4>2 DEF EndsAtRecorded
    <3>2. CASE ~UNCHANGED heldPos
      BY <1>0, <3>2, RecordMoves DEF EndsAtRecorded
    <3> QED
      BY <3>1, <3>2
  <2> QED
    BY <2>1, <2>2
<1> QED
  BY <1>1, <1>2, <1>3, PointerMoves

\* A finite range of numbers has a last member with a property, if any.
LEMMA LastMember ==
    ASSUME NEW n \in Nat, NEW S, S \subseteq 1..n, S # {}
    PROVE  \E m \in S : \A k \in S : k <= m
<1> DEFINE R == {p \in Nat \X Nat : p[1] < p[2]}
           T == {n - m : m \in S}
<1>1. IsWellFoundedOn(R, Nat)
  BY NatLessThanWellFounded DEF OpToRel
<1>2. T \subseteq Nat /\ T # {}
  <2>1. \A m \in S : n - m \in Nat
    OBVIOUS
  <2>2. PICK m \in S : TRUE
    OBVIOUS
  <2> QED
    BY <2>1, <2>2
<1>3. PICK x \in T : \A y \in T : <<y, x>> \notin R
  BY <1>1, <1>2, WFMin
<1>4. PICK m \in S : x = n - m
  BY <1>3
<1>5. ASSUME NEW k \in S PROVE k <= m
  <2>1. ~(n - k < n - m)
    BY <1>2, <1>3, <1>4, <1>5
  <2> QED
    BY <1>4, <2>1
<1> QED
  BY <1>5

\* A release never moves the pointer (buildNeutralizationPlan, hid.go:842-869; hid.go:730-733),
\* for any number of users, Close callers and positions: its absolute report finds the
\* pointer at the coordinates it carries, as long as Send does not fail ambiguously.
THEOREM PositionKept == ASSUME "send" \notin Faults PROVE Spec => []NeutralKeepsPosition
<1>1. Init => PointerInv
  BY DEF Init, PointerInv, EndsAtRecorded, PlansRecorded, SendsRecorded, ReportsStay, Follows,
     Neutralizers, Privileged, Planning
<1>2. GateInv /\ QueueInv /\ PointerInv /\ [Next]_vars => PointerInv'
  BY ReportsStep, PlansStep, SendsStep DEF PointerInv, QueueInv
<1>3. TypeOK /\ PointerInv => NeutralKeepsPosition
  <2> SUFFICES ASSUME TypeOK, ReportsStay, NEW n \in 1..Len(wire), wire[n].priv, Absolute(wire, n)
               PROVE  wire[n].frame.pos = PointerBefore(n)
    BY DEF PointerInv, NeutralKeepsPosition, Absolute
  <2> DEFINE before == {m \in 1..(n-1) : wire[m].frame.ifc = "absolute"}
             last == CHOOSE m \in before : \A k \in before : k <= m
  <2>0. Len(wire) \in Nat /\ n - 1 \in Nat
    BY WireTypes
  <2>1. Follows(wire, devPos, n, wire[n].frame.pos)
    BY DEF ReportsStay
  <2>2. CASE before = {}
    BY <2>1, <2>2 DEF Follows, Absolute, PointerBefore
  <2>3. CASE before # {}
    <3>1. \E m \in before : \A k \in before : k <= m
      BY <2>0, <2>3, LastMember
    <3>2. last \in before /\ \A k \in before : k <= last
      BY <3>1
    <3>3. PointerBefore(n) = wire[last].frame.pos
      BY <2>3 DEF PointerBefore
    <3> HIDE DEF last
    <3>4. last \in 1..(n-1) /\ Absolute(wire, last) /\ \A k \in (last+1)..(n-1) : ~Absolute(wire, k)
      BY <2>0, <3>2 DEF Absolute
    <3> QED
      BY <2>1, <3>3, <3>4 DEF Follows
  <2> QED
    BY <2>2, <2>3
<1>4. GateInv => TypeOK
  BY DEF GateInv
<1> QED
  BY <1>1, <1>2, <1>3, <1>4, GateCorrect, QueueCorrect, PTL DEF Spec
=============================================================================
