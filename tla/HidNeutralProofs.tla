------------------------- MODULE HidNeutralProofs -------------------------
(***************************************************************************)
(* What a release promises, proved for any number of callers, Close        *)
(* callers, attempts, queue depths and buffer sizes: WireInv is inductive  *)
(* relative to the gate and the queues. The heart of the argument is       *)
(* Quelled: each neutral report a release has written stays behind every   *)
(* pressing report of its interface, because no input can be validated     *)
(* while the lease is revoked; so an empty buffer means released.          *)
(***************************************************************************)
EXTENDS HidProofs

\* Pion's buffer is a sequence of packets.
LEMMA WireTypes ==
    ASSUME TypeOK
    PROVE  /\ Len(wire) \in Nat
           /\ \A n \in 1..Len(wire) : wire[n] \in Packet
           /\ wire # <<>> => /\ Len(wire) \in Nat \ {0} /\ Head(wire) = wire[1]
                             /\ Len(Tail(wire)) = Len(wire) - 1
                             /\ \A n \in 1..Len(Tail(wire)) : Tail(wire)[n] = wire[n + 1]
  BY QueueElements DEF TypeOK, PionTypes

\* The buffer after Send.
LEMMA WireSent ==
    ASSUME TypeOK, wire' = Sent(writerReq)
    PROVE  /\ Len(wire) \in Nat /\ Len(wire') = Len(wire) + 1
           /\ wire'[Len(wire) + 1].frame = writerReq.frame
           /\ \A n \in 1..Len(wire) : wire'[n] = wire[n]
<1>1. [frame |-> writerReq.frame, priv |-> writerReq.priv] \in Packet
  BY DEF TypeOK, WriterTypes, Request, Packet
<1> QED
  BY <1>1, Appended DEF TypeOK, PionTypes, Sent

\* An acknowledgement takes the oldest packet: what is quelled stays quelled.
LEMMA QuelledAck ==
    ASSUME TypeOK, Ack, NEW i \in Ifaces, Quelled(i)
    PROVE  Quelled(i)'
<1>1. /\ Len(wire) \in Nat \ {0} /\ Len(wire') = Len(wire) - 1
      /\ \A n \in 1..Len(wire') : wire'[n] = wire[n + 1]
  BY WireTypes DEF Ack
<1>2. dev' = IF wire[1].frame.hold THEN dev \cup {wire[1].frame.ifc} ELSE dev \ {wire[1].frame.ifc}
  BY WireTypes DEF Ack
<1>3. ASSUME NEW n \in 2..Len(wire), Releases(n, i)
      PROVE  n - 1 \in 1..Len(wire') /\ Releases(n - 1, i)'
  BY <1>1, <1>3 DEF Releases
<1>4. i \in dev' => \E n \in 1..Len(wire') : Releases(n, i)'
  <2>1. ASSUME i \in dev' PROVE \E n \in 2..Len(wire) : Releases(n, i)
    <3>1. CASE wire[1].frame.hold /\ wire[1].frame.ifc = i
      BY <1>1, <3>1 DEF Quelled
    <3>2. CASE ~(wire[1].frame.hold /\ wire[1].frame.ifc = i)
      BY <1>1, <1>2, <2>1, <3>2 DEF Quelled, Releases
    <3> QED
      BY <3>1, <3>2
  <2> QED
    BY <1>3, <2>1
<1>5. ASSUME NEW m \in 1..Len(wire'), wire'[m].frame.ifc = i /\ wire'[m].frame.hold
      PROVE  \E n \in 1..Len(wire') : m < n /\ Releases(n, i)'
  <2>1. PICK n \in 1..Len(wire) : m + 1 < n /\ Releases(n, i)
    BY <1>1, <1>5 DEF Quelled
  <2>2. n - 1 \in 1..Len(wire') /\ Releases(n - 1, i)' /\ m < n - 1
    BY <1>1, <1>3, <2>1
  <2> QED
    BY <2>2
<1> QED
  BY <1>4, <1>5 DEF Quelled

\* A report that releases may be added, and quells its own interface.
LEMMA QuelledSent ==
    ASSUME TypeOK, wire' = Sent(writerReq), UNCHANGED dev, NEW i \in Ifaces,
           ~writerReq.frame.hold,
           Quelled(i) \/ writerReq.frame.ifc = i
    PROVE  Quelled(i)'
<1>1. /\ Len(wire) \in Nat /\ Len(wire') = Len(wire) + 1
      /\ wire'[Len(wire) + 1].frame = writerReq.frame
      /\ \A n \in 1..Len(wire) : wire'[n] = wire[n]
  BY WireSent
<1>2. CASE writerReq.frame.ifc = i
  <2>0. PICK k \in Nat : k = Len(wire) + 1
    BY <1>1
  <2>1. Releases(k, i)' /\ k \in 1..Len(wire')
    BY <1>1, <1>2, <2>0 DEF Releases
  <2>2. \A m \in 1..Len(wire') : wire'[m].frame.hold => m < k
    BY <1>1, <2>0
  <2> QED
    BY <2>1, <2>2 DEF Quelled
<1>3. CASE Quelled(i)
  <2>1. \A n \in 1..Len(wire) : Releases(n, i) => n \in 1..Len(wire') /\ Releases(n, i)'
    BY <1>1 DEF Releases
  <2>2. \A m \in 1..Len(wire') : wire'[m].frame.hold => m \in 1..Len(wire) /\ wire[m] = wire'[m]
    BY <1>1
  <2> QED
    BY <1>1, <1>3, <2>1, <2>2 DEF Quelled
<1> QED
  BY <1>2, <1>3

\* Quelled, acknowledged to the last packet, and no input in the writer's hands: released.
LEMMA QuelledDone ==
    ASSUME TypeOK, HandOK, wire = <<>>, ~InputInHand, NEW i \in Ifaces, Quelled(i)
    PROVE  ~MayPress(i)
  BY DEF Quelled, MayPress, HandOK, PrivShape, InputShape, InputInHand

\* Input passes the last check of write only while a generation is active.
LEMMA Presses ==
    ASSUME TypeOK, HandOK, WriterFinal, writerPc' = "send", ~writerReq.priv
    PROVE  activeGen # 0 /\ writerReq.frame.ifc \in Ifaces /\ HeldAdd(writerReq) /\ UNCHANGED writerReq
<1>1. writerReq.token \in Nat /\ writerReq.priv \in BOOLEAN
  BY DEF TypeOK, WriterTypes, Request
<1> QED
  BY <1>1 DEF HandOK, PrivShape, InputShape, WriterFinal, Writable, Loop

\* The writer validates input that presses interface i.
PressesAt(i) ==
    /\ WriterFinal /\ writerPc' = "send" /\ ~writerReq.priv
    /\ writerReq.frame.ifc = i /\ writerReq.frame.hold

\* What may be pressed grows only when the writer validates input that presses.
LEMMA PressStep ==
    ASSUME TypeOK, HandOK, [Next]_vars, NEW i \in Ifaces, MayPress(i)'
    PROVE  MayPress(i) \/ PressesAt(i)
<1>1. CASE UNCHANGED <<wire, dev>> /\ writerPc' # "send"
  BY <1>1 DEF MayPress
<1>2. ASSUME UNCHANGED <<wire, dev, writerPc>>, writerReq'.frame = writerReq.frame PROVE MayPress(i)
  BY <1>2 DEF MayPress
<1>3. CASE WriterFinal
  <2>1. UNCHANGED <<wire, dev>>
    BY <1>3 DEF WriterFinal, pionVars
  <2>2. CASE writerPc' # "send"
    BY <1>1, <2>1, <2>2
  <2>3. CASE writerPc' = "send"
    <3>1. UNCHANGED writerReq
      BY <1>3, <2>3 DEF WriterFinal, Loop
    <3>2. writerReq.frame.hold => ~writerReq.priv
      BY DEF HandOK, PrivShape, InputShape
    <3> QED
      BY <1>3, <2>1, <2>3, <3>1, <3>2 DEF MayPress, PressesAt
  <2> QED
    BY <2>2, <2>3
<1>4. CASE WriterSend \/ WriterSendError
  <2>1. writerPc = "send" /\ UNCHANGED dev /\ writerPc' # "send" /\ wire' \in {wire, Sent(writerReq)}
    BY <1>4 DEF WriterSend, WriterSendError, Loop
  <2>2. CASE wire' = Sent(writerReq)
    <3>1. PICK n \in 1..Len(wire') : (wire'[n].frame.ifc = i /\ wire'[n].frame.hold) \/ i \in dev
      BY <2>1, <2>2, WireSent DEF MayPress
    <3> QED
      BY <2>1, <2>2, <3>1, WireSent DEF MayPress
  <2>3. CASE wire' = wire
    BY <1>1, <2>1, <2>3
  <2> QED
    BY <2>1, <2>2, <2>3
<1>5. CASE Ack
  <2>1. /\ Len(wire) \in Nat \ {0} /\ Len(wire') = Len(wire) - 1
        /\ \A n \in 1..Len(wire') : wire'[n] = wire[n + 1] /\ n + 1 \in 1..Len(wire)
    BY <1>5, WireTypes DEF Ack
  <2>2. i \in dev' => i \in dev \/ (wire[1].frame.hold /\ wire[1].frame.ifc = i)
    BY <1>5, WireTypes DEF Ack
  <2>3. UNCHANGED <<writerPc, writerReq>>
    BY <1>5 DEF Ack, writeVars
  <2> QED
    BY <2>1, <2>2, <2>3 DEF MayPress
<1>6. CASE WriterTakePriority \/ WriterTakeInput \/ WriterStop \/ WriterDrainCheck
           \/ WriterDrainEdge \/ WriterDrainEnd
  BY <1>1, <1>6
  DEF WriterTakePriority, WriterTakeInput, WriterStop, WriterDrainCheck, WriterDrainEdge,
      WriterDrainEnd, Take, Loop, pionVars
<1>7. ASSUME NEW p, NEW b, Abandon(p, b), UNCHANGED <<wire, dev>> PROVE MayPress(i)
  <2>1. PICK q \in Request : q = writerReq
    BY DEF TypeOK, WriterTypes
  <2>2. Kill(q, p, b).frame = q.frame
    BY DEF Kill, Request
  <2> QED
    BY <1>2, <1>7, <2>1, <2>2 DEF Abandon
<1>8. CASE Handshake
  BY <1>2, <1>7, <1>8
  DEF Handshake, HandshakeSend, HandshakeWritten, HandshakeReady, HandshakeFail, writeVars, pionVars
<1>9. CASE TransportDown \/ UNCHANGED vars
  BY <1>2, <1>9 DEF TransportDown, writeVars, pionVars, vars
<1>10. ASSUME NEW c \in Callers, User(c) PROVE MayPress(i)
  BY <1>2, <1>7, <1>10
  DEF User, AcquireSlot, BeginLease, AcquireFail, SendReport, ReleaseKeyboard, Submit,
      CallReturn, CallContextEnds, UserRelease, Watchdog, ReleaseReturn, FreeSlot, writeVars, pionVars
<1>11. ASSUME NEW k \in Closers, Close(k) PROVE MayPress(i)
  BY <1>2, <1>11 DEF Close, writeVars, pionVars
<1>12. ASSUME NEW r \in Neutralizers, Release(r) PROVE MayPress(i)
  BY <1>2, <1>7, <1>12
  DEF Release, RelLock, RelLockTimeout, RelInvalidate, RelEnqueue, RelWritten, RelDrainCheck,
      RelDrainEdge, RelDrainDown, RelAttemptFailed, RelClear, RelUnlock, writeVars, pionVars
<1>13. ASSUME NEW r \in Privileged, RelContextEnds(r) PROVE MayPress(i)
  BY <1>2, <1>13 DEF RelContextEnds, writeVars, pionVars
<1> QED
  BY <1>3, <1>4, <1>5, <1>6, <1>8, <1>9, <1>10, <1>11, <1>12, <1>13 DEF Next, Writer, Pion

\* The three ways the held model moves.
LEMMA HeldStep ==
    ASSUME [Next]_vars
    PROVE  \/ UNCHANGED <<held, heldPos>>
           \/ WriterFinal /\ writerPc' = "send" /\ HeldAdd(writerReq)
           \/ \E r \in Neutralizers : RelClear(r)
<1>1. CASE Writer
  BY <1>1
  DEF Writer, WriterTakePriority, WriterTakeInput, WriterStop, WriterFinal, WriterSend,
      WriterSendError, WriterDrainCheck, WriterDrainEdge, WriterDrainEnd, hidVars
<1>2. CASE Handshake \/ Pion \/ UNCHANGED vars
  BY <1>2
  DEF Handshake, HandshakeSend, HandshakeWritten, HandshakeReady, HandshakeFail,
      Pion, Ack, TransportDown, CloseWith, vars, hidVars
<1>3. ASSUME NEW c \in Callers, User(c) PROVE UNCHANGED <<held, heldPos>>
  BY <1>3
  DEF User, AcquireSlot, BeginLease, AcquireFail, SendReport, ReleaseKeyboard, Submit,
      CallReturn, CallContextEnds, UserRelease, Watchdog, ReleaseReturn, FreeSlot, hidVars
<1>4. ASSUME NEW r \in Neutralizers, Release(r) PROVE UNCHANGED <<held, heldPos>> \/ RelClear(r)
  BY <1>4
  DEF Release, RelLock, RelLockTimeout, RelInvalidate, RelEnqueue, RelWritten, RelDrainCheck,
      RelDrainEdge, RelDrainDown, RelAttemptFailed, RelUnlock, CloseWith, hidVars
<1>5. CASE (\E k \in Closers : Close(k)) \/ (\E r \in Privileged : RelContextEnds(r))
  BY <1>5 DEF Close, RelContextEnds, hidVars
<1> QED
  BY <1>1, <1>2, <1>3, <1>4, <1>5 DEF Next

\* The held model covers whatever may be pressed, and knows where the pointer is.
LEMMA HeldInvStep ==
    ASSUME TypeOK, HandOK, ClearOK, PositionKnown, HeldIsConservative, [Next]_vars
    PROVE  PositionKnown' /\ HeldIsConservative'
<1>1. CASE UNCHANGED <<held, heldPos>>
  <2>1. ASSUME NEW i \in Ifaces, PressesAt(i) PROVE i \in held'
    <3>1. HeldAdd(writerReq)
      BY <2>1, Presses DEF PressesAt
    <3> QED
      BY <2>1, <3>1 DEF HeldAdd, PressesAt
  <2> QED
    BY <1>1, <2>1, PressStep DEF PositionKnown, HeldIsConservative
<1>2. CASE WriterFinal /\ writerPc' = "send" /\ HeldAdd(writerReq)
  <2>1. held \subseteq held' /\ \A i \in Ifaces : PressesAt(i) => i \in held'
    BY <1>2 DEF HeldAdd, PressesAt
  <2>2. PositionKnown'
    BY <1>2 DEF HeldAdd, PositionKnown, HandOK, PrivShape, InputShape
  <2> QED
    BY <2>1, <2>2, PressStep DEF HeldIsConservative
<1>3. ASSUME NEW r \in Neutralizers, RelClear(r) PROVE PositionKnown' /\ HeldIsConservative'
  <2>1. held' = held \ Planned(r) /\ UNCHANGED heldPos /\ \A i \in Planned(r) : ~MayPress(i)
    BY <1>3 DEF RelClear, ClearOK
  <2>2. \A i \in Ifaces : ~PressesAt(i)
    BY <1>3 DEF RelClear, PressesAt, writeVars, WriterFinal
  <2> QED
    BY <2>1, <2>2, PressStep DEF PositionKnown, HeldIsConservative
<1> QED
  BY <1>1, <1>2, <1>3, HeldStep

\* What one step does to the plan of a release.
Unmoved(r) == relPc'[r] = relPc[r] /\ relAbs'[r] = relAbs[r] /\ relOut'[r] = relOut[r]
OffPlan(r) == relPc'[r] \notin Planning \cup {"unlock"}
OnPlan(r) == /\ relAbs'[r] = relAbs[r]
             /\ relPc[r] \in Planning /\ relPc'[r] \in Planning
             /\ relPc'[r] = "clear" => wire = <<>> /\ relPc[r] \in {"check", "drain"}
GaveUp(r) == relPc'[r] = "unlock" /\ relOut'[r] = "unverified"

\* A release keeps its plan, leaves it, works through it, gives it up, makes it or
\* clears what it confirmed.
LEMMA PlanMove ==
    ASSUME TypeOK, [Next]_vars, NEW r \in Neutralizers
    PROVE  Unmoved(r) \/ OffPlan(r) \/ OnPlan(r) \/ GaveUp(r) \/ RelInvalidate(r) \/ RelClear(r)
<1>0. r \in Privileged /\ r # Conn /\ Conn \in Privileged /\ Neutralizers \subseteq Privileged
  BY ConstantsAssumption DEF ConstantsAssumption, Neutralizers, Privileged
<1>1. CASE UNCHANGED <<relPc, relAbs, relOut>>
  BY <1>1 DEF Unmoved
<1>2. CASE Writer \/ Pion \/ UNCHANGED vars \/ \E q \in Privileged : RelContextEnds(q)
  <2>1. UNCHANGED <<relPc, relAbs, relOut>>
    BY <1>2
    DEF Writer, WriterTakePriority, WriterTakeInput, WriterStop, WriterFinal, WriterSend,
        WriterSendError, WriterDrainCheck, WriterDrainEdge, WriterDrainEnd,
        Pion, Ack, TransportDown, vars, relVars, RelContextEnds
  <2> QED
    BY <1>1, <2>1
<1>3. CASE Handshake
  <2>1. Unmoved(r)
    BY <1>0, <1>3
    DEF Handshake, HandshakeSend, HandshakeWritten, HandshakeReady, HandshakeFail, TypeOK, RelTypes,
        Unmoved
  <2> QED
    BY <2>1
<1>4. ASSUME NEW q \in Neutralizers, StartRelease(q) PROVE Unmoved(r) \/ OffPlan(r)
  BY <1>0, <1>4 DEF StartRelease, TypeOK, RelTypes, Planning, Unmoved, OffPlan
<1>5. ASSUME NEW c \in Callers, User(c) PROVE Unmoved(r) \/ OffPlan(r)
  <2>1. CASE UserRelease(c) \/ Watchdog(c)
    <3>1. StartRelease(c) \/ UNCHANGED relVars
      BY <2>1 DEF UserRelease, Watchdog
    <3> QED
      BY <1>4, <3>1 DEF Unmoved, relVars, Neutralizers
  <2>2. CASE ReleaseReturn(c) \/ FreeSlot(c)
    BY <1>0, <2>2 DEF ReleaseReturn, FreeSlot, Planning, TypeOK, RelTypes, Unmoved, OffPlan, Neutralizers
  <2>3. CASE ~(UserRelease(c) \/ Watchdog(c) \/ ReleaseReturn(c) \/ FreeSlot(c))
    <3>1. UNCHANGED <<relPc, relAbs, relOut>>
      BY <1>5, <2>3
      DEF User, AcquireSlot, BeginLease, AcquireFail, SendReport, ReleaseKeyboard, Submit,
          CallReturn, CallContextEnds, relVars
    <3> QED
      BY <3>1 DEF Unmoved
  <2> QED
    BY <2>1, <2>2, <2>3
<1>6. ASSUME NEW k \in Closers, Close(k) PROVE Unmoved(r) \/ OffPlan(r)
  BY <1>4, <1>6 DEF Close, Neutralizers
<1>7. ASSUME NEW q \in Neutralizers, Release(q), q # r PROVE Unmoved(r)
  BY <1>0, <1>7
  DEF Release, RelLock, RelLockTimeout, RelInvalidate, RelEnqueue, RelWritten, RelDrainCheck,
      RelDrainEdge, RelDrainDown, RelAttemptFailed, RelClear, RelUnlock, Finish, TypeOK, RelTypes,
      Unmoved
<1>8. CASE RelLock(r) \/ RelLockTimeout(r) \/ RelUnlock(r)
  <2>1. OffPlan(r)
    BY <1>0, <1>8 DEF RelLock, RelLockTimeout, RelUnlock, TypeOK, RelTypes, Planning, OffPlan
  <2> QED
    BY <2>1
<1>9. CASE RelEnqueue(r) \/ RelWritten(r) \/ RelDrainCheck(r) \/ RelDrainEdge(r) \/ RelDrainDown(r)
  <2>1. OnPlan(r)
    BY <1>0, <1>9
    DEF RelEnqueue, RelWritten, RelDrainCheck, RelDrainEdge, RelDrainDown, TypeOK, RelTypes,
        Planning, OnPlan
  <2> QED
    BY <2>1
<1>10. CASE RelAttemptFailed(r)
  <2>1. OnPlan(r) \/ GaveUp(r)
    BY <1>0, <1>10
    DEF RelAttemptFailed, AttemptFails, Finish, TypeOK, RelTypes, Planning, OnPlan, GaveUp
  <2> QED
    BY <2>1
<1>11. ASSUME Release(r)
       PROVE  Unmoved(r) \/ OffPlan(r) \/ OnPlan(r) \/ GaveUp(r) \/ RelInvalidate(r) \/ RelClear(r)
  BY <1>8, <1>9, <1>10, <1>11 DEF Release
<1> QED
  BY <1>2, <1>3, <1>5, <1>6, <1>7, <1>11 DEF Next

\* While a release keeps the lease revoked, nothing becomes held and nothing new
\* can be pressed.
LEMMA Revocation ==
    ASSUME TypeOK, RevokedOK, HandOK, [Next]_vars, NEW r \in Neutralizers, relPc[r] \in Revoked
    PROVE  held' \subseteq held /\ \A i \in Ifaces : MayPress(i)' => MayPress(i)
<1>1. activeGen = 0
  BY DEF RevokedOK
<1>2. \A i \in Ifaces : MayPress(i)' => MayPress(i)
  BY <1>1, PressStep, Presses DEF PressesAt
<1>3. held' \subseteq held
  <2>1. CASE WriterFinal /\ writerPc' = "send" /\ HeldAdd(writerReq)
    BY <1>1, <2>1, Presses DEF HeldAdd
  <2>2. ASSUME NEW q \in Neutralizers, RelClear(q) PROVE held' \subseteq held
    BY <2>2 DEF RelClear
  <2> QED
    BY <2>1, <2>2, HeldStep
<1> QED
  BY <1>2, <1>3

\* The plan still covers everything held: nothing becomes held behind its back.
LEMMA PlanStep ==
    ASSUME TypeOK, RevokedOK, HandOK, PlanOK, [Next]_vars
    PROVE  PlanOK'
<1> SUFFICES ASSUME NEW r \in Neutralizers, relPc'[r] \in Planning, "absolute" \in held'
             PROVE  relAbs'[r] # None
  BY DEF PlanOK
<1>0. r \in Privileged
  BY DEF Neutralizers, Privileged
<1>1. CASE (Unmoved(r) \/ OnPlan(r)) /\ relPc[r] \in Planning
  <2>1. "absolute" \in held
    BY <1>1, Revocation DEF Planning, Revoked, Gated
  <2> QED
    BY <1>1, <2>1 DEF PlanOK, Unmoved, OnPlan
<1>2. CASE OffPlan(r) \/ GaveUp(r) \/ RelClear(r)
  BY <1>0, <1>2 DEF OffPlan, GaveUp, RelClear, Finish, Planning, TypeOK, RelTypes
<1>3. CASE RelInvalidate(r)
  BY <1>0, <1>3 DEF RelInvalidate, Finish, Planning, TypeOK, RelTypes
<1> QED
  BY <1>1, <1>2, <1>3, PlanMove DEF Unmoved, OnPlan

\* Once everything is acknowledged and each planned report has been written, no
\* planned interface can be pressed.
LEMMA Confirmed ==
    ASSUME TypeOK, HandOK, WrittenOK, NEW r \in Neutralizers, wire = <<>>, relPc[r] \in {"check", "drain"}
    PROVE  \A i \in Planned(r) : ~MayPress(i)
<1>0. r # Conn
  BY ConstantsAssumption DEF ConstantsAssumption, Neutralizers
<1>1. Written(r) = PlanLen(r)
  BY DEF Written
<1>2. \A i \in Planned(r) : i \in Ifaces /\ \E n \in 1..3 : n <= PlanLen(r) /\ PlanFrame(r, n).ifc = i
  <2>1. PlanFrame(r, 1).ifc = "keyboard" /\ PlanFrame(r, 2).ifc = "relative" /\ PlanFrame(r, 3).ifc = "absolute"
    BY <1>0 DEF PlanFrame
  <2> QED
    BY <2>1 DEF Planned, PlanLen, Ifaces
<1>3. ~InputInHand
  BY <1>1 DEF WrittenOK, PlanLen
<1> QED
  BY <1>1, <1>2, <1>3, QuelledDone DEF WrittenOK

\* A confirmed plan is clear, and stays clear until the gate is left.
LEMMA ClearStep ==
    ASSUME TypeOK, RevokedOK, HandOK, WrittenOK, PlanOK, ClearOK, [Next]_vars
    PROVE  ClearOK'
<1> SUFFICES ASSUME NEW r \in Neutralizers
             PROVE  /\ relPc'[r] = "clear" => \A i \in Planned(r)' : ~MayPress(i)'
                    /\ relPc'[r] = "unlock" /\ relOut'[r] = "ok" => held' = {}
  BY DEF ClearOK
<1>0. r \in Privileged
  BY DEF Neutralizers, Privileged
<1>1. CASE Unmoved(r)
  <2>1. Planned(r)' = Planned(r) /\ Planned(r) \subseteq Ifaces
    BY <1>1 DEF Unmoved, Planned, Ifaces
  <2>2. relPc[r] \in {"clear", "unlock"} => held' \subseteq held /\ \A i \in Ifaces : MayPress(i)' => MayPress(i)
    BY Revocation DEF Revoked, Gated
  <2> QED
    BY <1>1, <2>1, <2>2 DEF Unmoved, ClearOK
<1>2. CASE OffPlan(r) \/ GaveUp(r)
  BY <1>2 DEF OffPlan, GaveUp, Planning
<1>3. CASE OnPlan(r)
  <2>1. relPc'[r] # "unlock"
    BY <1>3 DEF OnPlan, Planning
  <2>2. ASSUME relPc'[r] = "clear", NEW i \in Planned(r)' PROVE ~MayPress(i)'
    <3>1. wire = <<>> /\ relPc[r] \in {"check", "drain"}
      BY <1>3, <2>2 DEF OnPlan
    <3>2. i \in Planned(r) /\ i \in Ifaces
      BY <1>3, <2>2 DEF OnPlan, Planned, Ifaces
    <3>3. ~MayPress(i)
      BY <3>1, <3>2, Confirmed
    <3> QED
      BY <3>1, <3>2, <3>3, Revocation DEF Revoked, Gated
  <2> QED
    BY <2>1, <2>2
<1>4. CASE RelInvalidate(r)
  BY <1>0, <1>4 DEF RelInvalidate, Finish, TypeOK, RelTypes
<1>5. CASE RelClear(r)
  <2>1. relPc[r] = "clear" /\ relPc'[r] = "unlock" /\ held' = held \ Planned(r)
    BY <1>0, <1>5 DEF RelClear, Finish, TypeOK, RelTypes
  <2>2. held \subseteq Planned(r)
    BY <2>1 DEF PlanOK, Planned, Planning, TypeOK, HidTypes, Ifaces
  <2> QED
    BY <2>1, <2>2
<1> QED
  BY <1>1, <1>2, <1>3, <1>4, <1>5, PlanMove

\* The neutral report in the writer's hands goes out and its release is told so.
Delivers(r) ==
    /\ WriterSend /\ writerReq.priv /\ writerReq.live /\ writerReq.who = r
    /\ relPc[r] = "await" /\ relRes[r] = "none"
    /\ writerReq.frame = PlanFrame(r, relIdx[r])

\* At most three reports are counted.
LEMMA WrittenTypes ==
    ASSUME TypeOK, NEW r \in Neutralizers
    PROVE  Written(r) \in 0..3
<1>1. relIdx[r] \in 1..3
  BY DEF TypeOK, RelTypes, Neutralizers, Privileged
<1> QED
  BY <1>1 DEF Written, PlanLen

\* Written counts a report only when the writer delivers it.
LEMMA WrittenStep ==
    ASSUME TypeOK, PhasesOK, PrioOK, InputsOK, HandOK, ResultOK, IndexOK, BarrierOK, [Next]_vars, NEW r \in Neutralizers
    PROVE  Written(r)' <= Written(r) \/ (Delivers(r) /\ Written(r) = relIdx[r] - 1 /\ Written(r)' = relIdx[r])
<1>0. r \in Privileged /\ r # Conn /\ Conn \in Privileged /\ Neutralizers \subseteq Privileged
      /\ Callers \subseteq Neutralizers /\ Closers \subseteq Neutralizers
  BY ConstantsAssumption DEF ConstantsAssumption, Neutralizers, Privileged
<1>1. relIdx[r] \in 1..3 /\ PlanLen(r) \in 2..3 /\ Written(r) \in 0..3
  BY <1>0, WrittenTypes DEF TypeOK, RelTypes, PlanLen
<1>2. ASSUME relPc'[r] = relPc[r], relIdx'[r] = relIdx[r], relAbs'[r] = relAbs[r],
             relRes'[r] = relRes[r] \/ relRes'[r] # "ok"
      PROVE  Written(r)' <= Written(r)
  BY <1>1, <1>2 DEF Written, PlanLen
<1>3. ASSUME relPc'[r] \notin {"enqueue", "await", "check", "drain"} PROVE Written(r)' <= Written(r)
  BY <1>1, <1>3 DEF Written
<1>4. CASE UNCHANGED <<relPc, relRes, relIdx, relAbs>>
  BY <1>2, <1>4
<1>5. ASSUME NEW q \in Request, NEW res \in Results \ {"ok"}, Complete(q, res), UNCHANGED <<relPc, relIdx, relAbs>>
      PROVE  Written(r)' <= Written(r)
  BY <1>0, <1>2, <1>5, Completed
<1>6. ASSUME ~writerReq.priv, NEW res \in Results, Complete(writerReq, res), UNCHANGED <<relPc, relIdx, relAbs>>
      PROVE  Written(r)' <= Written(r)
  BY <1>2, <1>6 DEF Complete
<1>7. CASE WriterTakePriority \/ WriterTakeInput
  <2>1. PICK q \in Request, q2 \in Seq(Request) : Take(q, q2) /\ UNCHANGED <<relPc, relIdx, relAbs>>
    BY <1>7, QueueElements DEF WriterTakePriority, WriterTakeInput, TypeOK, WriterTypes
  <2>2. UNCHANGED relRes \/ Complete(q, "stale") \/ Complete(q, "err")
    BY <2>1 DEF Take
  <2> QED
    BY <1>4, <1>5, <2>1, <2>2 DEF Results
<1>8. CASE WriterStop
  <2>1. relRes'[r] = relRes[r] \/ relRes'[r] = "err"
    BY <1>0, <1>8 DEF WriterStop
  <2> QED
    BY <1>2, <1>8, <2>1 DEF WriterStop
<1>9. CASE WriterFinal
  <2>1. UNCHANGED relRes \/ Complete(writerReq, "stale") \/ Complete(writerReq, "err")
    BY <1>9 DEF WriterFinal
  <2> QED
    BY <1>4, <1>5, <1>9, <2>1, QueuedTypes DEF WriterFinal, Results
<1>10. CASE WriterSend
  <2>1. UNCHANGED relRes \/ Complete(writerReq, "ok")
    BY <1>10 DEF WriterSend
  <2>2. CASE UNCHANGED relRes
    BY <1>4, <1>10, <2>2 DEF WriterSend
  <2>3. CASE Complete(writerReq, "ok") /\ ~(writerReq.live /\ writerReq.priv /\ writerReq.who = r)
    <3>1. relRes'[r] = relRes[r]
      BY <1>0, <2>3, Completed, QueuedTypes DEF Results
    <3> QED
      BY <1>2, <1>10, <3>1 DEF WriterSend
  <2>4. CASE Complete(writerReq, "ok") /\ writerReq.live /\ writerReq.priv /\ writerReq.who = r
    <3>1. relRes'[r] = "ok"
      BY <1>0, <2>4, Completed, QueuedTypes DEF Results
    <3>2. Delivers(r)
      BY <1>10, <2>4 DEF Delivers, HandOK, PrivShape, InputShape, LivePriv
    <3>3. relPc'[r] = "await" /\ relIdx'[r] = relIdx[r]
      BY <1>10, <3>2 DEF WriterSend, Delivers
    <3> QED
      BY <3>1, <3>2, <3>3 DEF Delivers, Written
  <2> QED
    BY <2>1, <2>2, <2>3, <2>4
<1>11. CASE WriterSendError
  BY <1>5, <1>11, QueuedTypes DEF WriterSendError, Results
<1>12. CASE WriterDrainCheck \/ WriterDrainEdge \/ WriterDrainEnd
  <2>1. ~writerReq.priv
    BY <1>12 DEF WriterDrainCheck, WriterDrainEdge, WriterDrainEnd, BarrierOK
  <2>2. UNCHANGED relRes \/ \E res \in Results : Complete(writerReq, res)
    BY <1>12 DEF WriterDrainCheck, WriterDrainEdge, WriterDrainEnd, Results, relVars
  <2>3. UNCHANGED <<relPc, relIdx, relAbs>>
    BY <1>12 DEF WriterDrainCheck, WriterDrainEdge, WriterDrainEnd, relVars
  <2> QED
    BY <1>4, <1>6, <2>1, <2>2, <2>3
<1>13. CASE Handshake
  <2>1. relPc'[r] = relPc[r] /\ UNCHANGED <<relRes, relIdx, relAbs>>
    BY <1>0, <1>13
    DEF Handshake, HandshakeSend, HandshakeWritten, HandshakeReady, HandshakeFail, TypeOK, RelTypes
  <2> QED
    BY <1>2, <2>1
<1>14. CASE Pion \/ UNCHANGED vars \/ \E q \in Privileged : RelContextEnds(q)
  <2>1. UNCHANGED <<relPc, relRes, relIdx, relAbs>>
    BY <1>14 DEF Pion, Ack, TransportDown, vars, relVars, RelContextEnds
  <2> QED
    BY <1>4, <2>1
<1>15. ASSUME NEW q \in Neutralizers, StartRelease(q) PROVE Written(r)' <= Written(r)
  <2>1. CASE q = r
    BY <1>0, <1>3, <1>15, <2>1 DEF StartRelease, TypeOK, RelTypes
  <2>2. CASE q # r
    BY <1>0, <1>2, <1>15, <2>2 DEF StartRelease, TypeOK, RelTypes
  <2> QED
    BY <2>1, <2>2
<1>16. ASSUME NEW c \in Callers, User(c) PROVE Written(r)' <= Written(r)
  <2>1. CASE UserRelease(c) \/ Watchdog(c)
    <3>1. StartRelease(c) \/ UNCHANGED relVars
      BY <2>1 DEF UserRelease, Watchdog
    <3> QED
      BY <1>0, <1>2, <1>15, <3>1 DEF relVars
  <2>2. CASE ReleaseReturn(c) \/ FreeSlot(c)
    <3>1. UNCHANGED <<relRes, relIdx, relAbs>> /\ (relPc'[r] = relPc[r] \/ relPc'[r] \in {"idle", "done"})
      BY <1>0, <2>2 DEF ReleaseReturn, FreeSlot, TypeOK, RelTypes
    <3> QED
      BY <1>2, <1>3, <3>1
  <2>3. CASE ~(UserRelease(c) \/ Watchdog(c) \/ ReleaseReturn(c) \/ FreeSlot(c))
    <3>1. UNCHANGED <<relPc, relRes, relIdx, relAbs>>
      BY <1>16, <2>3
      DEF User, AcquireSlot, BeginLease, AcquireFail, SendReport, ReleaseKeyboard, Submit,
          CallReturn, CallContextEnds, relVars
    <3> QED
      BY <1>2, <3>1
  <2> QED
    BY <2>1, <2>2, <2>3
<1>17. ASSUME NEW k \in Closers, Close(k) PROVE Written(r)' <= Written(r)
  BY <1>0, <1>15, <1>17 DEF Close
<1>18. ASSUME NEW q \in Neutralizers, Release(q), q # r PROVE Written(r)' <= Written(r)
  <2>1. relPc'[r] = relPc[r] /\ relRes'[r] = relRes[r] /\ relIdx'[r] = relIdx[r] /\ relAbs'[r] = relAbs[r]
    BY <1>0, <1>18
    DEF Release, RelLock, RelLockTimeout, RelInvalidate, RelEnqueue, RelWritten, RelDrainCheck,
        RelDrainEdge, RelDrainDown, RelAttemptFailed, RelClear, RelUnlock, Finish, TypeOK, RelTypes
  <2> QED
    BY <1>2, <2>1
<1>19. ASSUME Release(r) PROVE Written(r)' <= Written(r)
  <2>1. CASE RelLock(r) \/ RelLockTimeout(r) \/ RelUnlock(r) \/ RelClear(r) \/ RelDrainDown(r)
    <3>1. relPc'[r] \notin {"enqueue", "await", "check", "drain"}
      BY <1>0, <2>1 DEF RelLock, RelLockTimeout, RelUnlock, RelClear, RelDrainDown, Finish, TypeOK, RelTypes
    <3> QED
      BY <1>3, <3>1
  <2>2. CASE RelInvalidate(r)
    <3>1. relPc'[r] = "unlock" \/ (relPc'[r] = "enqueue" /\ relIdx'[r] = 1)
      BY <1>0, <2>2 DEF RelInvalidate, Finish, TypeOK, RelTypes, IndexOK, Planning
    <3> QED
      BY <1>1, <3>1 DEF Written
  <2>3. CASE RelAttemptFailed(r)
    <3>1. relPc'[r] = "unlock" \/ (relPc'[r] = "enqueue" /\ relIdx'[r] = 1)
      BY <1>0, <2>3 DEF RelAttemptFailed, Finish, TypeOK, RelTypes
    <3> QED
      BY <1>1, <3>1 DEF Written
  <2>4. CASE RelEnqueue(r)
    <3>1. relPc[r] = "enqueue" /\ relPc'[r] = "await" /\ relIdx'[r] = relIdx[r] /\ relRes'[r] = "none"
      BY <1>0, <2>4 DEF RelEnqueue, TypeOK, RelTypes, ResultOK
    <3> QED
      BY <1>1, <3>1 DEF Written
  <2>5. CASE RelWritten(r)
    <3>1. /\ relPc[r] = "await" /\ relRes[r] = "ok" /\ relAbs'[r] = relAbs[r] /\ relIdx[r] <= PlanLen(r)
          /\ \/ relPc'[r] = "enqueue" /\ relIdx'[r] = relIdx[r] + 1
             \/ relPc'[r] = "check" /\ ~(relIdx[r] < PlanLen(r))
      BY <1>0, <2>5 DEF RelWritten, TypeOK, RelTypes, IndexOK
    <3> QED
      BY <1>1, <3>1 DEF Written, PlanLen
  <2>6. CASE RelDrainCheck(r) \/ RelDrainEdge(r)
    <3>1. relPc[r] \in {"check", "drain"} /\ relPc'[r] \in {"check", "drain", "clear"} /\ relAbs'[r] = relAbs[r]
      BY <1>0, <2>6 DEF RelDrainCheck, RelDrainEdge, TypeOK, RelTypes
    <3> QED
      BY <1>1, <3>1 DEF Written, PlanLen
  <2> QED
    BY <1>19, <2>1, <2>2, <2>3, <2>4, <2>5, <2>6 DEF Release
<1> QED
  BY <1>7, <1>8, <1>9, <1>10, <1>11, <1>12, <1>13, <1>14, <1>16, <1>17, <1>18, <1>19 DEF Next, Writer

\* Only Send and the acknowledgement touch what is on its way.
LEMMA WireMoves ==
    ASSUME [Next]_vars
    PROVE  UNCHANGED <<wire, dev>> \/ Ack \/ WriterSend \/ WriterSendError
<1>1. CASE Writer \/ Handshake \/ Pion \/ UNCHANGED vars
  BY <1>1
  DEF Writer, WriterTakePriority, WriterTakeInput, WriterStop, WriterFinal,
      WriterDrainCheck, WriterDrainEdge, WriterDrainEnd,
      Handshake, HandshakeSend, HandshakeWritten, HandshakeReady, HandshakeFail,
      Pion, TransportDown, vars, pionVars
<1>2. ASSUME NEW c \in Callers, User(c) PROVE UNCHANGED <<wire, dev>>
  BY <1>2
  DEF User, AcquireSlot, BeginLease, AcquireFail, SendReport, ReleaseKeyboard, Submit,
      CallReturn, CallContextEnds, UserRelease, Watchdog, ReleaseReturn, FreeSlot, pionVars
<1>3. ASSUME NEW r \in Neutralizers, Release(r) PROVE UNCHANGED <<wire, dev>>
  BY <1>3
  DEF Release, RelLock, RelLockTimeout, RelInvalidate, RelEnqueue, RelWritten, RelDrainCheck,
      RelDrainEdge, RelDrainDown, RelAttemptFailed, RelClear, RelUnlock, pionVars
<1>4. CASE (\E k \in Closers : Close(k)) \/ (\E r \in Privileged : RelContextEnds(r))
  BY <1>4 DEF Close, RelContextEnds, pionVars
<1> QED
  BY <1>1, <1>2, <1>3, <1>4 DEF Next

\* With no input in the writer's hands, a quelled interface stays quelled.
LEMMA QuelledStep ==
    ASSUME TypeOK, HandOK, ~InputInHand, [Next]_vars, NEW i \in Ifaces, Quelled(i)
    PROVE  Quelled(i)'
<1>1. CASE UNCHANGED <<wire, dev>>
  BY <1>1 DEF Quelled, Releases
<1>2. CASE WriterSend \/ WriterSendError
  <2>1. /\ wire' \in {wire, Sent(writerReq)} /\ UNCHANGED dev
        /\ ~writerReq.frame.hold
    BY <1>2 DEF WriterSend, WriterSendError, InputInHand, HandOK, PrivShape, InputShape
  <2> QED
    BY <1>1, <2>1, QuelledSent
<1> QED
  BY <1>1, <1>2, WireMoves, QuelledAck

\* Input gets past the last check only while a generation is active.
LEMMA InputStep ==
    ASSUME TypeOK, HandOK, [Next]_vars, ~InputInHand, activeGen = 0
    PROVE  ~InputInHand'
<1>1. CASE writerPc' \notin {"send", "check", "drain"}
  BY <1>1 DEF InputInHand
<1>2. ASSUME writerPc' = writerPc, writerReq'.priv = writerReq.priv PROVE ~InputInHand'
  BY <1>2 DEF InputInHand
<1>3. CASE WriterFinal
  <2>1. CASE writerPc' = "send"
    <3>1. writerReq.priv /\ UNCHANGED writerReq
      BY <1>3, <2>1, Presses DEF WriterFinal, Loop
    <3> QED
      BY <3>1 DEF InputInHand
  <2>2. CASE writerPc' # "send"
    BY <1>1, <1>3, <2>2 DEF WriterFinal, Loop
  <2> QED
    BY <2>1, <2>2
<1>4. CASE WriterSend \/ WriterDrainCheck \/ WriterDrainEdge
  <2>1. writerPc' \in {"select", "priority"} \/ (UNCHANGED writerReq /\ writerPc \in {"send", "check", "drain"})
    BY <1>4 DEF WriterSend, WriterDrainCheck, WriterDrainEdge, Loop
  <2> QED
    BY <2>1 DEF InputInHand
<1>5. CASE WriterTakePriority \/ WriterTakeInput \/ WriterStop \/ WriterSendError \/ WriterDrainEnd
  BY <1>1, <1>5
  DEF WriterTakePriority, WriterTakeInput, WriterStop, WriterSendError, WriterDrainEnd, Take, Loop
<1>6. ASSUME NEW p, NEW b, Abandon(p, b) PROVE ~InputInHand'
  <2>1. PICK q \in Request : q = writerReq
    BY QueuedTypes
  <2>2. Kill(q, p, b).priv = q.priv
    BY DEF Kill, Request
  <2> QED
    BY <1>2, <1>6, <2>1, <2>2 DEF Abandon
<1>7. CASE Handshake
  BY <1>2, <1>6, <1>7
  DEF Handshake, HandshakeSend, HandshakeWritten, HandshakeReady, HandshakeFail, writeVars
<1>8. CASE Pion \/ UNCHANGED vars
  BY <1>2, <1>8 DEF Pion, Ack, TransportDown, writeVars, vars
<1>9. ASSUME NEW c \in Callers, User(c) PROVE ~InputInHand'
  BY <1>2, <1>6, <1>9
  DEF User, AcquireSlot, BeginLease, AcquireFail, SendReport, ReleaseKeyboard, Submit,
      CallReturn, CallContextEnds, UserRelease, Watchdog, ReleaseReturn, FreeSlot, writeVars
<1>10. ASSUME NEW k \in Closers, Close(k) PROVE ~InputInHand'
  BY <1>2, <1>10 DEF Close, writeVars
<1>11. ASSUME NEW r \in Neutralizers, Release(r) PROVE ~InputInHand'
  BY <1>2, <1>6, <1>11
  DEF Release, RelLock, RelLockTimeout, RelInvalidate, RelEnqueue, RelWritten, RelDrainCheck,
      RelDrainEdge, RelDrainDown, RelAttemptFailed, RelClear, RelUnlock, writeVars
<1>12. ASSUME NEW r \in Privileged, RelContextEnds(r) PROVE ~InputInHand'
  BY <1>2, <1>12 DEF RelContextEnds, writeVars
<1> QED
  BY <1>3, <1>4, <1>5, <1>7, <1>8, <1>9, <1>10, <1>11, <1>12 DEF Next, Writer

\* Each report a release has written keeps its interface quelled until the release ends.
LEMMA WrittenInvStep ==
    ASSUME GateInv, QueueInv, WrittenOK, [Next]_vars
    PROVE  WrittenOK'
<1> SUFFICES ASSUME NEW r \in Neutralizers
             PROVE  /\ \A n \in 1..3 : n <= Written(r)' => Quelled(PlanFrame(r, n).ifc)'
                    /\ Written(r)' > 0 => ~InputInHand'
  BY DEF WrittenOK
<1> USE DEF GateInv, QueueInv
<1>0. r \in Privileged /\ r # Conn
  BY ConstantsAssumption DEF ConstantsAssumption, Neutralizers, Privileged
<1>1. ASSUME NEW n \in 1..3 
      PROVE  PlanFrame(r, n).ifc \in Ifaces /\ PlanFrame(r, n).ifc' = PlanFrame(r, n).ifc
  BY <1>0 DEF PlanFrame, Ifaces
<1>2. Written(r) \in 0..3 /\ Written(r)' \in 0..3
  <2>1. TypeOK'
    BY TypeStep
  <2>2. relIdx'[r] \in 1..3
    BY <1>0, <2>1 DEF TypeOK, RelTypes
  <2> QED
    BY <2>2, WrittenTypes DEF Written, PlanLen
<1>3. Written(r) > 0 => activeGen = 0
  BY DEF Written, RevokedOK, Revoked, Gated
<1>4. CASE Written(r)' <= Written(r)
  <2>1. CASE Written(r) = 0
    BY <1>2, <1>4, <2>1
  <2>2. CASE Written(r) > 0
    <3>1. ~InputInHand /\ activeGen = 0
      BY <1>3, <2>2 DEF WrittenOK
    <3>2. ASSUME NEW n \in 1..3, n <= Written(r)' PROVE Quelled(PlanFrame(r, n).ifc)'
      <4>1. PICK i \in Ifaces : i = PlanFrame(r, n).ifc /\ i = PlanFrame(r, n).ifc'
        BY <1>1
      <4>2. n <= Written(r)
        BY <1>2, <1>4, <3>2
      <4>3. Quelled(i)
        BY <4>1, <4>2 DEF WrittenOK
      <4>4. Quelled(i)'
        BY <3>1, <4>3, QuelledStep
      <4> QED
        BY <4>1, <4>4
    <3> QED
      BY <3>1, <3>2, InputStep
  <2> QED
    BY <1>2, <2>1, <2>2
<1>5. CASE Delivers(r) /\ Written(r) = relIdx[r] - 1 /\ Written(r)' = relIdx[r]
  <2>1. /\ WriterSend /\ writerReq.priv /\ ~writerReq.drain /\ ~writerReq.frame.hold
        /\ writerReq.frame = PlanFrame(r, relIdx[r])
    BY <1>5 DEF Delivers, HandOK, PrivShape, InputShape
  <2>2. ~InputInHand /\ ~InputInHand'
    BY <2>1 DEF InputInHand, WriterSend, Loop
  <2>3. ASSUME NEW n \in 1..3, n <= Written(r)' PROVE Quelled(PlanFrame(r, n).ifc)'
    <3>1. PICK i \in Ifaces : i = PlanFrame(r, n).ifc /\ i = PlanFrame(r, n).ifc'
      BY <1>1
    <3>2. CASE n = relIdx[r]
      <4>1. writerReq.frame.ifc = i
        BY <2>1, <3>1, <3>2
      <4>2. Quelled(i)'
        BY <2>1, <4>1, QuelledSent DEF WriterSend
      <4> QED
        BY <3>1, <4>2
    <3>3. CASE n # relIdx[r]
      <4>1. n <= Written(r)
        BY <1>2, <1>5, <2>3, <3>3
      <4>2. Quelled(i)
        BY <3>1, <4>1 DEF WrittenOK
      <4>3. Quelled(i)'
        BY <2>2, <4>2, QuelledStep
      <4> QED
        BY <3>1, <4>3
    <3> QED
      BY <3>2, <3>3
  <2> QED
    BY <2>2, <2>3
<1> QED
  BY <1>4, <1>5, WrittenStep

\* Nothing is pressed, held or planned at first.
LEMMA WireInit == Init => WireInv
<1> SUFFICES ASSUME Init PROVE WireInv
  OBVIOUS
<1>1. \A r \in Neutralizers : relPc[r] = "idle" /\ Written(r) = 0
  BY DEF Init, Written, Neutralizers, Privileged
<1> QED
  BY <1>1 DEF Init, WireInv, WrittenOK, PlanOK, ClearOK, PositionKnown, HeldIsConservative, MayPress, Planning, NoRequest, NoFrame

\* What is on its way to the peer: the layered invariant holds of every behaviour.
THEOREM WireCorrect == Spec => []WireInv
<1>1. GateInv /\ QueueInv /\ WireInv /\ [Next]_vars => WireInv'
  BY HeldInvStep, PlanStep, ClearStep, WrittenInvStep DEF GateInv, QueueInv, WireInv
<1> QED
  BY <1>1, GateCorrect, QueueCorrect, WireInit, PTL DEF Spec

\* heldInput is conservative (hid.go:138-149), whatever Send, the peer, the contexts and
\* teardown do, for any number of callers and any queue depth.
THEOREM HeldCorrect == Spec => []HeldIsConservative
<1>1. WireInv => HeldIsConservative
  BY DEF WireInv
<1> QED
  BY <1>1, WireCorrect, PTL

\* A release or Close that reports success (hid.go:719-829) is truthful: nothing is
\* pressed and nothing that presses is on its way.
THEOREM VerifiedCorrect == Spec => []VerifiedIsNeutral
<1>1. WireInv => VerifiedIsNeutral
  BY DEF WireInv, ClearOK, HeldIsConservative, VerifiedIsNeutral
<1> QED
  BY <1>1, WireCorrect, PTL

\* One goroutine at a time waits for the one-slot bufferedAmountLow channel (hid.go:232),
\* so none can steal another's edge.
THEOREM DrainWaiterCorrect == Spec => []SoleDrainWaiter
<1>1. GateInv /\ QueueInv /\ WireInv => SoleDrainWaiter
  <2> SUFFICES ASSUME GateInv, QueueInv, WireInv, NEW a \in DrainWaiters, NEW b \in DrainWaiters
               PROVE  a = b
    BY DEF SoleDrainWaiter
  <2>1. ASSUME NEW r \in Neutralizers, relPc[r] \in {"check", "drain"}
        PROVE  lifecycle = r /\ writerPc \notin {"check", "drain"}
    <3>0. r \in Privileged /\ r # Conn
      BY ConstantsAssumption DEF ConstantsAssumption, Neutralizers, Privileged
    <3>1. lifecycle = r
      BY <2>1, <3>0 DEF GateInv, GateOK, Gated
    <3>2. Written(r) > 0
      BY <2>1 DEF Written, PlanLen
    <3> QED
      BY <3>1, <3>2 DEF WireInv, WrittenOK, InputInHand, QueueInv, BarrierOK
  <2> QED
    BY <2>1 DEF DrainWaiters
<1> QED
  BY <1>1, GateCorrect, QueueCorrect, WireCorrect, PTL

\* beginLeaseLocked (hid.go:659-685) never starts a lease on a target where input of an
\* earlier one is pressed or in flight.
THEOREM NeutralStartCorrect == Spec => LeaseStartsNeutral
<1> DEFINE Starts == activeGen' # 0 /\ activeGen' # activeGen => \A i \in Ifaces : ~MayPress(i)
<1>1. WireInv /\ [Next]_vars => [Starts]_vars
  <2> SUFFICES ASSUME HeldIsConservative, [Next]_vars, activeGen' # 0, activeGen' # activeGen
               PROVE  held = {}
    BY DEF WireInv, HeldIsConservative
  <2>1. CASE Writer \/ Handshake \/ Pion \/ UNCHANGED vars
    BY <2>1
    DEF Writer, WriterTakePriority, WriterTakeInput, WriterStop, WriterFinal, WriterSend,
        WriterSendError, WriterDrainCheck, WriterDrainEdge, WriterDrainEnd,
        Handshake, HandshakeSend, HandshakeWritten, HandshakeReady, HandshakeFail,
        Pion, Ack, TransportDown, CloseWith, InvalidateLease, vars, hidVars
  <2>2. ASSUME NEW c \in Callers, User(c) PROVE held = {}
    BY <2>2
    DEF User, AcquireSlot, BeginLease, AcquireFail, SendReport, ReleaseKeyboard, Submit,
        CallReturn, CallContextEnds, UserRelease, Watchdog, ReleaseReturn, FreeSlot, hidVars
  <2>3. ASSUME NEW r \in Neutralizers, Release(r) PROVE FALSE
    BY <2>3
    DEF Release, RelLock, RelLockTimeout, RelInvalidate, RelEnqueue, RelWritten, RelDrainCheck,
        RelDrainEdge, RelDrainDown, RelAttemptFailed, RelClear, RelUnlock, CloseWith,
        InvalidateLease, hidVars
  <2>4. CASE (\E k \in Closers : Close(k)) \/ (\E r \in Privileged : RelContextEnds(r))
    BY <2>4 DEF Close, RelContextEnds, hidVars
  <2> QED
    BY <2>1, <2>2, <2>3, <2>4 DEF Next
<1> QED
  BY <1>1, WireCorrect, PTL DEF Spec, LeaseStartsNeutral
=============================================================================
