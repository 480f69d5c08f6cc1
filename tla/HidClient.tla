----------------------------- MODULE HidClient -----------------------------
(***************************************************************************)
(* The HID control channel of one JetKVM session: hidClient (hid.go) with  *)
(* its single writer goroutine, the control lease around it (owner.go) and *)
(* Client.Close (client.go).                                               *)
(*                                                                         *)
(* Goroutines: the writer; one user goroutine and one watchdog per lease   *)
(* (both may run Held.Release, sync.Once lets one in); the connecting      *)
(* goroutine that runs the handshake; any number of Close callers; Pion's  *)
(* callbacks (acknowledgement, buffered-amount-low, connection loss).      *)
(*                                                                         *)
(* Contexts are Booleans "has ended": an ended context never revives, and  *)
(* may end at any moment. A frame counts as one unit of buffer; the byte   *)
(* limits of hid.go are scaled to frames.                                  *)
(***************************************************************************)
EXTENDS Naturals, Sequences, FiniteSets

CONSTANTS
    Callers,       \* users of the control lease
    Closers,       \* concurrent callers of Client.Close
    Conn,          \* the goroutine that connects and runs the handshake
    None,          \* no holder / no position
    Positions,     \* absolute pointer coordinates
    Reports,       \* the reports users may send: a subset of InputFrame
    SendDepth,     \* hidSendQueueDepth
    PrioDepth,     \* hidPriorityQueueDepth
    MaxBuffered,   \* hidMaxBufferedAmount, in frames
    Reserve,       \* hidNeutralBufferReserve, in frames
    Attempts,      \* hidReleaseAttempts
    Faults,        \* the faults of this instance: "send" (Send may fail), "transport" (loss)
    MaxGen,        \* bound: no lease begins at or above this generation
    MaxCalls       \* bound: total number of frames users submit

Ifaces == {"keyboard", "relative", "absolute"}

\* A frame: the USB interface it drives, whether it leaves something pressed
\* there, and the coordinates of an absolute report.
Frame == {f \in [ifc : Ifaces \cup {"handshake"}, hold : BOOLEAN, pos : Positions \cup {None}] :
              f.ifc = "handshake" => ~f.hold}

InputFrame == {f \in Frame : f.ifc \in Ifaces /\ (f.ifc = "absolute" <=> f.pos # None)}

Neutralizers == Callers \cup Closers
Privileged   == Neutralizers \cup {Conn}

ASSUME ConstantsAssumption ==
    /\ Conn \notin Neutralizers /\ None \notin Privileged
    /\ Callers \cap Closers = {}
    /\ None \notin Positions
    /\ Reports \subseteq InputFrame
    /\ SendDepth \in Nat \ {0} /\ PrioDepth \in Nat \ {0} /\ Attempts \in Nat \ {0}
    /\ MaxBuffered \in Nat /\ Reserve \in 0..MaxBuffered
    /\ Faults \subseteq {"send", "transport"}
    /\ MaxGen \in Nat /\ MaxCalls \in Nat

\* What is handed to the writer. live = FALSE marks a request whose caller
\* has left on its ended context: nobody reads its result any more.
Request == [who : Privileged, token : Nat, priv : BOOLEAN, drain : BOOLEAN,
            live : BOOLEAN, frame : Frame]

\* What sits in Pion's outbound buffer: the frame, and whether it was privileged.
Packet == [frame : Frame, priv : BOOLEAN]

VARIABLES
    state,         \* hidClient.state
    activeGen,     \* hidClient.activeGen: the generation allowed to send, 0 for none
    genCounter,    \* hidClient.genCounter
    held,          \* hidClient.held: the interfaces that may hold input
    heldPos,       \* hidClient.held.absoluteX/Y, None until known
    lifecycle,     \* owner of the lifecycle semaphore
    slot,          \* owner of controlLease.slot
    sendQ, prioQ,  \* hidClient.sendCh, priorityCh
    writerPc, writerReq,  \* the writer goroutine and the request in its hands
    writerGen,     \* the generation whose activeDone the drain barrier captured
    wire,          \* Pion's outbound buffer: sent, not yet acknowledged
    dev, devPos,   \* the peer: interfaces with something pressed, pointer position
    lowEdge,       \* hidClient.bufferedAmountLow holds a signal
    handshakeDone, \* hidClient.handshakeDone is closed
    callPc, callRes, callDone, token,    \* user goroutines: place, result, context ended, Held.token
    relPc, relRes, relDone,              \* releases and the handshake: place, result, context ended
    relIdx, relTry, relAbs, relOut,      \* position in the plan, attempt, absolute target, outcome
    calls          \* number of frames submitted so far

hidVars   == <<state, activeGen, genCounter, held, heldPos>>
queueVars == <<sendQ, prioQ>>
writeVars == <<writerPc, writerReq, writerGen>>
pionVars  == <<wire, dev, devPos, lowEdge, handshakeDone>>
callVars  == <<callPc, callRes, callDone, token, calls>>
relVars   == <<relPc, relRes, relDone, relIdx, relTry, relAbs, relOut>>
vars == <<hidVars, lifecycle, slot, queueVars, writeVars, pionVars, callVars, relVars>>

NoFrame   == [ifc |-> "handshake", hold |-> FALSE, pos |-> None]
NoRequest == [who |-> Conn, token |-> 0, priv |-> TRUE, drain |-> FALSE,
              live |-> FALSE, frame |-> NoFrame]

Init ==
    /\ state = "negotiating" /\ activeGen = 0 /\ genCounter = 0
    /\ held = {} /\ heldPos = None
    /\ lifecycle = None /\ slot = None
    /\ sendQ = <<>> /\ prioQ = <<>>
    /\ writerPc = "select" /\ writerReq = NoRequest /\ writerGen = 0
    /\ wire = <<>> /\ dev = {} /\ devPos = None
    /\ lowEdge = FALSE /\ handshakeDone = FALSE
    /\ callPc = [c \in Callers |-> "idle"]
    /\ callRes = [c \in Callers |-> "none"]
    /\ callDone = [c \in Callers |-> FALSE]
    /\ token = [c \in Callers |-> 0]
    /\ calls = 0
    /\ relPc = [r \in Privileged |-> "idle"]
    /\ relRes = [r \in Privileged |-> "none"]
    /\ relDone = [r \in Privileged |-> FALSE]
    /\ relIdx = [r \in Privileged |-> 1]
    /\ relTry = [r \in Privileged |-> 1]
    /\ relAbs = [r \in Privileged |-> None]
    /\ relOut = [r \in Privileged |-> "none"]

-----------------------------------------------------------------------------
(***************************************************************************)
(* State-machine helpers: sections of hid.go that run under stateMu.       *)
(***************************************************************************)

\* Mutant: the generation is burnt but the holder keeps its token.
InvalidateLease_KeepsHolder == UNCHANGED activeGen /\ genCounter' = genCounter + 1

\* invalidateLeaseLocked: revoke the holder and burn the generation.
InvalidateLease ==
    /\ activeGen' = 0
    /\ genCounter' = genCounter + 1

\* closeWith: terminal, idempotent. Closing stop is part of it (the writer
\* sees stop exactly when state is closed).
CloseWith ==
    /\ state' = "closed"
    /\ IF state = "closed" THEN UNCHANGED <<activeGen, genCounter>> ELSE InvalidateLease
    /\ UNCHANGED <<held, heldPos>>

\* Mutant: any non-zero token is taken for the active one.
Writable_AnyToken(req) ==
    \/ req.priv /\ state \in {"handshaking", "ready"}
    \/ state = "ready" /\ req.token # 0

\* checkWritableLocked.
Writable(req) ==
    \/ req.priv /\ state \in {"handshaking", "ready"}
    \/ state = "ready" /\ req.token # 0 /\ req.token = activeGen

\* contextErr: the context that authorized the request has ended.
ContextErr(req) ==
    \/ ~req.live
    \/ IF req.priv THEN relDone[req.who] ELSE callDone[req.who]

\* Mutant: off by one at the limit.
BufferFull_OffByOne(req) == Len(wire) > (IF req.priv THEN MaxBuffered ELSE MaxBuffered - Reserve)

\* checkBufferedAmount: ordinary input may not use the neutral reserve.
BufferFull(req) ==
    LET limit == IF req.priv THEN MaxBuffered ELSE MaxBuffered - Reserve
    IN  Len(wire) + 1 > limit

\* Mutant: a zero report clears the bit as soon as it is offered to Send.
HeldAdd_ZeroClears(req) ==
    /\ held' = IF req.priv THEN held
               ELSE IF req.frame.hold THEN held \cup {req.frame.ifc} ELSE held \ {req.frame.ifc}
    /\ heldPos' = IF req.frame.ifc = "absolute" /\ ~req.priv THEN req.frame.pos ELSE heldPos

\* Mutant: coordinates are recorded for the first absolute report only.
HeldAdd_FirstPosition(req) ==
    /\ held' = IF req.frame.hold /\ ~req.priv THEN held \cup {req.frame.ifc} ELSE held
    /\ heldPos' = IF req.frame.ifc = "absolute" /\ ~req.priv /\ heldPos = None
                  THEN req.frame.pos ELSE heldPos

\* heldInput.add, for the report of one request (held is nil when privileged).
HeldAdd(req) ==
    /\ held' = IF req.frame.hold /\ ~req.priv THEN held \cup {req.frame.ifc} ELSE held
    /\ heldPos' = IF req.frame.ifc = "absolute" /\ ~req.priv THEN req.frame.pos ELSE heldPos

\* The i-th frame of the neutralization plan of r (buildNeutralizationPlan):
\* keyboard and relative always, absolute only when it may hold a button, at
\* the last recorded coordinates. The handshake's only frame is NoFrame.
PlanFrame(r, i) ==
    IF r = Conn THEN NoFrame
    ELSE IF i = 1 THEN [ifc |-> "keyboard", hold |-> FALSE, pos |-> None]
    ELSE IF i = 2 THEN [ifc |-> "relative", hold |-> FALSE, pos |-> None]
    ELSE [ifc |-> "absolute", hold |-> FALSE, pos |-> relAbs[r]]

PlanLen(r) == IF relAbs[r] = None THEN 2 ELSE 3

\* The interfaces whose bit a confirmed plan clears.
Planned(r) == {"keyboard", "relative"} \cup (IF relAbs[r] = None THEN {} ELSE {"absolute"})

-----------------------------------------------------------------------------
(***************************************************************************)
(* Request completion and abandonment.                                     *)
(***************************************************************************)

\* hidRequest.complete: the result reaches the caller if it still waits.
Complete(req, res) ==
    /\ relRes' = IF req.live /\ req.priv THEN [relRes EXCEPT ![req.who] = res] ELSE relRes
    /\ callRes' = IF req.live /\ ~req.priv THEN [callRes EXCEPT ![req.who] = res] ELSE callRes

Kill(req, p, priv) ==
    IF req.who = p /\ req.priv = priv THEN [req EXCEPT !.live = FALSE] ELSE req

\* The caller stops waiting: its request keeps the ended context wherever it is.
Abandon(p, priv) ==
    /\ sendQ' = [i \in DOMAIN sendQ |-> Kill(sendQ[i], p, priv)]
    /\ prioQ' = [i \in DOMAIN prioQ |-> Kill(prioQ[i], p, priv)]
    /\ writerReq' = Kill(writerReq, p, priv)
    /\ UNCHANGED <<writerPc, writerGen>>

-----------------------------------------------------------------------------
(***************************************************************************)
(* The writer goroutine: writeLoop, drain and write.                       *)
(***************************************************************************)

\* The writer is done with its request. The poll at the top of writeLoop either
\* finds a privileged frame (it must take that one next) or goes on to the
\* blocking select.
Loop(q) ==
    /\ writerPc' = IF q = <<>> THEN "select" ELSE "priority"
    /\ writerReq' = NoRequest
    /\ writerGen' = 0

\* The first validation of write: context, state and token, then the buffer.
Take(req, q) ==
    IF ContextErr(req) \/ ~Writable(req) \/ BufferFull(req)
    THEN /\ Complete(req, IF ~ContextErr(req) /\ state = "ready" /\ ~Writable(req)
                          THEN "stale" ELSE "err")
         /\ Loop(q)
    ELSE /\ writerPc' = "final"
         /\ writerReq' = req
         /\ UNCHANGED <<writerGen, relRes, callRes>>

WriterTakePriority ==
    /\ writerPc \in {"priority", "select"}
    /\ prioQ # <<>>
    /\ prioQ' = Tail(prioQ)
    /\ Take(Head(prioQ), Tail(prioQ))
    /\ UNCHANGED <<hidVars, lifecycle, slot, sendQ, pionVars,
                   callPc, callDone, token, calls,
                   relPc, relDone, relIdx, relTry, relAbs, relOut>>

\* The blocking select may pick queued input even when a privileged frame has
\* just arrived: only the poll before it gives priority.
WriterTakeInput ==
    /\ writerPc = "select"
    /\ sendQ # <<>>
    /\ sendQ' = Tail(sendQ)
    /\ Take(Head(sendQ), prioQ)
    /\ UNCHANGED <<hidVars, lifecycle, slot, prioQ, pionVars,
                   callPc, callDone, token, calls,
                   relPc, relDone, relIdx, relTry, relAbs, relOut>>

LiveIn(q, p) == \E i \in DOMAIN q : q[i].who = p /\ q[i].live

\* stop: drain fails every queued request, then writerDone is closed.
WriterStop ==
    /\ writerPc = "select"
    /\ state = "closed"
    /\ writerPc' = "done"
    /\ sendQ' = <<>> /\ prioQ' = <<>>
    /\ callRes' = [c \in Callers |-> IF LiveIn(sendQ, c) THEN "err" ELSE callRes[c]]
    /\ relRes' = [r \in Privileged |-> IF LiveIn(prioQ, r) THEN "err" ELSE relRes[r]]
    /\ UNCHANGED <<hidVars, lifecycle, slot, writerReq, writerGen, pionVars,
                   callPc, callDone, token, calls,
                   relPc, relDone, relIdx, relTry, relAbs, relOut>>

\* The second validation of write, under stateMu: recheck, record what may
\* become held, and capture activeDone for a drain barrier.
WriterFinal ==
    /\ writerPc = "final"
    /\ IF Writable(writerReq) /\ ~ContextErr(writerReq)
       THEN /\ HeldAdd(writerReq)
            /\ writerGen' = activeGen
            /\ writerPc' = "send"
            /\ UNCHANGED <<writerReq, relRes, callRes>>
       ELSE /\ Complete(writerReq, IF state = "ready" /\ ~Writable(writerReq)
                                   THEN "stale" ELSE "err")
            /\ Loop(prioQ)
            /\ UNCHANGED <<held, heldPos>>
    /\ UNCHANGED <<state, activeGen, genCounter, lifecycle, slot, queueVars,
                   pionVars, callPc, callDone, token, calls,
                   relPc, relDone, relIdx, relTry, relAbs, relOut>>

Sent(req) == Append(wire, [frame |-> req.frame, priv |-> req.priv])

\* channel.Send accepts the frame; only a drain request keeps the writer.
WriterSend ==
    /\ writerPc = "send"
    /\ wire' = Sent(writerReq)
    /\ IF writerReq.drain
       THEN writerPc' = "check" /\ UNCHANGED <<writerReq, writerGen, relRes, callRes>>
       ELSE Loop(prioQ) /\ Complete(writerReq, "ok")
    /\ UNCHANGED <<hidVars, lifecycle, slot, queueVars,
                   dev, devPos, lowEdge, handshakeDone, callPc, callDone, token, calls,
                   relPc, relDone, relIdx, relTry, relAbs, relOut>>

\* channel.Send fails. The error is ambiguous: the frame may have been queued.
WriterSendError ==
    /\ writerPc = "send"
    /\ "send" \in Faults
    /\ wire' \in {wire, Sent(writerReq)}
    /\ Loop(prioQ)
    /\ Complete(writerReq, "err")
    /\ UNCHANGED <<hidVars, lifecycle, slot, queueVars,
                   dev, devPos, lowEdge, handshakeDone, callPc, callDone, token, calls,
                   relPc, relDone, relIdx, relTry, relAbs, relOut>>

\* waitBufferedAmountLowUntilInvalidated, the level check of the drain barrier.
WriterDrainCheck ==
    /\ writerPc = "check"
    /\ IF wire = <<>>
       THEN Loop(prioQ) /\ Complete(writerReq, "ok")
       ELSE writerPc' = "drain" /\ UNCHANGED <<writerReq, writerGen, relRes, callRes>>
    /\ UNCHANGED <<hidVars, lifecycle, slot, queueVars, pionVars,
                   callPc, callDone, token, calls,
                   relPc, relDone, relIdx, relTry, relAbs, relOut>>

\* Mutant: the edge alone is taken for the confirmation.
WriterDrainEdge_TrustsEdge ==
    /\ writerPc = "drain" /\ lowEdge
    /\ lowEdge' = FALSE
    /\ Loop(prioQ) /\ Complete(writerReq, "ok")
    /\ UNCHANGED <<hidVars, lifecycle, slot, queueVars, wire, dev, devPos, handshakeDone,
                   callPc, callDone, token, calls,
                   relPc, relDone, relIdx, relTry, relAbs, relOut>>

\* ... and its select: an edge leads back to the level check; invalidation
\* (activeDone closed, which is activeGen having moved on) prefers the level.
WriterDrainEdge ==
    /\ writerPc = "drain"
    /\ lowEdge
    /\ lowEdge' = FALSE
    /\ writerPc' = "check"
    /\ UNCHANGED <<hidVars, lifecycle, slot, queueVars, writerReq, writerGen,
                   wire, dev, devPos, handshakeDone, callVars, relVars>>

\* Mutant: invalidation does not wake the barrier.
WriterDrainEnd_NoWake ==
    /\ writerPc = "drain"
    /\ ContextErr(writerReq)
    /\ Complete(writerReq, "err") /\ Loop(prioQ)
    /\ UNCHANGED <<hidVars, lifecycle, slot, queueVars, pionVars, callPc, callDone, token, calls,
                   relPc, relDone, relIdx, relTry, relAbs, relOut>>

WriterDrainEnd ==
    /\ writerPc = "drain"
    /\ \/ /\ activeGen # writerGen
          /\ Complete(writerReq, IF wire = <<>> THEN "ok" ELSE "stale")
       \/ /\ ContextErr(writerReq)
          /\ Complete(writerReq, "err")
    /\ Loop(prioQ)
    /\ UNCHANGED <<hidVars, lifecycle, slot, queueVars, pionVars,
                   callPc, callDone, token, calls,
                   relPc, relDone, relIdx, relTry, relAbs, relOut>>

-----------------------------------------------------------------------------
(***************************************************************************)
(* Pion and the peer (external): ordered delivery, acknowledgement, loss.  *)
(***************************************************************************)

\* The peer's SCTP takes and acknowledges the oldest frame. The buffered
\* amount falls; when it reaches zero Pion runs signalBufferedAmountLow, a
\* non-blocking send into a one-slot channel. The handshake frame is echoed
\* back (handleMessage), or not.
Ack ==
    /\ wire # <<>>
    /\ LET f == Head(wire).frame IN
       /\ dev' = IF f.hold THEN dev \cup {f.ifc} ELSE dev \ {f.ifc}
       /\ devPos' = IF f.ifc = "absolute" THEN f.pos ELSE devPos
       /\ handshakeDone' \in (IF f.ifc = "handshake" THEN {handshakeDone, TRUE} ELSE {handshakeDone})
    /\ wire' = Tail(wire)
    /\ lowEdge' = (lowEdge \/ Len(wire) = 1)
    /\ UNCHANGED <<hidVars, lifecycle, slot, queueVars, writeVars, callVars, relVars>>

\* OnClose, OnError, a failed or closed connection, or session.close.
TransportDown ==
    /\ "transport" \in Faults
    /\ state # "closed"
    /\ CloseWith
    /\ UNCHANGED <<lifecycle, slot, queueVars, writeVars, pionVars, callVars, relVars>>

-----------------------------------------------------------------------------
(***************************************************************************)
(* The readiness handshake, run by the connecting goroutine.               *)
(***************************************************************************)

PrivRequest(r, i) ==
    [who |-> r, token |-> 0, priv |-> TRUE, drain |-> FALSE, live |-> TRUE,
     frame |-> PlanFrame(r, i)]

\* enqueue's writerDone branch: a delivered result wins over the shutdown.
WriterGone(r) == writerPc = "done" /\ relRes[r] = "none"

HandshakeSend ==
    /\ relPc[Conn] = "idle"
    /\ state = "negotiating"
    /\ Len(prioQ) < PrioDepth
    /\ state' = "handshaking"
    /\ prioQ' = Append(prioQ, PrivRequest(Conn, 1))
    /\ relPc' = [relPc EXCEPT ![Conn] = "await"]
    /\ UNCHANGED <<activeGen, genCounter, held, heldPos, lifecycle, slot, sendQ, writeVars,
                   pionVars, callVars, relRes, relDone, relIdx, relTry, relAbs, relOut>>

HandshakeWritten ==
    /\ relPc[Conn] = "await"
    /\ relRes[Conn] = "ok"
    /\ ~relDone[Conn]
    /\ relPc' = [relPc EXCEPT ![Conn] = "echo"]
    /\ UNCHANGED <<hidVars, lifecycle, slot, queueVars, writeVars, pionVars, callVars,
                   relRes, relDone, relIdx, relTry, relAbs, relOut>>

\* Mutant: the state is not looked at again after the wait.
HandshakeReady_Unchecked ==
    /\ relPc[Conn] = "echo" /\ handshakeDone /\ ~relDone[Conn]
    /\ state' = "ready"
    /\ relPc' = [relPc EXCEPT ![Conn] = "done"]
    /\ UNCHANGED <<activeGen, genCounter, held, heldPos, lifecycle, slot, queueVars, writeVars,
                   pionVars, callVars, relRes, relDone, relIdx, relTry, relAbs, relOut>>

\* waitForReadiness returned nil; the state is checked again before ready.
HandshakeReady ==
    /\ relPc[Conn] = "echo"
    /\ handshakeDone
    /\ ~relDone[Conn]
    /\ state # "closed"
    /\ state' = "ready"
    /\ relPc' = [relPc EXCEPT ![Conn] = "done"]
    /\ UNCHANGED <<activeGen, genCounter, held, heldPos, lifecycle, slot, queueVars, writeVars,
                   pionVars, callVars, relRes, relDone, relIdx, relTry, relAbs, relOut>>

\* Every failure of the handshake closes the channel; Connect then fails.
HandshakeFail ==
    /\ \/ relPc[Conn] = "idle" /\ state = "closed"
       \/ relPc[Conn] = "await" /\ (relRes[Conn] = "err" \/ relDone[Conn] \/ WriterGone(Conn))
       \/ relPc[Conn] = "echo" /\ (relDone[Conn] \/ writerPc = "done"
                                  \/ (handshakeDone /\ state = "closed"))
    /\ CloseWith
    /\ relPc' = [relPc EXCEPT ![Conn] = "failed"]
    /\ Abandon(Conn, TRUE)
    /\ UNCHANGED <<lifecycle, slot, pionVars, callVars,
                   relRes, relDone, relIdx, relTry, relAbs, relOut>>

-----------------------------------------------------------------------------
(***************************************************************************)
(* Lease users. Acquire, TryAcquire and their persistent forms take the    *)
(* same two steps; their contexts may end, and TryAcquire may find the     *)
(* lifecycle busy, whenever AcquireFail is taken.                          *)
(***************************************************************************)

AcquireSlot(c) ==
    /\ callPc[c] = "idle"
    /\ relPc[Conn] = "done"
    /\ slot = None
    /\ slot' = c
    /\ callPc' = [callPc EXCEPT ![c] = "begin"]
    /\ UNCHANGED <<hidVars, lifecycle, queueVars, writeVars, pionVars,
                   callRes, callDone, token, calls, relVars>>

\* Mutant: unconfirmed held input does not stop the next lease.
BeginLease_IgnoresHeld(c) ==
    /\ callPc[c] = "begin" /\ lifecycle = None /\ state = "ready" /\ genCounter < MaxGen
    /\ genCounter' = genCounter + 1
    /\ activeGen' = genCounter + 1
    /\ token' = [token EXCEPT ![c] = genCounter + 1]
    /\ callPc' = [callPc EXCEPT ![c] = "holding"]
    /\ UNCHANGED <<state, held, heldPos, lifecycle, slot, queueVars, writeVars, pionVars,
                   callRes, callDone, calls, relVars>>

\* beginLeaseLocked, between lockLifecycle and unlockLifecycle. A lease never
\* starts while an earlier one's input may still be held.
BeginLease(c) ==
    /\ callPc[c] = "begin"
    /\ lifecycle = None
    /\ state = "ready"
    /\ held = {}
    /\ genCounter < MaxGen
    /\ genCounter' = genCounter + 1
    /\ activeGen' = genCounter + 1
    /\ token' = [token EXCEPT ![c] = genCounter + 1]
    /\ callPc' = [callPc EXCEPT ![c] = "holding"]
    /\ UNCHANGED <<state, held, heldPos, lifecycle, slot, queueVars, writeVars, pionVars,
                   callRes, callDone, calls, relVars>>

\* startHeld with an error: the slot is given back.
AcquireFail(c) ==
    /\ callPc[c] = "begin"
    /\ slot' = None
    /\ callPc' = [callPc EXCEPT ![c] = "idle"]
    /\ UNCHANGED <<hidVars, lifecycle, queueVars, writeVars, pionVars,
                   callRes, callDone, token, calls, relVars>>

\* Send*Report and ReleaseKeyboard (drain). checkAlive is an early-out that may
\* have passed before the lease ended, so it guards nothing here.
Submit(c, f, d) ==
    /\ callPc[c] = "holding"
    /\ calls < MaxCalls
    /\ Len(sendQ) < SendDepth
    /\ calls' = calls + 1
    /\ sendQ' = Append(sendQ, [who |-> c, token |-> token[c], priv |-> FALSE, drain |-> d,
                               live |-> TRUE, frame |-> f])
    /\ callPc' = [callPc EXCEPT ![c] = "await"]
    /\ UNCHANGED <<hidVars, lifecycle, slot, prioQ, writeVars, pionVars,
                   callRes, callDone, token, relVars>>

KeyboardRelease == [ifc |-> "keyboard", hold |-> FALSE, pos |-> None]

SendReport(c) == \E f \in Reports : Submit(c, f, FALSE)
ReleaseKeyboard(c) == Submit(c, KeyboardRelease, TRUE)

\* The wait of enqueue: a result, the writer gone, or the caller's context.
CallReturn(c) ==
    /\ callPc[c] = "await"
    /\ callRes[c] # "none" \/ writerPc = "done" \/ callDone[c]
    /\ callPc' = [callPc EXCEPT ![c] = "holding"]
    /\ callRes' = [callRes EXCEPT ![c] = "none"]
    /\ callDone' = [callDone EXCEPT ![c] = FALSE]
    /\ Abandon(c, FALSE)
    /\ UNCHANGED <<hidVars, lifecycle, slot, pionVars, token, calls, relVars>>

CallContextEnds(c) ==
    /\ callPc[c] = "await"
    /\ ~callDone[c]
    /\ callDone' = [callDone EXCEPT ![c] = TRUE]
    /\ UNCHANGED <<hidVars, lifecycle, slot, queueVars, writeVars, pionVars,
                   callPc, callRes, token, calls, relVars>>

-----------------------------------------------------------------------------
(***************************************************************************)
(* Release: releaseAll for a lease, releaseAllAndClose for Client.Close.   *)
(***************************************************************************)

HasLease(c) == callPc[c] \in {"holding", "await"}

StartRelease(r) ==
    /\ relPc[r] = "idle"
    /\ relPc' = [relPc EXCEPT ![r] = "lock"]
    /\ UNCHANGED <<relRes, relDone, relIdx, relTry, relAbs, relOut>>

\* Held.Release by the user: it runs the release, or waits in once.Do for the
\* watchdog that already does.
UserRelease(c) ==
    /\ callPc[c] = "holding"
    /\ callPc' = [callPc EXCEPT ![c] = "releasing"]
    /\ IF relPc[c] = "idle" THEN StartRelease(c) ELSE UNCHANGED relVars
    /\ UNCHANGED <<hidVars, lifecycle, slot, queueVars, writeVars, pionVars,
                   callRes, callDone, token, calls>>

\* Held.watch: the lease timed out or its lifetime context ended.
Watchdog(c) ==
    /\ HasLease(c)
    /\ StartRelease(c)
    /\ UNCHANGED <<hidVars, lifecycle, slot, queueVars, writeVars, pionVars, callVars>>

\* Release returns to the user and the handle is dropped.
ReleaseReturn(c) ==
    /\ callPc[c] = "releasing"
    /\ relPc[c] = "done"
    /\ callPc' = [callPc EXCEPT ![c] = "idle"]
    /\ relPc' = [relPc EXCEPT ![c] = "idle"]
    /\ relOut' = [relOut EXCEPT ![c] = "none"]
    /\ token' = [token EXCEPT ![c] = 0]
    /\ UNCHANGED <<hidVars, lifecycle, slot, queueVars, writeVars, pionVars,
                   callRes, callDone, calls, relRes, relDone, relIdx, relTry, relAbs>>

Close(k) ==
    /\ relPc[Conn] = "done"
    /\ StartRelease(k)
    /\ UNCHANGED <<hidVars, lifecycle, slot, queueVars, writeVars, pionVars, callVars>>

\* The neutralizeTimeout of Held.Release and Client.Close; for Conn, the
\* context of Connect. Timing assumption: two seconds do not pass between the
\* start of a release and its first look at the lifecycle gate, nor between
\* another release taking the gate and revoking the lease (straight-line code).
RelContextEnds(r) ==
    /\ relPc[r] \notin {"idle", "unlock", "free", "done", "failed"}
    /\ relPc[r] = "lock" => lifecycle # None /\ relPc[lifecycle] # "invalidate"
    /\ ~relDone[r]
    /\ relDone' = [relDone EXCEPT ![r] = TRUE]
    /\ UNCHANGED <<hidVars, lifecycle, slot, queueVars, writeVars, pionVars, callVars,
                   relPc, relRes, relIdx, relTry, relAbs, relOut>>

RelLock(r) ==
    /\ relPc[r] = "lock"
    /\ lifecycle = None
    /\ ~relDone[r]
    /\ lifecycle' = r
    /\ relPc' = [relPc EXCEPT ![r] = "invalidate"]
    /\ UNCHANGED <<hidVars, slot, queueVars, writeVars, pionVars, callVars,
                   relRes, relDone, relIdx, relTry, relAbs, relOut>>

\* lockLifecycle gave up: the lease ends unverified; Close still closes.
RelLockTimeout(r) ==
    /\ relPc[r] = "lock"
    /\ relDone[r]
    /\ relOut' = [relOut EXCEPT ![r] = "unverified"]
    /\ relDone' = [relDone EXCEPT ![r] = FALSE]
    /\ IF r \in Closers
       THEN CloseWith /\ relPc' = [relPc EXCEPT ![r] = "done"]
       ELSE UNCHANGED hidVars /\ relPc' = [relPc EXCEPT ![r] = "free"]
    /\ UNCHANGED <<lifecycle, slot, queueVars, writeVars, pionVars, callVars,
                   relRes, relIdx, relTry, relAbs>>

\* releaseAllLocked returns; its context and plan are dropped.
Finish(r, out) ==
    /\ relPc' = [relPc EXCEPT ![r] = "unlock"]
    /\ relOut' = [relOut EXCEPT ![r] = out]
    /\ relRes' = [relRes EXCEPT ![r] = "none"]
    /\ relDone' = [relDone EXCEPT ![r] = FALSE]
    /\ relIdx' = [relIdx EXCEPT ![r] = 1]
    /\ relTry' = [relTry EXCEPT ![r] = 1]
    /\ relAbs' = [relAbs EXCEPT ![r] = None]

\* The head of releaseAllLocked: revoke first, then decide from a snapshot.
RelInvalidate(r) ==
    /\ relPc[r] = "invalidate"
    /\ InvalidateLease
    /\ IF state # "ready" \/ ("absolute" \in held /\ heldPos = None)
       THEN Finish(r, IF held = {} THEN "ok" ELSE "unverified")
       ELSE /\ relPc' = [relPc EXCEPT ![r] = "enqueue"]
            /\ relAbs' = [relAbs EXCEPT ![r] = IF "absolute" \in held THEN heldPos ELSE None]
            /\ UNCHANGED <<relRes, relDone, relIdx, relTry, relOut>>
    /\ UNCHANGED <<state, held, heldPos, lifecycle, slot, queueVars, writeVars, pionVars,
                   callVars>>

RelEnqueue(r) ==
    /\ relPc[r] = "enqueue"
    /\ ~relDone[r]
    /\ Len(prioQ) < PrioDepth
    /\ prioQ' = Append(prioQ, PrivRequest(r, relIdx[r]))
    /\ relPc' = [relPc EXCEPT ![r] = "await"]
    /\ UNCHANGED <<hidVars, lifecycle, slot, sendQ, writeVars, pionVars, callVars,
                   relRes, relDone, relIdx, relTry, relAbs, relOut>>

\* A neutral report was written: the next one, or wait for the drain.
RelWritten(r) ==
    /\ relPc[r] = "await"
    /\ relRes[r] = "ok"
    /\ ~relDone[r]
    /\ IF relIdx[r] < PlanLen(r)
       THEN /\ relPc' = [relPc EXCEPT ![r] = "enqueue"]
            /\ relIdx' = [relIdx EXCEPT ![r] = relIdx[r] + 1]
       ELSE /\ relPc' = [relPc EXCEPT ![r] = "check"]
            /\ UNCHANGED relIdx
    /\ relRes' = [relRes EXCEPT ![r] = "none"]
    /\ UNCHANGED <<hidVars, lifecycle, slot, queueVars, writeVars, pionVars, callVars,
                   relDone, relTry, relAbs, relOut>>

\* Mutant: written is taken for confirmed, without waiting for the drain.
RelDrainCheck_NoWait(r) ==
    /\ relPc[r] = "check"
    /\ relPc' = [relPc EXCEPT ![r] = "clear"]
    /\ UNCHANGED <<hidVars, lifecycle, slot, queueVars, writeVars, pionVars, callVars,
                   relRes, relDone, relIdx, relTry, relAbs, relOut>>

\* waitBufferedAmountLow by the releasing goroutine.
RelDrainCheck(r) ==
    /\ relPc[r] = "check"
    /\ relPc' = [relPc EXCEPT ![r] = IF wire = <<>> THEN "clear" ELSE "drain"]
    /\ UNCHANGED <<hidVars, lifecycle, slot, queueVars, writeVars, pionVars, callVars,
                   relRes, relDone, relIdx, relTry, relAbs, relOut>>

RelDrainEdge(r) ==
    /\ relPc[r] = "drain"
    /\ lowEdge
    /\ lowEdge' = FALSE
    /\ relPc' = [relPc EXCEPT ![r] = "check"]
    /\ UNCHANGED <<hidVars, lifecycle, slot, queueVars, writeVars,
                   wire, dev, devPos, handshakeDone, callVars,
                   relRes, relDone, relIdx, relTry, relAbs, relOut>>

\* Teardown can lose the race with the last acknowledgement: prefer the level.
RelDrainDown(r) ==
    /\ relPc[r] = "drain"
    /\ writerPc = "done"
    /\ wire = <<>>
    /\ relPc' = [relPc EXCEPT ![r] = "clear"]
    /\ UNCHANGED <<hidVars, lifecycle, slot, queueVars, writeVars, pionVars, callVars,
                   relRes, relDone, relIdx, relTry, relAbs, relOut>>

\* Mutant: the drain wait of a release ignores its own context.
AttemptFails_NoDeadline(r) ==
    \/ relPc[r] = "enqueue" /\ (relDone[r] \/ writerPc = "done")
    \/ relPc[r] = "await" /\ (relRes[r] \notin {"none", "ok"} \/ relDone[r] \/ WriterGone(r))
    \/ relPc[r] = "drain" /\ writerPc = "done" /\ wire # <<>>

\* The errors of enqueue and waitBufferedAmountLow.
AttemptFails(r) ==
    \/ relPc[r] = "enqueue" /\ (relDone[r] \/ writerPc = "done")
    \/ relPc[r] = "await" /\ (relRes[r] \notin {"none", "ok"} \/ relDone[r] \/ WriterGone(r))
    \/ relPc[r] = "drain" /\ (relDone[r] \/ (writerPc = "done" /\ wire # <<>>))

\* An attempt failed; try again from the first report unless the context ended
\* or the attempts are used up, which leaves held as it is.
RelAttemptFailed(r) ==
    /\ AttemptFails(r)
    /\ Abandon(r, TRUE)
    /\ IF ~relDone[r] /\ relTry[r] < Attempts
       THEN /\ relPc' = [relPc EXCEPT ![r] = "enqueue"]
            /\ relIdx' = [relIdx EXCEPT ![r] = 1]
            /\ relTry' = [relTry EXCEPT ![r] = relTry[r] + 1]
            /\ relRes' = [relRes EXCEPT ![r] = "none"]
            /\ UNCHANGED <<relDone, relAbs, relOut>>
       ELSE Finish(r, "unverified")
    /\ UNCHANGED <<hidVars, lifecycle, slot, pionVars, callVars>>

\* Confirmed: clear exactly the interfaces the plan neutralized.
RelClear(r) ==
    /\ relPc[r] = "clear"
    /\ held' = held \ Planned(r)
    /\ Finish(r, "ok")
    /\ UNCHANGED <<state, activeGen, genCounter, heldPos, lifecycle, slot, queueVars, writeVars,
                   pionVars, callVars>>

\* The deferred unlockLifecycle. Close drives the channel terminal first.
RelUnlock(r) ==
    /\ relPc[r] = "unlock"
    /\ lifecycle' = None
    /\ IF r \in Closers
       THEN CloseWith /\ relPc' = [relPc EXCEPT ![r] = "done"]
       ELSE UNCHANGED hidVars /\ relPc' = [relPc EXCEPT ![r] = "free"]
    /\ UNCHANGED <<slot, queueVars, writeVars, pionVars, callVars,
                   relRes, relDone, relIdx, relTry, relAbs, relOut>>

\* The end of Held.Release: the slot is freed whatever the outcome.
FreeSlot(c) ==
    /\ relPc[c] = "free"
    /\ slot' = None
    /\ relPc' = [relPc EXCEPT ![c] = "done"]
    /\ UNCHANGED <<hidVars, lifecycle, queueVars, writeVars, pionVars, callVars,
                   relRes, relDone, relIdx, relTry, relAbs, relOut>>

-----------------------------------------------------------------------------
Writer ==
    \/ WriterTakePriority \/ WriterTakeInput \/ WriterStop
    \/ WriterFinal \/ WriterSend \/ WriterSendError
    \/ WriterDrainCheck \/ WriterDrainEdge \/ WriterDrainEnd

Handshake == HandshakeSend \/ HandshakeWritten \/ HandshakeReady \/ HandshakeFail

Pion == Ack \/ TransportDown

User(c) ==
    \/ AcquireSlot(c) \/ BeginLease(c) \/ AcquireFail(c)
    \/ SendReport(c) \/ ReleaseKeyboard(c) \/ CallReturn(c) \/ CallContextEnds(c)
    \/ UserRelease(c) \/ Watchdog(c) \/ ReleaseReturn(c) \/ FreeSlot(c)

Release(r) ==
    \/ RelLock(r) \/ RelLockTimeout(r) \/ RelInvalidate(r) \/ RelEnqueue(r) \/ RelWritten(r)
    \/ RelDrainCheck(r) \/ RelDrainEdge(r) \/ RelDrainDown(r) \/ RelAttemptFailed(r)
    \/ RelClear(r) \/ RelUnlock(r)

Next ==
    \/ Writer \/ Handshake \/ Pion
    \/ \E c \in Callers : User(c)
    \/ \E k \in Closers : Close(k)
    \/ \E r \in Neutralizers : Release(r)
    \/ \E r \in Privileged : RelContextEnds(r)

Spec == Init /\ [][Next]_vars

\* Goroutines that can run do run, and the timers of the watchdog and of
\* neutralizeTimeout fire. Nothing is assumed of the peer (Ack), of users, or
\* of the contexts users pass.
Fairness ==
    /\ WF_vars(WriterTakePriority) /\ WF_vars(WriterTakeInput) /\ WF_vars(WriterStop)
    /\ WF_vars(WriterFinal) /\ WF_vars(WriterSend \/ WriterSendError)
    /\ WF_vars(WriterDrainCheck) /\ WF_vars(WriterDrainEdge) /\ WF_vars(WriterDrainEnd)
    /\ \A c \in Callers : WF_vars(CallReturn(c)) /\ WF_vars(Watchdog(c)) /\ WF_vars(FreeSlot(c))
    /\ \A r \in Neutralizers : WF_vars(Release(r)) /\ WF_vars(RelContextEnds(r))

FairSpec == Spec /\ Fairness

-----------------------------------------------------------------------------
(***************************************************************************)
(* Properties.                                                             *)
(***************************************************************************)

WriterPcs == {"select", "priority", "final", "send", "check", "drain", "done"}
CallPcs == {"idle", "begin", "holding", "await", "releasing"}
RelPcs == {"idle", "lock", "invalidate", "enqueue", "await", "check", "drain", "clear",
           "unlock", "free", "done", "echo", "failed"}

Results == {"none", "ok", "stale", "err"}

HidTypes ==
    /\ state \in {"negotiating", "handshaking", "ready", "closed"}
    /\ activeGen \in Nat /\ genCounter \in Nat
    /\ held \in SUBSET Ifaces
    /\ heldPos \in Positions \cup {None}
    /\ lifecycle \in Privileged \cup {None}
    /\ slot \in Callers \cup {None}

WriterTypes ==
    /\ sendQ \in Seq(Request) /\ prioQ \in Seq(Request)
    /\ writerPc \in WriterPcs /\ writerReq \in Request /\ writerGen \in Nat

PionTypes ==
    /\ wire \in Seq(Packet)
    /\ dev \in SUBSET Ifaces /\ devPos \in Positions \cup {None}
    /\ lowEdge \in BOOLEAN /\ handshakeDone \in BOOLEAN

CallTypes ==
    /\ callPc \in [Callers -> CallPcs]
    /\ callRes \in [Callers -> Results]
    /\ callDone \in [Callers -> BOOLEAN]
    /\ token \in [Callers -> Nat]
    /\ calls \in Nat

RelTypes ==
    /\ relPc \in [Privileged -> RelPcs]
    /\ relRes \in [Privileged -> Results]
    /\ relDone \in [Privileged -> BOOLEAN]
    /\ relIdx \in [Privileged -> 1..3]
    /\ relTry \in [Privileged -> Nat]
    /\ relAbs \in [Privileged -> Positions \cup {None}]
    /\ relOut \in [Privileged -> {"none", "ok", "unverified"}]

\* Every variable of the client has the type its Go declaration gives it; in
\* particular a release never runs past the three reports a plan can have.
TypeOK == HidTypes /\ WriterTypes /\ PionTypes /\ CallTypes /\ RelTypes

\* The interface i is pressed at the peer, or a report that presses it is
\* already beyond recall: in Pion's buffer, or validated and about to be sent.
MayPress(i) ==
    \/ i \in dev
    \/ \E n \in 1..Len(wire) : wire[n].frame.ifc = i /\ wire[n].frame.hold
    \/ writerPc = "send" /\ writerReq.frame.ifc = i /\ writerReq.frame.hold

\* heldInput is conservative (hid.go:138-149): whatever the peer may be holding,
\* now or because of a report that can no longer be stopped, is recorded in held,
\* through ambiguous Send errors, failed releases and teardown.
HeldIsConservative == \A i \in Ifaces : MayPress(i) => i \in held

\* A release that reports success (Held.Release, Client.Close: hid.go:719-733) is
\* truthful: when its transaction ends, nothing is pressed at the peer and nothing
\* that presses is on its way.
VerifiedIsNeutral ==
    \A r \in Neutralizers :
        relPc[r] = "unlock" /\ relOut[r] = "ok" => \A i \in Ifaces : ~MayPress(i)

\* beginLeaseLocked never hands control to a new holder while input of an earlier
\* lease is pressed or in flight, whatever way the earlier lease ended.
LeaseStartsNeutral ==
    [][activeGen' # 0 /\ activeGen' # activeGen => \A i \in Ifaces : ~MayPress(i)]_vars

\* The generation allowed to send belongs to the holder of the slot: freeing the
\* slot never leaves a usable token behind, not even when the release gave up
\* waiting for the lifecycle gate and so never revoked anything itself.
SlotOwnsGeneration ==
    activeGen # 0 => slot \in Callers /\ token[slot] = activeGen

DrainWaiters ==
    {r \in Neutralizers : relPc[r] \in {"check", "drain"}}
        \cup (IF writerPc \in {"check", "drain"} THEN {Conn} ELSE {})

\* Only one goroutine at a time waits for the one-slot bufferedAmountLow channel
\* (hid.go:232): two would steal each other's edge.
SoleDrainWaiter == \A a, b \in DrainWaiters : a = b

\* No lost wake-up: a goroutine blocked in the drain select while everything has
\* been acknowledged has an edge waiting for it.
NoLostWakeup ==
    wire = <<>> /\ (writerPc = "drain" \/ \E r \in Neutralizers : relPc[r] = "drain") => lowEdge

\* checkBufferedAmount, not atomic with Send, still bounds Pion's buffer, and input
\* never eats into the reserve kept for the neutral set.
BufferBounded ==
    /\ Len(wire) <= MaxBuffered
    /\ Cardinality({n \in 1..Len(wire) : ~wire[n].priv}) <= MaxBuffered - Reserve

\* ReleaseKeyboard succeeds only once its zero report, and all before it, have been
\* acknowledged: at that instant no key is pressed and nothing is in flight. A stale
\* edge alone never satisfies the barrier.
DrainBarrierIsReal ==
    [][\A c \in Callers :
         (writerReq.drain /\ writerReq.who = c /\ callRes[c] = "none" /\ callRes'[c] = "ok")
            => wire = <<>> /\ "keyboard" \notin dev]_vars

\* closed is terminal (hid.go:36-39): a handshake that completes while the channel is
\* being torn down does not revive it, and no generation is active afterwards.
ClosedIsTerminal == [][state = "closed" => state' = "closed" /\ activeGen' = 0]_vars

\* Position of the pointer when the n-th packet of wire arrives.
PointerBefore(n) ==
    LET before == {m \in 1..(n-1) : wire[m].frame.ifc = "absolute"}
    IN  IF before = {} THEN devPos
        ELSE wire[CHOOSE m \in before : \A k \in before : k <= m].frame.pos

\* Neutralization never moves the pointer (hid.go:730-733): the absolute report of a
\* release finds the pointer at the very coordinates it carries, as long as Send
\* does not fail ambiguously.
NeutralKeepsPosition ==
    \A n \in 1..Len(wire) :
        wire[n].priv /\ wire[n].frame.ifc = "absolute" => wire[n].frame.pos = PointerBefore(n)

\* Every release ends, frees the slot (or closes), whatever the peer does.
ReleaseEnds == \A r \in Neutralizers : relPc[r] = "lock" ~> relPc[r] \in {"idle", "done"}

\* No user is left waiting on a frame: not behind a drain barrier nobody acknowledges,
\* not on a frame queued as the writer stops, even with a context that never ends.
CallsReturn == \A c \in Callers : callPc[c] = "await" ~> callPc[c] # "await"

\* owner.go:29-32 "every frame is re-validated against the currently-active token at the
\* last moment before it is written. A frame authorized by an ended lease is dropped,
\* not delivered late."
NoLateInput ==
    [][Len(wire') > Len(wire) /\ ~wire'[Len(wire')].priv => writerReq.token = activeGen]_vars

\* hid.go:85-88, of ErrStaleControlToken: "The frame was dropped before reaching the
\* device - it is not a maybe."
StaleMeansDropped ==
    [][\A c \in Callers : callRes[c] = "none" /\ callRes'[c] = "stale" => writerPc # "drain"]_vars

-----------------------------------------------------------------------------
(***************************************************************************)
(* The promise of the control lease, which the client implements.          *)
(***************************************************************************)
Lease == INSTANCE ControlLease WITH
    owner   <- IF activeGen = 0 THEN None ELSE slot,
    residue <- held,
    pressed <- {i \in Ifaces : MayPress(i)}

\* hidClient with controlLease implements ControlLease: through every interleaving of
\* writer, watchdog, Close and teardown, only the slot's owner presses anything, and a
\* lease starts, and a release is confirmed, only on a truly neutral target.
ImplementsControlLease == Lease!Spec
=============================================================================
