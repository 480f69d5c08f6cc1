--------------------------- MODULE HidInvariant ---------------------------
(***************************************************************************)
(* The inductive invariants behind the safety theorems of HidClient, in    *)
(* four layers, each resting on the ones before it: the lifecycle gate,    *)
(* the lease slot, the queues, and what is on its way to the peer.         *)
(***************************************************************************)
EXTENDS HidClient

-----------------------------------------------------------------------------
(* Layer 1: the lifecycle gate.                                            *)

\* Phases of a release: it owns the lifecycle gate, and it has revoked the lease.
Gated   == {"invalidate", "enqueue", "await", "check", "drain", "clear", "unlock"}
Revoked == Gated \ {"invalidate"}

\* The phases in which a release works through its plan.
Planning == {"enqueue", "await", "check", "drain", "clear"}

\* Release and handshake phases that each kind of goroutine can be in.
PhasesOK ==
    /\ relPc[Conn] \in {"idle", "await", "echo", "done", "failed"}
    /\ \A r \in Neutralizers : relPc[r] \notin {"echo", "failed"}
    /\ \A k \in Closers : relPc[k] # "free"

\* The lifecycle semaphore is held by exactly the release inside its transaction.
GateOK == \A r \in Privileged : lifecycle = r <=> r # Conn /\ relPc[r] \in Gated

\* A release that has revoked the lease keeps it revoked until it leaves the gate.
RevokedOK == \A r \in Neutralizers : relPc[r] \in Revoked => activeGen = 0

\* The gate: one transaction at a time, and no lease begins inside one.
GateInv == TypeOK /\ PhasesOK /\ GateOK /\ RevokedOK

-----------------------------------------------------------------------------
(* Layer 2: the lease slot.                                                *)

\* c has a Held handle.
HasHandle(c) == callPc[c] \in {"holding", "await", "releasing"}

\* The slot belongs to the caller that is acquiring or has not yet freed it.
SlotOK ==
    \A c \in Callers :
        /\ slot = c <=> callPc[c] = "begin" \/ (HasHandle(c) /\ relPc[c] # "done")
        /\ relPc[c] # "idle" => HasHandle(c)

\* A release outside its transaction has an unexpired context, except while it
\* waits at the gate.
DoneOK ==
    \A r \in Neutralizers :
        relPc[r] \in {"idle", "unlock", "free", "done"} => ~relDone[r]

\* The active generation is the token of a slot holder whose release has not yet
\* revoked it, and whose release has not given up at the gate either.
HolderOK ==
    \A c \in Callers :
        slot = c /\ activeGen # 0 =>
            /\ HasHandle(c) /\ token[c] = activeGen
            /\ relPc[c] \in {"idle", "lock", "invalidate"}
            /\ relPc[c] = "lock" => ~relDone[c]

SlotInv == SlotOK /\ DoneOK /\ HolderOK /\ (activeGen # 0 => slot \in Callers)

-----------------------------------------------------------------------------
(* Layer 3: the queues.                                                    *)

\* A live privileged request is the very report its release is waiting for.
LivePriv(req) ==
    req.live => /\ relPc[req.who] = "await" /\ relRes[req.who] = "none"
                /\ req.frame = PlanFrame(req.who, relIdx[req.who])

PrivShape(req) ==
    req.priv /\ ~req.drain /\ ~req.frame.hold /\ LivePriv(req)

InputShape(req) ==
    /\ ~req.priv /\ req.who \in Callers /\ req.frame.ifc \in Ifaces
    /\ req.frame.ifc = "absolute" => req.frame.pos # None

\* What waits in each queue, and what the writer has in its hands.
PrioOK == \A n \in 1..Len(prioQ) : PrivShape(prioQ[n])
InputsOK == \A n \in 1..Len(sendQ) : InputShape(sendQ[n])
HandOK ==
    /\ PrivShape(writerReq) \/ InputShape(writerReq)
    /\ writerPc \in {"select", "priority", "done"} => ~writerReq.live

\* A release, and the handshake, has at most one live request anywhere.
UniqueOK ==
    /\ \A m, n \in 1..Len(prioQ) :
          prioQ[m].live /\ prioQ[n].live /\ prioQ[m].who = prioQ[n].who => m = n
    /\ writerReq.live /\ writerReq.priv =>
          \A n \in 1..Len(prioQ) : ~(prioQ[n].live /\ prioQ[n].who = writerReq.who)

\* Only a waiting release has a result. (The handshake keeps its only one.)
ResultOK ==
    /\ \A r \in Neutralizers : relPc[r] # "await" => relRes[r] = "none"
    /\ relPc[Conn] = "idle" => relRes[Conn] = "none"

\* The index stays within the plan, and starts at the first report.
IndexOK ==
    \A r \in Neutralizers :
        /\ relPc[r] \notin Planning => relIdx[r] = 1
        /\ relPc[r] \in {"enqueue", "await"} => relIdx[r] <= PlanLen(r)

\* Only the drain barrier of a user keeps the writer after Send.
BarrierOK == writerPc \in {"check", "drain"} => ~writerReq.priv

QueueInv == PrioOK /\ InputsOK /\ HandOK /\ UniqueOK /\ ResultOK /\ IndexOK /\ BarrierOK

-----------------------------------------------------------------------------
(* Layer 4: what is on its way to the peer.                                *)

\* Input the writer has validated and not finished with.
InputInHand == writerPc \in {"send", "check", "drain"} /\ ~writerReq.priv

\* Whatever wire still delivers, interface i ends up released: every report on
\* it that presses, and what the peer holds now, is followed by one that does not.
Releases(n, i) == wire[n].frame.ifc = i /\ ~wire[n].frame.hold

Quelled(i) ==
    /\ i \in dev => \E n \in 1..Len(wire) : Releases(n, i)
    /\ \A m \in 1..Len(wire) :
          wire[m].frame.ifc = i /\ wire[m].frame.hold =>
              \E n \in 1..Len(wire) : m < n /\ Releases(n, i)

\* How many neutral reports of the current attempt are known to be on the wire.
Written(r) ==
    IF relPc[r] = "enqueue" THEN relIdx[r] - 1
    ELSE IF relPc[r] = "await" THEN IF relRes[r] = "ok" THEN relIdx[r] ELSE relIdx[r] - 1
    ELSE IF relPc[r] \in {"check", "drain"} THEN PlanLen(r)
    ELSE 0

\* Each report the release has written quells its interface, and from the first
\* one on the writer is no longer busy with input.
WrittenOK ==
    \A r \in Neutralizers :
        /\ \A n \in 1..3 : n <= Written(r) => Quelled(PlanFrame(r, n).ifc)
        /\ Written(r) > 0 => ~InputInHand

\* The plan covers everything held.
PlanOK ==
    \A r \in Neutralizers : relPc[r] \in Planning /\ "absolute" \in held => relAbs[r] # None

\* Confirmed means nothing planned is pressed; a verified end means nothing is held.
ClearOK ==
    \A r \in Neutralizers :
        /\ relPc[r] = "clear" => \A i \in Planned(r) : ~MayPress(i)
        /\ relPc[r] = "unlock" /\ relOut[r] = "ok" => held = {}

\* A held absolute pointer has recorded coordinates, so the error path of
\* buildNeutralizationPlan is unreachable.
PositionKnown == "absolute" \in held => heldPos # None

WireInv == WrittenOK /\ PlanOK /\ ClearOK /\ PositionKnown /\ HeldIsConservative

-----------------------------------------------------------------------------
\* The whole invariant: one lifecycle transaction at a time, one owner of the
\* active generation, at most one live report per release, and a held model that
\* covers whatever the peer may still be pressing.
HidInv == GateInv /\ SlotInv /\ QueueInv /\ WireInv
=============================================================================
