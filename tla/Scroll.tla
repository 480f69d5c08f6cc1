------------------------------- MODULE Scroll -------------------------------
(***************************************************************************)
(* Client.Scroll and Client.Status (client.go) on top of RpcClient: the    *)
(* command lock, the control lease a scroll holds around its RPC, and the  *)
(* retirement of the session when delivery is ambiguous.                   *)
(*                                                                         *)
(* The lease is seen from outside (HidClient has the inside): who owns the *)
(* slot, and whether the HID channel can still grant it. Time is counted   *)
(* in units of neutralizeTimeout, per lease, from the moment it begins.    *)
(***************************************************************************)
EXTENDS RpcClient

CONSTANTS
    Scrolls,       \* the calls made by Scroll; Status makes the others
    Operator,      \* somebody else who takes the lease for keyboard and pointer
    LeaseTimeout   \* DefaultControlLeaseTimeout, in units of neutralizeTimeout

ASSUME ScrollAssumption ==
    /\ Scrolls \subseteq Calls
    /\ Operator \notin Calls \cup {NoCall}
    /\ LeaseTimeout \in Nat \ {0, 1}

\* Mutant: the response may be waited for as long as the lease lasts.
MaxScrollRPC_WholeLease == LeaseTimeout

\* maxScrollRPCDuration: the lease outlives the RPC by one neutralizeTimeout.
MaxScrollRPC == LeaseTimeout - 1

VARIABLES
    opPc,       \* where each Scroll or Status is
    opErr,      \* its error, as the set of sentinels in it; {} is success
    userDone,   \* the caller's context has ended
    cmdMu,      \* owner of Client.cmdMu
    lease,      \* owner of controlLease.slot
    age,        \* how long the lease of each scroll has been held
    relOut,     \* outcome of Held.Release, shared by its caller and the watchdog
    hid         \* the HID channel can grant leases, or is closed

opVars == <<opPc, opErr, userDone, cmdMu, lease, age, relOut, hid>>
vars == <<rpcVars, opVars>>

Init ==
    /\ RpcInit
    /\ opPc = [c \in Calls |-> "idle"]
    /\ opErr = [c \in Calls |-> {}]
    /\ userDone = [c \in Calls |-> FALSE]
    /\ cmdMu = NoCall /\ lease = NoCall
    /\ age = [c \in Calls |-> 0]
    /\ relOut = [c \in Calls |-> "none"]
    /\ hid = "ready"

Goto(c, pc) == opPc' = [opPc EXCEPT ![c] = pc]
Fail(c, S) == opErr' = [opErr EXCEPT ![c] = opErr[c] \cup S]

-----------------------------------------------------------------------------
\* Client.lock. A context that ended, even together with a free lock, wins.
Lock(c) ==
    /\ opPc[c] = "idle"
    /\ IF userDone[c]
       THEN Goto(c, "done") /\ Fail(c, {"timeout"}) /\ UNCHANGED cmdMu
       ELSE /\ cmdMu = NoCall
            /\ cmdMu' = c
            /\ Goto(c, IF c \in Scrolls THEN "lease" ELSE "rpc")
            /\ UNCHANGED opErr
    /\ UNCHANGED <<rpcVars, userDone, lease, age, relOut, hid>>

\* TryAcquirePersistent: never waits for another holder.
TryLease(c) ==
    /\ opPc[c] = "lease"
    /\ lease = NoCall /\ hid = "ready" /\ ~userDone[c]
    /\ lease' = c
    /\ Goto(c, "rpc")
    /\ UNCHANGED <<rpcVars, opErr, userDone, cmdMu, age, relOut, hid>>

\* The slot is taken, the HID channel is closed or busy, or input is held.
LeaseRefused(c) ==
    /\ opPc[c] = "lease"
    /\ Fail(c, {"refused"})
    /\ Goto(c, "unlock")
    /\ UNCHANGED <<rpcVars, userDone, cmdMu, lease, age, relOut, hid>>

StartCall(c) ==
    /\ opPc[c] = "rpc"
    /\ Call(c)
    /\ UNCHANGED opVars

\* The RPC has returned. Only a scroll whose delivery is ambiguous retires the session.
AfterCall(c) ==
    /\ opPc[c] = "rpc"
    /\ callPc[c] = "done"
    /\ Fail(c, CASE callRes[c] = "ok" -> {}
                 [] callRes[c] = "timeout" -> {"timeout"}
                 [] callRes[c] = "ambiguousTimeout" -> {"timeout", "ambiguous"}
                 [] callRes[c] = "ambiguous" -> {"unreachable", "ambiguous"}
                 [] OTHER -> {"rpc"})
    /\ Goto(c, IF c \notin Scrolls THEN "unlock"
               ELSE IF "ambiguous" \in opErr'[c] THEN "retire" ELSE "release")
    /\ UNCHANGED <<rpcVars, userDone, cmdMu, lease, age, relOut, hid>>

\* session.close: HID terminal first, then the peer connection with the RPC channel.
Retire(c) ==
    /\ opPc[c] = "retire"
    /\ hid' = "closed"
    /\ channel' = IF channel = "open" THEN "closed" ELSE channel
    /\ Fail(c, {"closed"})
    /\ Goto(c, "release")
    /\ UNCHANGED <<callVars, pending, box, sendVars, inQ, taken, readVars,
                   userDone, cmdMu, lease, age, relOut>>

\* Held.Release, by the scroll or by the watchdog: neutralize, then free the slot.
FreeLease(c) ==
    /\ lease' = NoCall /\ age' = [age EXCEPT ![c] = 0]
    /\ \E o \in {"ok", "unverified"} : relOut' = [relOut EXCEPT ![c] = o]

\* The deferred Release; after the watchdog it only reads the outcome.
ReleaseLease(c) ==
    /\ opPc[c] = "release"
    /\ IF lease = c THEN FreeLease(c) ELSE UNCHANGED <<lease, age, relOut>>
    /\ Goto(c, "result")
    /\ UNCHANGED <<rpcVars, opErr, userDone, cmdMu, hid>>

\* Mutant: an ended context hides what the caller must still act on.
ScrollResult_TimeoutOnly(c, released) == IF userDone[c] THEN {"timeout"} ELSE opErr[c] \cup released

\* scrollResultAfterRelease.
ScrollResult(c, released) ==
    IF userDone[c]
    THEN {"timeout"} \cup ((opErr[c] \cup released) \cap {"unverified", "ambiguous", "closed"})
    ELSE opErr[c] \cup released

Result(c) ==
    /\ opPc[c] = "result"
    /\ LET released == IF relOut[c] = "unverified" THEN {"unverified"} ELSE {}
       IN  opErr' = [opErr EXCEPT ![c] = ScrollResult(c, released)]
    /\ Goto(c, "unlock")
    /\ UNCHANGED <<rpcVars, userDone, cmdMu, lease, age, relOut, hid>>

Unlock(c) ==
    /\ opPc[c] = "unlock"
    /\ cmdMu' = NoCall
    /\ Goto(c, "done")
    /\ UNCHANGED <<rpcVars, opErr, userDone, lease, age, relOut, hid>>

-----------------------------------------------------------------------------
\* The caller's context ends, and the RPC's, which is derived from it.
UserContextEnds(c) ==
    /\ opPc[c] # "done"
    /\ ~userDone[c]
    /\ userDone' = [userDone EXCEPT ![c] = TRUE]
    /\ ctxDone' = [ctxDone EXCEPT ![c] = TRUE]
    /\ UNCHANGED <<callPc, callRes, pending, box, sendVars, inQ, taken, readVars, channel,
                   opPc, opErr, cmdMu, lease, age, relOut, hid>>

\* Mutant: the RPC waits as long as its caller does.
Tick_CallerContextOnly(c) ==
    /\ lease = c
    /\ age[c] < LeaseTimeout
    /\ callPc[c] # "idle"
    /\ age' = [age EXCEPT ![c] = age[c] + 1]
    /\ UNCHANGED <<rpcVars, opPc, opErr, userDone, cmdMu, lease, relOut, hid>>

\* Time passes for the lease of c, and ends the RPC context at MaxScrollRPC. Timing
\* assumption: the code from the lease to the timer, and from the end of the RPC
\* context to session.close, is straight-line and takes less than one unit (two seconds).
Tick(c) ==
    /\ lease = c
    /\ age[c] < LeaseTimeout
    /\ callPc[c] # "idle"
    /\ age[c] >= MaxScrollRPC => opPc[c] \notin {"rpc", "retire"}
    /\ age' = [age EXCEPT ![c] = age[c] + 1]
    /\ ctxDone' = [ctxDone EXCEPT ![c] = ctxDone[c] \/ age[c] + 1 >= MaxScrollRPC]
    /\ UNCHANGED <<callPc, callRes, pending, box, sendVars, inQ, taken, readVars, channel,
                   opPc, opErr, userDone, cmdMu, lease, relOut, hid>>

\* Held.watch.
Watchdog(c) ==
    /\ lease = c
    /\ age[c] = LeaseTimeout
    /\ FreeLease(c)
    /\ UNCHANGED <<rpcVars, opPc, opErr, userDone, cmdMu, hid>>

\* Somebody else's control (HidClient).
OperatorAcquire ==
    /\ lease = NoCall /\ hid = "ready"
    /\ lease' = Operator
    /\ UNCHANGED <<rpcVars, opPc, opErr, userDone, cmdMu, age, relOut, hid>>

OperatorRelease ==
    /\ lease = Operator
    /\ lease' = NoCall
    /\ UNCHANGED <<rpcVars, opPc, opErr, userDone, cmdMu, age, relOut, hid>>

\* Client.Close, or a connection that is lost, closes the HID channel and not the RPC
\* channel, which hears of its own end later, or has before.
SessionDown ==
    /\ "close" \in RpcFaults
    /\ hid = "ready" /\ hid' = "closed"
    /\ UNCHANGED <<rpcVars, opPc, opErr, userDone, cmdMu, lease, age, relOut>>

Op(c) ==
    \/ Lock(c) \/ TryLease(c) \/ LeaseRefused(c) \/ StartCall(c) \/ AfterCall(c) \/ Retire(c)
    \/ ReleaseLease(c) \/ Result(c) \/ Unlock(c)

Next ==
    \/ \E c \in Calls : Op(c) \/ UserContextEnds(c)
    \/ \E c \in Scrolls : Tick(c) \/ Watchdog(c)
    \/ ((\E c \in Calls : RpcStep(c)) \/ RpcRead \/ PeerTakes) /\ UNCHANGED opVars
    \/ OperatorAcquire \/ OperatorRelease \/ SessionDown
    \/ "close" \in RpcFaults /\ ChannelDown /\ UNCHANGED opVars

Spec == Init /\ [][Next]_vars

\* Each goroutine that can run does run (the calls, Pion's read pump, OnClose), and
\* the lease's time passes. Nothing is assumed of the peer, of the callers' contexts, or
\* of the other holder of the lease.
Fairness ==
    /\ \A c \in Calls : WF_vars(Op(c) \/ (RpcStep(c) /\ UNCHANGED opVars))
    /\ \A c \in Scrolls : WF_vars(Tick(c) \/ Watchdog(c))
    /\ WF_vars((HandleMessage \/ Deliver("pump")) /\ UNCHANGED opVars)
    /\ WF_vars((OnClose \/ Deliver("onClose")) /\ UNCHANGED opVars)

FairSpec == Spec /\ Fairness

-----------------------------------------------------------------------------
(***************************************************************************)
(* Properties.                                                             *)
(***************************************************************************)

\* A wheel event cannot arrive under somebody else's control (client.go:250-255, 299-302):
\* as long as the HID channel can grant a lease, a wheel report that is still on its way
\* belongs to the scroll that holds the lease.
NoWheelUnderOthers == \A c \in Scrolls : InFlight(c) /\ lease # c => hid = "closed"

\* What Scroll returns (client.go:321-339) is the truth: success means the device has
\* acted on this very report and neutralization was confirmed; and whatever else happened,
\* a caller whose report may still arrive, or may have, is told so, and told that the
\* session is gone, even when its context has ended in the meantime.
ScrollIsTruthful ==
    \A c \in Scrolls :
        opPc[c] = "done" =>
            /\ opErr[c] = {} => c \in taken /\ ~InFlight(c) /\ relOut[c] = "ok"
            /\ callRes[c] \in {"ambiguous", "ambiguousTimeout"} => {"ambiguous", "closed"} \subseteq opErr[c]
            /\ InFlight(c) => {"ambiguous", "closed"} \subseteq opErr[c]

\* A scroll never keeps the lease, or the command lock, whatever the peer does and even
\* if its caller's context never ends.
ScrollEnds == \A c \in Scrolls : cmdMu = c ~> cmdMu # c /\ lease # c
=============================================================================
