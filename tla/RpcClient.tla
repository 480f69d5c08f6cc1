----------------------------- MODULE RpcClient -----------------------------
(***************************************************************************)
(* The JSON-RPC client of one session (rpc.go): concurrent calls on one    *)
(* data channel, matched with their responses by id.                       *)
(*                                                                         *)
(* Goroutines: one per call; Pion's read pump, which runs handleMessage    *)
(* for one frame after the other; Pion's OnClose callback. A call is named *)
(* by its id, which is never reused. A frame counts as one unit of buffer. *)
(* Scroll makes the calls and ends their contexts.                         *)
(***************************************************************************)
EXTENDS Naturals, Sequences, FiniteSets

CONSTANTS
    Calls,         \* the calls of the instance, by id
    NoCall,        \* nobody holds sendMu
    RpcBuffered,   \* maxRPCBufferedAmount, in frames
    RpcFaults,     \* the faults of this instance: "send" (SendText may fail), "close" (loss)
    PeerAnswers    \* the ways the peer answers in this instance

ASSUME RpcAssumption ==
    /\ NoCall \notin Calls
    /\ RpcBuffered \in Nat \ {0}
    /\ RpcFaults \subseteq {"send", "close"}
    /\ PeerAnswers \subseteq {"silence", "result", "error", "twice", "event", "stranger", "bad"}

\* What the peer sends: the response to a call, a result or an error object; a
\* frame handleMessage cannot decode; an event, which has no id.
Answer == [id : Calls \cup {NoCall}, kind : {"result", "error", "bad", "event"}]

\* Who runs handleMessage and failPending.
Readers == {"pump", "onClose"}

VARIABLES
    callPc,     \* where each call is
    ctxDone,    \* its context has ended
    pending,    \* rpcClient.pending: the ids with a registered channel
    box,        \* the one-slot result channel of each call
    sendMu,     \* owner of rpcClient.sendMu
    buffered,   \* what the owner of sendMu read from BufferedAmount
    outQ,       \* requests Pion has accepted and the peer has not taken
    inQ,        \* frames from the peer
    taken,      \* calls whose request the peer has taken
    holding,    \* calls whose channel a reader has taken out of pending
    carrying,   \* what that reader is about to send them
    channel,    \* the data channel: open, closed, or closed and reported by OnClose
    callRes     \* what call returned

callVars == <<callPc, ctxDone, callRes>>
sendVars == <<sendMu, buffered, outQ>>
readVars == <<holding, carrying>>
rpcVars == <<callVars, pending, box, sendVars, inQ, taken, readVars, channel>>

RpcInit ==
    /\ callPc = [c \in Calls |-> "idle"]
    /\ ctxDone = [c \in Calls |-> FALSE]
    /\ callRes = [c \in Calls |-> "none"]
    /\ pending = {}
    /\ box = [c \in Calls |-> "none"]
    /\ sendMu = NoCall /\ buffered = 0
    /\ outQ = <<>> /\ inQ = <<>> /\ taken = {}
    /\ holding = [r \in Readers |-> {}] /\ carrying = [r \in Readers |-> "none"]
    /\ channel = "open"

-----------------------------------------------------------------------------
(***************************************************************************)
(* call and send.                                                          *)
(***************************************************************************)

\* The call has its result; the deferred delete of its channel is still to come.
Return(c, res) ==
    /\ callPc' = [callPc EXCEPT ![c] = "return"]
    /\ callRes' = [callRes EXCEPT ![c] = res]

\* An ended context wins the wording; delivery stays ambiguous either way.
Ambiguous(c) == IF ctxDone[c] THEN "ambiguousTimeout" ELSE "ambiguous"

\* The head of call: an ended context, or a registered channel.
Call(c) ==
    /\ callPc[c] = "idle"
    /\ IF ctxDone[c]
       THEN Return(c, "timeout") /\ UNCHANGED pending
       ELSE /\ callPc' = [callPc EXCEPT ![c] = "send"]
            /\ pending' = pending \cup {c}
            /\ UNCHANGED callRes
    /\ UNCHANGED <<ctxDone, box, sendVars, inQ, taken, readVars, channel>>

SendLock(c) ==
    /\ callPc[c] = "send"
    /\ sendMu = NoCall
    /\ sendMu' = c
    /\ buffered' = Len(outQ)
    /\ callPc' = [callPc EXCEPT ![c] = "check"]
    /\ UNCHANGED <<ctxDone, callRes, pending, box, outQ, inQ, taken, readVars, channel>>

SendUnlock == sendMu' = NoCall /\ buffered' = 0

\* The last checks before SendText: the context, then the buffer. Failing one of
\* them is the only way out of send that leaves no trace.
SendCheck(c) ==
    /\ callPc[c] = "check"
    /\ IF ctxDone[c] \/ buffered + 1 > RpcBuffered
       THEN /\ Return(c, IF ctxDone[c] THEN "timeout" ELSE "full")
            /\ SendUnlock
       ELSE /\ callPc' = [callPc EXCEPT ![c] = "text"]
            /\ UNCHANGED <<callRes, sendMu, buffered>>
    /\ UNCHANGED <<ctxDone, pending, box, outQ, inQ, taken, readVars, channel>>

SendText(c) ==
    /\ callPc[c] = "text"
    /\ channel = "open"
    /\ outQ' = Append(outQ, c)
    /\ SendUnlock
    /\ callPc' = [callPc EXCEPT ![c] = "wait"]
    /\ UNCHANGED <<ctxDone, callRes, pending, box, inQ, taken, readVars, channel>>

\* SendText fails, always on a closed channel. The error does not say whether the
\* request was queued.
SendTextError(c) ==
    /\ callPc[c] = "text"
    /\ channel # "open" \/ "send" \in RpcFaults
    /\ outQ' \in {outQ} \cup (IF channel = "open" THEN {Append(outQ, c)} ELSE {})
    /\ SendUnlock
    /\ Return(c, Ambiguous(c))
    /\ UNCHANGED <<ctxDone, pending, box, inQ, taken, readVars, channel>>

\* The select of call, its first arm: a failure, or a response. The context is asked
\* again before any response is believed. A result that does not decode ends like an
\* error object: the response was observed.
Receive(c) ==
    /\ callPc[c] = "wait"
    /\ box[c] # "none"
    /\ Return(c, IF box[c] = "fail" THEN Ambiguous(c)
                 ELSE IF ctxDone[c] THEN "timeout"
                 ELSE IF box[c] = "error" THEN "rpcError" ELSE "ok")
    /\ box' = [box EXCEPT ![c] = "none"]
    /\ UNCHANGED <<ctxDone, pending, sendVars, inQ, taken, readVars, channel>>

\* Mutant: an abandoned wait is reported as a plain timeout.
Expire_Plain(c) ==
    /\ callPc[c] = "wait" /\ ctxDone[c]
    /\ Return(c, "timeout")
    /\ UNCHANGED <<ctxDone, pending, box, sendVars, inQ, taken, readVars, channel>>

\* ... its second arm, which select may choose even with a response waiting.
Expire(c) ==
    /\ callPc[c] = "wait"
    /\ ctxDone[c]
    /\ Return(c, Ambiguous(c))
    /\ UNCHANGED <<ctxDone, pending, box, sendVars, inQ, taken, readVars, channel>>

\* The deferred delete.
Unregister(c) ==
    /\ callPc[c] = "return"
    /\ callPc' = [callPc EXCEPT ![c] = "done"]
    /\ pending' = pending \ {c}
    /\ UNCHANGED <<ctxDone, callRes, box, sendVars, inQ, taken, readVars, channel>>

-----------------------------------------------------------------------------
(***************************************************************************)
(* handleMessage and failPending.                                          *)
(***************************************************************************)

\* Reader r takes the channels of S out of the lock, to send them kind.
Carry(r, S, kind) ==
    /\ holding' = [holding EXCEPT ![r] = S]
    /\ carrying' = [carrying EXCEPT ![r] = IF S = {} THEN "none" ELSE kind]

\* Mutant: the matched channel stays registered.
Match_Keeps(a) ==
    /\ pending' = pending
    /\ Carry("pump", {a.id} \cap pending, a.kind)

\* A response takes its channel out of pending; an id nobody waits for (a late or
\* repeated response) is dropped.
Match(a) ==
    /\ pending' = pending \ {a.id}
    /\ Carry("pump", {a.id} \cap pending, a.kind)

\* Mutant: the map is replaced and its channels are forgotten.
FailPending_Forgets(r) == pending' = {} /\ UNCHANGED readVars

\* failPending: every registered call fails.
FailPending(r) ==
    /\ pending' = {}
    /\ Carry(r, pending, "fail")

\* handleMessage up to its unlock.
HandleMessage ==
    /\ holding["pump"] = {}
    /\ inQ # <<>>
    /\ inQ' = Tail(inQ)
    /\ LET a == Head(inQ) IN
       IF a.kind = "event" THEN UNCHANGED <<pending, readVars>>
       ELSE IF a.kind = "bad" THEN FailPending("pump")
       ELSE Match(a)
    /\ UNCHANGED <<callVars, box, sendVars, taken, channel>>

\* Mutant: OnClose tells nobody.
OnClose_Silent == FALSE /\ UNCHANGED rpcVars

\* OnClose, or OnError: once per lost channel, for the calls registered by then.
OnClose ==
    /\ channel = "closed"
    /\ channel' = "reported"
    /\ FailPending("onClose")
    /\ UNCHANGED <<callVars, box, sendVars, inQ, taken>>

\* ch <- result, outside the lock: it blocks if the slot is full.
Deliver(r) ==
    \E c \in holding[r] :
        /\ box[c] = "none"
        /\ box' = [box EXCEPT ![c] = carrying[r]]
        /\ Carry(r, holding[r] \ {c}, carrying[r])
        /\ UNCHANGED <<callVars, pending, sendVars, inQ, taken, channel>>

-----------------------------------------------------------------------------
(***************************************************************************)
(* Pion and the peer (external).                                           *)
(***************************************************************************)

\* What the peer may send back for c: nothing, one response, the same response
\* twice, an event and no response, a response with an id that was never used, or a
\* frame nobody can decode.
AnswerTo(c) ==
    LET resp(k) == [id |-> c, kind |-> k]
        other(k) == [id |-> NoCall, kind |-> k]
    IN  [silence |-> <<>>, result |-> <<resp("result")>>, error |-> <<resp("error")>>,
         twice |-> <<resp("result"), resp("result")>>, event |-> <<other("event")>>,
         stranger |-> <<other("result")>>, bad |-> <<other("bad")>>]

\* The peer takes the oldest request, and may still do so when this end has closed:
\* what is on the network is beyond recall. Its answer is then lost.
PeerTakes ==
    /\ outQ # <<>>
    /\ outQ' = Tail(outQ)
    /\ taken' = taken \cup {Head(outQ)}
    /\ \E k \in PeerAnswers :
           inQ' = IF channel = "open" THEN inQ \o AnswerTo(Head(outQ))[k] ELSE inQ
    /\ UNCHANGED <<callVars, pending, box, sendMu, buffered, readVars, channel>>

ChannelDown ==
    /\ channel = "open"
    /\ channel' = "closed"
    /\ UNCHANGED <<callVars, pending, box, sendVars, inQ, taken, readVars>>

-----------------------------------------------------------------------------
\* What the code itself does, once a call is made.
RpcStep(c) ==
    \/ SendLock(c) \/ SendCheck(c) \/ SendText(c) \/ SendTextError(c)
    \/ Receive(c) \/ Expire(c) \/ Unregister(c)

RpcRead == HandleMessage \/ OnClose \/ \E r \in Readers : Deliver(r)

-----------------------------------------------------------------------------
(***************************************************************************)
(* Properties.                                                             *)
(***************************************************************************)

InFlight(c) == \E n \in 1..Len(outQ) : outQ[n] = c

\* errRPCAmbiguousDelivery (rpc.go:68-73) is complete: a call that returns anything
\* else left no request behind. Either the peer never sees it, now or later, or its
\* response was observed. Scroll decides from this whether the session must go.
UnambiguousIsSettled ==
    \A c \in Calls :
        callRes[c] \in {"ok", "rpcError", "timeout", "full"} =>
            /\ ~InFlight(c)
            /\ callRes[c] = "full" => c \notin taken
            /\ callRes[c] \in {"ok", "rpcError"} => c \in taken

\* The read pump never blocks on a result channel: not on a repeated response, not when
\* OnClose fails the same call, not when the call has left (rpc.go:150-166).
PumpNeverBlocks == \A r \in Readers : \A c \in holding[r] : box[c] = "none"

\* A call that waits can still be woken by the transport: it is registered, its result
\* is in its channel, or a reader is about to put it there.
WaiterIsReachable ==
    \A c \in Calls :
        callPc[c] = "wait" =>
            c \in pending \/ box[c] # "none" \/ \E r \in Readers : c \in holding[r]

\* A lost channel ends every call under way, even one whose context never ends. (A call
\* is made once, so there is a moment when all of them have ended.)
UnderWay == {c \in Calls : callPc[c] \notin {"idle", "done"}}
CallsEndWithChannel == channel # "open" /\ UnderWay # {} ~> UnderWay = {}
=============================================================================
