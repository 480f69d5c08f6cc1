---------------------------- MODULE ScrollProofs ----------------------------
(***************************************************************************)
(* What Scroll tells its caller is true, and its wheel report never        *)
(* arrives under somebody else's control, for any number of calls, any     *)
(* buffer and any lease timeout.                                           *)
(***************************************************************************)
EXTENDS Scroll, TLAPS

CallPcs == {"idle", "send", "check", "text", "wait", "return", "done"}
CallResults == {"none", "ok", "rpcError", "timeout", "full", "ambiguous", "ambiguousTimeout"}
Outcomes == {"none", "result", "error", "fail"}

RpcTypes ==
    /\ callPc \in [Calls -> CallPcs]
    /\ ctxDone \in [Calls -> BOOLEAN]
    /\ callRes \in [Calls -> CallResults]
    /\ pending \subseteq Calls
    /\ box \in [Calls -> Outcomes]
    /\ sendMu \in Calls \cup {NoCall} /\ buffered \in Nat
    /\ outQ \in Seq(Calls) /\ inQ \in Seq(Answer) /\ taken \subseteq Calls
    /\ holding \in [Readers -> SUBSET Calls] /\ carrying \in [Readers -> Outcomes]
    /\ channel \in {"open", "closed", "reported"}

Flying == {c \in Calls : InFlight(c)}

\* Calls with a response among the frames s, and calls somebody has a response for.
Answered(s) == {c \in Calls : \E n \in 1..Len(s) : s[n].id = c /\ s[n].kind \in {"result", "error"}}
Believed == {c \in Calls : \/ box[c] \in {"result", "error"}
                           \/ c \in holding["pump"] /\ carrying["pump"] \in {"result", "error"}}

\* A request is sent once, and after it nothing but the wait is left.
SentOnce ==
    /\ \A m, n \in 1..Len(outQ) : outQ[m] = outQ[n] => m = n
    /\ Flying \cap taken = {}
    /\ \A c \in Flying \cup taken : callPc[c] \in {"wait", "return", "done"}

\* The channel of a call is in one place: registered, in a reader's hands, or used.
OnePlace ==
    /\ holding["pump"] \cap holding["onClose"] = {}
    /\ channel # "reported" => holding["onClose"] = {}
    /\ carrying["onClose"] \in {"none", "fail"}
    /\ \A r \in Readers : holding[r] # {} => carrying[r] # "none"
    /\ \A c \in pending : box[c] = "none" /\ \A r \in Readers : c \notin holding[r]
    /\ \A r \in Readers : \A c \in holding[r] : box[c] = "none" /\ callPc[c] # "idle"
    /\ \A c \in Calls : callPc[c] = "idle" => c \notin pending /\ box[c] = "none"
    /\ \A c \in Calls : callPc[c] \in {"send", "check", "text", "wait"} =>
           c \in pending \/ box[c] # "none" \/ \E r \in Readers : c \in holding[r]

\* Nobody has a response to a request the peer has not taken.
Evidence == Answered(inQ) \cup Believed \subseteq taken

Returned == \A c \in Calls : callRes[c] # "none" <=> callPc[c] \in {"return", "done"}

RpcInv == RpcTypes /\ SentOnce /\ OnePlace /\ Evidence /\ Returned /\ UnambiguousIsSettled

-----------------------------------------------------------------------------
OpPcs == {"idle", "lease", "rpc", "retire", "release", "result", "unlock", "done"}
Sentinels == {"timeout", "refused", "ambiguous", "unreachable", "rpc", "closed", "unverified"}

OpTypes ==
    /\ opPc \in [Calls -> OpPcs]
    /\ opErr \in [Calls -> SUBSET Sentinels]
    /\ userDone \in [Calls -> BOOLEAN]
    /\ cmdMu \in Calls \cup {NoCall}
    /\ lease \in Calls \cup {NoCall, Operator}
    /\ age \in [Calls -> 0..LeaseTimeout]
    /\ relOut \in [Calls -> {"none", "ok", "unverified"}]
    /\ hid \in {"ready", "closed"}

Unclear(c) == callRes[c] \in {"ambiguous", "ambiguousTimeout"}

\* Where the operation is says where its call is, and whose the lease is.
InStep ==
    \A c \in Calls :
        /\ opPc[c] = "lease" => c \in Scrolls
        /\ opPc[c] \in {"idle", "lease"} => callPc[c] = "idle"
        /\ opPc[c] \in {"retire", "release", "result"} => callPc[c] = "done"
        /\ opPc[c] # "rpc" => callPc[c] \in {"idle", "done"}
        /\ lease = c => c \in Scrolls /\ opPc[c] \in {"rpc", "retire", "release"}
        /\ lease # c => age[c] = 0

\* The lease outlives the RPC.
Covered ==
    \A c \in Scrolls : opPc[c] \in {"rpc", "retire"} => lease = c /\ age[c] <= MaxScrollRPC

\* The error collected so far.
Late(c) == opPc[c] \in {"retire", "release", "result", "unlock", "done"}

RecordedOf(c) ==
    /\ opPc[c] \in {"idle", "lease", "rpc"} => opErr[c] = {}
    /\ Late(c) => (Unclear(c) => "ambiguous" \in opErr[c]) /\ (opErr[c] = {} => callRes[c] = "ok")
    /\ Late(c) /\ opPc[c] # "retire" => (Unclear(c) => "closed" \in opErr[c] /\ hid = "closed")
    /\ opPc[c] \in {"release", "result"} => lease = c \/ relOut[c] # "none"
    /\ opPc[c] \in {"unlock", "done"} => (opErr[c] = {} => relOut[c] = "ok")

Recorded == \A c \in Scrolls : RecordedOf(c)

OpInv == OpTypes /\ InStep /\ Covered /\ Recorded

IndInv == RpcInv /\ OpInv

-----------------------------------------------------------------------------
(***************************************************************************)
(* The queues.                                                             *)
(***************************************************************************)

\* The first of a queue, and the rest.
LEMMA TailOf ==
    ASSUME NEW S, NEW s \in Seq(S), s # <<>>
    PROVE  /\ Len(s) \in Nat \ {0} /\ Head(s) \in S /\ Head(s) = s[1]
           /\ Tail(s) \in Seq(S) /\ Len(Tail(s)) = Len(s) - 1
           /\ \A n \in 1..Len(Tail(s)) : Tail(s)[n] = s[n + 1] /\ n + 1 \in 1..Len(s)
  OBVIOUS

\* One more at the end of a queue.
LEMMA AppendTo ==
    ASSUME NEW S, NEW s \in Seq(S), NEW e \in S
    PROVE  /\ Append(s, e) \in Seq(S) /\ Len(s) \in Nat /\ Len(Append(s, e)) = Len(s) + 1
           /\ \A n \in 1..Len(s) : Append(s, e)[n] = s[n]
           /\ Append(s, e)[Len(s) + 1] = e
  OBVIOUS

\* SendText adds its own request to those on their way.
LEMMA OutAppend ==
    ASSUME RpcTypes, SentOnce, NEW c \in Calls, c \notin Flying, outQ' = Append(outQ, c)
    PROVE  /\ outQ' \in Seq(Calls) /\ Flying' = Flying \cup {c}
           /\ \A m, n \in 1..Len(outQ') : outQ'[m] = outQ'[n] => m = n
<1>1. /\ outQ' \in Seq(Calls) /\ Len(outQ) \in Nat /\ Len(outQ') = Len(outQ) + 1
      /\ \A n \in 1..Len(outQ) : outQ'[n] = outQ[n]
      /\ outQ'[Len(outQ) + 1] = c
  BY AppendTo DEF RpcTypes
<1>2. \A n \in 1..Len(outQ') : n = Len(outQ) + 1 \/ n \in 1..Len(outQ)
  BY <1>1
<1>3. \A n \in 1..Len(outQ) : outQ[n] # c
  BY DEF Flying, InFlight
<1>4. \A d : d \in Flying' <=> d \in Flying \cup {c}
  <2>1. 1..Len(outQ) \subseteq 1..Len(outQ') /\ Len(outQ) + 1 \in 1..Len(outQ')
    BY <1>1
  <2> QED
    BY <1>1, <1>2, <2>1 DEF Flying, InFlight
<1>5. \A m, n \in 1..Len(outQ') : outQ'[m] = outQ'[n] => m = n
  BY <1>1, <1>2, <1>3 DEF SentOnce
<1> QED
  BY <1>1, <1>4, <1>5

\* The peer takes a request away from those on their way.
LEMMA OutTail ==
    ASSUME RpcTypes, SentOnce, outQ # <<>>, outQ' = Tail(outQ)
    PROVE  /\ outQ' \in Seq(Calls) /\ Head(outQ) \in Flying /\ Flying' = Flying \ {Head(outQ)}
           /\ \A m, n \in 1..Len(outQ') : outQ'[m] = outQ'[n] => m = n
<1>1. /\ Len(outQ) \in Nat \ {0} /\ Head(outQ) \in Calls /\ Head(outQ) = outQ[1]
      /\ outQ' \in Seq(Calls) /\ Len(outQ') = Len(outQ) - 1
      /\ \A n \in 1..Len(outQ') : outQ'[n] = outQ[n + 1] /\ n + 1 \in 1..Len(outQ)
  BY TailOf DEF RpcTypes
<1>2. Head(outQ) \in Flying
  BY <1>1 DEF Flying, InFlight
<1>3. \A m, n \in 1..Len(outQ') : outQ'[m] = outQ'[n] => m = n
  BY <1>1 DEF SentOnce
<1>4. ASSUME NEW d PROVE d \in Flying' <=> d \in Flying \ {Head(outQ)}
  <2>1. ASSUME NEW n \in 1..Len(outQ), outQ[n] = d, d # Head(outQ) PROVE \E k \in 1..Len(outQ') : outQ'[k] = d
    <3>1. n - 1 \in 1..Len(outQ') /\ n - 1 + 1 = n
      BY <1>1, <2>1
    <3> QED
      BY <1>1, <2>1, <3>1
  <2>2. ASSUME NEW k \in 1..Len(outQ') PROVE outQ'[k] # Head(outQ) /\ \E n \in 1..Len(outQ) : outQ[n] = outQ'[k]
    <3>1. outQ'[k] = outQ[k + 1] /\ k + 1 \in 1..Len(outQ) /\ k + 1 # 1 /\ 1 \in 1..Len(outQ)
      BY <1>1
    <3> QED
      BY <1>1, <3>1 DEF SentOnce
  <2> QED
    BY <2>1, <2>2 DEF Flying, InFlight
<1> QED
  BY <1>1, <1>2, <1>3, <1>4

\* handleMessage takes one frame, and the responses that are left were there.
LEMMA InTail ==
    ASSUME RpcTypes, inQ # <<>>, inQ' = Tail(inQ)
    PROVE  /\ inQ' \in Seq(Answer) /\ Head(inQ) \in Answer /\ Answered(inQ') \subseteq Answered(inQ)
           /\ Head(inQ).kind \in {"result", "error"} /\ Head(inQ).id \in Calls
                  => Head(inQ).id \in Answered(inQ)
<1>1. /\ Len(inQ) \in Nat \ {0} /\ Head(inQ) \in Answer /\ Head(inQ) = inQ[1]
      /\ inQ' \in Seq(Answer) /\ Len(inQ') = Len(inQ) - 1
      /\ \A n \in 1..Len(inQ') : inQ'[n] = inQ[n + 1] /\ n + 1 \in 1..Len(inQ)
  BY TailOf DEF RpcTypes
<1>2. 1 \in 1..Len(inQ)
  BY <1>1
<1> QED
  BY <1>1, <1>2 DEF Answered

\* The peer answers a request, and no other.
LEMMA AnswerTypes ==
    ASSUME NEW c \in Calls, NEW k \in PeerAnswers
    PROVE  /\ AnswerTo(c)[k] \in Seq(Answer)
           /\ \A n \in 1..Len(AnswerTo(c)[k]) : AnswerTo(c)[k][n].id \in {c, NoCall}
<1> DEFINE resp(kind) == [id |-> c, kind |-> kind]
           other(kind) == [id |-> NoCall, kind |-> kind]
<1>1. /\ resp("result") \in Answer /\ resp("error") \in Answer /\ other("event") \in Answer
      /\ other("result") \in Answer /\ other("bad") \in Answer
  BY DEF Answer
<1>2. AnswerTo(c)[k] \in {<<>>, <<resp("result")>>, <<resp("error")>>, <<resp("result"), resp("result")>>,
                           <<other("event")>>, <<other("result")>>, <<other("bad")>>}
  BY RpcAssumption DEF AnswerTo, RpcAssumption
<1>3. ASSUME NEW a \in Answer, a.id \in {c, NoCall}
      PROVE  /\ <<a>> \in Seq(Answer) /\ \A n \in 1..Len(<<a>>) : <<a>>[n].id \in {c, NoCall}
             /\ <<a, a>> \in Seq(Answer) /\ \A n \in 1..Len(<<a, a>>) : <<a, a>>[n].id \in {c, NoCall}
  BY <1>3
<1>4. <<>> \in Seq(Answer) /\ Len(<<>>) = 0
  OBVIOUS
<1> DEFINE Good(s) == s \in Seq(Answer) /\ \A n \in 1..Len(s) : s[n].id \in {c, NoCall}
<1>5. Good(<<>>)
  BY <1>4
<1>6. /\ Good(<<resp("result")>>) /\ Good(<<resp("error")>>) /\ Good(<<resp("result"), resp("result")>>)
      /\ Good(<<other("event")>>) /\ Good(<<other("result")>>) /\ Good(<<other("bad")>>)
  BY <1>1, <1>3
<1> HIDE DEF Good
<1>7. Good(AnswerTo(c)[k])
  BY <1>2, <1>5, <1>6
<1> QED
  BY <1>7 DEF Good

\* An answer is to the request the peer takes.
LEMMA PeerIn ==
    ASSUME RpcTypes, outQ # <<>>, PeerTakes
    PROVE  inQ' \in Seq(Answer) /\ Answered(inQ') \subseteq Answered(inQ) \cup {Head(outQ)}
<1>1. Head(outQ) \in Calls
  BY TailOf DEF RpcTypes
<1>2. PICK k \in PeerAnswers :
          inQ' = IF channel = "open" THEN inQ \o AnswerTo(Head(outQ))[k] ELSE inQ
  BY DEF PeerTakes
<1>3. CASE inQ' = inQ
  BY <1>3 DEF RpcTypes
<1>4. CASE inQ' = inQ \o AnswerTo(Head(outQ))[k]
  <2> DEFINE t == AnswerTo(Head(outQ))[k]
  <2>1. t \in Seq(Answer) /\ \A n \in 1..Len(t) : t[n].id \in {Head(outQ), NoCall}
    BY <1>1, AnswerTypes
  <2> HIDE DEF t
  <2>2. /\ inQ' \in Seq(Answer) /\ Len(inQ) \in Nat /\ Len(t) \in Nat /\ Len(inQ') = Len(inQ) + Len(t)
        /\ \A n \in 1..Len(inQ') : inQ'[n] = IF n <= Len(inQ) THEN inQ[n] ELSE t[n - Len(inQ)]
    BY <1>4, <2>1 DEF RpcTypes, t
  <2>3. ASSUME NEW n \in 1..Len(inQ'), inQ'[n].id \in Calls
        PROVE  inQ'[n].id = Head(outQ) \/ \E m \in 1..Len(inQ) : inQ[m] = inQ'[n]
    <3>1. CASE n <= Len(inQ)
      BY <2>2, <3>1
    <3>2. CASE ~(n <= Len(inQ))
      <4>1. n - Len(inQ) \in 1..Len(t) /\ inQ'[n] = t[n - Len(inQ)]
        BY <2>2, <3>2
      <4> QED
        BY <2>1, <2>3, <4>1, RpcAssumption DEF RpcAssumption
    <3> QED
      BY <3>1, <3>2
  <2> QED
    BY <2>2, <2>3 DEF Answered
<1> QED
  BY <1>2, <1>3, <1>4

-----------------------------------------------------------------------------
(***************************************************************************)
(* The calls.                                                              *)
(***************************************************************************)

\* What Scroll and its session do to a call behind its back.
Outside ==
    /\ UNCHANGED <<callPc, callRes, pending, box, sendVars, inQ, taken, readVars>>
    /\ ctxDone' \in [Calls -> BOOLEAN]
    /\ channel' = channel \/ (channel = "open" /\ channel' = "closed")

RpcMove ==
    \/ \E c \in Calls : Call(c) \/ RpcStep(c)
    \/ RpcRead \/ PeerTakes \/ Outside

\* The types of the calls.
LEMMA RpcTypesKept == RpcInv /\ RpcMove => RpcTypes'
<1> SUFFICES ASSUME RpcInv, RpcMove PROVE RpcTypes'
  OBVIOUS
<1> USE DEF RpcTypes
<1>1. RpcTypes /\ SentOnce /\ Evidence
  BY DEF RpcInv
<1>2. ASSUME NEW c \in Calls, NEW res \in CallResults, Return(c, res)
      PROVE  callPc' \in [Calls -> CallPcs] /\ callRes' \in [Calls -> CallResults]
  BY <1>1, <1>2 DEF Return, CallPcs
<1>3. ASSUME NEW c \in Calls, Call(c) PROVE RpcTypes'
  BY <1>1, <1>2, <1>3 DEF Call, CallPcs, CallResults, sendVars, readVars
<1>4. ASSUME NEW c \in Calls, SendLock(c) PROVE RpcTypes'
  <2>1. Len(outQ) \in Nat
    BY <1>1
  <2> QED
    BY <1>1, <1>4, <2>1 DEF SendLock, CallPcs, readVars
<1>5. ASSUME NEW c \in Calls, SendCheck(c) PROVE RpcTypes'
  BY <1>1, <1>2, <1>5 DEF SendCheck, SendUnlock, CallPcs, CallResults, readVars
<1>6. ASSUME NEW c \in Calls, SendText(c) \/ SendTextError(c) PROVE RpcTypes'
  <2>1. Append(outQ, c) \in Seq(Calls)
    BY <1>1, AppendTo
  <2>2. Ambiguous(c) \in CallResults
    BY DEF Ambiguous, CallResults
  <2>3. outQ' \in Seq(Calls)
    BY <1>1, <1>6, <2>1 DEF SendText, SendTextError
  <2>4. callPc' \in [Calls -> CallPcs] /\ callRes' \in [Calls -> CallResults]
    BY <1>1, <1>2, <1>6, <2>2 DEF SendText, SendTextError, CallPcs
  <2> QED
    BY <1>1, <1>6, <2>3, <2>4 DEF SendText, SendTextError, SendUnlock, readVars
<1>7. ASSUME NEW c \in Calls, Receive(c) \/ Expire(c) \/ Unregister(c) PROVE RpcTypes'
  <2>1. Ambiguous(c) \in CallResults /\ "timeout" \in CallResults /\ "rpcError" \in CallResults
        /\ "ok" \in CallResults
    BY DEF Ambiguous, CallResults
  <2>2. callPc' \in [Calls -> CallPcs] /\ callRes' \in [Calls -> CallResults]
    BY <1>1, <1>2, <1>7, <2>1 DEF Receive, Expire, Unregister, CallPcs
  <2> QED
    BY <1>1, <1>7, <2>2 DEF Receive, Expire, Unregister, Outcomes, sendVars, readVars
<1>8. ASSUME NEW r \in Readers, NEW S \in SUBSET Calls, NEW kind \in Outcomes, Carry(r, S, kind)
      PROVE  holding' \in [Readers -> SUBSET Calls] /\ carrying' \in [Readers -> Outcomes]
  BY <1>1, <1>8 DEF Carry, Outcomes
<1>9. CASE HandleMessage
  <2>1. inQ' \in Seq(Answer) /\ Head(inQ) \in Answer
    BY <1>1, <1>9, InTail DEF HandleMessage
  <2>2. UNCHANGED <<pending, readVars>> \/ FailPending("pump")
        \/ (Match(Head(inQ)) /\ Head(inQ).kind \in {"result", "error"})
    BY <1>9, <2>1 DEF HandleMessage, Answer
  <2>3. /\ pending' \subseteq Calls
        /\ holding' \in [Readers -> SUBSET Calls] /\ carrying' \in [Readers -> Outcomes]
    BY <1>1, <1>8, <2>2 DEF FailPending, Match, Readers, Outcomes, readVars
  <2> QED
    BY <1>1, <1>9, <2>1, <2>3 DEF HandleMessage, callVars, sendVars
<1>10. CASE OnClose
  <2>1. holding' \in [Readers -> SUBSET Calls] /\ carrying' \in [Readers -> Outcomes] /\ pending' = {}
    BY <1>1, <1>8, <1>10 DEF OnClose, FailPending, Readers, Outcomes
  <2> QED
    BY <1>1, <1>10, <2>1 DEF OnClose, callVars, sendVars
<1>11. ASSUME NEW r \in Readers, Deliver(r) PROVE RpcTypes'
  BY <1>1, <1>8, <1>11 DEF Deliver, callVars, sendVars
<1>12. CASE PeerTakes
  <2>1. outQ # <<>> /\ outQ' = Tail(outQ)
    BY <1>12 DEF PeerTakes
  <2>2. outQ' \in Seq(Calls) /\ Head(outQ) \in Calls /\ inQ' \in Seq(Answer)
    BY <1>1, <1>12, <2>1, TailOf, PeerIn
  <2> QED
    BY <1>1, <1>12, <2>2 DEF PeerTakes, callVars, readVars
<1>13. CASE Outside
  BY <1>1, <1>13 DEF Outside, sendVars, readVars
<1> QED
  BY <1>3, <1>4, <1>5, <1>6, <1>7, <1>9, <1>10, <1>11, <1>12, <1>13 DEF RpcMove, RpcStep, RpcRead

\* A request is sent once, and nothing precedes it.
LEMMA SentOnceKept == RpcInv /\ RpcMove => SentOnce'
<1> SUFFICES ASSUME RpcInv, RpcMove PROVE SentOnce'
  OBVIOUS
<1>1. RpcTypes /\ SentOnce
  BY DEF RpcInv
<1>2. UNCHANGED outQ => Flying' = Flying
  BY DEF Flying, InFlight
<1>3. ASSUME UNCHANGED outQ, taken' = taken,
             \A c \in Calls : callPc[c] \in {"wait", "return", "done"} => callPc'[c] \in {"wait", "return", "done"}
      PROVE  SentOnce'
  <2>1. \A c \in Flying \cup taken : c \in Calls
    BY <1>1 DEF RpcTypes, Flying
  <2> QED
    BY <1>1, <1>2, <1>3, <2>1 DEF SentOnce
<1>4. ASSUME NEW c \in Calls, NEW pc \in CallPcs, callPc' = [callPc EXCEPT ![c] = pc],
             callPc[c] \in {"wait", "return", "done"} => pc \in {"wait", "return", "done"}
      PROVE  \A d \in Calls : callPc[d] \in {"wait", "return", "done"} => callPc'[d] \in {"wait", "return", "done"}
  BY <1>1, <1>4 DEF RpcTypes
<1>5. ASSUME NEW c \in Calls, Call(c) \/ SendLock(c) \/ SendCheck(c) PROVE SentOnce'
  <2>1. PICK pc \in {"send", "check", "text", "return"} : callPc' = [callPc EXCEPT ![c] = pc]
    BY <1>5 DEF Call, SendLock, SendCheck, Return
  <2>2. callPc[c] \notin {"wait", "return", "done"} /\ UNCHANGED <<outQ, taken>>
    BY <1>5 DEF Call, SendLock, SendCheck, sendVars
  <2> QED
    BY <1>3, <1>4, <2>1, <2>2 DEF CallPcs
<1>6. ASSUME NEW c \in Calls, Receive(c) \/ Expire(c) \/ Unregister(c) PROVE SentOnce'
  <2>1. PICK pc \in {"return", "done"} : callPc' = [callPc EXCEPT ![c] = pc]
    BY <1>6 DEF Receive, Expire, Unregister, Return
  <2>2. UNCHANGED <<outQ, taken>>
    BY <1>6 DEF Receive, Expire, Unregister, sendVars
  <2> QED
    BY <1>3, <1>4, <2>1, <2>2 DEF CallPcs
<1>7. ASSUME NEW c \in Calls, SendText(c) \/ SendTextError(c) PROVE SentOnce'
  <2>1. PICK pc \in {"wait", "return"} : callPc' = [callPc EXCEPT ![c] = pc]
    BY <1>7 DEF SendText, SendTextError, Return
  <2>2. taken' = taken /\ callPc[c] = "text" /\ c \notin Flying /\ c \notin taken
    BY <1>1, <1>7 DEF SendText, SendTextError, SentOnce
  <2>3. CASE outQ' = outQ
    BY <1>3, <1>4, <2>1, <2>2, <2>3 DEF CallPcs
  <2>4. CASE outQ' = Append(outQ, c)
    <3>1. /\ Flying' = Flying \cup {c}
          /\ \A m, n \in 1..Len(outQ') : outQ'[m] = outQ'[n] => m = n
      BY <1>1, <2>2, <2>4, OutAppend
    <3>2. \A d \in Calls : callPc'[d] = IF d = c THEN pc ELSE callPc[d]
      BY <1>1, <2>1 DEF RpcTypes
    <3>3. \A d \in Flying \cup taken : d \in Calls /\ callPc[d] \in {"wait", "return", "done"}
      BY <1>1 DEF RpcTypes, Flying, SentOnce
    <3>4. Flying' \cap taken' = {}
      BY <1>1, <2>2, <3>1 DEF SentOnce
    <3>5. \A d \in Flying' \cup taken' : callPc'[d] \in {"wait", "return", "done"}
      BY <2>2, <3>1, <3>2, <3>3
    <3> QED
      BY <3>1, <3>4, <3>5 DEF SentOnce
  <2> QED
    BY <1>7, <2>3, <2>4 DEF SendText, SendTextError
<1>8. CASE RpcRead \/ Outside
  <2>1. UNCHANGED <<callPc, outQ, taken>>
    BY <1>8 DEF RpcRead, HandleMessage, OnClose, Deliver, Outside, callVars, sendVars
  <2> QED
    BY <1>3, <2>1
<1>9. CASE PeerTakes
  <2>1. outQ # <<>> /\ outQ' = Tail(outQ) /\ taken' = taken \cup {Head(outQ)} /\ callPc' = callPc
    BY <1>9 DEF PeerTakes, callVars
  <2>2. /\ Head(outQ) \in Flying /\ Flying' = Flying \ {Head(outQ)}
        /\ \A m, n \in 1..Len(outQ') : outQ'[m] = outQ'[n] => m = n
    BY <1>1, <2>1, OutTail
  <2> QED
    BY <1>1, <2>1, <2>2 DEF SentOnce
<1> QED
  BY <1>5, <1>6, <1>7, <1>8, <1>9 DEF RpcMove, RpcStep

\* A response is believed only of a request that was taken.
LEMMA EvidenceKept == RpcInv /\ RpcMove => Evidence'
<1> SUFFICES ASSUME RpcInv, RpcMove PROVE Evidence'
  OBVIOUS
<1>1. RpcTypes /\ OnePlace /\ Answered(inQ) \subseteq taken /\ Believed \subseteq taken
  BY DEF RpcInv, Evidence
<1>2. taken \subseteq taken'
  BY DEF RpcMove, Call, RpcStep, RpcRead, PeerTakes, Outside, SendLock, SendCheck, SendText,
         SendTextError, Receive, Expire, Unregister, HandleMessage, OnClose, Deliver
<1>3. UNCHANGED inQ => Answered(inQ') = Answered(inQ)
  OBVIOUS
<1>4. UNCHANGED <<box, readVars>> => Believed' = Believed
  BY DEF Believed, readVars
<1>5. CASE UNCHANGED <<inQ, box, readVars>>
  BY <1>1, <1>2, <1>3, <1>4, <1>5 DEF Evidence
<1>6. ASSUME NEW c \in Calls, Receive(c) PROVE Evidence'
  <2>1. UNCHANGED <<inQ, readVars>> /\ box' = [box EXCEPT ![c] = "none"]
    BY <1>6 DEF Receive
  <2>2. \A d \in Believed' : d \in Believed
    BY <1>1, <2>1 DEF Believed, RpcTypes, readVars
  <2> QED
    BY <1>1, <1>2, <1>3, <2>1, <2>2 DEF Evidence
<1>7. ASSUME NEW c \in Calls, Call(c) \/ (RpcStep(c) /\ ~Receive(c)) PROVE Evidence'
  BY <1>5, <1>7
  DEF Call, RpcStep, SendLock, SendCheck, SendText, SendTextError, Expire, Unregister
<1>8. CASE HandleMessage
  <2>1. /\ Answered(inQ') \subseteq Answered(inQ) /\ Head(inQ) \in Answer
        /\ Head(inQ).kind \in {"result", "error"} /\ Head(inQ).id \in Calls => Head(inQ).id \in taken
    BY <1>1, <1>8, InTail DEF HandleMessage
  <2>2. CASE UNCHANGED readVars
    BY <1>1, <1>2, <1>4, <1>8, <2>1, <2>2 DEF HandleMessage, Evidence
  <2>3. CASE FailPending("pump")
    <3>1. box' = box /\ carrying'["pump"] \notin {"result", "error"}
      BY <1>1, <1>8, <2>3 DEF HandleMessage, FailPending, Carry, RpcTypes, Readers
    <3>2. \A d \in Believed' : d \in Believed
      BY <3>1 DEF Believed
    <3> QED
      BY <1>1, <1>2, <2>1, <3>2 DEF Evidence
  <2>4. CASE Match(Head(inQ)) /\ Head(inQ).kind \in {"result", "error"}
    <3>1. box' = box /\ holding'["pump"] = {Head(inQ).id} \cap pending
      BY <1>1, <1>8, <2>4 DEF HandleMessage, Match, Carry, RpcTypes, Readers
    <3>2. \A d \in Believed' : d \in taken
      BY <1>1, <2>1, <2>4, <3>1 DEF Believed
    <3> QED
      BY <1>1, <1>2, <2>1, <3>2 DEF Evidence
  <2> QED
    BY <1>8, <2>1, <2>2, <2>3, <2>4 DEF HandleMessage, Answer
<1>9. CASE OnClose
  <2>1. /\ UNCHANGED <<inQ, box>>
        /\ holding'["pump"] = holding["pump"] /\ carrying'["pump"] = carrying["pump"]
    BY <1>1, <1>9 DEF OnClose, FailPending, Carry, RpcTypes, Readers
  <2>2. Believed' = Believed
    BY <2>1 DEF Believed
  <2> QED
    BY <1>1, <1>2, <1>3, <2>1, <2>2 DEF Evidence
<1>10. ASSUME NEW r \in Readers, Deliver(r) PROVE Evidence'
  <2>1. PICK c \in holding[r] : /\ box' = [box EXCEPT ![c] = carrying[r]]
                                /\ Carry(r, holding[r] \ {c}, carrying[r]) /\ inQ' = inQ
    BY <1>10 DEF Deliver
  <2>2. carrying[r] \in {"result", "error"} => r = "pump"
    BY <1>1 DEF OnePlace, Readers
  <2>3. /\ holding'["pump"] \subseteq holding["pump"]
        /\ carrying'["pump"] \in {carrying["pump"], "none"}
    BY <1>1, <2>1 DEF Carry, RpcTypes, Readers
  <2>4. c \in Calls /\ \A d \in Calls : box'[d] = IF d = c THEN carrying[r] ELSE box[d]
    BY <1>1, <2>1 DEF RpcTypes
  <2>5. \A d \in Believed' : d \in Believed
    BY <2>1, <2>2, <2>3, <2>4 DEF Believed
  <2> QED
    BY <1>1, <1>2, <1>3, <2>1, <2>5 DEF Evidence
<1>11. CASE PeerTakes
  <2>1. Answered(inQ') \subseteq Answered(inQ) \cup {Head(outQ)} /\ Head(outQ) \in taken'
        /\ UNCHANGED <<box, readVars>>
    BY <1>1, <1>11, PeerIn DEF PeerTakes
  <2> QED
    BY <1>1, <1>2, <1>4, <2>1 DEF Evidence
<1> QED
  BY <1>5, <1>6, <1>7, <1>8, <1>9, <1>10, <1>11 DEF RpcMove, RpcStep, RpcRead, Outside

\* The channel of a call is in one place.
LEMMA OnePlaceKept == RpcInv /\ RpcMove => OnePlace'
<1> SUFFICES ASSUME RpcInv, RpcMove PROVE OnePlace'
  OBVIOUS
<1>1. RpcTypes /\ OnePlace
  BY DEF RpcInv
<1> USE DEF Readers
<1>2. ASSUME NEW c \in Calls, NEW pc \in CallPcs, callPc' = [callPc EXCEPT ![c] = pc],
             callPc[c] # "idle", pc # "idle",
             callPc[c] \in {"send", "check", "text", "wait"} \/ pc \notin {"send", "check", "text", "wait"},
             UNCHANGED <<pending, box, readVars, channel>>
      PROVE  OnePlace'
  BY <1>1, <1>2 DEF OnePlace, RpcTypes, readVars
<1>3. ASSUME NEW c \in Calls, Call(c) PROVE OnePlace'
  <2>1. callPc[c] = "idle" /\ UNCHANGED <<box, readVars, channel>>
    BY <1>3 DEF Call
  <2>2. \A r \in Readers : c \notin holding[r]
    BY <1>1, <2>1 DEF OnePlace
  <2>3. CASE ctxDone[c]
    <3>1. callPc' = [callPc EXCEPT ![c] = "return"] /\ pending' = pending
      BY <1>3, <2>3 DEF Call, Return
    <3> QED
      BY <1>1, <2>1, <2>2, <3>1 DEF OnePlace, RpcTypes, readVars
  <2>4. CASE ~ctxDone[c]
    <3>1. callPc' = [callPc EXCEPT ![c] = "send"] /\ pending' = pending \cup {c}
      BY <1>3, <2>4 DEF Call
    <3> QED
      BY <1>1, <2>1, <2>2, <3>1 DEF OnePlace, RpcTypes, readVars
  <2> QED
    BY <2>3, <2>4
<1>4. ASSUME NEW c \in Calls,
             SendLock(c) \/ SendCheck(c) \/ SendText(c) \/ SendTextError(c) \/ Expire(c)
      PROVE  OnePlace'
  <2>1. PICK pc \in {"check", "text", "wait", "return"} : callPc' = [callPc EXCEPT ![c] = pc]
    BY <1>4 DEF SendLock, SendCheck, SendText, SendTextError, Expire, Return
  <2>2. callPc[c] \in {"send", "check", "text", "wait"} /\ UNCHANGED <<pending, box, readVars, channel>>
    BY <1>4 DEF SendLock, SendCheck, SendText, SendTextError, Expire
  <2> QED
    BY <1>2, <2>1, <2>2 DEF CallPcs
<1>5. ASSUME NEW c \in Calls, Receive(c) PROVE OnePlace'
  <2>1. /\ callPc' = [callPc EXCEPT ![c] = "return"] /\ box' = [box EXCEPT ![c] = "none"]
        /\ UNCHANGED <<pending, readVars, channel>>
    BY <1>5 DEF Receive, Return
  <2> QED
    BY <1>1, <2>1 DEF OnePlace, RpcTypes, readVars
<1>6. ASSUME NEW c \in Calls, Unregister(c) PROVE OnePlace'
  <2>1. /\ callPc' = [callPc EXCEPT ![c] = "done"] /\ pending' = pending \ {c}
        /\ UNCHANGED <<box, readVars, channel>>
    BY <1>6 DEF Unregister
  <2> QED
    BY <1>1, <2>1 DEF OnePlace, RpcTypes, readVars
<1>7. ASSUME NEW r \in Readers, NEW S \in SUBSET pending, NEW kind \in Outcomes \ {"none"},
             Carry(r, S, kind), pending' = pending \ S, UNCHANGED <<callPc, box>>,
             holding[r] = {}, r = "onClose" => channel' = "reported" /\ kind = "fail",
             channel # "reported" => channel' = channel \/ r = "onClose",
             channel = "reported" => channel' = channel
      PROVE  OnePlace'
  <2>1. /\ holding'[r] = S /\ (S # {} => carrying'[r] = kind) /\ (S = {} => carrying'[r] = "none")
        /\ \A q \in Readers : q # r => holding'[q] = holding[q] /\ carrying'[q] = carrying[q]
    BY <1>1, <1>7 DEF Carry, RpcTypes
  <2>2. \A c \in S : c \in Calls /\ box[c] = "none" /\ callPc[c] # "idle" /\ \A q \in Readers : c \notin holding[q]
    BY <1>1 DEF OnePlace, RpcTypes
  <2>3. holding'["pump"] \cap holding'["onClose"] = {}
    BY <1>1, <2>1, <2>2 DEF OnePlace
  <2>4. channel' # "reported" => holding'["onClose"] = {}
    BY <1>1, <1>7, <2>1 DEF OnePlace
  <2>5. carrying'["onClose"] \in {"none", "fail"} /\ \A q \in Readers : holding'[q] # {} => carrying'[q] # "none"
    BY <1>1, <1>7, <2>1 DEF OnePlace
  <2>6. \A c \in pending' : box'[c] = "none" /\ \A q \in Readers : c \notin holding'[q]
    BY <1>1, <1>7, <2>1 DEF OnePlace
  <2>7. \A q \in Readers : \A c \in holding'[q] : box'[c] = "none" /\ callPc'[c] # "idle"
    BY <1>1, <1>7, <2>1, <2>2 DEF OnePlace
  <2>8. \A c \in Calls : callPc'[c] = "idle" => c \notin pending' /\ box'[c] = "none"
    BY <1>1, <1>7 DEF OnePlace
  <2>9. \A c \in Calls : callPc'[c] \in {"send", "check", "text", "wait"} =>
            c \in pending' \/ box'[c] # "none" \/ \E q \in Readers : c \in holding'[q]
    BY <1>1, <1>7, <2>1 DEF OnePlace
  <2> QED
    BY <2>3, <2>4, <2>5, <2>6, <2>7, <2>8, <2>9 DEF OnePlace
<1>8. CASE HandleMessage
  <2>1. Head(inQ) \in Answer
    BY <1>1, <1>8, InTail DEF HandleMessage
  <2>2. UNCHANGED <<callPc, box, channel>> /\ holding["pump"] = {}
    BY <1>8 DEF HandleMessage, callVars
  <2>3. CASE UNCHANGED <<pending, readVars>>
    BY <1>1, <2>2, <2>3 DEF OnePlace, readVars
  <2>4. CASE FailPending("pump")
    <3>1. pending' = pending \ pending
      BY <2>4 DEF FailPending
    <3> QED
      BY <1>7, <2>2, <2>4, <3>1 DEF FailPending, Outcomes
  <2>5. CASE Match(Head(inQ)) /\ Head(inQ).kind \in {"result", "error"}
    <3>1. pending' = pending \ ({Head(inQ).id} \cap pending)
      BY <2>5 DEF Match
    <3> QED
      BY <1>7, <2>2, <2>5, <3>1 DEF Match, Outcomes
  <2> QED
    BY <1>8, <2>1, <2>3, <2>4, <2>5 DEF HandleMessage, Answer
<1>9. CASE OnClose
  <2>1. /\ pending' = pending \ pending /\ UNCHANGED <<callPc, box>> /\ Carry("onClose", pending, "fail")
        /\ channel = "closed" /\ channel' = "reported"
    BY <1>9 DEF OnClose, FailPending, callVars
  <2>2. holding["onClose"] = {}
    BY <1>1, <2>1 DEF OnePlace
  <2> QED
    BY <1>7, <2>1, <2>2 DEF Outcomes
<1>10. ASSUME NEW r \in Readers, Deliver(r) PROVE OnePlace'
  <2>1. PICK c \in holding[r] : /\ box' = [box EXCEPT ![c] = carrying[r]]
                                /\ Carry(r, holding[r] \ {c}, carrying[r])
                                /\ UNCHANGED <<callPc, pending, channel>>
    BY <1>10 DEF Deliver, callVars
  <2>2. c \in Calls /\ carrying[r] # "none" /\ c \notin pending /\ callPc[c] # "idle"
        /\ \A q \in Readers : q # r => c \notin holding[q]
    BY <1>1 DEF OnePlace, RpcTypes
  <2>3. \A d \in Calls : box'[d] = IF d = c THEN carrying[r] ELSE box[d]
    BY <1>1, <2>1 DEF RpcTypes
  <2>4. /\ holding'[r] = holding[r] \ {c} /\ carrying'[r] \in {carrying[r], "none"}
        /\ (holding'[r] # {} => carrying'[r] = carrying[r])
        /\ \A q \in Readers : q # r => holding'[q] = holding[q] /\ carrying'[q] = carrying[q]
    BY <1>1, <2>1 DEF Carry, RpcTypes
  <2>5. holding'["pump"] \cap holding'["onClose"] = {} /\ (channel' # "reported" => holding'["onClose"] = {})
    BY <1>1, <2>1, <2>4 DEF OnePlace
  <2>6. carrying'["onClose"] \in {"none", "fail"} /\ \A q \in Readers : holding'[q] # {} => carrying'[q] # "none"
    BY <1>1, <2>2, <2>4 DEF OnePlace
  <2>7. \A d \in pending' : box'[d] = "none" /\ \A q \in Readers : d \notin holding'[q]
    BY <1>1, <2>1, <2>2, <2>3, <2>4 DEF OnePlace, RpcTypes
  <2>8. \A q \in Readers : \A d \in holding'[q] : box'[d] = "none" /\ callPc'[d] # "idle"
    BY <1>1, <2>1, <2>2, <2>3, <2>4 DEF OnePlace, RpcTypes
  <2>9. \A d \in Calls : callPc'[d] = "idle" => d \notin pending' /\ box'[d] = "none"
    BY <1>1, <2>1, <2>2, <2>3 DEF OnePlace
  <2>10. \A d \in Calls : callPc'[d] \in {"send", "check", "text", "wait"} =>
             d \in pending' \/ box'[d] # "none" \/ \E q \in Readers : d \in holding'[q]
    BY <1>1, <2>1, <2>2, <2>3, <2>4 DEF OnePlace
  <2> QED
    BY <2>5, <2>6, <2>7, <2>8, <2>9, <2>10 DEF OnePlace
<1>11. CASE PeerTakes \/ Outside
  <2>1. UNCHANGED <<callPc, pending, box, readVars>>
        /\ (channel' = channel \/ (channel = "open" /\ channel' = "closed"))
    BY <1>11 DEF PeerTakes, Outside, callVars
  <2> QED
    BY <1>1, <2>1 DEF OnePlace, readVars
<1> QED
  BY <1>3, <1>4, <1>5, <1>6, <1>8, <1>9, <1>10, <1>11 DEF RpcMove, RpcStep, RpcRead

\* A call has a result exactly when it has returned.
LEMMA ReturnedKept == RpcInv /\ RpcMove => Returned'
<1> SUFFICES ASSUME RpcInv, RpcMove PROVE Returned'
  OBVIOUS
<1>1. RpcTypes /\ Returned
  BY DEF RpcInv
<1>2. ASSUME NEW c \in Calls, NEW res \in CallResults \ {"none"}, Return(c, res) PROVE Returned'
  BY <1>1, <1>2 DEF Return, Returned, RpcTypes
<1>3. ASSUME NEW c \in Calls, NEW pc \in CallPcs, callPc' = [callPc EXCEPT ![c] = pc], UNCHANGED callRes,
             callPc[c] \in {"return", "done"} <=> pc \in {"return", "done"}
      PROVE  Returned'
  BY <1>1, <1>3 DEF Returned, RpcTypes
<1>4. ASSUME NEW c \in Calls, Call(c) \/ RpcStep(c) PROVE Returned'
  <2>1. CASE \E res \in CallResults \ {"none"} : Return(c, res)
    BY <1>2, <2>1
  <2>2. Ambiguous(c) \in CallResults \ {"none"}
    BY DEF Ambiguous, CallResults
  <2> QED
    BY <1>3, <1>4, <2>1, <2>2
    DEF Call, RpcStep, SendLock, SendCheck, SendText, SendTextError, Receive, Expire, Unregister,
        CallPcs, CallResults
<1>5. CASE RpcRead \/ PeerTakes \/ Outside
  BY <1>1, <1>5
  DEF RpcRead, HandleMessage, OnClose, Deliver, PeerTakes, Outside, callVars, Returned
<1> QED
  BY <1>4, <1>5 DEF RpcMove

\* A call that says what became of its request is right for good.
LEMMA SettledKept == RpcInv /\ RpcMove => UnambiguousIsSettled'
<1> SUFFICES ASSUME RpcInv, RpcMove PROVE UnambiguousIsSettled'
  OBVIOUS
<1>1. RpcTypes /\ SentOnce /\ Evidence /\ Returned /\ UnambiguousIsSettled
  BY DEF RpcInv
<1> DEFINE Sure == {"ok", "rpcError", "timeout", "full"}
           Settled(c, res) == /\ c \notin Flying
                              /\ res = "full" => c \notin taken
                              /\ res \in {"ok", "rpcError"} => c \in taken
<1>2. \A c \in Calls : callRes[c] \in Sure => Settled(c, callRes[c])
  BY <1>1 DEF UnambiguousIsSettled, Flying
<1>3. ASSUME \A c \in Calls : callRes'[c] \in Sure =>
                 /\ c \notin Flying'
                 /\ callRes'[c] = "full" => c \notin taken'
                 /\ callRes'[c] \in {"ok", "rpcError"} => c \in taken'
      PROVE  UnambiguousIsSettled'
  BY <1>3 DEF UnambiguousIsSettled, Flying
<1>4. UNCHANGED outQ => Flying' = Flying
  BY DEF Flying, InFlight
<1>5. ASSUME NEW c \in Calls, NEW res, Return(c, res), UNCHANGED <<outQ, taken>>,
             res \in Sure => Settled(c, res)
      PROVE  UnambiguousIsSettled'
  <2>1. \A d \in Calls : callRes'[d] = IF d = c THEN res ELSE callRes[d]
    BY <1>1, <1>5 DEF Return, RpcTypes
  <2> QED
    BY <1>2, <1>3, <1>4, <1>5, <2>1
<1>6. ASSUME NEW c \in Calls, callPc[c] \notin {"wait", "return", "done"} PROVE c \notin Flying \cup taken
  BY <1>1, <1>6 DEF SentOnce
<1>7. CASE UNCHANGED <<callRes, outQ, taken>>
  BY <1>2, <1>3, <1>4, <1>7
<1>8. ASSUME NEW c \in Calls, Call(c) PROVE UnambiguousIsSettled'
  BY <1>5, <1>6, <1>7, <1>8 DEF Call, sendVars
<1>9. ASSUME NEW c \in Calls, SendCheck(c) PROVE UnambiguousIsSettled'
  BY <1>5, <1>6, <1>7, <1>9 DEF SendCheck
<1>10. ASSUME NEW c \in Calls, SendText(c) \/ SendTextError(c) PROVE UnambiguousIsSettled'
  <2>1. /\ callPc[c] = "text" /\ taken' = taken /\ outQ' \in {outQ, Append(outQ, c)}
        /\ callRes' = callRes \/ callRes' = [callRes EXCEPT ![c] = Ambiguous(c)]
    BY <1>10 DEF SendText, SendTextError, Return
  <2>2. \A d \in Flying' : d \in Flying \/ d = c
    BY <1>1, <1>4, <1>6, <2>1, OutAppend
  <2>3. callRes'[c] \notin Sure /\ \A d \in Calls : d # c => callRes'[d] = callRes[d]
    BY <1>1, <2>1 DEF Ambiguous, RpcTypes, Returned
  <2> QED
    BY <1>2, <1>3, <2>1, <2>2, <2>3
<1>11. ASSUME NEW c \in Calls, Receive(c) PROVE UnambiguousIsSettled'
  <2>1. box[c] \in {"result", "error"} => c \in taken /\ c \notin Flying
    BY <1>1 DEF Evidence, Believed, SentOnce
  <2>2. box[c] \in {"result", "error", "fail"} /\ UNCHANGED <<outQ, taken>>
    BY <1>1, <1>11 DEF Receive, RpcTypes, Outcomes, sendVars
  <2>3. Ambiguous(c) \notin Sure
    BY DEF Ambiguous
  <2> QED
    BY <1>5, <1>11, <2>1, <2>2, <2>3 DEF Receive
<1>12. ASSUME NEW c \in Calls, Expire(c) PROVE UnambiguousIsSettled'
  BY <1>5, <1>12 DEF Expire, Ambiguous, sendVars
<1>13. ASSUME NEW c \in Calls, SendLock(c) \/ Unregister(c) PROVE UnambiguousIsSettled'
  BY <1>7, <1>13 DEF SendLock, Unregister, sendVars
<1>14. CASE RpcRead \/ Outside
  BY <1>7, <1>14 DEF RpcRead, HandleMessage, OnClose, Deliver, Outside, callVars, sendVars
<1>15. CASE PeerTakes
  <2>1. /\ Head(outQ) \in Flying /\ Flying' = Flying \ {Head(outQ)}
        /\ taken' = taken \cup {Head(outQ)} /\ callRes' = callRes
    BY <1>1, <1>15, OutTail DEF PeerTakes, callVars
  <2> QED
    BY <1>2, <1>3, <2>1
<1> QED
  BY <1>8, <1>9, <1>10, <1>11, <1>12, <1>13, <1>14, <1>15 DEF RpcMove, RpcStep

\* The calls keep their invariant.
LEMMA RpcKept == RpcInv /\ RpcMove => RpcInv'
  BY RpcTypesKept, SentOnceKept, OnePlaceKept, EvidenceKept, ReturnedKept, SettledKept DEF RpcInv

-----------------------------------------------------------------------------
(***************************************************************************)
(* Scroll and Status on top of the calls.                                  *)
(***************************************************************************)

\* The calls see nothing of Scroll but contexts that end and a channel that closes.
LEMMA ScrollMoves == RpcInv /\ [Next]_vars => RpcMove
<1> SUFFICES ASSUME RpcInv, [Next]_vars PROVE RpcMove
  OBVIOUS
<1>1. RpcTypes
  BY DEF RpcInv
<1>2. CASE UNCHANGED rpcVars
  <2>1. Outside
    BY <1>1, <1>2 DEF Outside, rpcVars, callVars, RpcTypes
  <2> QED
    BY <2>1 DEF RpcMove
<1>3. ASSUME NEW c \in Calls, Op(c) PROVE RpcMove
  <2>1. CASE Retire(c)
    <3>1. Outside
      BY <1>1, <2>1 DEF Retire, Outside, RpcTypes, callVars
    <3> QED
      BY <3>1 DEF RpcMove
  <2> QED
    BY <1>2, <1>3, <2>1
    DEF Op, Lock, TryLease, LeaseRefused, StartCall, AfterCall, ReleaseLease, Result, Unlock, RpcMove
<1>4. ASSUME NEW c \in Calls, UserContextEnds(c) \/ Tick(c) PROVE RpcMove
  <2>1. Outside
    BY <1>1, <1>4 DEF UserContextEnds, Tick, Outside, RpcTypes
  <2> QED
    BY <2>1 DEF RpcMove
<1>5. ASSUME NEW c \in Calls, Watchdog(c) PROVE RpcMove
  BY <1>2, <1>5 DEF Watchdog
<1>6. CASE OperatorAcquire \/ OperatorRelease \/ SessionDown \/ UNCHANGED vars
  BY <1>2, <1>6 DEF OperatorAcquire, OperatorRelease, SessionDown, vars
<1>7. CASE ChannelDown
  <2>1. Outside
    BY <1>1, <1>7 DEF ChannelDown, Outside, RpcTypes, callVars
  <2> QED
    BY <2>1 DEF RpcMove
<1>8. CASE ((\E c \in Calls : RpcStep(c)) \/ RpcRead \/ PeerTakes) /\ UNCHANGED opVars
  BY <1>8 DEF RpcMove
<1> QED
  BY <1>3, <1>4, <1>5, <1>6, <1>7, <1>8, ScrollAssumption DEF Next, ScrollAssumption


\* What the rest of the session does: calls that have not begun or have ended stay as
\* they are, and no lease of a scroll is touched.
Others ==
    /\ \A d \in Calls : IF callPc[d] \in {"idle", "done"}
                        THEN callPc'[d] = callPc[d] /\ callRes'[d] = callRes[d]
                        ELSE callPc'[d] # "idle"
    /\ UNCHANGED <<opPc, opErr, userDone, cmdMu, age, relOut>>
    /\ lease' = lease \/ (lease \in {NoCall, Operator} /\ lease' \in {NoCall, Operator})
    /\ hid' \in {hid, "closed"}

\* A step is one of Scroll's own, or one of the rest of the session.
LEMMA Split ==
    ASSUME RpcTypes, [Next]_vars
    PROVE  \/ \E c \in Calls : Op(c) \/ UserContextEnds(c)
           \/ \E c \in Scrolls : Tick(c) \/ Watchdog(c)
           \/ Others
<1>1. ASSUME NEW c \in Calls, RpcStep(c), UNCHANGED opVars PROVE Others
  <2>1. callPc[c] \notin {"idle", "done"}
    BY <1>1 DEF RpcStep, SendLock, SendCheck, SendText, SendTextError, Receive, Expire, Unregister
  <2>2. PICK pc \in CallPcs \ {"idle"} : callPc' = [callPc EXCEPT ![c] = pc]
    BY <1>1
    DEF RpcStep, SendLock, SendCheck, SendText, SendTextError, Receive, Expire, Unregister, Return,
        CallPcs
  <2>3. UNCHANGED callRes \/ \E res : callRes' = [callRes EXCEPT ![c] = res]
    BY <1>1
    DEF RpcStep, SendLock, SendCheck, SendText, SendTextError, Receive, Expire, Unregister, Return
  <2>4. \A d \in Calls : d # c => callPc'[d] = callPc[d] /\ callRes'[d] = callRes[d]
    BY <2>2, <2>3 DEF RpcTypes
  <2>5. callPc'[c] # "idle"
    BY <2>2 DEF RpcTypes
  <2> QED
    BY <1>1, <2>1, <2>4, <2>5 DEF Others, opVars
<1>2. CASE (RpcRead \/ PeerTakes) /\ UNCHANGED opVars
  BY <1>2 DEF RpcRead, HandleMessage, OnClose, Deliver, PeerTakes, callVars, Others, opVars
<1>3. CASE OperatorAcquire \/ OperatorRelease \/ SessionDown \/ (ChannelDown /\ UNCHANGED opVars)
           \/ UNCHANGED vars
  BY <1>3
  DEF OperatorAcquire, OperatorRelease, SessionDown, ChannelDown, vars, rpcVars, callVars, opVars, Others
<1> QED
  BY <1>1, <1>2, <1>3 DEF Next

\* The types of Scroll and Status.
LEMMA OpTypesKept == IndInv /\ [Next]_vars => OpTypes'
<1> SUFFICES ASSUME IndInv, [Next]_vars PROVE OpTypes'
  OBVIOUS
<1>1. OpTypes /\ RpcTypes /\ InStep
  BY DEF IndInv, OpInv, RpcInv
<1>0. LeaseTimeout \in Nat \ {0, 1} /\ Scrolls \subseteq Calls /\ MaxScrollRPC = LeaseTimeout - 1
  BY ScrollAssumption DEF ScrollAssumption, MaxScrollRPC
<1> USE DEF OpTypes
<1>2. ASSUME NEW c \in Calls, NEW pc \in OpPcs, Goto(c, pc) PROVE opPc' \in [Calls -> OpPcs]
  BY <1>1, <1>2 DEF Goto
<1>3. ASSUME NEW c \in Calls, NEW S \in SUBSET Sentinels, Fail(c, S) PROVE opErr' \in [Calls -> SUBSET Sentinels]
  BY <1>1, <1>3 DEF Fail
<1>4. ASSUME NEW c \in Calls, FreeLease(c)
      PROVE  /\ lease' \in Calls \cup {NoCall, Operator} /\ age' \in [Calls -> 0..LeaseTimeout]
             /\ relOut' \in [Calls -> {"none", "ok", "unverified"}]
  BY <1>0, <1>1, <1>4 DEF FreeLease
<1>5. ASSUME NEW c \in Calls, Lock(c) \/ TryLease(c) PROVE OpTypes'
  BY <1>1, <1>2, <1>3, <1>5 DEF Lock, TryLease, OpPcs, Sentinels
<1>6. ASSUME NEW c \in Calls, LeaseRefused(c) \/ Retire(c) PROVE OpTypes'
  BY <1>1, <1>2, <1>3, <1>6 DEF LeaseRefused, Retire, OpPcs, Sentinels
<1>7. ASSUME NEW c \in Calls, StartCall(c) PROVE OpTypes'
  BY <1>1, <1>7 DEF StartCall, opVars
<1>8. ASSUME NEW c \in Calls, AfterCall(c) PROVE OpTypes'
  <2>1. PICK S \in SUBSET Sentinels : Fail(c, S)
    BY <1>8 DEF AfterCall, Sentinels
  <2>2. opPc' \in [Calls -> OpPcs]
    BY <1>2, <1>8 DEF AfterCall, OpPcs
  <2> QED
    BY <1>1, <1>3, <1>8, <2>1, <2>2 DEF AfterCall
<1>9. ASSUME NEW c \in Calls, ReleaseLease(c) PROVE OpTypes'
  <2>1. opPc' \in [Calls -> OpPcs]
    BY <1>2, <1>9 DEF ReleaseLease, OpPcs
  <2> QED
    BY <1>1, <1>4, <1>9, <2>1 DEF ReleaseLease
<1>10. ASSUME NEW c \in Calls, Result(c) PROVE OpTypes'
  <2>1. opPc' \in [Calls -> OpPcs]
    BY <1>2, <1>10 DEF Result, OpPcs
  <2>2. PICK released \in SUBSET {"unverified"} : opErr' = [opErr EXCEPT ![c] = ScrollResult(c, released)]
    BY <1>10 DEF Result
  <2>3. ScrollResult(c, released) \in SUBSET Sentinels
    <3>1. opErr[c] \subseteq Sentinels /\ released \subseteq Sentinels /\ {"timeout"} \subseteq Sentinels
      BY <1>1 DEF Sentinels
    <3> QED
      BY <3>1 DEF ScrollResult
  <2>4. opErr' \in [Calls -> SUBSET Sentinels]
    BY <1>1, <2>2, <2>3
  <2> QED
    BY <1>1, <1>10, <2>1, <2>4 DEF Result
<1>11. ASSUME NEW c \in Calls, Unlock(c) PROVE OpTypes'
  BY <1>1, <1>2, <1>11 DEF Unlock, OpPcs
<1>12. ASSUME NEW c \in Calls, UserContextEnds(c) PROVE OpTypes'
  BY <1>1, <1>12 DEF UserContextEnds
<1>13. ASSUME NEW c \in Scrolls, Tick(c) PROVE OpTypes'
  <2>1. age[c] + 1 \in 0..LeaseTimeout
    BY <1>0, <1>1, <1>13 DEF Tick
  <2>2. age' \in [Calls -> 0..LeaseTimeout]
    BY <1>0, <1>1, <1>13, <2>1 DEF Tick
  <2> QED
    BY <1>1, <1>13, <2>2 DEF Tick
<1>14. ASSUME NEW c \in Scrolls, Watchdog(c) PROVE OpTypes'
  BY <1>0, <1>1, <1>4, <1>14 DEF Watchdog
<1>15. CASE Others
  BY <1>1, <1>15 DEF Others
<1> QED
  BY <1>1, <1>5, <1>6, <1>7, <1>8, <1>9, <1>10, <1>11, <1>12, <1>13, <1>14, <1>15, Split DEF Op

\* The operation and its call, and the lease and its owner, stay in step.
LEMMA InStepKept == IndInv /\ [Next]_vars => InStep'
<1> SUFFICES ASSUME IndInv, [Next]_vars PROVE InStep'
  OBVIOUS
<1>1. OpTypes /\ RpcTypes /\ InStep
  BY DEF IndInv, OpInv, RpcInv
<1>0. NoCall \notin Calls /\ Operator \notin Calls /\ Scrolls \subseteq Calls
  BY RpcAssumption, ScrollAssumption DEF RpcAssumption, ScrollAssumption
<1> DEFINE Same == UNCHANGED <<callPc, lease, age>>
<1>2. ASSUME NEW c \in Calls, NEW pc \in OpPcs, Goto(c, pc) PROVE \A d \in Calls : opPc'[d] = IF d = c THEN pc ELSE opPc[d]
  BY <1>1, <1>2 DEF Goto, OpTypes
<1>3. ASSUME NEW c \in Calls, FreeLease(c), lease = c, UNCHANGED callPc
      PROVE  /\ lease' = NoCall /\ \A d \in Calls : age'[d] = 0
  BY <1>1, <1>3 DEF FreeLease, InStep, OpTypes
<1>4. ASSUME NEW c \in Calls, Lock(c) PROVE InStep'
  <2>1. Same /\ opPc[c] = "idle"
    BY <1>4 DEF Lock, rpcVars, callVars
  <2>2. PICK pc \in {"done", "lease", "rpc"} : Goto(c, pc) /\ (pc = "lease" => c \in Scrolls)
    BY <1>4 DEF Lock
  <2>3. \A d \in Calls : opPc'[d] = IF d = c THEN pc ELSE opPc[d]
    BY <1>2, <2>2 DEF OpPcs
  <2> QED
    BY <1>1, <2>1, <2>2, <2>3 DEF InStep
<1>5. ASSUME NEW c \in Calls, TryLease(c) PROVE InStep'
  <2>1. UNCHANGED <<callPc, age>> /\ opPc[c] = "lease" /\ lease = NoCall /\ lease' = c
    BY <1>5 DEF TryLease, rpcVars, callVars
  <2>2. \A d \in Calls : opPc'[d] = IF d = c THEN "rpc" ELSE opPc[d]
    BY <1>2, <1>5 DEF TryLease, OpPcs
  <2> QED
    BY <1>0, <1>1, <2>1, <2>2 DEF InStep
<1>6. ASSUME NEW c \in Calls, LeaseRefused(c) PROVE InStep'
  <2>1. Same /\ opPc[c] = "lease"
    BY <1>6 DEF LeaseRefused, rpcVars, callVars
  <2>2. \A d \in Calls : opPc'[d] = IF d = c THEN "unlock" ELSE opPc[d]
    BY <1>2, <1>6 DEF LeaseRefused, OpPcs
  <2> QED
    BY <1>1, <2>1, <2>2 DEF InStep
<1>7. ASSUME NEW c \in Calls, StartCall(c) PROVE InStep'
  <2>1. UNCHANGED <<opPc, lease, age>> /\ opPc[c] = "rpc"
    BY <1>7 DEF StartCall, opVars
  <2>2. \A d \in Calls : d # c => callPc'[d] = callPc[d]
    BY <1>1, <1>7 DEF StartCall, Call, Return, RpcTypes
  <2> QED
    BY <1>1, <2>1, <2>2 DEF InStep
<1>8. ASSUME NEW c \in Calls, AfterCall(c) PROVE InStep'
  <2>1. Same /\ opPc[c] = "rpc" /\ callPc[c] = "done"
    BY <1>8 DEF AfterCall, rpcVars, callVars
  <2>2. PICK pc \in {"unlock", "retire", "release"} : Goto(c, pc) /\ (c \in Scrolls => pc # "unlock")
    BY <1>8 DEF AfterCall
  <2>3. \A d \in Calls : opPc'[d] = IF d = c THEN pc ELSE opPc[d]
    BY <1>2, <2>2 DEF OpPcs
  <2> QED
    BY <1>1, <2>1, <2>2, <2>3 DEF InStep
<1>9. ASSUME NEW c \in Calls, Retire(c) PROVE InStep'
  <2>1. Same /\ opPc[c] = "retire"
    BY <1>9 DEF Retire, callVars
  <2>2. \A d \in Calls : opPc'[d] = IF d = c THEN "release" ELSE opPc[d]
    BY <1>2, <1>9 DEF Retire, OpPcs
  <2> QED
    BY <1>1, <2>1, <2>2 DEF InStep
<1>10. ASSUME NEW c \in Calls, ReleaseLease(c) PROVE InStep'
  <2>1. UNCHANGED callPc /\ opPc[c] = "release"
    BY <1>10 DEF ReleaseLease, rpcVars, callVars
  <2>2. \A d \in Calls : opPc'[d] = IF d = c THEN "result" ELSE opPc[d]
    BY <1>2, <1>10 DEF ReleaseLease, OpPcs
  <2>3. CASE lease = c
    <3>1. lease' = NoCall /\ \A d \in Calls : age'[d] = 0
      BY <1>3, <1>10, <2>1, <2>3 DEF ReleaseLease
    <3> QED
      BY <1>0, <1>1, <2>1, <2>2, <3>1 DEF InStep
  <2>4. CASE lease # c
    <3>1. Same
      BY <1>10, <2>1, <2>4 DEF ReleaseLease
    <3> QED
      BY <1>1, <2>1, <2>2, <2>4, <3>1 DEF InStep
  <2> QED
    BY <2>3, <2>4
<1>11. ASSUME NEW c \in Calls, Result(c) \/ Unlock(c) PROVE InStep'
  <2>1. Same /\ opPc[c] \in {"result", "unlock"}
    BY <1>11 DEF Result, Unlock, rpcVars, callVars
  <2>2. PICK pc \in {"unlock", "done"} : Goto(c, pc)
    BY <1>11 DEF Result, Unlock
  <2>3. \A d \in Calls : opPc'[d] = IF d = c THEN pc ELSE opPc[d]
    BY <1>2, <2>2 DEF OpPcs
  <2> QED
    BY <1>1, <2>1, <2>3 DEF InStep
<1>12. ASSUME NEW c \in Calls, UserContextEnds(c) PROVE InStep'
  BY <1>1, <1>12 DEF UserContextEnds, InStep
<1>13. ASSUME NEW c \in Scrolls, Tick(c) PROVE InStep'
  <2>1. UNCHANGED <<opPc, callPc, lease>> /\ lease = c
    BY <1>13 DEF Tick
  <2>2. \A d \in Calls : d # c => age'[d] = age[d]
    BY <1>0, <1>1, <1>13 DEF Tick, OpTypes
  <2> QED
    BY <1>0, <1>1, <2>1, <2>2 DEF InStep
<1>14. ASSUME NEW c \in Scrolls, Watchdog(c) PROVE InStep'
  <2>1. UNCHANGED <<opPc, callPc>>
    BY <1>14 DEF Watchdog, rpcVars, callVars
  <2>2. lease' = NoCall /\ \A d \in Calls : age'[d] = 0
    BY <1>0, <1>3, <1>14, <2>1 DEF Watchdog
  <2> QED
    BY <1>0, <1>1, <2>1, <2>2 DEF InStep
<1>15. CASE Others
  <2>1. \A d \in Calls : (lease' = d) <=> (lease = d)
    BY <1>0, <1>15 DEF Others
  <2>2. \A d \in Calls : callPc[d] = "idle" \/ callPc[d] = "done" => callPc'[d] = callPc[d]
    BY <1>15 DEF Others
  <2>3. UNCHANGED <<opPc, age>>
    BY <1>15 DEF Others
  <2> QED
    BY <1>1, <2>1, <2>2, <2>3 DEF InStep
<1> QED
  BY <1>1, <1>4, <1>5, <1>6, <1>7, <1>8, <1>9, <1>10, <1>11, <1>12, <1>13, <1>14, <1>15, Split DEF Op

\* The lease is there until the delivery has been judged.
LEMMA CoveredKept == IndInv /\ [Next]_vars => Covered'
<1> SUFFICES ASSUME IndInv, [Next]_vars PROVE Covered'
  OBVIOUS
<1>1. OpTypes /\ RpcTypes /\ InStep /\ Covered
  BY DEF IndInv, OpInv, RpcInv
<1>0. NoCall \notin Calls /\ Operator \notin Calls /\ Scrolls \subseteq Calls
      /\ LeaseTimeout \in Nat \ {0, 1} /\ MaxScrollRPC = LeaseTimeout - 1
  BY RpcAssumption, ScrollAssumption DEF RpcAssumption, ScrollAssumption, MaxScrollRPC
<1>2. ASSUME NEW c \in Calls, NEW pc \in OpPcs, Goto(c, pc), UNCHANGED <<lease, age>>,
             pc \in {"rpc", "retire"} => c \notin Scrolls \/ opPc[c] = "rpc"
      PROVE  Covered'
  <2>1. \A d \in Calls : opPc'[d] = IF d = c THEN pc ELSE opPc[d]
    BY <1>1, <1>2 DEF Goto, OpTypes
  <2>2. ASSUME NEW d \in Scrolls, opPc'[d] \in {"rpc", "retire"} PROVE opPc[d] \in {"rpc", "retire"}
    BY <1>0, <1>2, <2>1, <2>2
  <2> QED
    BY <1>1, <1>2, <2>2 DEF Covered
<1>3. ASSUME NEW c \in Calls, Lock(c) \/ LeaseRefused(c) \/ AfterCall(c) \/ Retire(c) \/ Result(c) \/ Unlock(c)
      PROVE  Covered'
  BY <1>2, <1>3 DEF Lock, LeaseRefused, AfterCall, Retire, Result, Unlock, OpPcs
<1>4. ASSUME NEW c \in Calls, TryLease(c) PROVE Covered'
  <2>1. lease = NoCall /\ lease' = c /\ age' = age /\ age[c] = 0
    BY <1>0, <1>1, <1>4 DEF TryLease, InStep
  <2>2. \A d \in Calls : d # c => opPc'[d] = opPc[d]
    BY <1>1, <1>4 DEF TryLease, Goto, OpTypes
  <2>3. \A d \in Scrolls : opPc[d] \notin {"rpc", "retire"}
    BY <1>0, <1>1, <2>1 DEF Covered
  <2> QED
    BY <1>0, <2>1, <2>2, <2>3 DEF Covered
<1>5. ASSUME NEW c \in Calls, StartCall(c) \/ UserContextEnds(c) PROVE Covered'
  BY <1>1, <1>5 DEF StartCall, UserContextEnds, opVars, Covered
<1>6. ASSUME NEW c \in Calls, FreeLease(c), opPc[c] \notin {"rpc", "retire"} \/ c \notin Scrolls, lease = c,
             \A d \in Calls : opPc'[d] \in {"rpc", "retire"} => opPc[d] = opPc'[d]
      PROVE  Covered'
  <2>1. \A d \in Scrolls : opPc[d] \notin {"rpc", "retire"}
    BY <1>0, <1>1, <1>6 DEF Covered
  <2> QED
    BY <1>0, <1>6, <2>1 DEF Covered
<1>7. ASSUME NEW c \in Calls, ReleaseLease(c) PROVE Covered'
  <2>1. \A d \in Calls : opPc'[d] = IF d = c THEN "result" ELSE opPc[d]
    BY <1>1, <1>7 DEF ReleaseLease, Goto, OpTypes
  <2> QED
    BY <1>2, <1>6, <1>7, <2>1 DEF ReleaseLease, OpPcs
<1>8. ASSUME NEW c \in Scrolls, Tick(c) PROVE Covered'
  <2>1. \A d \in Calls : age'[d] = IF d = c THEN age[c] + 1 ELSE age[d]
    BY <1>0, <1>1, <1>8 DEF Tick, OpTypes
  <2>2. UNCHANGED <<opPc, lease>> /\ (age[c] >= MaxScrollRPC => opPc[c] \notin {"rpc", "retire"})
    BY <1>8 DEF Tick
  <2>3. age[c] \in Nat
    BY <1>0, <1>1 DEF OpTypes
  <2> QED
    BY <1>0, <1>1, <2>1, <2>2, <2>3 DEF Covered
<1>9. ASSUME NEW c \in Scrolls, Watchdog(c) PROVE Covered'
  <2>1. opPc[c] \notin {"rpc", "retire"}
    BY <1>0, <1>1, <1>9 DEF Watchdog, Covered
  <2> QED
    BY <1>0, <1>6, <1>9, <2>1 DEF Watchdog
<1>10. CASE Others
  BY <1>0, <1>1, <1>10 DEF Others, Covered
<1> QED
  BY <1>1, <1>3, <1>4, <1>5, <1>7, <1>8, <1>9, <1>10, Split DEF Op

\* The error says whatever must be said, at every stage.
LEMMA RecordedKept == IndInv /\ [Next]_vars => Recorded'
<1> SUFFICES ASSUME IndInv, [Next]_vars, NEW c \in Scrolls PROVE RecordedOf(c)'
  BY DEF Recorded
<1>0. NoCall \notin Calls /\ Operator \notin Calls /\ c \in Calls /\ Scrolls \subseteq Calls
  BY RpcAssumption, ScrollAssumption DEF RpcAssumption, ScrollAssumption
<1>1. OpTypes /\ RpcTypes /\ InStep /\ Covered /\ Returned /\ RecordedOf(c)
  BY DEF IndInv, OpInv, RpcInv, Recorded
<1>2. /\ opPc[c] \in OpPcs /\ callRes[c] \in CallResults /\ opErr[c] \subseteq Sentinels
      /\ relOut[c] \in {"none", "ok", "unverified"}
  BY <1>0, <1>1 DEF OpTypes, RpcTypes
<1>3. callPc[c] = "idle" => callRes[c] = "none"
  BY <1>0, <1>1 DEF Returned
<1>4. ASSUME opPc'[c] = opPc[c], opErr'[c] = opErr[c], Late(c) => callRes'[c] = callRes[c],
             hid' \in {hid, "closed"}, lease = c => lease' = c \/ relOut'[c] # "none",
             relOut[c] # "none" => relOut'[c] = relOut[c]
      PROVE  RecordedOf(c)'
  BY <1>1, <1>4 DEF RecordedOf, Late, Unclear
<1>5. ASSUME NEW d \in Calls, NEW pc, Goto(d, pc)
      PROVE  /\ opPc'[d] = pc /\ (d # c => opPc'[c] = opPc[c])
  BY <1>0, <1>1, <1>5 DEF Goto, OpTypes
<1>6. ASSUME NEW d \in Calls, NEW S, Fail(d, S)
      PROVE  /\ opErr'[d] = opErr[d] \cup S /\ (d # c => opErr'[c] = opErr[c])
  BY <1>0, <1>1, <1>6 DEF Fail, OpTypes
<1>7. ASSUME NEW d \in Calls, FreeLease(d)
      PROVE  /\ lease' = NoCall /\ relOut'[d] \in {"ok", "unverified"}
             /\ (d # c => relOut'[c] = relOut[c])
  BY <1>0, <1>1, <1>7 DEF FreeLease, OpTypes
<1>8. ASSUME NEW d \in Calls, Op(d), d # c PROVE RecordedOf(c)'
  <2>1. opPc'[c] = opPc[c]
    BY <1>5, <1>8
    DEF Op, Lock, TryLease, LeaseRefused, StartCall, AfterCall, Retire, ReleaseLease, Result, Unlock, opVars
  <2>2. opErr'[c] = opErr[c]
    <3>1. CASE Result(d)
      BY <1>0, <1>1, <1>8, <3>1 DEF Result, OpTypes
    <3> QED
      BY <1>6, <1>8, <3>1
      DEF Op, Lock, TryLease, LeaseRefused, StartCall, AfterCall, Retire, ReleaseLease, Unlock, opVars
  <2>3. callRes'[c] = callRes[c]
    <3>1. CASE StartCall(d)
      BY <1>0, <1>1, <1>8, <3>1 DEF StartCall, Call, Return, RpcTypes
    <3> QED
      BY <1>8, <3>1
      DEF Op, Lock, TryLease, LeaseRefused, AfterCall, Retire, ReleaseLease, Result, Unlock, rpcVars, callVars
  <2>4. hid' \in {hid, "closed"} /\ relOut'[c] = relOut[c] /\ (lease = c => lease' = c)
    BY <1>0, <1>7, <1>8
    DEF Op, Lock, TryLease, LeaseRefused, StartCall, AfterCall, Retire, ReleaseLease, Result, Unlock, opVars
  <2> QED
    BY <1>4, <2>1, <2>2, <2>3, <2>4
<1>9. CASE Lock(c)
  <2>1. opPc[c] = "idle" /\ UNCHANGED callRes
    BY <1>9 DEF Lock, rpcVars, callVars
  <2>2. callRes'[c] = "none" /\ opErr[c] = {}
    BY <1>0, <1>1, <1>3, <2>1 DEF InStep, RecordedOf
  <2>3. \/ opPc'[c] = "done" /\ opErr'[c] = {"timeout"}
        \/ opPc'[c] = "lease" /\ opErr'[c] = {}
    BY <1>0, <1>5, <1>6, <1>9, <2>2 DEF Lock
  <2> QED
    BY <2>2, <2>3 DEF RecordedOf, Late, Unclear
<1>10. CASE TryLease(c)
  <2>1. opPc'[c] = "rpc" /\ opErr'[c] = {}
    BY <1>0, <1>1, <1>5, <1>10 DEF TryLease, RecordedOf
  <2> QED
    BY <2>1 DEF RecordedOf, Late
<1>11. CASE LeaseRefused(c)
  <2>1. opPc[c] = "lease" /\ UNCHANGED callRes
    BY <1>11 DEF LeaseRefused, rpcVars, callVars
  <2>2. callRes'[c] = "none"
    BY <1>0, <1>1, <1>3, <2>1 DEF InStep
  <2>3. opPc'[c] = "unlock" /\ opErr'[c] # {}
    BY <1>0, <1>5, <1>6, <1>11 DEF LeaseRefused
  <2> QED
    BY <2>2, <2>3 DEF RecordedOf, Late, Unclear
<1>12. CASE StartCall(c)
  <2>1. UNCHANGED opVars /\ opPc[c] = "rpc"
    BY <1>12 DEF StartCall
  <2> QED
    BY <1>4, <2>1 DEF Late, opVars
<1>13. CASE AfterCall(c)
  <2>1. opPc[c] = "rpc" /\ UNCHANGED <<callRes, lease, relOut, hid>>
    BY <1>13 DEF AfterCall, rpcVars, callVars
  <2>2. opErr[c] = {} /\ lease = c
    BY <1>1, <2>1 DEF RecordedOf, Covered
  <2>3. PICK S : /\ Fail(c, S)
                 /\ S = CASE callRes[c] = "ok" -> {}
                          [] callRes[c] = "timeout" -> {"timeout"}
                          [] callRes[c] = "ambiguousTimeout" -> {"timeout", "ambiguous"}
                          [] callRes[c] = "ambiguous" -> {"unreachable", "ambiguous"}
                          [] OTHER -> {"rpc"}
    BY <1>13 DEF AfterCall
  <2>4. opErr'[c] = S
    BY <1>0, <1>6, <2>2, <2>3
  <2>5. (Unclear(c) => "ambiguous" \in S) /\ (S = {} => callRes[c] = "ok") /\ ("ambiguous" \in S => Unclear(c))
    BY <1>2, <2>3 DEF Unclear, CallResults
  <2>6. opPc'[c] = IF "ambiguous" \in S THEN "retire" ELSE "release"
    BY <1>0, <1>5, <1>13, <2>4 DEF AfterCall
  <2> QED
    BY <2>1, <2>2, <2>4, <2>5, <2>6 DEF RecordedOf, Late, Unclear
<1>14. CASE Retire(c)
  <2>1. opPc[c] = "retire" /\ UNCHANGED <<callRes, lease, relOut>> /\ hid' = "closed"
    BY <1>14 DEF Retire, callVars
  <2>2. lease = c /\ (Unclear(c) => "ambiguous" \in opErr[c])
    BY <1>1, <2>1 DEF Covered, RecordedOf, Late
  <2>3. opPc'[c] = "release" /\ opErr'[c] = opErr[c] \cup {"closed"}
    BY <1>0, <1>5, <1>6, <1>14 DEF Retire
  <2> QED
    BY <2>1, <2>2, <2>3 DEF RecordedOf, Late, Unclear
<1>15. CASE ReleaseLease(c)
  <2>1. opPc[c] = "release" /\ opPc'[c] = "result" /\ UNCHANGED <<callRes, opErr, hid>>
    BY <1>0, <1>5, <1>15 DEF ReleaseLease, rpcVars, callVars
  <2>2. relOut'[c] # "none"
    BY <1>0, <1>1, <1>7, <1>15, <2>1 DEF ReleaseLease, RecordedOf
  <2> QED
    BY <1>1, <2>1, <2>2 DEF RecordedOf, Late, Unclear
<1>16. CASE Result(c)
  <2>1. opPc[c] = "result" /\ opPc'[c] = "unlock" /\ UNCHANGED <<callRes, relOut, hid>>
    BY <1>0, <1>5, <1>16 DEF Result, rpcVars, callVars
  <2>2. relOut[c] # "none"
    BY <1>0, <1>1, <2>1 DEF InStep, RecordedOf
  <2> DEFINE released == IF relOut[c] = "unverified" THEN {"unverified"} ELSE {}
  <2>3. opErr'[c] = ScrollResult(c, released)
    BY <1>0, <1>1, <1>16 DEF Result, OpTypes
  <2>4. /\ "ambiguous" \in opErr[c] => "ambiguous" \in opErr'[c]
        /\ "closed" \in opErr[c] => "closed" \in opErr'[c]
        /\ opErr'[c] = {} => opErr[c] = {} /\ released = {}
    BY <2>3 DEF ScrollResult
  <2> QED
    BY <1>1, <1>2, <2>1, <2>2, <2>4 DEF RecordedOf, Late, Unclear
<1>17. CASE Unlock(c)
  <2>1. opPc[c] = "unlock" /\ opPc'[c] = "done" /\ UNCHANGED <<callRes, opErr, relOut, hid>>
    BY <1>0, <1>5, <1>17 DEF Unlock, rpcVars, callVars
  <2> QED
    BY <1>1, <2>1 DEF RecordedOf, Late, Unclear
<1>18. ASSUME NEW d \in Calls, UserContextEnds(d) \/ Tick(d) PROVE RecordedOf(c)'
  BY <1>4, <1>18 DEF UserContextEnds, Tick
<1>19. ASSUME NEW d \in Scrolls, Watchdog(d) PROVE RecordedOf(c)'
  <2>1. /\ UNCHANGED <<opPc, opErr, hid, callRes>> /\ lease = d /\ FreeLease(d)
    BY <1>19 DEF Watchdog, rpcVars, callVars
  <2>2. CASE d # c
    BY <1>0, <1>4, <1>7, <2>1, <2>2
  <2>3. CASE d = c
    <3>1. opPc[c] \in {"rpc", "retire", "release"} /\ relOut'[c] # "none"
      BY <1>0, <1>1, <1>7, <2>1, <2>3 DEF InStep
    <3> QED
      BY <1>1, <2>1, <3>1 DEF RecordedOf, Late, Unclear
  <2> QED
    BY <2>2, <2>3
<1>20. CASE Others
  <2>1. Late(c) => callRes'[c] = callRes[c]
    BY <1>0, <1>1, <1>20 DEF Others, InStep, Late
  <2>2. lease = c => lease' = c
    BY <1>0, <1>20 DEF Others
  <2> QED
    BY <1>4, <1>20, <2>1, <2>2 DEF Others
<1> QED
  BY <1>0, <1>1, <1>8, <1>9, <1>10, <1>11, <1>12, <1>13, <1>14, <1>15, <1>16, <1>17, <1>18, <1>19,
     <1>20, Split DEF Op

-----------------------------------------------------------------------------
\* Everything above, of every behaviour.
LEMMA Invariant == Spec => []IndInv
<1>1. Init => IndInv
  <2> SUFFICES ASSUME Init PROVE IndInv
    OBVIOUS
  <2>1. Len(outQ) = 0 /\ Len(inQ) = 0 /\ Flying = {} /\ Answered(inQ) = {}
    BY DEF Init, RpcInit, Flying, InFlight, Answered
  <2>2. RpcTypes
    BY DEF Init, RpcInit, RpcTypes, CallPcs, CallResults, Outcomes
  <2>3. SentOnce /\ Returned /\ UnambiguousIsSettled
    BY <2>1 DEF Init, RpcInit, SentOnce, Returned, UnambiguousIsSettled
  <2>4. OnePlace /\ Evidence
    BY <2>1 DEF Init, RpcInit, OnePlace, Evidence, Believed, Readers
  <2>5. OpTypes
    BY ScrollAssumption DEF Init, OpTypes, OpPcs, ScrollAssumption
  <2>6. InStep /\ Covered /\ Recorded
    BY RpcAssumption, ScrollAssumption
    DEF Init, RpcInit, InStep, Covered, Recorded, RecordedOf, Late, RpcAssumption, ScrollAssumption
  <2> QED
    BY <2>2, <2>3, <2>4, <2>5, <2>6 DEF IndInv, RpcInv, OpInv
<1>2. IndInv /\ [Next]_vars => IndInv'
  <2> SUFFICES ASSUME IndInv, [Next]_vars PROVE IndInv'
    OBVIOUS
  <2>1. RpcInv'
    BY RpcKept, ScrollMoves DEF IndInv
  <2> QED
    BY <2>1, OpTypesKept, InStepKept, CoveredKept, RecordedKept DEF IndInv, OpInv
<1> QED
  BY <1>1, <1>2, PTL DEF Spec

\* A call that reports anything but an ambiguous delivery left no request behind
\* (rpc.go:68-73).
THEOREM SettledCorrect == Spec => []UnambiguousIsSettled
<1>1. IndInv => UnambiguousIsSettled
  BY DEF IndInv, RpcInv
<1> QED
  BY <1>1, Invariant, PTL

\* The one-slot result channel never blocks the read pump (rpc.go:150-166).
THEOREM PumpCorrect == Spec => []PumpNeverBlocks
<1>1. IndInv => PumpNeverBlocks
  BY DEF IndInv, RpcInv, OnePlace, PumpNeverBlocks
<1> QED
  BY <1>1, Invariant, PTL

\* No waiting call is forgotten by handleMessage or failPending (rpc.go:117-166).
THEOREM ReachableCorrect == Spec => []WaiterIsReachable
<1>1. IndInv => WaiterIsReachable
  BY DEF IndInv, RpcInv, OnePlace, WaiterIsReachable
<1> QED
  BY <1>1, Invariant, PTL

\* No wheel report outlives its lease on a session that can grant another
\* (client.go:250-255, 299-302).
THEOREM WheelCorrect == Spec => []NoWheelUnderOthers
<1>1. IndInv => NoWheelUnderOthers
  <2> SUFFICES ASSUME IndInv, NEW c \in Scrolls, InFlight(c), lease # c PROVE hid = "closed"
    BY DEF NoWheelUnderOthers
  <2>1. /\ OpTypes /\ RpcTypes /\ SentOnce /\ InStep /\ Covered /\ RecordedOf(c) /\ Returned
        /\ UnambiguousIsSettled /\ c \in Calls
    BY ScrollAssumption DEF IndInv, RpcInv, OpInv, Recorded, ScrollAssumption
  <2>2. callPc[c] # "idle" /\ opPc[c] \in OpPcs /\ callRes[c] \in CallResults
    BY <2>1 DEF SentOnce, Flying, OpTypes, RpcTypes
  <2>3. opPc[c] \in {"release", "result", "unlock", "done"}
    BY <2>1, <2>2 DEF InStep, Covered, OpPcs
  <2>4. callPc[c] = "done"
    BY <2>1, <2>2, <2>3 DEF InStep
  <2>5. Unclear(c)
    BY <2>1, <2>2, <2>4 DEF Returned, UnambiguousIsSettled, Unclear, CallResults
  <2> QED
    BY <2>1, <2>3, <2>5 DEF RecordedOf, Late
<1> QED
  BY <1>1, Invariant, PTL

\* What Scroll returns is the truth, also when its context has ended (client.go:321-339).
THEOREM TruthCorrect == Spec => []ScrollIsTruthful
<1>1. IndInv => ScrollIsTruthful
  <2> SUFFICES ASSUME IndInv, NEW c \in Scrolls, opPc[c] = "done"
               PROVE  /\ opErr[c] = {} => c \in taken /\ ~InFlight(c) /\ relOut[c] = "ok"
                      /\ Unclear(c) => {"ambiguous", "closed"} \subseteq opErr[c]
                      /\ InFlight(c) => Unclear(c)
    BY DEF ScrollIsTruthful, Unclear
  <2>1. /\ RpcTypes /\ SentOnce /\ InStep /\ RecordedOf(c) /\ Returned /\ UnambiguousIsSettled /\ c \in Calls
    BY ScrollAssumption DEF IndInv, RpcInv, OpInv, Recorded, ScrollAssumption
  <2>2. callPc[c] \in {"idle", "done"} /\ callRes[c] \in CallResults
    BY <2>1 DEF InStep, RpcTypes
  <2>3. InFlight(c) => Unclear(c)
    BY <2>1, <2>2 DEF SentOnce, Flying, Returned, UnambiguousIsSettled, Unclear, CallResults
  <2>4. opErr[c] = {} => callRes[c] = "ok" /\ relOut[c] = "ok"
    BY <2>1 DEF RecordedOf, Late
  <2>5. Unclear(c) => {"ambiguous", "closed"} \subseteq opErr[c]
    BY <2>1 DEF RecordedOf, Late
  <2> QED
    BY <2>1, <2>3, <2>4, <2>5 DEF UnambiguousIsSettled
<1> QED
  BY <1>1, Invariant, PTL
=============================================================================
