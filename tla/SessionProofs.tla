--------------------------- MODULE SessionProofs ---------------------------
(***************************************************************************)
(* The safety properties of Session, for any candidates, messages and      *)
(* limits: both directions of the trickle, and that Connect only returns a *)
(* connection that works; then that nothing a failed Connect or a Close    *)
(* tore down comes back. SessionInv is the inductive invariant.            *)
(***************************************************************************)
EXTENDS Session, Integers, TLAPS, SequenceTheorems

BeforeOffer == {"auth", "dial", "metadata", "setup", "local", "offer"}
Flushing == {"flush", "flushed"}
Over == {"teardown", "sigClose", "failed", "closing", "closed"}

TypeOK ==
    /\ connPc \in BeforeOffer \cup {"mark"} \cup Flushing \cup Established \cup Over
    /\ ctxDone \in BOOLEAN /\ sessDone \in BOOLEAN
    /\ ws \in {"none", "open", "broken", "closed"}
    /\ peer \in {"none", "new", "connected", "down", "closed"}
    /\ hid \in {"off", "negotiating", "ready", "closed"}
    /\ connected \in BOOLEAN /\ closed \in BOOLEAN
    /\ rpcOpen \in BOOLEAN /\ hidOpen \in BOOLEAN
    /\ gathered \subseteq Local /\ offerOnWire \in BOOLEAN
    /\ queuedLocal \in Seq(Local) /\ flushLocal \in Seq(Local)
    /\ iceHand \in Local \cup {NoCandidate}
    /\ sigOut \in Seq(Local \cup {"offer"}) /\ sigIn \in Seq(Remote \cup Others)
    /\ read \in 0..Len(sigIn)
    /\ pump \in {"off", "run", "stopped"} /\ answerApplied \in BOOLEAN
    /\ pendingRemote \in Seq(Remote) /\ applied \in Seq(Remote) /\ rejected \subseteq Remote
    /\ track \in {"off", "run", "ended"} /\ keyframes \in {"off", "run", "ended"}

\* How far Connect is says what is open, and what has been ready.
StageOK ==
    /\ connPc \in {"auth", "dial", "metadata", "setup"} =>
         peer = "none" /\ ~connected /\ gathered = {}
    /\ peer = "none" => ~closed /\ hid = "off"
    /\ peer \in {"new", "none"} => ~connected
    /\ peer = "down" => closed
    /\ closed => hid \in {"off", "closed"}
    /\ sessDone \/ peer = "closed" => connPc \in Over \ {"teardown"}
    /\ connPc \in {"waitRpc", "waitHid", "handshake"} => connected
    /\ connPc \in {"waitHid", "handshake"} => rpcOpen
    /\ connPc = "handshake" => hidOpen

\* The offer is the first message, and candidates pass only behind it.
OfferOK ==
    /\ connPc \in BeforeOffer => sigOut = <<>>
    /\ connPc \in BeforeOffer \cup {"mark"} => ~offerOnWire
    /\ connPc \in Flushing \cup Established => offerOnWire
    /\ connPc = "mark" \/ offerOnWire => sigOut # <<>>
    /\ offerOnWire => queuedLocal = <<>>
    /\ ~offerOnWire => iceHand = NoCandidate /\ flushLocal = <<>>
    /\ connPc \in Established => flushLocal = <<>>
    /\ sigOut # <<>> => sigOut[1] = "offer"
    /\ \A n \in 2..Len(sigOut) : sigOut[n] \in Local

\* A local candidate is in one place at most, and there once.
PlaceOK ==
    /\ IsInjective(sigOut) /\ IsInjective(queuedLocal) /\ IsInjective(flushLocal)
    /\ Range(sigOut) \subseteq gathered \cup {"offer"}
    /\ Range(queuedLocal) \subseteq gathered /\ Range(flushLocal) \subseteq gathered
    /\ iceHand \in gathered \cup {NoCandidate}
    /\ Range(queuedLocal) \cap Range(sigOut) = {} /\ Range(flushLocal) \cap Range(sigOut) = {}
    /\ iceHand # NoCandidate => iceHand \notin Range(sigOut) \cup Range(flushLocal)

\* ... and, until Connect fails or Close begins, in one at least.
NoneLost ==
    connPc \notin Over /\ ws = "open" =>
        gathered \subseteq Range(sigOut) \cup Range(queuedLocal) \cup Range(flushLocal) \cup {iceHand}

\* The device sends nothing twice.
ArrivalsOK == IsInjective(sigIn) /\ rejected \subseteq Arrived

\* What is left of a connection that was given up or closed.
DownOK ==
    /\ connPc \in {"auth", "dial"} => ws = "none"
    /\ connPc \in {"sigClose", "closing", "failed", "closed"} =>
         peer \in {"none", "closed"} /\ hid \in {"off", "closed"}
    /\ connPc \in {"failed", "closed"} => ws # "open"
    /\ peer = "closed" => sessDone
    /\ peer = "none" => track = "off" /\ keyframes = "off"

\* When Connect has failed or Close has returned, the websocket, the peer connection
\* and the HID channel are down at once, and whichever goroutine still runs has what
\* ends it: the pump its websocket, the reader of the track its connection, the
\* keyframe requests the session's context.
TornDown ==
    connPc \in {"failed", "closed"} =>
        /\ ws # "open" /\ peer \in {"none", "closed"} /\ hid \in {"off", "closed"}
        /\ track = "run" => peer = "closed"
        /\ keyframes = "run" => sessDone

\* ... and no late callback brings anything back: what OnTrack may still start finds the
\* connection closed and the session over.
StaysDown ==
    connPc \in {"failed", "closed"} =>
        /\ connPc' = connPc /\ peer' = peer
        /\ pump' = "run" => pump = "run"
        /\ ~(track = "run") /\ track' = "run" => peer = "closed" /\ sessDone

SessionInv ==
    TypeOK /\ StageOK /\ OfferOK /\ PlaceOK /\ NoneLost /\ ArrivalsOK /\ RemoteTrickle /\ DownOK

-----------------------------------------------------------------------------
(***************************************************************************)
(* Types.                                                                  *)
(***************************************************************************)

\* What Append does to the length, the elements and the range.
LEMMA Appended ==
    ASSUME NEW S, NEW q \in Seq(S), NEW e \in S
    PROVE  /\ Append(q, e) \in Seq(S) /\ Append(q, e) # q /\ Append(q, e) # <<>>
           /\ Range(Append(q, e)) = Range(q) \cup {e}
           /\ Append(q, e)[1] = IF q = <<>> THEN e ELSE q[1]
           /\ IsInjective(q) /\ e \notin Range(q) => IsInjective(Append(q, e))
<1>1. /\ Append(q, e) \in Seq(S) /\ Len(Append(q, e)) = Len(q) + 1 /\ Len(q) \in Nat
      /\ \A n \in 1..Len(q) : Append(q, e)[n] = q[n]
      /\ Append(q, e)[Len(q) + 1] = e
      /\ DOMAIN q = 1..Len(q) /\ DOMAIN Append(q, e) = 1..(Len(q) + 1)
  OBVIOUS
<1>2. \A n \in 1..(Len(q) + 1) : n = Len(q) + 1 \/ n \in 1..Len(q)
  BY <1>1
<1>3. Range(Append(q, e)) = Range(q) \cup {e}
  BY <1>1, <1>2 DEF Range
<1>4. Append(q, e)[1] = IF q = <<>> THEN e ELSE q[1]
  BY <1>1
<1>5. ASSUME IsInjective(q), e \notin Range(q)
      PROVE  IsInjective(Append(q, e))
  <2> SUFFICES ASSUME NEW a \in 1..(Len(q) + 1), NEW b \in 1..(Len(q) + 1),
                      Append(q, e)[a] = Append(q, e)[b]
               PROVE  a = b
    BY <1>1 DEF IsInjective
  <2>1. \A n \in 1..Len(q) : q[n] # e
    BY <1>1, <1>5 DEF Range
  <2>2. \A n, k \in 1..Len(q) : q[n] = q[k] => n = k
    BY <1>1, <1>5 DEF IsInjective
  <2> QED
    BY <1>1, <1>2, <2>1, <2>2
<1>6. Append(q, e) # q /\ Append(q, e) # <<>>
  <2>1. Append(q, e) # <<>>
    BY AppendProperties
  <2>2. \A n \in Nat : n + 1 # n
    OBVIOUS
  <2>3. Len(Append(q, e)) # Len(q)
    BY <1>1, <2>2, Zenon
  <2> QED
    BY <2>1, <2>3
<1> QED
  BY <1>1, <1>3, <1>4, <1>5, <1>6

\* What Tail does to a sequence without repetitions.
LEMMA Taken ==
    ASSUME NEW S, NEW q \in Seq(S), q # <<>>
    PROVE  /\ Tail(q) \in Seq(S) /\ Head(q) \in S /\ Head(q) \in Range(q)
           /\ Range(q) = Range(Tail(q)) \cup {Head(q)}
           /\ IsInjective(q) => IsInjective(Tail(q)) /\ Head(q) \notin Range(Tail(q))
<1>1. /\ Tail(q) \in Seq(S) /\ Len(q) \in Nat \ {0} /\ Len(Tail(q)) = Len(q) - 1
      /\ Head(q) = q[1] /\ Head(q) \in S
      /\ \A n \in 1..(Len(q) - 1) : Tail(q)[n] = q[n + 1]
      /\ DOMAIN q = 1..Len(q) /\ DOMAIN Tail(q) = 1..(Len(q) - 1)
  OBVIOUS
<1>2. \A n \in 1..Len(q) : n = 1 \/ (n - 1 \in 1..(Len(q) - 1) /\ (n - 1) + 1 = n)
  BY <1>1
<1>3. \A n \in 1..(Len(q) - 1) : n + 1 \in 1..Len(q) /\ n + 1 # 1
  BY <1>1
<1>4. 1 \in 1..Len(q)
  BY <1>1
<1>5. Range(q) = Range(Tail(q)) \cup {Head(q)}
  <2>1. \A n \in 1..Len(q) : q[n] = Head(q) \/ q[n] = Tail(q)[n - 1]
    BY <1>1, <1>2
  <2>3. Range(q) \subseteq Range(Tail(q)) \cup {Head(q)}
    <3> SUFFICES ASSUME NEW n \in 1..Len(q), q[n] # Head(q) PROVE q[n] \in Range(Tail(q))
      BY <1>1 DEF Range
    <3>1. n - 1 \in 1..(Len(q) - 1) /\ q[n] = Tail(q)[n - 1]
      BY <1>1, <1>2, <2>1
    <3> QED
      BY <1>1, <3>1 DEF Range
  <2>2. Range(Tail(q)) \cup {Head(q)} \subseteq Range(q)
    BY <1>1, <1>3, <1>4 DEF Range
  <2> QED
    BY <2>2, <2>3
<1>6. ASSUME IsInjective(q) PROVE IsInjective(Tail(q)) /\ Head(q) \notin Range(Tail(q))
  BY <1>1, <1>3, <1>4, <1>6 DEF Range, IsInjective
<1> QED
  BY <1>1, <1>5, <1>6

\* A queue that was never written holds nothing, and nothing twice.
LEMMA NothingIn == Range(<<>>) = {} /\ IsInjective(<<>>)
  BY DEF Range, IsInjective

\* Write puts its message behind the others, or breaks or finds broken the websocket.
LEMMA Written ==
    ASSUME TypeOK, NEW m \in Local \cup {"offer"}, NEW done \in BOOLEAN,
           Write(m, done)
    PROVE  \/ ws = "open" /\ UNCHANGED ws /\ sigOut' = Append(sigOut, m)
           \/ (ws # "open" \/ done) /\ ws' \in {ws, "broken"} /\ UNCHANGED sigOut
              /\ (ws # "open" => UNCHANGED ws)
  BY DEF TypeOK, Write

\* ... which keeps what was sent a sequence of candidates and offers.
LEMMA SentType ==
    ASSUME TypeOK, NEW m \in Local \cup {"offer"}
    PROVE  Append(sigOut, m) \in Seq(Local \cup {"offer"}) /\ Append(sigOut, m) # sigOut
<1>1. sigOut \in Seq(Local \cup {"offer"})
  BY DEF TypeOK
<1> QED
  BY <1>1, Appended

\* Init is well typed.
LEMMA TypeInit == Init => TypeOK
<1>1. Len(<<>>) = 0 /\ 0 \in 0..0
  OBVIOUS
<1>2. /\ <<>> \in Seq(Local) /\ <<>> \in Seq(Remote)
      /\ <<>> \in Seq(Local \cup {"offer"}) /\ <<>> \in Seq(Remote \cup Others)
  OBVIOUS
<1> QED
  BY <1>1, <1>2 DEF Init, TypeOK, BeforeOffer, Over, Established, Flushing

\* The pump's step keeps what it collects a sequence of the device's candidates.
LEMMA PumpReadType ==
    ASSUME TypeOK, PumpRead
    PROVE  TypeOK'
<1> USE SessionAssumption DEF SessionAssumption
<1> DEFINE m == sigIn[read + 1]
<1>1. read + 1 \in 1..Len(sigIn) /\ m \in Remote \cup Others
  BY DEF PumpRead, TypeOK
<1>2. /\ answerApplied' \in BOOLEAN /\ pendingRemote' \in Seq(Remote)
      /\ applied' \in Seq(Remote) /\ rejected' \subseteq Remote
  <2>1. CASE m \in {"answer", "badAnswer"}
    <3>1. HandleAnswer(m)
      BY <2>1 DEF PumpRead
    <3>2. applied \o pendingRemote \in Seq(Remote) /\ <<>> \in Seq(Remote)
      BY ConcatProperties DEF TypeOK
    <3> QED
      BY <3>1, <3>2 DEF HandleAnswer, TypeOK
  <2>2. CASE m \notin {"answer", "badAnswer"} /\ m \in Remote
    <3>1. HandleCandidate(m)
      BY <2>2 DEF PumpRead
    <3>2. /\ Append(applied, m) \in Seq(Remote) /\ Append(pendingRemote, m) \in Seq(Remote)
      BY <2>2, Appended DEF TypeOK
    <3> QED
      BY <2>2, <3>1, <3>2 DEF HandleCandidate, AddICECandidate, TypeOK
  <2>3. CASE m \notin {"answer", "badAnswer"} /\ m \notin Remote
    BY <2>3 DEF PumpRead, TypeOK
  <2> QED
    BY <2>1, <2>2, <2>3
<1>3. read' \in 0..Len(sigIn') /\ pump' \in {"off", "run", "stopped"}
  BY <1>1 DEF PumpRead, AfterMessage, TypeOK
<1> QED
  BY <1>2, <1>3 DEF PumpRead, TypeOK, connVars, readyVars, localVars, trackVars

\* Every step leaves every variable of its type.
LEMMA TypeStep == TypeOK /\ [Next]_vars => TypeOK'
<1> SUFFICES ASSUME TypeOK, [Next]_vars PROVE TypeOK'
  OBVIOUS
<1> USE DEF TypeOK, connVars, readyVars, localVars, pumpVars, trackVars, Goto, BeforeOffer,
            Flushing, Over, Established
<1>1. CASE Authenticate
  BY <1>1 DEF Authenticate
<1>2. CASE DialSignaling
  BY <1>2 DEF DialSignaling
<1>3. CASE CheckDeviceMetadata
  BY <1>3 DEF CheckDeviceMetadata
<1>4. CASE SetUp
  <2>1. hidOpen' \in BOOLEAN
    BY <1>4, Zenon DEF SetUp
  <2>2. hid' \in {"off", "negotiating", "ready", "closed"} /\ peer' \in {peer, "new"}
    BY <1>4 DEF SetUp
  <2>3. connPc' \in {"sigClose", "local", "teardown"} /\ UNCHANGED ctxDone
    BY <1>4 DEF SetUp
  <2> QED
    BY <1>4, <2>1, <2>2, <2>3 DEF SetUp
<1>5. CASE SetLocalDescription
  BY <1>5 DEF SetLocalDescription
<1>6. CASE SendOffer
  <2>1. sigOut' \in {sigOut, Append(sigOut, "offer")} /\ ws' \in {"none", "open", "broken", "closed"}
    BY <1>6, Written DEF SendOffer
  <2>2. sigOut' \in Seq(Local \cup {"offer"})
    BY <2>1, SentType
  <2> QED
    BY <1>6, <2>1, <2>2 DEF SendOffer
<1>7. CASE MarkOffer
  <2>1. <<>> \in Seq(Local)
    OBVIOUS
  <2> QED
    BY <1>7, <2>1 DEF MarkOffer
<1>8. CASE FlushLocal
  <2>1. Head(flushLocal) \in Local /\ Tail(flushLocal) \in Seq(Local)
    BY <1>8, Taken DEF FlushLocal
  <2>2. /\ sigOut' \in {sigOut, Append(sigOut, Head(flushLocal))}
        /\ ws' \in {"none", "open", "broken", "closed"}
    BY <1>8, <2>1, Written DEF FlushLocal
  <2>3. sigOut' \in Seq(Local \cup {"offer"})
    BY <2>1, <2>2, SentType
  <2> QED
    BY <1>8, <2>1, <2>2, <2>3 DEF FlushLocal
<1>9. CASE FlushChecked
  BY <1>9 DEF FlushChecked
<1>10. CASE StartPump
  BY <1>10 DEF StartPump
<1>11. CASE WaitReadiness
  BY <1>11 DEF WaitReadiness, WaitFor
<1>12. CASE HandshakeFailed
  BY <1>12 DEF HandshakeFailed
<1>13. CASE TearDown
  BY <1>13 DEF TearDown, SessionClose, CloseHid
<1>14. CASE SigClose
  BY <1>14 DEF SigClose
<1>15. CASE HandshakeEchoed
  BY <1>15 DEF HandshakeEchoed
<1>16. CASE Close
  BY <1>16 DEF Close, SessionClose, CloseHid
<1>17. ASSUME NEW c \in Local, OnICECandidate(c) PROVE TypeOK'
  <2>1. Append(queuedLocal, c) \in Seq(Local)
    BY Appended
  <2>2. queuedLocal' \in Seq(Local) /\ iceHand' \in Local \cup {NoCandidate}
    BY <1>17, <2>1 DEF OnICECandidate
  <2> QED
    BY <1>17, <2>2 DEF OnICECandidate
<1>18. CASE Trickle
  <2>1. iceHand \in Local
    BY <1>18 DEF Trickle
  <2>2. sigOut' \in {sigOut, Append(sigOut, iceHand)} /\ ws' \in {"none", "open", "broken", "closed"}
    BY <1>18, <2>1, Written DEF Trickle
  <2>3. sigOut' \in Seq(Local \cup {"offer"})
    BY <2>1, <2>2, SentType
  <2> QED
    BY <1>18, <2>2, <2>3 DEF Trickle
<1>19. CASE PumpRead
  BY <1>19, PumpReadType
<1>20. CASE PumpStop
  BY <1>20 DEF PumpStop
<1>21. CASE TrackEnds \/ KeyframesEnd
  BY <1>21 DEF TrackEnds, KeyframesEnd
<1>22. CASE PeerConnected
  BY <1>22 DEF PeerConnected
<1>23. CASE PeerLost
  BY <1>23 DEF PeerLost, CloseHid
<1>24. CASE ChannelOpens
  <2>1. rpcOpen' \in BOOLEAN /\ hidOpen' \in BOOLEAN
    BY <1>24 DEF ChannelOpens
  <2> QED
    BY <1>24, <2>1 DEF ChannelOpens
<1>25. CASE HidChannelLost
  BY <1>25 DEF HidChannelLost
<1>26. CASE OnTrack
  BY <1>26 DEF OnTrack
<1>27. CASE DeviceSends
  <2>1. PICK m \in Remote \cup Others : sigIn' = Append(sigIn, m)
    BY <1>27 DEF DeviceSends
  <2>2. sigIn' \in Seq(Remote \cup Others) /\ read \in 0..Len(sigIn')
    BY <2>1, AppendProperties
  <2> QED
    BY <1>27, <2>2 DEF DeviceSends
<1>28. CASE WebsocketBreaks
  BY <1>28 DEF WebsocketBreaks
<1>29. CASE ContextEnds
  BY <1>29 DEF ContextEnds
<1>30. CASE UNCHANGED vars
  BY <1>30 DEF vars
<1> QED
  BY <1>1, <1>2, <1>3, <1>4, <1>5, <1>6, <1>7, <1>8, <1>9, <1>10, <1>11, <1>12, <1>13, <1>14,
     <1>15, <1>16, <1>17, <1>18, <1>19, <1>20, <1>21, <1>22, <1>23, <1>24, <1>25, <1>26, <1>27,
     <1>28, <1>29, <1>30
  DEF Next, Connect, Pump

-----------------------------------------------------------------------------
(***************************************************************************)
(* The stages of Connect.                                                  *)
(***************************************************************************)

\* The pump, the websocket, the track and the local candidates do not touch what
\* readiness is about.
LEMMA Aside ==
    ASSUME \/ Trickle \/ PumpRead \/ PumpStop \/ TrackEnds \/ KeyframesEnd \/ OnTrack
           \/ DeviceSends \/ WebsocketBreaks
    PROVE  UNCHANGED <<connVars, peer, sessDone, hid, readyVars, gathered>>
  BY DEF Trickle, PumpRead, PumpStop, TrackEnds, KeyframesEnd, OnTrack, DeviceSends,
         WebsocketBreaks, connVars, readyVars, localVars

\* What has been ready is known at every stage, and only session.close and the loss of the
\* connection take it back.
LEMMA StageStep == TypeOK /\ StageOK /\ [Next]_vars => StageOK'
<1> SUFFICES ASSUME TypeOK, StageOK, [Next]_vars PROVE StageOK'
  OBVIOUS
<1> USE DEF StageOK, connVars, readyVars, localVars, Goto, Over
<1>1. CASE Authenticate \/ DialSignaling \/ CheckDeviceMetadata
  BY <1>1 DEF Authenticate, DialSignaling, CheckDeviceMetadata
<1>2. CASE SetUp
  BY <1>2 DEF SetUp
<1>3. CASE SetLocalDescription \/ SendOffer \/ MarkOffer \/ FlushLocal \/ FlushChecked \/ StartPump
  BY <1>3 DEF SetLocalDescription, SendOffer, MarkOffer, FlushLocal, FlushChecked, StartPump
<1>4. CASE WaitReadiness
  BY <1>4 DEF WaitReadiness, WaitFor, Ready, NotReady
<1>5. CASE HandshakeEchoed \/ HandshakeFailed
  BY <1>5 DEF HandshakeEchoed, HandshakeFailed
<1>6. CASE TearDown \/ Close
  BY <1>6 DEF TearDown, Close, SessionClose, CloseHid
<1>7. CASE SigClose
  BY <1>7 DEF SigClose
<1>8. ASSUME NEW c \in Local, OnICECandidate(c) PROVE StageOK'
  BY <1>8 DEF OnICECandidate
<1>9. CASE PeerConnected \/ ChannelOpens \/ HidChannelLost
  BY <1>9 DEF PeerConnected, ChannelOpens, HidChannelLost
<1>10. CASE PeerLost
  BY <1>10 DEF PeerLost, CloseHid
<1>11. CASE ContextEnds
  BY <1>11 DEF ContextEnds
<1>12. CASE UNCHANGED <<connVars, peer, sessDone, hid, readyVars, gathered>>
  BY <1>12
<1>13. CASE UNCHANGED vars
  BY <1>13 DEF vars
<1> QED
  BY <1>1, <1>2, <1>3, <1>4, <1>5, <1>6, <1>7, <1>8, <1>9, <1>10, <1>11, <1>12, <1>13, Aside
  DEF Next, Connect, Pump

\* Connect succeeds only from a connection that is up, channels that have opened and a HID
\* client that works (session.go:333-336), whatever went up or down between its waits.
LEMMA ReturnStep ==
    ASSUME TypeOK, StageOK, Next, connPc # "ok", connPc' = "ok"
    PROVE  peer = "connected" /\ rpcOpen /\ hidOpen /\ hid' \in {"off", "ready"}
<1>1. CASE WaitReadiness
  BY <1>1 DEF WaitReadiness, WaitFor, Ready, NotReady, Goto, StageOK, TypeOK, Over
<1>2. CASE HandshakeEchoed
  BY <1>2 DEF HandshakeEchoed, StageOK, TypeOK, Over
<1>3. CASE ~WaitReadiness /\ ~HandshakeEchoed
  <2>1. connPc' # "ok" \/ UNCHANGED connPc
    BY <1>3, Aside
    DEF Next, Connect, Pump, Authenticate, DialSignaling, CheckDeviceMetadata, SetUp,
        SetLocalDescription, SendOffer, MarkOffer, FlushLocal, FlushChecked, StartPump,
        HandshakeFailed, TearDown, Close, SigClose, OnICECandidate, PeerConnected, PeerLost,
        ChannelOpens, HidChannelLost, ContextEnds, Goto, connVars
  <2> QED
    BY <2>1
<1> QED
  BY <1>1, <1>2, <1>3

-----------------------------------------------------------------------------
(***************************************************************************)
(* Local candidates.                                                       *)
(***************************************************************************)

\* What every other step leaves alone, and how far it may take Connect.
LEMMA LocalAside ==
    ASSUME TypeOK, Next, ~SendOffer, ~MarkOffer, ~FlushLocal, ~Trickle,
           \A c \in Local : ~OnICECandidate(c)
    PROVE  /\ UNCHANGED <<localVars, sigOut>>
           /\ connPc' \in BeforeOffer => connPc \in BeforeOffer
           /\ connPc' = "mark" => connPc = "mark"
           /\ connPc' \in Flushing \cup Established => connPc \in Flushing \cup Established
           /\ connPc' \in Established => connPc \in Established \/ flushLocal = <<>>
           /\ connPc \in Over => connPc' \in Over
           /\ ws' = "open" => ws = "open" \/ connPc = "dial"
<1> USE DEF connVars, localVars, Goto, BeforeOffer, Flushing, Established, Over
<1>1. CASE \/ Authenticate \/ DialSignaling \/ CheckDeviceMetadata \/ SetUp \/ SetLocalDescription
  BY <1>1 DEF Authenticate, DialSignaling, CheckDeviceMetadata, SetUp, SetLocalDescription
<1>2. CASE FlushChecked \/ StartPump
  BY <1>2 DEF FlushChecked, StartPump
<1>3. CASE WaitReadiness
  BY <1>3 DEF WaitReadiness, WaitFor
<1>4. CASE HandshakeEchoed \/ HandshakeFailed \/ TearDown \/ Close \/ SigClose
  BY <1>4 DEF HandshakeEchoed, HandshakeFailed, TearDown, Close, SigClose
<1>5. CASE \/ PumpRead \/ PumpStop \/ TrackEnds \/ KeyframesEnd \/ OnTrack \/ DeviceSends
           \/ WebsocketBreaks
  BY <1>5 DEF PumpRead, PumpStop, TrackEnds, KeyframesEnd, OnTrack, DeviceSends, WebsocketBreaks
<1>6. CASE PeerConnected \/ PeerLost \/ ChannelOpens \/ HidChannelLost \/ ContextEnds
  BY <1>6 DEF PeerConnected, PeerLost, ChannelOpens, HidChannelLost, ContextEnds
<1> QED
  BY <1>1, <1>2, <1>3, <1>4, <1>5, <1>6 DEF Next, Connect, Pump

\* What SendOffer does.
LEMMA Offered ==
    ASSUME TypeOK, OfferOK, SendOffer
    PROVE  /\ connPc = "offer" /\ UNCHANGED localVars
           /\ \/ connPc' = "mark" /\ sigOut' = <<"offer">>
              \/ connPc' = "teardown" /\ UNCHANGED sigOut
<1>1. connPc = "offer" /\ UNCHANGED localVars /\ Write("offer", ctxDone)
  BY DEF SendOffer
<1>2. sigOut = <<>>
  BY <1>1 DEF OfferOK, BeforeOffer
<1>3. ctxDone \in BOOLEAN /\ "offer" \in Local \cup {"offer"}
  BY DEF TypeOK
<1>4. CASE sigOut' = Append(sigOut, "offer")
  <2>1. sigOut' = <<"offer">>
    BY <1>2, <1>4
  <2>2. sigOut' # sigOut
    BY <1>2, <2>1
  <2> QED
    BY <1>1, <2>1, <2>2 DEF SendOffer, Goto
<1>5. CASE UNCHANGED sigOut
  BY <1>1, <1>5 DEF SendOffer, Goto
<1> QED
  BY <1>1, <1>3, <1>4, <1>5, Written

\* What FlushLocal does to the candidate it takes, and where it leads.
LEMMA Flushed ==
    ASSUME TypeOK, FlushLocal
    PROVE  /\ connPc = "flush" /\ flushLocal # <<>> /\ flushLocal' = Tail(flushLocal)
           /\ UNCHANGED <<gathered, offerOnWire, queuedLocal, iceHand>>
           /\ Head(flushLocal) \in Local
           /\ \/ connPc' = "flushed" /\ sigOut' = Append(sigOut, Head(flushLocal)) /\ UNCHANGED ws
              \/ connPc' = "teardown" /\ UNCHANGED sigOut
<1>1. /\ connPc = "flush" /\ flushLocal # <<>> /\ flushLocal' = Tail(flushLocal)
      /\ UNCHANGED <<gathered, offerOnWire, queuedLocal, iceHand>>
  BY DEF FlushLocal
<1>2. Head(flushLocal) \in Local /\ Head(flushLocal) \in Local \cup {"offer"}
  BY <1>1, Taken DEF TypeOK
<1>3. Append(sigOut, Head(flushLocal)) # sigOut
  BY <1>2, SentType
<1>4. \/ sigOut' = Append(sigOut, Head(flushLocal)) /\ UNCHANGED ws
      \/ UNCHANGED sigOut
  <2>1. CASE ctxDone
    BY <2>1 DEF FlushLocal
  <2>2. CASE ~ctxDone
    <3>1. Write(Head(flushLocal), ctxDone) /\ ctxDone \in BOOLEAN
      BY <2>2 DEF FlushLocal, TypeOK
    <3> QED
      BY <1>2, <3>1, Written
  <2> QED
    BY <2>1, <2>2
<1> QED
  BY <1>1, <1>2, <1>3, <1>4 DEF FlushLocal, Goto

\* What Trickle does to the candidate in the hands of OnICECandidate.
LEMMA Trickled ==
    ASSUME TypeOK, Trickle
    PROVE  /\ iceHand \in Local /\ iceHand' = NoCandidate
           /\ UNCHANGED <<connPc, gathered, offerOnWire, queuedLocal, flushLocal>>
           /\ \/ sigOut' = Append(sigOut, iceHand) /\ UNCHANGED ws
              \/ UNCHANGED sigOut /\ ((ws # "open" /\ ws' # "open") \/ sessDone)
<1>1. iceHand \in Local /\ iceHand \in Local \cup {"offer"} /\ sessDone \in BOOLEAN
  BY DEF Trickle, TypeOK
<1>2. Write(iceHand, sessDone)
  BY DEF Trickle
<1> QED
  BY <1>1, <1>2, Written DEF Trickle, connVars

\* A candidate behind the offer leaves the offer first and everything behind it a candidate.
LEMMA Behind ==
    ASSUME TypeOK, NEW c \in Local, sigOut # <<>>, sigOut[1] = "offer",
           \A n \in 2..Len(sigOut) : sigOut[n] \in Local
    PROVE  LET out == Append(sigOut, c)
           IN  out # <<>> /\ out[1] = "offer" /\ \A n \in 2..Len(out) : out[n] \in Local
<1> DEFINE out == Append(sigOut, c)
<1>1. sigOut \in Seq(Local \cup {"offer"}) /\ c \in Local \cup {"offer"}
  BY DEF TypeOK
<1>2. /\ Len(out) = Len(sigOut) + 1 /\ Len(sigOut) \in Nat
      /\ \A n \in 1..Len(sigOut) : out[n] = sigOut[n]
      /\ out[Len(sigOut) + 1] = c
  BY <1>1, AppendProperties
<1>3. out # <<>> /\ out[1] = "offer"
  BY <1>1, Appended
<1>4. \A n \in 2..(Len(sigOut) + 1) : n = Len(sigOut) + 1 \/ (n \in 2..Len(sigOut) /\ n \in 1..Len(sigOut))
  BY <1>2
<1> HIDE DEF out
<1>5. \A n \in 2..Len(out) : out[n] \in Local
  BY <1>2, <1>4
<1> QED
  BY <1>3, <1>5 DEF out

\* No candidate reaches the wire ahead of the offer (session.go:234-240).
LEMMA OfferStep == TypeOK /\ OfferOK /\ [Next]_vars => OfferOK'
<1> SUFFICES ASSUME TypeOK, OfferOK, [Next]_vars PROVE OfferOK'
  OBVIOUS
<1> USE SessionAssumption DEF SessionAssumption, BeforeOffer, Flushing, Established, Over
<1>1. CASE SendOffer
  <2>1. \/ connPc' = "mark" /\ sigOut' = <<"offer">>
        \/ connPc' = "teardown" /\ sigOut' = <<>>
    BY <1>1, Offered DEF OfferOK
  <2>2. connPc = "offer" /\ UNCHANGED localVars
    BY <1>1, Offered
  <2>3. /\ <<"offer">> # <<>> /\ Len(<<"offer">>) = 1 /\ <<"offer">>[1] = "offer"
        /\ Len(<<>>) = 0
    OBVIOUS
  <2>4. \A n \in 2..Len(sigOut') : FALSE
    <3>1. Len(sigOut') \in {0, 1}
      BY <2>1, <2>3
    <3>2. \A k \in {0, 1} : \A n \in 2..k : FALSE
      OBVIOUS
    <3> QED
      BY <3>1, <3>2
  <2> QED
    BY <2>1, <2>2, <2>3, <2>4 DEF OfferOK, localVars
<1>2. CASE MarkOffer
  BY <1>2 DEF MarkOffer, OfferOK, Goto
<1>3. CASE FlushLocal
  <2>1. offerOnWire /\ sigOut # <<>> /\ sigOut[1] = "offer"
    BY <1>3, Flushed DEF OfferOK
  <2>2. /\ sigOut' # <<>> /\ sigOut'[1] = "offer"
        /\ \A n \in 2..Len(sigOut') : sigOut'[n] \in Local
    BY <1>3, <2>1, Flushed, Behind DEF OfferOK
  <2> QED
    BY <1>3, <2>1, <2>2, Flushed DEF OfferOK
<1>4. CASE Trickle
  <2>1. offerOnWire /\ sigOut # <<>> /\ sigOut[1] = "offer"
    BY <1>4, Trickled DEF OfferOK
  <2>2. /\ sigOut' # <<>> /\ sigOut'[1] = "offer"
        /\ \A n \in 2..Len(sigOut') : sigOut'[n] \in Local
    BY <1>4, <2>1, Trickled, Behind DEF OfferOK
  <2> QED
    BY <1>4, <2>1, <2>2, Trickled DEF OfferOK
<1>5. ASSUME NEW c \in Local, OnICECandidate(c) PROVE OfferOK'
  BY <1>5 DEF OnICECandidate, OfferOK, connVars
<1>6. CASE /\ UNCHANGED <<localVars, sigOut>>
           /\ connPc' \in BeforeOffer => connPc \in BeforeOffer
           /\ connPc' = "mark" => connPc = "mark"
           /\ connPc' \in Flushing \cup Established => connPc \in Flushing \cup Established
           /\ connPc' \in Established => connPc \in Established \/ flushLocal = <<>>
  BY <1>6 DEF OfferOK, localVars
<1>7. CASE UNCHANGED vars
  BY <1>7 DEF OfferOK, vars, connVars, localVars
<1> QED
  BY <1>1, <1>2, <1>3, <1>4, <1>5, <1>6, <1>7, LocalAside

\* Queue, flush, hand and wire never hold the same candidate twice.
LEMMA PlaceStep == TypeOK /\ OfferOK /\ PlaceOK /\ [Next]_vars => PlaceOK'
<1> SUFFICES ASSUME TypeOK, OfferOK, PlaceOK, [Next]_vars PROVE PlaceOK'
  OBVIOUS
<1> USE SessionAssumption DEF SessionAssumption
<1>1. /\ sigOut \in Seq(Local \cup {"offer"}) /\ queuedLocal \in Seq(Local)
      /\ flushLocal \in Seq(Local) /\ gathered \subseteq Local
  BY DEF TypeOK
<1>2. CASE SendOffer
  <2>1. connPc = "offer" /\ UNCHANGED localVars
    BY <1>2, Offered
  <2>2. flushLocal = <<>> /\ iceHand = NoCandidate
    BY <2>1 DEF OfferOK, BeforeOffer
  <2>3. sigOut' \in {<<"offer">>, <<>>}
    BY <1>2, <2>1, Offered DEF OfferOK, BeforeOffer
  <2>4. IsInjective(sigOut') /\ Range(sigOut') \subseteq {"offer"}
    BY <2>3 DEF IsInjective, Range
  <2>5. "offer" \notin Local /\ NoCandidate \notin Local
    OBVIOUS
  <2> QED
    BY <1>1, <2>1, <2>2, <2>4, <2>5, NothingIn DEF PlaceOK, localVars
<1>3. CASE MarkOffer
  <2>1. flushLocal' = queuedLocal /\ queuedLocal' = <<>> /\ UNCHANGED <<gathered, iceHand, sigOut>>
    BY <1>3 DEF MarkOffer
  <2>2. iceHand = NoCandidate
    BY <1>3 DEF MarkOffer, OfferOK, BeforeOffer
  <2> QED
    BY <2>1, <2>2, NothingIn DEF PlaceOK
<1>4. CASE FlushLocal
  <2> DEFINE c == Head(flushLocal)
  <2>1. /\ c \in Local /\ c \in Range(flushLocal) /\ IsInjective(flushLocal')
        /\ Range(flushLocal) = Range(flushLocal') \cup {c} /\ c \notin Range(flushLocal')
    <3>1. /\ flushLocal # <<>> /\ flushLocal' = Tail(flushLocal) /\ IsInjective(flushLocal)
          /\ c \in Local
      BY <1>4, Flushed DEF PlaceOK
    <3> QED
      BY <1>1, <3>1, Taken
  <2>2. UNCHANGED <<gathered, queuedLocal, iceHand>> /\ queuedLocal = <<>>
    BY <1>4, Flushed DEF OfferOK, Flushing
  <2>3. \/ UNCHANGED sigOut
        \/ IsInjective(sigOut') /\ Range(sigOut') = Range(sigOut) \cup {c}
    <3>1. c \notin Range(sigOut) /\ c \in Local \cup {"offer"}
      BY <2>1 DEF PlaceOK
    <3>2. IsInjective(sigOut)
      BY DEF PlaceOK
    <3>3. /\ IsInjective(Append(sigOut, c))
          /\ Range(Append(sigOut, c)) = Range(sigOut) \cup {c}
      BY <1>1, <3>1, <3>2, Appended
    <3> QED
      BY <1>4, <3>3, Flushed
  <2>4. c # iceHand
    BY <2>1 DEF PlaceOK
  <2> HIDE DEF c
  <2> QED
    BY <2>1, <2>2, <2>3, <2>4, NothingIn DEF PlaceOK
<1>5. CASE Trickle
  <2>1. /\ iceHand \in Local /\ iceHand' = NoCandidate
        /\ UNCHANGED <<gathered, queuedLocal, flushLocal>> /\ queuedLocal = <<>>
    BY <1>5, Trickled DEF OfferOK
  <2>2. \/ UNCHANGED sigOut
        \/ IsInjective(sigOut') /\ Range(sigOut') = Range(sigOut) \cup {iceHand}
    <3>1. iceHand \notin Range(sigOut) /\ iceHand \in Local \cup {"offer"}
      BY <2>1 DEF PlaceOK
    <3>2. IsInjective(sigOut)
      BY DEF PlaceOK
    <3>3. /\ IsInjective(Append(sigOut, iceHand))
          /\ Range(Append(sigOut, iceHand)) = Range(sigOut) \cup {iceHand}
      BY <1>1, <3>1, <3>2, Appended
    <3> QED
      BY <1>5, <3>3, Trickled
  <2>3. iceHand \notin Range(flushLocal)
    BY <2>1 DEF PlaceOK
  <2> QED
    BY <2>1, <2>2, <2>3, NothingIn DEF PlaceOK
<1>6. ASSUME NEW c \in Local, OnICECandidate(c) PROVE PlaceOK'
  <2>1. /\ iceHand = NoCandidate /\ c \notin gathered /\ gathered' = gathered \cup {c}
        /\ UNCHANGED <<flushLocal, sigOut>>
    BY <1>6 DEF OnICECandidate
  <2>2. c # "offer" /\ c # NoCandidate
    OBVIOUS
  <2>3. c \notin Range(sigOut) \cup Range(queuedLocal) \cup Range(flushLocal)
    BY <2>1, <2>2 DEF PlaceOK
  <2>4. CASE offerOnWire
    <3>1. iceHand' = c /\ UNCHANGED queuedLocal
      BY <1>6, <2>4 DEF OnICECandidate
    <3> QED
      BY <2>1, <2>2, <2>3, <3>1 DEF PlaceOK
  <2>5. CASE ~offerOnWire
    <3>1. queuedLocal' = Append(queuedLocal, c) /\ UNCHANGED iceHand
      BY <1>6, <2>5 DEF OnICECandidate
    <3>2. IsInjective(queuedLocal') /\ Range(queuedLocal') = Range(queuedLocal) \cup {c}
      BY <1>1, <2>3, <3>1, Appended DEF PlaceOK
    <3> QED
      BY <2>1, <2>2, <2>3, <3>1, <3>2 DEF PlaceOK
  <2> QED
    BY <2>4, <2>5
<1>7. CASE UNCHANGED <<localVars, sigOut>>
  BY <1>7 DEF PlaceOK, localVars
<1>8. CASE UNCHANGED vars
  BY <1>7, <1>8 DEF vars
<1> QED
  BY <1>2, <1>3, <1>4, <1>5, <1>6, <1>7, <1>8, LocalAside

\* While Connect has not failed and the websocket works, a candidate is always somewhere.
LEMMA LostStep ==
    TypeOK /\ StageOK /\ OfferOK /\ NoneLost /\ [Next]_vars => NoneLost'
<1> SUFFICES ASSUME TypeOK, StageOK, OfferOK, NoneLost, [Next]_vars,
                    connPc' \notin Over, ws' = "open"
             PROVE  gathered' \subseteq Range(sigOut') \cup Range(queuedLocal')
                                          \cup Range(flushLocal') \cup {iceHand'}
  BY DEF NoneLost
<1> USE SessionAssumption DEF SessionAssumption
<1>1. /\ sigOut \in Seq(Local \cup {"offer"}) /\ queuedLocal \in Seq(Local)
      /\ flushLocal \in Seq(Local) /\ gathered \subseteq Local
  BY DEF TypeOK
<1>2. CASE SendOffer
  <2>1. UNCHANGED localVars /\ connPc \notin Over /\ sigOut = <<>>
    BY <1>2, Offered DEF Over, OfferOK, BeforeOffer
  <2>2. ws = "open"
    <3>1. Write("offer", ctxDone) /\ ctxDone \in BOOLEAN /\ "offer" \in Local \cup {"offer"}
      BY <1>2 DEF SendOffer, TypeOK
    <3> QED
      BY <3>1, Written
  <2> QED
    BY <1>2, <2>1, <2>2, Offered, NothingIn DEF NoneLost, localVars
<1>3. CASE MarkOffer
  <2>1. flushLocal = <<>> /\ connPc \notin Over
    BY <1>3 DEF MarkOffer, OfferOK, BeforeOffer, Over
  <2> QED
    BY <1>3, <2>1, NothingIn DEF MarkOffer, NoneLost
<1>4. CASE FlushLocal
  <2>1. connPc' = "flushed" /\ connPc \notin Over
    BY <1>4, Flushed DEF Over
  <2>2. sigOut' = Append(sigOut, Head(flushLocal)) /\ UNCHANGED ws
    BY <1>4, <2>1, Flushed
  <2>3. Range(sigOut') = Range(sigOut) \cup {Head(flushLocal)}
    <3>1. Head(flushLocal) \in Local \cup {"offer"}
      BY <1>4, Flushed
    <3> QED
      BY <1>1, <2>2, <3>1, Appended
  <2>4. Range(flushLocal) = Range(flushLocal') \cup {Head(flushLocal)}
    BY <1>1, <1>4, Flushed, Taken
  <2> QED
    BY <1>4, <2>1, <2>2, <2>3, <2>4, Flushed DEF NoneLost
<1>5. CASE Trickle
  <2>1. connPc \notin Over /\ ~sessDone
    BY <1>5, Trickled DEF StageOK
  <2>2. sigOut' = Append(sigOut, iceHand) /\ UNCHANGED ws
    BY <1>5, <2>1, Trickled
  <2>3. Range(sigOut') = Range(sigOut) \cup {iceHand}
    <3>1. iceHand \in Local \cup {"offer"}
      BY <1>5, Trickled
    <3> QED
      BY <1>1, <2>2, <3>1, Appended
  <2> QED
    BY <1>5, <2>1, <2>2, <2>3, Trickled DEF NoneLost
<1>6. ASSUME NEW c \in Local, OnICECandidate(c)
      PROVE  gathered' \subseteq Range(sigOut') \cup Range(queuedLocal')
                                   \cup Range(flushLocal') \cup {iceHand'}
  <2>1. /\ iceHand = NoCandidate /\ gathered' = gathered \cup {c}
        /\ UNCHANGED <<connPc, ws, flushLocal, sigOut>>
    BY <1>6 DEF OnICECandidate, connVars
  <2>2. gathered \subseteq Range(sigOut) \cup Range(queuedLocal) \cup Range(flushLocal)
    BY <1>1, <2>1 DEF NoneLost
  <2>3. CASE offerOnWire
    BY <1>6, <2>1, <2>2, <2>3 DEF OnICECandidate
  <2>4. CASE ~offerOnWire
    <3>1. queuedLocal' = Append(queuedLocal, c)
      BY <1>6, <2>4 DEF OnICECandidate
    <3>2. Range(queuedLocal') = Range(queuedLocal) \cup {c}
      BY <1>1, <3>1, Appended
    <3> QED
      BY <2>1, <2>2, <3>2
  <2> QED
    BY <2>3, <2>4
<1>7. CASE /\ UNCHANGED <<localVars, sigOut>>
           /\ connPc \in Over => connPc' \in Over
           /\ ws' = "open" => ws = "open" \/ connPc = "dial"
  <2>1. CASE ws = "open"
    BY <1>7, <2>1 DEF NoneLost, localVars
  <2>2. CASE connPc = "dial"
    BY <1>7, <2>2 DEF StageOK, localVars
  <2> QED
    BY <1>7, <2>1, <2>2
<1>8. CASE UNCHANGED vars
  BY <1>8 DEF NoneLost, vars, connVars, localVars
<1> QED
  BY <1>2, <1>3, <1>4, <1>5, <1>6, <1>7, <1>8, LocalAside

-----------------------------------------------------------------------------
(***************************************************************************)
(* Remote candidates.                                                      *)
(***************************************************************************)

\* The two halves of RemoteTrickle: what is kept and in which order, and the limits.
Kept == applied \o pendingRemote

InOrder ==
    /\ Range(Kept) = (Arrived \cap Remote) \ rejected
    /\ \A a, b \in DOMAIN Kept : a < b =>
           /\ Kept[a] # Kept[b]
           /\ \E i, j \in 1..read : i < j /\ sigIn[i] = Kept[a] /\ sigIn[j] = Kept[b]

Limits ==
    /\ IF answerApplied THEN pendingRemote = <<>> ELSE applied = <<>>
    /\ rejected # {} => Len(Kept) >= MaxPending \/ peer = "closed"

\* The property in two parts: the order of candidates, and when they wait or are given up.
LEMMA RemoteParts == RemoteTrickle <=> InOrder /\ Limits
  BY DEF RemoteTrickle, InOrder, Limits, Kept

\* What every step but the pump's leaves alone; a closed connection stays closed.
LEMMA RemoteAside ==
    ASSUME TypeOK, StageOK, Next, ~PumpRead
    PROVE  /\ UNCHANGED <<read, answerApplied, pendingRemote, applied, rejected>>
           /\ peer = "closed" => peer' = "closed"
           /\ \/ UNCHANGED sigIn
              \/ \E m \in (Remote \cup Others) \ Range(sigIn) : sigIn' = Append(sigIn, m)
<1> USE DEF pumpVars, Goto, Over
<1>1. CASE \/ Authenticate \/ DialSignaling \/ CheckDeviceMetadata \/ SetUp \/ SetLocalDescription
  BY <1>1
  DEF Authenticate, DialSignaling, CheckDeviceMetadata, SetUp, SetLocalDescription, StageOK
<1>2. CASE SendOffer \/ MarkOffer \/ FlushLocal \/ FlushChecked \/ StartPump
  BY <1>2 DEF SendOffer, MarkOffer, FlushLocal, FlushChecked, StartPump
<1>3. CASE WaitReadiness
  BY <1>3 DEF WaitReadiness, WaitFor
<1>4. CASE HandshakeEchoed \/ HandshakeFailed \/ TearDown \/ Close \/ SigClose
  BY <1>4 DEF HandshakeEchoed, HandshakeFailed, TearDown, Close, SessionClose, SigClose
<1>5. CASE Trickle \/ PumpStop \/ TrackEnds \/ KeyframesEnd \/ OnTrack \/ WebsocketBreaks
  BY <1>5 DEF Trickle, PumpStop, TrackEnds, KeyframesEnd, OnTrack, WebsocketBreaks
<1>6. CASE PeerConnected \/ PeerLost \/ ChannelOpens \/ HidChannelLost \/ ContextEnds
  BY <1>6 DEF PeerConnected, PeerLost, ChannelOpens, HidChannelLost, ContextEnds
<1>7. ASSUME NEW c \in Local, OnICECandidate(c)
      PROVE  UNCHANGED <<read, answerApplied, pendingRemote, applied, rejected, peer, sigIn>>
  BY <1>7 DEF OnICECandidate
<1>8. CASE DeviceSends
  BY <1>8 DEF DeviceSends
<1> QED
  BY <1>1, <1>2, <1>3, <1>4, <1>5, <1>6, <1>7, <1>8 DEF Next, Connect, Pump

\* What arrives later changes nothing about what has been read.
LEMMA MoreArrives ==
    ASSUME TypeOK, NEW m \in Remote \cup Others, sigIn' = Append(sigIn, m), UNCHANGED read
    PROVE  \A n \in 1..read : sigIn'[n] = sigIn[n]
<1>1. \A n \in 1..Len(sigIn) : sigIn'[n] = sigIn[n]
  BY AppendProperties DEF TypeOK
<1>2. \A n \in 1..read : n \in 1..Len(sigIn)
  BY DEF TypeOK
<1> QED
  BY <1>1, <1>2

\* The pump reads the next message, which is none of those before it.
LEMMA NextMessage ==
    ASSUME TypeOK, ArrivalsOK, PumpRead
    PROVE  LET m == sigIn[read + 1]
           IN  /\ read + 1 \in 1..Len(sigIn) /\ read' = read + 1 /\ UNCHANGED <<sigIn, peer>>
               /\ m \in Remote \cup Others /\ m \notin Arrived
               /\ Arrived' = Arrived \cup {m}
               /\ m \in {"answer", "badAnswer"} => m \notin Remote /\ HandleAnswer(m)
               /\ m \in Remote => HandleCandidate(m)
               /\ m \notin Remote \cup {"answer", "badAnswer"} =>
                    UNCHANGED <<answerApplied, pendingRemote, applied, rejected>>
<1> DEFINE m == sigIn[read + 1]
<1>1. /\ read \in Nat /\ read + 1 \in 1..Len(sigIn) /\ read' = read + 1
      /\ UNCHANGED <<sigIn, peer>> /\ m \in Remote \cup Others
  BY DEF PumpRead, TypeOK
<1>2. DOMAIN sigIn = 1..Len(sigIn)
  BY DEF TypeOK
<1>3. \A n \in 1..read : n \in 1..Len(sigIn) /\ n # read + 1
  BY <1>1
<1>4. m \notin Arrived
  BY <1>1, <1>2, <1>3 DEF ArrivalsOK, IsInjective, Arrived
<1>5. Arrived' = Arrived \cup {m}
  <2>1. \A n \in 1..(read + 1) : n \in 1..read \/ n = read + 1
    BY <1>1
  <2>2. \A n \in 1..read : n \in 1..(read + 1)
    BY <1>1
  <2>3. read + 1 \in 1..(read + 1)
    BY <1>1
  <2>4. Arrived' = {sigIn[n] : n \in 1..(read + 1)}
    BY <1>1 DEF Arrived
  <2> QED
    BY <2>1, <2>2, <2>3, <2>4 DEF Arrived
<1>6. /\ m \in {"answer", "badAnswer"} => m \notin Remote /\ HandleAnswer(m)
      /\ m \in Remote => HandleCandidate(m)
      /\ m \notin Remote \cup {"answer", "badAnswer"} =>
           UNCHANGED <<answerApplied, pendingRemote, applied, rejected>>
  BY SessionAssumption DEF PumpRead, SessionAssumption
<1> QED
  BY <1>1, <1>4, <1>5, <1>6

\* What the pump read last is the only thing it may have given up on this time.
LEMMA ArrivalsStep == TypeOK /\ StageOK /\ ArrivalsOK /\ [Next]_vars => ArrivalsOK'
<1> SUFFICES ASSUME TypeOK, StageOK, ArrivalsOK, [Next]_vars PROVE ArrivalsOK'
  OBVIOUS
<1>1. CASE PumpRead
  <2> DEFINE m == sigIn[read + 1]
  <2>1. Arrived' = Arrived \cup {m} /\ UNCHANGED sigIn
    BY <1>1, NextMessage
  <2>2. rejected' \in {rejected, rejected \cup {m}}
    <3>1. \/ HandleAnswer(m) \/ HandleCandidate(m)
          \/ UNCHANGED <<answerApplied, pendingRemote, applied, rejected>>
      BY <1>1, NextMessage
    <3> QED
      BY <3>1 DEF HandleAnswer, HandleCandidate, AddICECandidate
  <2> QED
    BY <2>1, <2>2 DEF ArrivalsOK, IsInjective
<1>2. ASSUME NEW m \in (Remote \cup Others) \ Range(sigIn), sigIn' = Append(sigIn, m),
             UNCHANGED <<read, rejected>>
      PROVE  ArrivalsOK'
  <2>1. sigIn \in Seq(Remote \cup Others) /\ IsInjective(sigIn)
    BY DEF TypeOK, ArrivalsOK
  <2>2. IsInjective(sigIn')
    BY <1>2, <2>1, Appended
  <2>3. Arrived' = Arrived
    BY <1>2, MoreArrives DEF Arrived
  <2> QED
    BY <1>2, <2>2, <2>3 DEF ArrivalsOK
<1>3. CASE UNCHANGED <<sigIn, read, rejected>>
  BY <1>3 DEF ArrivalsOK, IsInjective, Arrived
<1>4. CASE UNCHANGED vars
  BY <1>3, <1>4 DEF vars, pumpVars
<1> QED
  BY <1>1, <1>2, <1>3, <1>4, RemoteAside

\* A candidate behind the others keeps the order in which they came.
LEMMA KeptMore ==
    ASSUME TypeOK, ArrivalsOK, InOrder, PumpRead, sigIn[read + 1] \in Remote,
           Kept' = Append(Kept, sigIn[read + 1]), UNCHANGED rejected
    PROVE  InOrder'
<1> DEFINE m == sigIn[read + 1]
<1>1. Kept \in Seq(Remote)
  BY ConcatProperties DEF Kept, TypeOK
<1>2. /\ read \in Nat /\ read' = read + 1 /\ UNCHANGED sigIn
      /\ m \notin Arrived /\ Arrived' = Arrived \cup {m}
  BY NextMessage DEF TypeOK
<1>3. m \notin rejected
  BY <1>2 DEF ArrivalsOK
<1>4. Range(Kept') = Range(Kept) \cup {m}
  BY <1>1, Appended
<1>5. Range(Kept') = (Arrived' \cap Remote) \ rejected'
  BY <1>2, <1>3, <1>4 DEF InOrder
<1>6. /\ Len(Kept) \in Nat /\ DOMAIN Kept = 1..Len(Kept) /\ DOMAIN Kept' = 1..(Len(Kept) + 1)
      /\ \A n \in 1..Len(Kept) : Kept'[n] = Kept[n]
      /\ Kept'[Len(Kept) + 1] = m
  BY <1>1, AppendProperties
<1>7. ASSUME NEW a \in DOMAIN Kept', NEW b \in DOMAIN Kept', a < b
      PROVE  /\ Kept'[a] # Kept'[b]
             /\ \E i, j \in 1..read' : i < j /\ sigIn'[i] = Kept'[a] /\ sigIn'[j] = Kept'[b]
  <2>1. a \in 1..Len(Kept) /\ Kept'[a] = Kept[a]
    BY <1>6, <1>7
  <2>2. 1..read \subseteq 1..read' /\ read' \in 1..read' /\ \A i \in 1..read : i < read'
    BY <1>2
  <2>3. CASE b \in 1..Len(Kept)
    BY <1>2, <1>6, <1>7, <2>1, <2>2, <2>3 DEF InOrder
  <2>4. CASE b = Len(Kept) + 1
    <3>1. Kept[a] \in Arrived
      BY <1>6, <2>1 DEF InOrder, Range
    <3>2. PICK i \in 1..read : sigIn[i] = Kept[a]
      BY <3>1 DEF Arrived
    <3> QED
      BY <1>2, <1>6, <2>1, <2>2, <2>4, <3>1, <3>2
  <2> QED
    BY <1>6, <2>3, <2>4
<1> QED
  BY <1>5, <1>7 DEF InOrder

\* Applying the answer with what has been queued moves the candidates, in order, to Pion.
LEMMA KeptSame ==
    ASSUME TypeOK, ArrivalsOK, InOrder, PumpRead, Kept' = Kept,
           \/ sigIn[read + 1] \notin Remote /\ UNCHANGED rejected
           \/ rejected' = rejected \cup {sigIn[read + 1]}
    PROVE  InOrder'
<1> DEFINE m == sigIn[read + 1]
<1>1. /\ read \in Nat /\ read' = read + 1 /\ UNCHANGED sigIn
      /\ m \notin Arrived /\ Arrived' = Arrived \cup {m}
  BY NextMessage DEF TypeOK
<1>2. 1..read \subseteq 1..read'
  BY <1>1
<1>3. Range(Kept') = (Arrived' \cap Remote) \ rejected'
  BY <1>1 DEF InOrder
<1> QED
  BY <1>1, <1>2, <1>3 DEF InOrder

\* What the pump does to the candidates it keeps, gives up or hands over.
LEMMA PumpKeeps ==
    ASSUME TypeOK, StageOK, ArrivalsOK, Limits, PumpRead
    PROVE  LET m == sigIn[read + 1]
           IN  /\ \/ m \in Remote /\ Kept' = Append(Kept, m) /\ UNCHANGED rejected
                  \/ /\ Kept' = Kept
                     /\ (m \notin Remote /\ UNCHANGED rejected) \/ rejected' = rejected \cup {m}
               /\ Limits'
<1> DEFINE m == sigIn[read + 1]
<1> USE SessionAssumption DEF SessionAssumption
<1>1. /\ applied \in Seq(Remote) /\ pendingRemote \in Seq(Remote) /\ UNCHANGED peer
      /\ MaxPending \in Nat /\ <<>> \in Seq(Remote)
  BY NextMessage DEF TypeOK
<1>2. /\ Kept \in Seq(Remote) /\ Len(Kept) = Len(applied) + Len(pendingRemote)
      /\ Len(applied) \in Nat /\ Len(pendingRemote) \in Nat
  BY <1>1, ConcatProperties DEF Kept
<1>3. CASE m \in {"answer", "badAnswer"}
  <2>1. m \notin Remote /\ HandleAnswer(m)
    BY <1>3, NextMessage
  <2>2. Kept' = Kept /\ UNCHANGED rejected
    <3>1. (applied \o pendingRemote) \o <<>> = applied \o pendingRemote
      BY <1>2, ConcatEmptySeq DEF Kept
    <3> QED
      BY <2>1, <3>1 DEF HandleAnswer, Kept
  <2>3. IF answerApplied' THEN pendingRemote' = <<>> ELSE applied' = <<>>
    BY <2>1 DEF HandleAnswer, Limits
  <2>4. Limits'
    BY <1>1, <2>2, <2>3 DEF Limits
  <2> QED
    BY <2>1, <2>2, <2>4
<1>4. CASE m \in Remote
  <2>1. HandleCandidate(m)
    BY <1>4, NextMessage
  <2>2. CASE answerApplied /\ peer # "closed"
    <3>1. /\ pendingRemote = <<>> /\ pendingRemote' = <<>> /\ applied' = Append(applied, m)
          /\ UNCHANGED <<answerApplied, rejected>>
      BY <2>1, <2>2 DEF HandleCandidate, AddICECandidate, Limits
    <3>2. Append(applied, m) \in Seq(Remote)
      BY <1>1, <1>4, AppendProperties
    <3>3. Kept = applied /\ Kept' = Append(applied, m)
      BY <1>1, <3>1, <3>2, ConcatEmptySeq DEF Kept
    <3>4. Len(Append(applied, m)) = Len(applied) + 1
      BY <1>1, <1>4, AppendProperties
    <3>5. Limits'
      BY <1>1, <1>2, <2>2, <3>1, <3>3, <3>4 DEF Limits
    <3> QED
      BY <1>4, <3>1, <3>3, <3>5
  <2>3. CASE answerApplied /\ peer = "closed"
    <3>1. rejected' = rejected \cup {m} /\ UNCHANGED <<answerApplied, pendingRemote, applied>>
      BY <2>1, <2>3 DEF HandleCandidate, AddICECandidate
    <3> QED
      BY <1>1, <2>3, <3>1 DEF Kept, Limits
  <2>4. CASE ~answerApplied /\ Len(pendingRemote) < MaxPending
    <3>1. /\ applied = <<>> /\ applied' = <<>> /\ pendingRemote' = Append(pendingRemote, m)
          /\ UNCHANGED <<answerApplied, rejected>>
      BY <2>1, <2>4 DEF HandleCandidate, Limits
    <3>2. Append(pendingRemote, m) \in Seq(Remote)
      BY <1>1, <1>4, AppendProperties
    <3>3. Kept = pendingRemote /\ Kept' = Append(pendingRemote, m)
      BY <1>1, <3>1, <3>2, ConcatEmptySeq DEF Kept
    <3>4. Len(Append(pendingRemote, m)) = Len(pendingRemote) + 1
      BY <1>1, <1>4, AppendProperties
    <3>5. Limits'
      BY <1>1, <1>2, <2>4, <3>1, <3>3, <3>4 DEF Limits
    <3> QED
      BY <1>4, <3>1, <3>3, <3>5
  <2>5. CASE ~answerApplied /\ ~(Len(pendingRemote) < MaxPending)
    <3>1. rejected' = rejected \cup {m} /\ UNCHANGED <<answerApplied, pendingRemote, applied>>
      BY <2>1, <2>5 DEF HandleCandidate
    <3>2. Len(Kept) >= MaxPending
      BY <1>1, <1>2, <2>5
    <3> QED
      BY <2>5, <3>1, <3>2 DEF Kept, Limits
  <2> QED
    BY <2>2, <2>3, <2>4, <2>5
<1>5. CASE m \notin Remote \cup {"answer", "badAnswer"}
  <2>1. UNCHANGED <<answerApplied, pendingRemote, applied, rejected>>
    BY <1>5, NextMessage
  <2> QED
    BY <1>1, <1>5, <2>1 DEF Kept, Limits
<1> QED
  BY <1>3, <1>4, <1>5

\* Both halves of RemoteTrickle are kept.
LEMMA RemoteStep == TypeOK /\ StageOK /\ ArrivalsOK /\ RemoteTrickle /\ [Next]_vars => RemoteTrickle'
<1> SUFFICES ASSUME TypeOK, StageOK, ArrivalsOK, InOrder, Limits, [Next]_vars
             PROVE  InOrder' /\ Limits'
  BY RemoteParts DEF RemoteTrickle, InOrder, Limits, Kept
<1>1. CASE PumpRead
  BY <1>1, PumpKeeps, KeptMore, KeptSame
<1>2. ASSUME UNCHANGED <<read, answerApplied, pendingRemote, applied, rejected>>,
             peer = "closed" => peer' = "closed",
             \A n \in 1..read : sigIn'[n] = sigIn[n]
      PROVE  InOrder' /\ Limits'
  <2>1. Kept' = Kept /\ Arrived' = Arrived
    BY <1>2 DEF Kept, Arrived
  <2> QED
    BY <1>2, <2>1 DEF InOrder, Limits
<1>3. CASE Next /\ ~PumpRead
  <2>1. \A n \in 1..read : sigIn'[n] = sigIn[n]
    BY <1>3, RemoteAside, MoreArrives
  <2> QED
    BY <1>2, <1>3, <2>1, RemoteAside
<1>4. CASE UNCHANGED vars
  BY <1>2, <1>4 DEF vars, pumpVars
<1> QED
  BY <1>1, <1>3, <1>4

-----------------------------------------------------------------------------
(***************************************************************************)
(* What a connection leaves behind.                                        *)
(***************************************************************************)

\* What is down at each stage, and stays down.
LEMMA DownStep == TypeOK /\ StageOK /\ DownOK /\ [Next]_vars => DownOK'
<1> SUFFICES ASSUME TypeOK, StageOK, DownOK, [Next]_vars PROVE DownOK'
  OBVIOUS
<1> USE DEF DownOK, connVars, readyVars, localVars, pumpVars, trackVars, Goto
<1>1. CASE Authenticate \/ DialSignaling \/ CheckDeviceMetadata
  BY <1>1 DEF Authenticate, DialSignaling, CheckDeviceMetadata, StageOK
<1>2. CASE SetUp
  BY <1>2 DEF SetUp, StageOK
<1>3. CASE SetLocalDescription \/ SendOffer \/ MarkOffer \/ FlushLocal \/ FlushChecked \/ StartPump
  BY <1>3 DEF SetLocalDescription, SendOffer, MarkOffer, FlushLocal, FlushChecked, StartPump
<1>4. CASE WaitReadiness
  BY <1>4 DEF WaitReadiness, WaitFor
<1>5. CASE HandshakeEchoed \/ HandshakeFailed
  BY <1>5 DEF HandshakeEchoed, HandshakeFailed
<1>6. CASE TearDown \/ Close
  BY <1>6 DEF TearDown, Close, SessionClose, CloseHid
<1>7. CASE SigClose
  BY <1>7 DEF SigClose
<1>8. ASSUME NEW c \in Local, OnICECandidate(c) PROVE DownOK'
  BY <1>8 DEF OnICECandidate
<1>9. CASE PeerConnected \/ ChannelOpens \/ HidChannelLost \/ OnTrack
  BY <1>9 DEF PeerConnected, ChannelOpens, HidChannelLost, OnTrack, StageOK
<1>10. CASE PeerLost
  BY <1>10 DEF PeerLost, CloseHid
<1>11. CASE Trickle
  BY <1>11 DEF Trickle, Write
<1>12. CASE PumpRead \/ PumpStop
  BY <1>12 DEF PumpRead, PumpStop
<1>13. CASE TrackEnds \/ KeyframesEnd \/ DeviceSends \/ WebsocketBreaks \/ ContextEnds
  BY <1>13 DEF TrackEnds, KeyframesEnd, DeviceSends, WebsocketBreaks, ContextEnds
<1>14. CASE UNCHANGED vars
  BY <1>14 DEF vars
<1> QED
  BY <1>1, <1>2, <1>3, <1>4, <1>5, <1>6, <1>7, <1>8, <1>9, <1>10, <1>11, <1>12, <1>13, <1>14
  DEF Next, Connect, Pump

\* Connect and the pump start nothing any more; OnTrack may.
LEMMA StaysDownStep ==
    ASSUME StageOK, DownOK, Next
    PROVE  StaysDown
<1> SUFFICES ASSUME connPc \in {"failed", "closed"}
             PROVE  /\ connPc' = connPc /\ peer' = peer
                    /\ pump' = "run" => pump = "run"
                    /\ ~(track = "run") /\ track' = "run" => peer = "closed" /\ sessDone
  BY DEF StaysDown
<1> USE DEF connVars, readyVars, localVars, pumpVars, trackVars
<1>1. ~Connect /\ ~HandshakeEchoed /\ ~Close
  BY DEF Connect, Authenticate, DialSignaling, CheckDeviceMetadata, SetUp, SetLocalDescription,
     SendOffer, MarkOffer, FlushLocal, FlushChecked, StartPump, WaitReadiness, WaitFor,
     HandshakeEchoed, HandshakeFailed, TearDown, Close, SigClose
<1>2. ~PeerConnected /\ ~ChannelOpens /\ ~HidChannelLost
  BY DEF DownOK, PeerConnected, ChannelOpens, HidChannelLost
<1>3. ASSUME NEW c \in Local, OnICECandidate(c)
      PROVE  UNCHANGED <<connPc, peer, pump, track>>
  BY <1>3 DEF OnICECandidate
<1>4. CASE PeerLost
  BY <1>4 DEF DownOK, PeerLost
<1>5. CASE Pump
  BY <1>5 DEF Pump, PumpRead, PumpStop
<1>6. CASE \/ Trickle \/ TrackEnds \/ KeyframesEnd \/ DeviceSends \/ WebsocketBreaks \/ ContextEnds
  BY <1>6 DEF Trickle, TrackEnds, KeyframesEnd, DeviceSends, WebsocketBreaks, ContextEnds
<1>7. CASE OnTrack
  <2>1. connected /\ UNCHANGED <<connPc, peer, pump>>
    BY <1>7 DEF OnTrack
  <2>2. peer = "closed" /\ sessDone
    BY <2>1 DEF StageOK, DownOK
  <2> QED
    BY <2>1, <2>2
<1> QED
  BY <1>1, <1>2, <1>3, <1>4, <1>5, <1>6, <1>7 DEF Next

-----------------------------------------------------------------------------
(***************************************************************************)
(* The theorems.                                                           *)
(***************************************************************************)

\* Before Connect begins there is nothing open and nothing to lose.
LEMMA SessionInit == Init => SessionInv
<1> SUFFICES ASSUME Init PROVE SessionInv
  OBVIOUS
<1>1. Len(<<>>) = 0 /\ \A n \in 2..0 : FALSE
  OBVIOUS
<1>2. StageOK /\ OfferOK /\ DownOK
  BY <1>1 DEF Init, StageOK, OfferOK, DownOK, Flushing, Established, Over
<1>3. PlaceOK /\ NoneLost
  BY NothingIn DEF Init, PlaceOK, NoneLost
<1>4. Arrived = {} /\ Kept = <<>>
  <2>1. \A n \in 1..0 : FALSE
    OBVIOUS
  <2>2. <<>> \in Seq(Remote)
    OBVIOUS
  <2> QED
    BY <2>1, <2>2, ConcatEmptySeq DEF Init, Arrived, Kept
<1>5. ArrivalsOK
  BY <1>4, NothingIn DEF Init, ArrivalsOK
<1>6. InOrder /\ Limits
  <2>1. DOMAIN <<>> = {}
    OBVIOUS
  <2> QED
    BY <1>4, <2>1, NothingIn DEF Init, InOrder, Limits
<1> QED
  BY <1>2, <1>3, <1>5, <1>6, TypeInit, RemoteParts DEF SessionInv

\* The invariant of a session.
THEOREM SessionCorrect == Spec => []SessionInv
<1>1. SessionInv /\ [Next]_vars => SessionInv'
  BY TypeStep, StageStep, OfferStep, PlaceStep, LostStep, ArrivalsStep, RemoteStep, DownStep
  DEF SessionInv
<1> QED
  BY <1>1, SessionInit, PTL DEF Spec

\* The offer is sent first and once, no local candidate is sent twice, and while Connect
\* goes on none is left behind (session.go:234-240), whenever Pion finds it.
THEOREM LocalCorrect == Spec => []LocalTrickle
<1>1. SessionInv => LocalTrickle
  <2> SUFFICES ASSUME SessionInv PROVE LocalTrickle
    OBVIOUS
  <2>1. /\ sigOut \in Seq(Local \cup {"offer"}) /\ DOMAIN sigOut = 1..Len(sigOut)
        /\ Len(sigOut) \in Nat
    BY DEF SessionInv, TypeOK
  <2>2. ASSUME NEW n \in 1..Len(sigOut) PROVE sigOut[n] = "offer" <=> n = 1
    <3>1. CASE n = 1
      <4>1. sigOut # <<>>
        BY <2>1, <3>1
      <4> QED
        BY <3>1, <4>1 DEF SessionInv, OfferOK
    <3>2. CASE n # 1
      <4>1. n \in 2..Len(sigOut)
        BY <2>1, <3>2
      <4> QED
        BY <3>2, <4>1, SessionAssumption DEF SessionInv, OfferOK, SessionAssumption
    <3> QED
      BY <3>1, <3>2
  <2>3. \A m, n \in 1..Len(sigOut) : sigOut[m] = sigOut[n] => m = n
    BY <2>1 DEF SessionInv, PlaceOK, IsInjective
  <2>4. ASSUME connPc \in Established, ws = "open", NEW c \in gathered
        PROVE  c = iceHand \/ c \in Range(sigOut)
    <3>1. connPc \notin Over /\ offerOnWire /\ flushLocal = <<>> /\ queuedLocal = <<>>
      BY <2>4 DEF SessionInv, OfferOK, Over, Established
    <3> QED
      BY <2>4, <3>1, NothingIn DEF SessionInv, NoneLost
  <2> QED
    BY <2>2, <2>3, <2>4 DEF LocalTrickle
<1> QED
  BY <1>1, SessionCorrect, PTL

\* Remote candidates reach Pion in the order they came, each once, and are only given up
\* at the limit or with the session (session.go:426-443).
THEOREM RemoteCorrect == Spec => []RemoteTrickle
<1>1. SessionInv => RemoteTrickle
  BY DEF SessionInv
<1> QED
  BY <1>1, SessionCorrect, PTL

\* Connect succeeds only with a connection that is up, channels that have opened and a HID
\* client that works (session.go:333-336), however loss and readiness interleave.
THEOREM ReturnCorrect == Spec => ReturnsAlive
<1>1. SessionInv /\ [Next]_vars =>
        [connPc # "ok" /\ connPc' = "ok" =>
           peer = "connected" /\ rpcOpen /\ hidOpen /\ hid' \in {"off", "ready"}]_vars
  BY ReturnStep DEF SessionInv
<1> QED
  BY <1>1, SessionCorrect, PTL DEF Spec, ReturnsAlive

\* What a failed Connect or a Close tears down (client.go:75-76) is down when it returns
\* and stays so, and what still runs, or starts late because Pion reports a track late, has
\* what ends it: the part of NothingLeaks that does not rest on fairness.
THEOREM DownCorrect == Spec => []TornDown /\ [][StaysDown]_vars
<1>1. SessionInv => TornDown
  BY DEF SessionInv, DownOK, TornDown
<1>2. SessionInv /\ [Next]_vars => [StaysDown]_vars
  BY StaysDownStep DEF SessionInv
<1> QED
  BY <1>1, <1>2, SessionCorrect, PTL DEF Spec
=============================================================================
