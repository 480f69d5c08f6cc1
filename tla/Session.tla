------------------------------ MODULE Session ------------------------------
(***************************************************************************)
(* Establishing and ending a session: Connect and Client.Close (client.go),*)
(* dialSignaling and next (signaling.go), establishSession with its        *)
(* callbacks, pumpSignalingEvents, requestKeyframes and session.close      *)
(* (session.go).                                                           *)
(*                                                                         *)
(* Goroutines: the one in Connect; Pion's callbacks for local candidates   *)
(* and for the state of the connection; the signaling pump; the track and  *)
(* its keyframe requests. A write error breaks the websocket.              *)
(***************************************************************************)
EXTENDS Naturals, Sequences, FiniteSets, Functions

CONSTANTS
    Local,         \* the candidates Pion gathers
    NoCandidate,   \* nothing in the hands of OnICECandidate
    Remote,        \* the candidates the device sends
    Others,        \* what else it sends: "answer", "badAnswer", "malformed", "unhandled"
    MaxPending,    \* maxPendingRemoteCandidates
    MaxMessages,   \* bound: messages the device sends
    MaxUnread      \* bound: how many of them wait to be read

ASSUME SessionAssumption ==
    /\ Others \subseteq {"answer", "badAnswer", "malformed", "unhandled"}
    /\ Remote \cap {"answer", "badAnswer", "malformed", "unhandled"} = {}
    /\ Local \cap (Remote \cup {"offer", NoCandidate}) = {}
    /\ {MaxPending, MaxMessages, MaxUnread} \subseteq Nat

VARIABLES
    connPc, ctxDone,            \* Connect, then Close; the context of Connect has ended
    ws,                         \* the signaling websocket
    peer,                       \* the peer connection
    connected, closed,          \* session.connected and session.closed are closed
    sessDone,                   \* session.ctx is cancelled
    rpcOpen, hidOpen, hid,      \* the data channels, and the HID client behind the second
    gathered,                   \* local candidates found so far
    offerOnWire, queuedLocal,   \* the variables under localCandidateMu
    flushLocal, iceHand,        \* candidates in the hands of Connect and of OnICECandidate
    sigOut, sigIn,              \* all messages sent, and all the device sent
    read,                       \* how many of these the pump has read
    pump, answerApplied,        \* the signaling pump
    pendingRemote,              \* ... candidates ahead of the answer
    applied, rejected,          \* candidates Pion took, and candidates given up
    track, keyframes            \* the goroutines of the video track

connVars == <<connPc, ctxDone>>
readyVars == <<connected, closed, rpcOpen, hidOpen>>
localVars == <<gathered, offerOnWire, queuedLocal, flushLocal, iceHand>>
pumpVars == <<read, pump, answerApplied, pendingRemote, applied, rejected>>
trackVars == <<track, keyframes>>
vars == <<connVars, ws, peer, sessDone, hid, readyVars, localVars, sigOut, sigIn, pumpVars, trackVars>>

Init ==
    /\ connPc = "auth" /\ ctxDone = FALSE
    /\ ws = "none" /\ peer = "none" /\ sessDone = FALSE /\ hid = "off"
    /\ connected = FALSE /\ closed = FALSE /\ rpcOpen = FALSE /\ hidOpen = FALSE
    /\ gathered = {} /\ offerOnWire = FALSE
    /\ queuedLocal = <<>> /\ flushLocal = <<>> /\ iceHand = NoCandidate
    /\ sigOut = <<>> /\ sigIn = <<>>
    /\ read = 0 /\ pump = "off" /\ answerApplied = FALSE
    /\ pendingRemote = <<>> /\ applied = <<>> /\ rejected = {}
    /\ track = "off" /\ keyframes = "off"

Goto(pc) == connPc' = pc /\ UNCHANGED ctxDone

-----------------------------------------------------------------------------
(***************************************************************************)
(* Connect, up to the offer.                                               *)
(***************************************************************************)

\* URL, status, login and device requests: nothing stays open if one fails.
Authenticate ==
    /\ connPc = "auth"
    /\ Goto("dial") \/ Goto("failed")
    /\ UNCHANGED <<ws, peer, sessDone, hid, readyVars, localVars, sigOut, sigIn, pumpVars, trackVars>>

\* dialSignaling: the websocket, then device-metadata as the first message.
DialSignaling ==
    /\ connPc = "dial"
    /\ \/ ws' = "open" /\ Goto("metadata")
       \/ UNCHANGED ws /\ Goto("failed")
    /\ UNCHANGED <<peer, sessDone, hid, readyVars, localVars, sigOut, sigIn, pumpVars, trackVars>>

CheckDeviceMetadata ==
    /\ connPc = "metadata"
    /\ \/ ws = "open" /\ UNCHANGED ws /\ Goto("setup")
       \/ ws' = "closed" /\ Goto("failed")
    /\ UNCHANGED <<peer, sessDone, hid, readyVars, localVars, sigOut, sigIn, pumpVars, trackVars>>

\* The peer connection with its transceiver, data channels and callbacks. Without
\* control there is no HID channel to wait for.
SetUp ==
    /\ connPc = "setup"
    /\ \/ Goto("sigClose") /\ UNCHANGED <<peer, hid, hidOpen>>
       \/ /\ peer' = "new"
          /\ \/ hid' \in {"off", "negotiating"} /\ Goto("local")
             \/ UNCHANGED hid /\ Goto("teardown")
          /\ hidOpen' = (hid' = "off")
    /\ UNCHANGED <<ws, sessDone, connected, closed, rpcOpen, localVars, sigOut, sigIn, pumpVars, trackVars>>

\* CreateOffer and SetLocalDescription, which starts gathering.
SetLocalDescription ==
    /\ connPc = "local"
    /\ Goto("offer") \/ Goto("teardown")
    /\ UNCHANGED <<ws, peer, sessDone, hid, readyVars, localVars, sigOut, sigIn, pumpVars, trackVars>>

\* A write on the websocket. It may still succeed under a context that has ended; if
\* it does not, the library may have given up the connection too.
Write(m, done) ==
    \/ /\ ws = "open"
       /\ sigOut' = Append(sigOut, m)
       /\ UNCHANGED ws
    \/ /\ ws # "open" \/ done
       /\ ws' \in {ws, IF ws = "open" THEN "broken" ELSE ws}
       /\ UNCHANGED sigOut

SendOffer ==
    /\ connPc = "offer"
    /\ Write("offer", ctxDone)
    /\ IF sigOut' # sigOut THEN Goto("mark") ELSE Goto("teardown")
    /\ UNCHANGED <<peer, sessDone, hid, readyVars, localVars, sigIn, pumpVars, trackVars>>

-----------------------------------------------------------------------------
(***************************************************************************)
(* Local candidates.                                                       *)
(***************************************************************************)

\* Mutant: no queue, the candidate goes out as soon as there is one.
OnICECandidate_Direct(c) ==
    /\ peer \notin {"none", "closed"} /\ connPc \notin {"setup", "local"}
    /\ iceHand = NoCandidate /\ c \notin gathered
    /\ gathered' = gathered \cup {c}
    /\ iceHand' = c
    /\ UNCHANGED <<connVars, ws, peer, sessDone, hid, readyVars, offerOnWire, queuedLocal, flushLocal,
                   sigOut, sigIn, pumpVars, trackVars>>

\* OnICECandidate under localCandidateMu; Pion calls it for one candidate after the
\* other, from the moment the local description is set.
OnICECandidate(c) ==
    /\ peer \notin {"none", "closed"} /\ connPc \notin {"setup", "local"}
    /\ iceHand = NoCandidate /\ c \notin gathered
    /\ gathered' = gathered \cup {c}
    /\ IF offerOnWire THEN iceHand' = c /\ UNCHANGED queuedLocal
       ELSE queuedLocal' = Append(queuedLocal, c) /\ UNCHANGED iceHand
    /\ UNCHANGED <<connVars, ws, peer, sessDone, hid, readyVars, offerOnWire, flushLocal,
                   sigOut, sigIn, pumpVars, trackVars>>

\* ... and after the lock: the error of the write is ignored.
Trickle ==
    /\ iceHand # NoCandidate
    /\ Write(iceHand, sessDone)
    /\ iceHand' = NoCandidate
    /\ UNCHANGED <<connVars, peer, sessDone, hid, readyVars, gathered, offerOnWire, queuedLocal,
                   flushLocal, sigIn, pumpVars, trackVars>>

\* The offer is out: take the queue and let later candidates through.
MarkOffer ==
    /\ connPc = "mark"
    /\ flushLocal' = queuedLocal
    /\ queuedLocal' = <<>>
    /\ offerOnWire' = TRUE
    /\ Goto("flush")
    /\ UNCHANGED <<ws, peer, sessDone, hid, readyVars, gathered, iceHand, sigOut, sigIn, pumpVars, trackVars>>

\* sendQueuedICECandidates: the context of Connect is asked before each write, and
\* after it.
FlushLocal ==
    /\ connPc = "flush" /\ flushLocal # <<>>
    /\ flushLocal' = Tail(flushLocal)
    /\ IF ctxDone THEN UNCHANGED <<ws, sigOut>> ELSE Write(Head(flushLocal), ctxDone)
    /\ IF sigOut' # sigOut THEN Goto("flushed") ELSE Goto("teardown")
    /\ UNCHANGED <<peer, sessDone, hid, readyVars, gathered, offerOnWire, queuedLocal, iceHand,
                   sigIn, pumpVars, trackVars>>

FlushChecked ==
    /\ connPc = "flushed"
    /\ Goto(IF ctxDone THEN "teardown" ELSE "flush")
    /\ UNCHANGED <<ws, peer, sessDone, hid, readyVars, localVars, sigOut, sigIn, pumpVars, trackVars>>

StartPump ==
    /\ connPc = "flush" /\ flushLocal = <<>>
    /\ pump' = "run"
    /\ Goto("waitConnected")
    /\ UNCHANGED <<ws, peer, sessDone, hid, readyVars, localVars, sigOut, sigIn,
                   read, answerApplied, pendingRemote, applied, rejected, trackVars>>

-----------------------------------------------------------------------------
(***************************************************************************)
(* Readiness, and the end of Connect.                                      *)
(***************************************************************************)

\* Mutant: being ready is enough.
Ready_Unchecked(ready) == ready

\* waitForReadiness: its context and the loss of the connection are asked again once
\* the source is ready.
Ready(ready) == ready /\ ~ctxDone /\ ~closed

\* Mutant: the wait does not look at the connection.
NotReady_IgnoresClosed == ctxDone

NotReady == ctxDone \/ closed

WaitFor(pc, ready, next) ==
    /\ connPc = pc
    /\ \/ Ready(ready) /\ Goto(next)
       \/ NotReady /\ Goto("teardown")

WaitReadiness ==
    /\ \/ WaitFor("waitConnected", connected, "waitRpc")
       \/ WaitFor("waitRpc", rpcOpen, "waitHid")
       \/ WaitFor("waitHid", hidOpen, IF hid = "off" THEN "ok" ELSE "handshake")
    /\ UNCHANGED <<ws, peer, sessDone, hid, readyVars, localVars, sigOut, sigIn, pumpVars, trackVars>>

\* hid.handshake (HidClient has the inside): the device echoes, or it does not.
HandshakeEchoed ==
    /\ connPc = "handshake" /\ hid = "negotiating" /\ ~ctxDone
    /\ hid' = "ready"
    /\ Goto("ok")
    /\ UNCHANGED <<ws, peer, sessDone, readyVars, localVars, sigOut, sigIn, pumpVars, trackVars>>

HandshakeFailed ==
    /\ connPc = "handshake" /\ (ctxDone \/ hid = "closed")
    /\ hid' = "closed"
    /\ Goto("teardown")
    /\ UNCHANGED <<ws, peer, sessDone, readyVars, localVars, sigOut, sigIn, pumpVars, trackVars>>

CloseHid == hid' = IF hid = "off" THEN "off" ELSE "closed"

\* Mutant: the background work is not cancelled.
SessionClose_NoCancel == CloseHid /\ peer' = "closed" /\ UNCHANGED sessDone

\* session.close.
SessionClose ==
    /\ CloseHid
    /\ sessDone' = TRUE
    /\ peer' = "closed"

\* An error of establishSession; Connect then closes the websocket.
TearDown ==
    /\ connPc = "teardown"
    /\ SessionClose
    /\ Goto("sigClose")
    /\ UNCHANGED <<ws, readyVars, localVars, sigOut, sigIn, pumpVars, trackVars>>

\* Client.Close of an established session, after neutralization.
Close ==
    /\ connPc = "ok"
    /\ SessionClose
    /\ Goto("closing")
    /\ UNCHANGED <<ws, readyVars, localVars, sigOut, sigIn, pumpVars, trackVars>>

SigClose ==
    /\ connPc \in {"sigClose", "closing"}
    /\ ws' = "closed"
    /\ Goto(IF connPc = "closing" THEN "closed" ELSE "failed")
    /\ UNCHANGED <<peer, sessDone, hid, readyVars, localVars, sigOut, sigIn, pumpVars, trackVars>>

-----------------------------------------------------------------------------
(***************************************************************************)
(* pumpSignalingEvents, with next.                                         *)
(***************************************************************************)

\* AddICECandidate: a closed connection takes none.
AddICECandidate(c) ==
    IF peer = "closed" THEN rejected' = rejected \cup {c} /\ UNCHANGED applied
    ELSE applied' = Append(applied, c) /\ UNCHANGED rejected

\* SetRemoteDescription, which refuses a bad answer, and any on a closed connection.
HandleAnswer(m) ==
    IF m = "answer" /\ peer # "closed"
    THEN /\ answerApplied' = TRUE
         /\ applied' = applied \o pendingRemote
         /\ pendingRemote' = <<>>
         /\ UNCHANGED rejected
    ELSE UNCHANGED <<answerApplied, pendingRemote, applied, rejected>>

\* Mutant: candidates ahead of the answer go straight to Pion, which refuses them.
HandleCandidate_NoQueue(m) ==
    /\ IF answerApplied THEN AddICECandidate(m)
       ELSE rejected' = rejected \cup {m} /\ UNCHANGED applied
    /\ UNCHANGED <<answerApplied, pendingRemote>>

HandleCandidate(m) ==
    /\ IF answerApplied THEN AddICECandidate(m) /\ UNCHANGED pendingRemote
       ELSE IF Len(pendingRemote) < MaxPending
       THEN pendingRemote' = Append(pendingRemote, m) /\ UNCHANGED <<applied, rejected>>
       ELSE rejected' = rejected \cup {m} /\ UNCHANGED <<applied, pendingRemote>>
    /\ UNCHANGED answerApplied

\* Mutant: a message without a case ends the pump.
AfterMessage_Strict(m) == IF m \in Remote \cup {"answer"} THEN "run" ELSE "stopped"

\* What is malformed or unhandled is skipped: the pump goes on.
AfterMessage(m) == "run"

\* The session may end between the read and the handling of a message: that message
\* is the last.
PumpRead ==
    /\ pump = "run" /\ ws = "open"
    /\ read < Len(sigIn)
    /\ read' = read + 1
    /\ LET m == sigIn[read + 1] IN
       /\ pump' = IF sessDone THEN "stopped" ELSE AfterMessage(m)
       /\ CASE m \in {"answer", "badAnswer"} -> HandleAnswer(m)
            [] m \in Remote -> HandleCandidate(m)
            [] OTHER -> UNCHANGED <<answerApplied, pendingRemote, applied, rejected>>
    /\ UNCHANGED <<connVars, ws, peer, sessDone, hid, readyVars, localVars, sigOut, sigIn, trackVars>>

\* The session is over, or the transport failed.
PumpStop ==
    /\ pump = "run" /\ (sessDone \/ ws # "open")
    /\ pump' = "stopped"
    /\ UNCHANGED <<connVars, ws, peer, sessDone, hid, readyVars, localVars, sigOut, sigIn,
                   read, answerApplied, pendingRemote, applied, rejected, trackVars>>

-----------------------------------------------------------------------------
(***************************************************************************)
(* Pion's callbacks and the track.                                         *)
(***************************************************************************)

\* OnConnectionStateChange: connected.
PeerConnected ==
    /\ peer = "new" /\ answerApplied
    /\ peer' = "connected" /\ connected' = TRUE
    /\ UNCHANGED <<connVars, ws, sessDone, hid, closed, rpcOpen, hidOpen, localVars, sigOut, sigIn,
                   pumpVars, trackVars>>

\* OnConnectionStateChange: failed or disconnected, or closed by session.close.
PeerLost ==
    /\ peer # "none" /\ ~closed
    /\ peer' = IF peer = "closed" THEN "closed" ELSE "down"
    /\ closed' = TRUE
    /\ CloseHid
    /\ UNCHANGED <<connVars, ws, sessDone, connected, rpcOpen, hidOpen, localVars, sigOut, sigIn,
                   pumpVars, trackVars>>

\* OnOpen of the data channels, which nothing takes back; OnClose or OnError of the HID
\* channel alone. That the RPC channel closes alone is RpcClient's concern: Connect does not
\* look for it.
ChannelOpens ==
    /\ peer = "connected"
    /\ \/ ~rpcOpen /\ rpcOpen' = TRUE /\ UNCHANGED hidOpen
       \/ ~hidOpen /\ hidOpen' = TRUE /\ UNCHANGED rpcOpen
    /\ UNCHANGED <<connVars, ws, peer, sessDone, hid, connected, closed, localVars, sigOut, sigIn,
                   pumpVars, trackVars>>

HidChannelLost ==
    /\ peer = "connected" /\ hid \in {"negotiating", "ready"}
    /\ hid' = "closed"
    /\ UNCHANGED <<connVars, ws, peer, sessDone, readyVars, localVars, sigOut, sigIn, pumpVars, trackVars>>

\* OnTrack: an H.264 track gets its reader and its keyframe requests; another is refused.
\* Pion runs it in a goroutine of its own, which may get its turn only after the connection
\* was lost or closed.
OnTrack ==
    /\ connected /\ track = "off"
    /\ \/ track' = "run" /\ keyframes' = "run"
       \/ track' = "ended" /\ keyframes' = "ended"
    /\ UNCHANGED <<connVars, ws, peer, sessDone, hid, readyVars, localVars, sigOut, sigIn, pumpVars>>

\* The reader sits in ReadRTP, which fails when the connection is gone; the session's
\* context alone does not wake it.
TrackEnds ==
    /\ track = "run" /\ peer \in {"down", "closed"}
    /\ track' = "ended"
    /\ UNCHANGED <<connVars, ws, peer, sessDone, hid, readyVars, localVars, sigOut, sigIn, pumpVars, keyframes>>

\* requestKeyframes goes on asking until the session's own context ends.
KeyframesEnd ==
    /\ keyframes = "run" /\ sessDone
    /\ keyframes' = "ended"
    /\ UNCHANGED <<connVars, ws, peer, sessDone, hid, readyVars, localVars, sigOut, sigIn, pumpVars, track>>

-----------------------------------------------------------------------------
(***************************************************************************)
(* The device and the network (external).                                  *)
(***************************************************************************)

\* The device answers the offer, trickles candidates before or after the answer, and
\* sends messages of other kinds.
DeviceSends ==
    /\ ws = "open" /\ sigOut # <<>>
    /\ Len(sigIn) < MaxMessages /\ Len(sigIn) - read < MaxUnread
    /\ \E m \in (Remote \cup Others) \ Range(sigIn) : sigIn' = Append(sigIn, m)
    /\ UNCHANGED <<connVars, ws, peer, sessDone, hid, readyVars, localVars, sigOut, pumpVars, trackVars>>

WebsocketBreaks ==
    /\ ws = "open"
    /\ ws' = "broken"
    /\ UNCHANGED <<connVars, peer, sessDone, hid, readyVars, localVars, sigOut, sigIn, pumpVars, trackVars>>

ContextEnds ==
    /\ connPc \notin {"ok", "failed", "closing", "closed"} /\ ~ctxDone
    /\ ctxDone' = TRUE
    /\ UNCHANGED <<connPc, ws, peer, sessDone, hid, readyVars, localVars, sigOut, sigIn, pumpVars, trackVars>>

-----------------------------------------------------------------------------
\* The steps of Connect that wait for nobody but their own context and connection.
Connect ==
    \/ Authenticate \/ DialSignaling \/ CheckDeviceMetadata \/ SetUp \/ SetLocalDescription
    \/ SendOffer \/ MarkOffer \/ FlushLocal \/ FlushChecked \/ StartPump \/ WaitReadiness
    \/ HandshakeFailed \/ TearDown \/ SigClose

Pump == PumpRead \/ PumpStop

Next ==
    \/ Connect \/ HandshakeEchoed \/ Close
    \/ \E c \in Local : OnICECandidate(c)
    \/ Trickle \/ Pump \/ TrackEnds \/ KeyframesEnd
    \/ PeerConnected \/ PeerLost \/ ChannelOpens \/ HidChannelLost \/ OnTrack
    \/ DeviceSends \/ WebsocketBreaks \/ ContextEnds

Spec == Init /\ [][Next]_vars

\* Goroutines that can run do run. Nothing is assumed of the device, the network, Pion's
\* gathering or the context of Connect.
Fairness ==
    /\ WF_vars(Connect) /\ WF_vars(Trickle) /\ WF_vars(Pump)
    /\ WF_vars(TrackEnds) /\ WF_vars(KeyframesEnd)

FairSpec == Spec /\ Fairness

-----------------------------------------------------------------------------
(***************************************************************************)
(* Properties.                                                             *)
(***************************************************************************)

Established == {"waitConnected", "waitRpc", "waitHid", "handshake", "ok"}

\* Local candidates (session.go:234-240): the offer is the first message on the wire, no
\* candidate goes out twice, and none found before, during or after the flush is left
\* behind while the websocket works.
LocalTrickle ==
    /\ \A n \in 1..Len(sigOut) : sigOut[n] = "offer" <=> n = 1
    /\ \A m, n \in 1..Len(sigOut) : sigOut[m] = sigOut[n] => m = n
    /\ connPc \in Established /\ ws = "open" =>
           \A c \in gathered : c = iceHand \/ c \in Range(sigOut)

Arrived == {sigIn[n] : n \in 1..read}

\* Remote candidates (session.go:426-443): those that overtake the answer are kept and
\* reach Pion with it, in the order they came, none twice; one is given up only when
\* MaxPending are waiting, or the session is being closed.
RemoteTrickle ==
    LET kept == applied \o pendingRemote IN
    /\ Range(kept) = (Arrived \cap Remote) \ rejected
    /\ \A a, b \in DOMAIN kept : a < b =>
           /\ kept[a] # kept[b]
           /\ \E i, j \in 1..read : i < j /\ sigIn[i] = kept[a] /\ sigIn[j] = kept[b]
    /\ IF answerApplied THEN pendingRemote = <<>> ELSE applied = <<>>
    /\ rejected # {} => Len(kept) >= MaxPending \/ peer = "closed"

\* Nothing the device sends stops the trickle (session.go:390-399): as long as session and
\* websocket last, a candidate and an answer that were sent are both acted upon.
TrickleContinues ==
    \A m \in Remote :
        {m, "answer"} \subseteq Range(sigIn)
            ~> m \in Range(applied) \cup rejected \/ sessDone \/ ws # "open"

\* Connect succeeds only with a connection that is up, channels that have opened and, with
\* control, a HID client that works, whatever went up or down between its waits
\* (session.go:333-336).
ReturnsAlive ==
    [][connPc # "ok" /\ connPc' = "ok" =>
         peer = "connected" /\ rpcOpen /\ hidOpen /\ hid' \in {"off", "ready"}]_vars

\* Connect returns once its context has ended or the connection is lost.
ConnectEnds == ctxDone \/ closed ~> connPc \in {"ok", "failed", "closing", "closed"}

Quiet ==
    /\ ws # "open" /\ peer \in {"none", "closed"} /\ hid \in {"off", "closed"}
    /\ pump # "run" /\ track # "run" /\ keyframes # "run"

\* client.go:75-76 "On any failure the underlying connection is torn down before
\* returning", and Client.Close: no websocket, connection or goroutine outlives them.
NothingLeaks == connPc \in {"failed", "closed"} ~> []Quiet
=============================================================================
