-------------------------- MODULE VideoDiagnostics --------------------------
(***************************************************************************)
(* What a failed screenshot says of the video pipeline (diagnostics.go):   *)
(* the counters the track goroutine keeps while it receives, reassembles   *)
(* and ingests (video.go), the snapshot that reads them one after the      *)
(* other, and the failure boundary derived from it.                        *)
(*                                                                         *)
(* The model starts where Connect returned: the peer connection is up, an  *)
(* answer was applied, and OnTrack has not fired yet. The network loses,   *)
(* duplicates and reorders packets of Stream. A counter that Boundary only *)
(* compares with zero is kept as the set of what was counted.              *)
(***************************************************************************)
EXTENDS RtpTrackers, FiniteSets, FiniteSetsExt

CONSTANTS
    Stream,       \* the packets the device sends: [frame, payload, mark], payload as in RtpTrackers
    FirstSeq,     \* sequence number before that of the first packet
    MaxArrivals,  \* bound: packets that reach the client
    MaxWaited,    \* bound: ... of them by the time a screenshot is taken or reported
    MaxReports    \* bound: calls of CaptureScreenshot

Ids == 1 .. Len(Stream)

Frames == {Stream[i].frame : i \in Ids}

Classes == {"empty", "single", "STAP-A", "FU-A", "other"}

NalUnit == [type : STRING \ {"FU-A", "STAP-A"}, whole : BOOLEAN]

\* Single NAL unit packets and fragments are of one unit; only an aggregate has more. What
\* is in a fragment or an aggregate is not one itself (RFC 6184).
Payloads ==
    {p \in [class : Classes, units : Seq(NalUnit), short : BOOLEAN, start : BOOLEAN, end : BOOLEAN] :
        /\ p.class \in {"single", "FU-A"} => Len(p.units) = 1
        /\ p.class \in {"empty", "other"} => Len(p.units) = 0}

\* The device sends frame after frame.
ASSUME DiagnosticsAssumption ==
    /\ Stream \in Seq([frame : Nat, payload : Payloads, mark : BOOLEAN])
    /\ \A i, j \in DOMAIN Stream : i <= j => Stream[i].frame <= Stream[j].frame
    /\ FirstSeq \in Nat /\ MaxArrivals \in Nat /\ MaxWaited \in Nat /\ MaxReports \in Nat

PacketsOf(f) == {i \in Ids : Stream[i].frame = f}

SeqOf(i) == (FirstSeq + i) % Space

VARIABLES
    pcState,                           \* the peer connection: "connected" or "lost"
    track, answerRejected,             \* what mu guards: the track, a rejected (second) answer
    decodeFailure,                     \* ... and a decode that failed
    trackPc, pkt, nals, idrNALUs,      \* the track goroutine: place, packet at hand, NAL units left to ingest,
                                       \* the access unit had an IDR
    built,                             \* the frames the sample builder handed out
    known, mediaErr,                   \* frameCapture: parameter sets, terminal error
    rtpPackets, quiet,                 \* rtpPackets; more than 5 s passed since lastRTPNanos
    samples, framesBuilt, seen,        \* access units, frames, NAL types of access units
    wire,                              \* what wireMu guards
    repPc, base, reports, out,         \* the caller: place, generation boundary, calls made; values read
    copies, came, first,               \* ghost: arrivals per packet and per frame, first packet
    late, tooLate,                     \* ghost: new ones behind a later one, one arrived Window or more behind
    held                               \* ghost: the facts true at some instant of this snapshot

trackVars == <<trackPc, pkt, nals, idrNALUs, built, known, mediaErr>>
countVars == <<rtpPackets, quiet, samples, framesBuilt, seen, wire>>
muVars == <<track, answerRejected, decodeFailure>>
ghostVars == <<copies, came, first, late, tooLate>>
repVars == <<repPc, base, reports, out>>
vars == <<pcState, trackVars, countVars, muVars, ghostVars, repVars, held>>

NewWire ==
    [byClass |-> [c \in Classes |-> 0], types |-> {}, malformed |-> 0, fuStarts |-> 0, fuEnds |-> 0,
     seq |-> NewSequence, runs |-> NewRuns]

Init ==
    /\ pcState = "connected"
    /\ track = "none" /\ answerRejected = FALSE /\ decodeFailure = FALSE
    /\ trackPc = "none" /\ pkt = 0 /\ nals = <<>> /\ idrNALUs = FALSE /\ built = {} /\ known = {} /\ mediaErr = FALSE
    /\ rtpPackets = 0 /\ quiet = FALSE /\ samples = 0 /\ framesBuilt = 0 /\ seen = {} /\ wire = NewWire
    /\ repPc = "idle" /\ base = 0 /\ reports = 0 /\ out = <<>>
    /\ copies = [i \in Ids |-> 0] /\ came = [f \in Frames |-> 0] /\ first = 0 /\ late = 0 /\ tooLate = FALSE
    /\ held = {}

-----------------------------------------------------------------------------
(***************************************************************************)
(* Boundary and what each answer of it says of the pipeline.               *)
(***************************************************************************)

\* The rows of the switch, top to bottom, over the values v of a snapshot.
Rows(v) ==
    << <<v.frames /\ v.decode,                         "decode">>,
       <<v.frames,                                     "none">>,
       <<v.track = "rejected",                         "trackRejected">>,
       <<v.track = "none" /\ v.answer,                 "answer">>,
       <<v.track = "none",                             "negotiation">>,
       <<~v.rtp /\ v.pc # "connected",                 "transport">>,
       <<~v.rtp,                                       "noRTP">>,
       <<~v.au /\ v.frag,                              "fragmentation">>,
       <<~v.au,                                        "depacketize">>,
       <<~v.idr /\ v.wireIdr,                          "reassembly">>,
       <<~v.idr,                                       "noKeyframe">>,
       <<~v.sps \/ ~v.pps,                             "noParamSets">>,
       <<v.elapsed /\ v.last,                          "rtpStalled">>,
       <<TRUE,                                         "undetermined">> >>

FirstRow(rows) == rows[CHOOSE i \in DOMAIN rows : rows[i][1] /\ \A j \in 1 .. i - 1 : ~rows[j][1]][2]

\* Mutant: without the counter of the wire, the encoder is to blame.
Boundary_NoWitness(v) == FirstRow(Rows([v EXCEPT !.wireIdr = FALSE]))

Boundary(v) == FirstRow(Rows(v))

\* What the counters say at this instant. The time elapsed and the time of the last
\* packet are more than 5 s apart if no packet came before either of them was read.
Now ==
    [elapsed |-> quiet,
     rtp     |-> rtpPackets > 0,
     au      |-> samples > 0,
     frames  |-> framesBuilt > 0,
     pc      |-> pcState,
     last    |-> quiet,
     frag    |-> seen \cap {"FU-A", "STAP-A"} # {},
     sps     |-> "SPS" \in seen,
     pps     |-> "PPS" \in seen,
     idr     |-> "IDR" \in seen,
     wireIdr |-> "IDR" \in wire.types,
     track   |-> track,
     answer  |-> answerRejected,
     decode  |-> decodeFailure]

\* The reads of a snapshot, in order; the last two are critical sections.
Reads == << {"elapsed"}, {"rtp"}, {"au"}, {"frames"}, {"pc"}, {"last"}, {"frag"}, {"sps"}, {"pps"},
            {"idr"}, {"wireIdr"}, {"track", "answer", "decode"} >>

Arrived == {i \in Ids : copies[i] > 0}

\* The packets seen to have a keyframe, or a part of one, in them.
IdrPackets == {i \in Ids : "IDR" \in Classify(Stream[i].payload).types}

\* The device sends in order: it has sent what comes before a packet that arrived.
KeyframeSent == \E i \in IdrPackets : \E j \in Arrived : i <= j

\* What the text of each boundary says of the pipeline, in full, and whether it is so at
\* this instant. Connect returned, so an answer was applied and the connection was up.
Says ==
    [decode        |-> framesBuilt > 0 /\ decodeFailure,
     none          |-> framesBuilt > 0,
     trackRejected |-> track = "rejected",
     answer        |-> FALSE,
     negotiation   |-> track = "none",
     transport     |-> FALSE,
     noRTP         |-> track # "none" /\ rtpPackets = 0,
     fragmentation |-> samples = 0 /\ wire.byClass["FU-A"] + wire.byClass["STAP-A"] > 0,
     depacketize   |-> rtpPackets > 0 /\ samples = 0,
     reassembly    |-> "IDR" \in wire.types /\ "IDR" \notin seen,
     noKeyframe    |-> samples > 0 /\ ~KeyframeSent,
     noParamSets   |-> "IDR" \in wire.types /\ ~{"SPS", "PPS"} \subseteq wire.types,
     rtpStalled    |-> rtpPackets > 0 /\ quiet,
     undetermined  |-> TRUE]

\* Four texts claim more than the counters can tell. What may be so instead, by boundary:
\* the answer that was rejected is a second one; the connection was up before it was lost;
\* keyframes were sent, but no packet of one has come and been looked at; parameter sets
\* arrived, but had not been counted when the snapshot looked for them.
Instead ==
    [answer      |-> track = "none" /\ answerRejected,
     transport   |-> pcState = "lost",
     noKeyframe  |-> samples > 0 /\ KeyframeSent /\ "IDR" \notin wire.types,
     noParamSets |-> ~{"SPS", "PPS"} \subseteq seen]

\* The facts at this instant: whether a text is true, <<b, TRUE>>, or what may be so instead.
Truths ==
    LET says    == Says
        instead == Instead
    IN  {<<b, TRUE>> : b \in {c \in DOMAIN says : says[c]}}
        \cup {<<b, FALSE>> : b \in {c \in DOMAIN instead : instead[c]}}

\* Nothing came late or twice.
InOrder == late = 0 /\ rtpPackets = Cardinality(Arrived)

Snapshotting == repPc = "snapshot"

NextRead == CHOOSE n \in 1 .. Len(Reads) : /\ Reads[n] \cap DOMAIN out = {}
                                           /\ \A m \in 1 .. n - 1 : Reads[m] \subseteq DOMAIN out

SnapshotTaken == Snapshotting /\ DOMAIN out = DOMAIN Now

\* Part of every action.
NoteHeld ==
    held' = IF ~Snapshotting' THEN {} ELSE Truths' \cup (IF out' = <<>> THEN {} ELSE held)

-----------------------------------------------------------------------------
(***************************************************************************)
(* The track goroutine.                                                    *)
(***************************************************************************)

\* OnTrack: trackStarted, in a goroutine of Pion's that may get its turn after the
\* connection is lost. The codec is looked at next.
TrackStarted ==
    /\ trackPc = "none"
    /\ track' = "observed" /\ trackPc' = "opened"
    /\ UNCHANGED <<pcState, pkt, nals, idrNALUs, built, known, mediaErr, countVars, answerRejected, decodeFailure,
                   ghostVars, repVars>>
    /\ NoteHeld

\* A codec other than H.264: trackRejected, then frameCapture.fail.
TrackRejected ==
    /\ trackPc = "opened"
    /\ track' = "rejected" /\ trackPc' = "failing"
    /\ UNCHANGED <<pcState, pkt, nals, idrNALUs, built, known, mediaErr, countVars, answerRejected, decodeFailure,
                   ghostVars, repVars>>
    /\ NoteHeld

\* seedParameterSets from the SDP answer, then run.
TrackAccepted ==
    /\ trackPc = "opened"
    /\ known' \in {{}, {"SPS", "PPS"}}
    /\ trackPc' = "read"
    /\ UNCHANGED <<pcState, pkt, nals, idrNALUs, built, mediaErr, countVars, muVars, ghostVars, repVars>>
    /\ NoteHeld

\* Before the receipt of packet i is counted: what is known without wrap-around.
NoteArrival(i) ==
    LET highest == Max(Arrived \cup {0})
    IN  /\ copies' = [copies EXCEPT ![i] = @ + 1]
        /\ came' = [came EXCEPT ![Stream[i].frame] = @ + 1]
        /\ first' = IF first = 0 THEN i ELSE first
        /\ late' = IF copies[i] = 0 /\ i < highest THEN late + 1 ELSE late
        /\ tooLate' = (tooLate \/ highest - i >= Window)

\* The network: a packet is never half a turn of sequence numbers or more from the
\* latest one, for then its number would not tell on which side of it it belongs.
Near(i, h) == i - h < Space \div 2 /\ h - i < Space \div 2

\* ReadRTP returns packet i; rtpPacket, the atomic counters.
RtpPacket ==
    /\ trackPc = "read" /\ rtpPackets < (IF reports = 0 THEN MaxArrivals ELSE MaxWaited)
    /\ \E i \in Ids : /\ Arrived # {} => Near(i, Max(Arrived))
                      /\ pkt' = i /\ NoteArrival(i)
    /\ rtpPackets' = rtpPackets + 1 /\ quiet' = FALSE
    /\ trackPc' = "wire"
    /\ UNCHANGED <<pcState, nals, idrNALUs, built, known, mediaErr, samples, framesBuilt, seen, wire, muVars, repVars>>
    /\ NoteHeld

One(b) == IF b THEN 1 ELSE 0

\* rtpPacket, the critical section of wireMu.
WirePacket ==
    LET p    == Stream[pkt]
        info == Classify(p.payload)
    IN  /\ trackPc = "wire"
        /\ wire' = [wire EXCEPT !.byClass[info.class] = @ + 1,
                                !.types     = @ \cup info.types,
                                !.malformed = @ + One(info.malformed),
                                !.fuStarts  = @ + One(info.fuStart),
                                !.fuEnds    = @ + One(info.fuEnd),
                                !.seq       = ObserveSequence(@, SeqOf(pkt)),
                                !.runs      = ObserveRun(@, p.frame, p.mark, "IDR" \in info.types)]
        /\ trackPc' = "push" /\ pkt' = 0
        /\ UNCHANGED <<pcState, nals, idrNALUs, built, known, mediaErr, rtpPackets, quiet, samples, framesBuilt, seen,
                       muVars, ghostVars, repVars>>
        /\ NoteHeld

\* The NAL units of a frame, in the order of its packets: fragments are joined.
NalsOf(f) ==
    LET start(i) == LET p == Stream[i].payload IN
                    IF p.class = "FU-A" /\ ~p.start THEN <<>> ELSE [u \in DOMAIN p.units |-> p.units[u].type]
        join[i \in 0 .. Len(Stream)] ==
            IF i = 0 THEN <<>>
            ELSE join[i - 1] \o (IF i \in PacketsOf(f) THEN start(i) ELSE <<>>)
    IN  join[Len(Stream)]

\* The sample builder (external): a frame can be handed out once all its packets are
\* there and every unit is whole; frames come out in order.
Complete(f) ==
    /\ \A i \in PacketsOf(f) : /\ copies[i] > 0
                               /\ ~Classify(Stream[i].payload).malformed
    /\ \A g \in built : g < f

\* push: Pop returned an access unit; sampleAssembled.
SampleAssembled ==
    /\ trackPc = "push"
    /\ \E f \in Frames : Complete(f) /\ built' = built \cup {f} /\ nals' = NalsOf(f)
    /\ samples' = samples + 1
    /\ trackPc' = "ingest"
    /\ UNCHANGED <<pcState, pkt, idrNALUs, known, mediaErr, rtpPackets, quiet, framesBuilt, seen, wire, muVars,
                   ghostVars, repVars>>
    /\ NoteHeld

\* push: Pop returned nothing; back to ReadRTP.
PushDone ==
    /\ trackPc = "push"
    /\ trackPc' = "read"
    /\ UNCHANGED <<pcState, pkt, nals, idrNALUs, built, known, mediaErr, countVars, muVars, ghostVars, repVars>>
    /\ NoteHeld

\* ingest, the scan: one NAL unit is counted, and kept when it is a parameter set.
NaluSeen ==
    /\ trackPc = "ingest" /\ nals # <<>>
    /\ seen' = seen \cup {Head(nals)}
    /\ known' = known \cup ({Head(nals)} \cap {"SPS", "PPS"})
    /\ idrNALUs' = (idrNALUs \/ Head(nals) = "IDR")
    /\ nals' = Tail(nals)
    /\ UNCHANGED <<pcState, trackPc, pkt, built, mediaErr, rtpPackets, quiet, samples, framesBuilt, wire, muVars,
                   ghostVars, repVars>>
    /\ NoteHeld

\* ingest, after the scan: a keyframe becomes a frame when the parameter sets are
\* known and media has not failed.
FrameAssembled ==
    /\ trackPc = "ingest" /\ nals = <<>>
    /\ framesBuilt' = IF idrNALUs /\ ~mediaErr /\ known = {"SPS", "PPS"} THEN framesBuilt + 1 ELSE framesBuilt
    /\ trackPc' = "push" /\ idrNALUs' = FALSE
    /\ UNCHANGED <<pcState, pkt, nals, built, known, mediaErr, rtpPackets, quiet, samples, seen, wire, muVars,
                   ghostVars, repVars>>
    /\ NoteHeld

\* run ends with a read error (endRun), or the rejected track is reported: fail.
EndTrack ==
    /\ trackPc \in {"read", "failing"}
    /\ mediaErr' = TRUE /\ trackPc' = "ended"
    /\ UNCHANGED <<pcState, pkt, nals, idrNALUs, built, known, countVars, muVars, ghostVars, repVars>>
    /\ NoteHeld

-----------------------------------------------------------------------------
(***************************************************************************)
(* Around it: the connection, a second answer, and time.                   *)
(***************************************************************************)

\* OnConnectionStateChange: failed, disconnected or closed ends the media.
ConnectionLost ==
    /\ pcState = "connected"
    /\ pcState' = "lost" /\ mediaErr' = TRUE
    /\ UNCHANGED <<trackPc, pkt, nals, idrNALUs, built, known, countVars, muVars, ghostVars, repVars>>
    /\ NoteHeld

\* pumpSignalingEvents: a redundant answer is rejected for being out of state. Bound: it
\* comes before the track does; the flag stays, but is not looked at once there is one.
AnswerRejected ==
    /\ ~answerRejected /\ track = "none"
    /\ answerRejected' = TRUE
    /\ UNCHANGED <<pcState, trackVars, countVars, track, decodeFailure, ghostVars, repVars>>
    /\ NoteHeld

\* More than 5 s pass without a packet. A snapshot takes less.
FiveSecondsPass ==
    /\ rtpPackets > 0 /\ ~quiet /\ ~Snapshotting
    /\ quiet' = TRUE
    /\ UNCHANGED <<pcState, trackVars, rtpPackets, samples, framesBuilt, seen, wire, muVars, ghostVars, repVars>>
    /\ NoteHeld

-----------------------------------------------------------------------------
(***************************************************************************)
(* CaptureScreenshot as far as it reports, and VideoDiagnostics.           *)
(***************************************************************************)
\* CaptureScreenshot begins: generationBoundary.
CaptureBegin ==
    /\ repPc = "idle" /\ reports < MaxReports /\ rtpPackets <= MaxWaited
    /\ reports' = reports + 1
    /\ base' = framesBuilt
    /\ repPc' = "wait"
    /\ UNCHANGED <<pcState, trackVars, countVars, muVars, ghostVars, out>>
    /\ NoteHeld

\* waitForFrameAfter returns a newer frame, and it is decoded or not: decodeFailed.
CaptureGot ==
    /\ repPc = "wait" /\ framesBuilt > base
    /\ decodeFailure' \in {decodeFailure, TRUE}
    /\ repPc' = "idle"
    /\ UNCHANGED <<pcState, trackVars, countVars, track, answerRejected, ghostVars, base, reports, out>>
    /\ NoteHeld

\* waitForFrameAfter fails: the context ended, or media failed. The select may find the
\* context done although a frame has just come. The error tells what a snapshot says.
CaptureFailed ==
    /\ repPc = "wait"
    /\ repPc' = "snapshot"
    /\ UNCHANGED <<pcState, trackVars, countVars, muVars, ghostVars, base, reports, out>>
    /\ NoteHeld

\* snapshot: the next value, or the next critical section. Packet times are read only
\* if packets were counted.
SnapshotRead ==
    /\ Snapshotting /\ ~SnapshotTaken
    /\ out' = [f \in DOMAIN out \cup Reads[NextRead] |->
                 IF f \in DOMAIN out THEN out[f] ELSE IF f = "last" /\ ~out.rtp THEN FALSE ELSE Now[f]]
    /\ UNCHANGED <<pcState, trackVars, countVars, muVars, ghostVars, repPc, base, reports>>
    /\ NoteHeld

\* The error with Boundary(out) is returned.
CaptureReturns ==
    /\ SnapshotTaken
    /\ repPc' = "idle" /\ out' = <<>>
    /\ UNCHANGED <<pcState, trackVars, countVars, muVars, ghostVars, base, reports>>
    /\ NoteHeld

-----------------------------------------------------------------------------
Next ==
    \/ TrackStarted \/ TrackRejected \/ TrackAccepted
    \/ RtpPacket \/ WirePacket \/ SampleAssembled \/ PushDone \/ NaluSeen \/ FrameAssembled \/ EndTrack
    \/ ConnectionLost \/ AnswerRejected \/ FiveSecondsPass
    \/ CaptureBegin \/ CaptureGot \/ CaptureFailed \/ SnapshotRead \/ CaptureReturns

Spec == Init /\ [][Next]_vars

-----------------------------------------------------------------------------
(***************************************************************************)
(* Properties.                                                             *)
(***************************************************************************)

\* What the tracker has seen: all arrivals, but for the packet on its way to it.
Counted == pkt = 0 /\ Arrived # {}

\* The sequence numbers a screenshot error reports are right across the wrap of the 16-bit
\* counter: the highest one is the latest packet that came; as long as nothing came Window
\* or more behind it, duplicates and late packets are told apart exactly, and the loss is
\* what is missing between the first and the latest packet, less what came from before the
\* first one; and however late packets come, it is never more than what is missing: "a
\* reordered packet that shows up late does not leave a phantom loss behind" (h264.go;
\* rtpSequenceTracker.observe, lost).
SequenceAccounting ==
    Counted =>
      LET highest == Max(Arrived)
          missing == (first .. highest) \ Arrived
          early   == {i \in Arrived : i < first}
          t       == wire.seq
      IN  /\ Extended(t) - t.first = highest - first
          /\ Lost(t) <= Cardinality(missing)
          /\ tooLate \/ /\ t.duplicates = rtpPackets - Cardinality(Arrived)
                        /\ t.reordered = late
                        /\ Lost(t) = Max({0, Cardinality(missing) - Cardinality(early)})

\* The measurement the reassembly window is sized by: neither the largest run of packets
\* reported nor the largest of a keyframe is longer than what came of some frame, or of one
\* seen to be a keyframe. Both are exactly the largest when nothing came late or twice; the
\* frame still coming counts for the first, which does not under-report mid-frame
\* (h264.go), and not yet for the second (rtpFrameTracker).
RunsMeasureFrames ==
    Counted =>
      LET sizes       == {came[f] : f \in Frames}
          keyframes   == {Stream[i].frame : i \in Arrived \cap IdrPackets}
          largest(fs) == Max({0} \cup {came[f] : f \in fs})
          runs        == wire.runs
      IN  /\ LargestRun(runs) <= Max(sizes)
          /\ runs.maxIDR <= largest(keyframes)
          /\ InOrder => /\ LargestRun(runs) = Max(sizes)
                        /\ runs.maxIDR = largest(keyframes \ {runs.timestamp})

\* What the text of the boundary says was so, in full, at some instant while the snapshot
\* was taken, although the counters were read one after the other and the track goroutine
\* went on counting. Four texts overstate, and are false from the first read to the last
\* where only the fact under Instead was so: "the earliest stage that did not complete is
\* the one worth reporting" (diagnostics.go) is then not the stage the text blames.
BoundaryTextHeld ==
    SnapshotTaken => LET b == Boundary(out) IN <<b, TRUE>> \in held \/ <<b, FALSE>> \in held

\* A screenshot that failed names the stage the pipeline stopped at: it says that a frame
\* was captured only if one was assembled for it.
FailureIsExplained == SnapshotTaken /\ Boundary(out) = "none" => framesBuilt > base
=============================================================================
