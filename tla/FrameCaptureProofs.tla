------------------------- MODULE FrameCaptureProofs -------------------------
(***************************************************************************)
(* The safety properties of FrameCapture, for any number of requests, of   *)
(* parameter sets and of access units. CaptureInv is the inductive         *)
(* invariant; each of its parts is proved from the types and from the      *)
(* parts before it.                                                        *)
(***************************************************************************)
EXTENDS FrameCapture, TLAPS

AtMostOne(S) == {q \in Seq(S) : Len(q) <= 1}

Unit == [ver : Versions, has : Contents, after : SUBSET Requests]

Frame == [sps : Versions, pps : Versions, idr : Versions, generation : Nat \ {0},
          after : SUBSET Requests]

\* Where a request holds the command lock.
UnderLock == {"boundary", "check", "sleep", "decode"}

CapturePcs == {"idle", "lock", "save", "commit", "done"} \cup UnderLock

StreamTypeOK ==
    /\ enc \in Versions /\ lostParams \in BOOLEAN
    /\ builder \in AtMostOne(Unit)
    /\ trackPc \in {"start", "read", "params", "frame", "ended"} /\ unit \in Unit
    /\ sps \in Versions \cup {NoVersion} /\ pps \in Versions \cup {NoVersion}
    /\ generation \in Nat /\ latest \in AtMostOne(Frame)
    /\ mediaErr \in {"none", "codec", "track", "connection"} /\ updated \in Nat

RequestTypeOK ==
    /\ capPc \in [Requests -> CapturePcs] /\ ctxDone \in [Requests -> BOOLEAN]
    /\ cmdMu \in Requests \cup {Nobody}
    /\ boundary \in [Requests -> Nat] /\ awaited \in [Requests -> Nat]
    /\ got \in [Requests -> AtMostOne(Frame)]
    /\ outcome \in [Requests -> {"none", "error", "captured", "saved"}]
    /\ file \in [Requests -> {"old", "new"}]

TypeOK == StreamTypeOK /\ RequestTypeOK

\* The known parameter sets are those of v, as far as any are known.
Known(v) == sps \in {NoVersion, v} /\ pps \in {NoVersion, v}

\* Nothing but new parameter sets changes the version from one unit to the next, and
\* what is known belongs to the last unit ingested.
StreamOK ==
    ~lostParams =>
        /\ trackPc = "start" => builder = <<>> /\ enc = FirstVersion /\ Known(NoVersion)
        /\ builder # <<>> => enc = builder[1].ver
        /\ trackPc = "read" /\ (builder = <<>> \/ "params" \notin builder[1].has) => Known(enc)
        /\ trackPc \in {"params", "frame"} =>
             builder # <<>> /\ ("params" \notin builder[1].has => enc = unit.ver)
        /\ trackPc = "params" /\ "params" \notin unit.has => Known(unit.ver)
        /\ trackPc = "frame" => Known(unit.ver)

Decodable(f) == f.sps = f.idr /\ f.pps = f.idr

\* Every frame published, and every frame handed out, can be decoded.
FramesOK ==
    ~lostParams =>
        /\ latest # <<>> => Decodable(latest[1])
        /\ \A r \in Requests : got[r] # <<>> => Decodable(got[r][1])

\* A request has a frame from the moment it has been given one.
GotOK ==
    \A r \in Requests :
        capPc[r] \in {"decode", "save", "commit"} \/ Captured(r) => got[r] # <<>>

\* Who is between Lock and the return of CaptureScreenshot is the one who holds cmdMu.
LockOK == \A r \in Requests : capPc[r] \in UnderLock => cmdMu = r

\* The published frame is the last one counted; nobody has a frame that was not
\* published; and whoever waits has a boundary at which or before which every frame in
\* anybody's hands was published.
GenerationOK ==
    /\ latest # <<>> => latest[1].generation = generation
    /\ \A r \in Requests : got[r] # <<>> => got[r][1].generation <= generation
    /\ \A r, q \in Requests :
         capPc[r] \in {"check", "sleep"} /\ got[q] # <<>>
             => got[q][1].generation <= boundary[r]

\* No two requests have the same frame.
DistinctOK ==
    \A r, q \in Requests :
        r # q /\ got[r] # <<>> /\ got[q] # <<>> => got[r][1].generation # got[q][1].generation

\* A channel waited on is a channel of the past or the current one, and NoMissedUpdate.
WaitOK ==
    /\ \A r \in Requests : capPc[r] = "sleep" => awaited[r] <= updated
    /\ NoMissedUpdate

\* Only the last step writes, and only at the last step.
SaveOK ==
    /\ \A r \in Requests : capPc[r] # "done" => outcome[r] # "saved"
    /\ SaveIsAtomic

CaptureInv ==
    TypeOK /\ StreamOK /\ FramesOK /\ GotOK /\ LockOK /\ GenerationOK /\ DistinctOK
        /\ WaitOK /\ SaveOK

-----------------------------------------------------------------------------
(***************************************************************************)
(* Types.                                                                  *)
(***************************************************************************)

\* A sequence of at most one element is empty or that element.
LEMMA AtMostOneElement ==
    ASSUME NEW S, NEW q \in AtMostOne(S)
    PROVE  q # <<>> => q[1] \in S
  BY DEF AtMostOne

\* What remember stores, one unit of its kind, is read back (video.go, parameter sets).
LEMMA OneElement ==
    ASSUME NEW S, NEW x \in S
    PROVE  <<x>> \in AtMostOne(S) /\ <<>> \in AtMostOne(S) /\ <<x>> # <<>> /\ <<x>>[1] = x
  BY DEF AtMostOne

\* The initial state of frameCapture and of the requests is well typed.
LEMMA TypeInit == Init => TypeOK
<1> SUFFICES ASSUME Init PROVE TypeOK
  OBVIOUS
<1>1. NoUnit \in Unit
  BY CaptureAssumption DEF CaptureAssumption, NoUnit, Unit, Contents
<1>2. <<>> \in AtMostOne(Unit) /\ <<>> \in AtMostOne(Frame)
  BY DEF AtMostOne
<1> QED
  BY <1>1, <1>2, CaptureAssumption
  DEF CaptureAssumption, Init, TypeOK, StreamTypeOK, RequestTypeOK, CapturePcs

\* What the track goroutine, the network and the connection change is well typed, and
\* none of them touches a request.
LEMMA StreamTypeStep ==
    ASSUME TypeOK, UnitLost \/ Track \/ ConnectionDown
    PROVE  TypeOK' /\ UNCHANGED capVars
<1>1. UNCHANGED capVars
  BY DEF Track, UnitLost, OnTrack, Push, IngestParams, IngestFrame, EndRun, ConnectionDown
<1>2. RequestTypeOK'
  BY <1>1 DEF TypeOK, RequestTypeOK, capVars
<1> USE CaptureAssumption DEF CaptureAssumption, TypeOK, StreamTypeOK
<1>3. NoUnit \in Unit
  BY DEF NoUnit, Unit, Contents
<1>4. CASE UnitLost
  BY <1>2, <1>4 DEF UnitLost, Encoded, runVars, frameVars
<1>5. CASE OnTrack
  BY <1>2, <1>5 DEF OnTrack, FailWith, NotifyLocked, SeedParameterSets, netVars
<1>6. CASE Push
  <2>1. PICK v \in Versions, h \in Contents :
          /\ Encoded(v, h)
          /\ builder' = <<[ver |-> v, has |-> h, after |-> {r \in Traced : Started(r)}]>>
    BY <1>6 DEF Push
  <2>2. [ver |-> v, has |-> h, after |-> {r \in Traced : Started(r)}] \in Unit
    BY DEF Unit
  <2>3. builder' \in AtMostOne(Unit)
    BY <2>1, <2>2, OneElement
  <2>4. builder # <<>> => builder[1] \in Unit
    BY AtMostOneElement
  <2>5. unit' \in Unit /\ trackPc' \in {"read", "params"}
    BY <1>6, <2>4 DEF Push, runVars
  <2> QED
    BY <1>2, <1>6, <2>1, <2>3, <2>5 DEF Push, Encoded, frameVars
<1>7. CASE IngestParams
  BY <1>2, <1>3, <1>7 DEF IngestParams, Unit, netVars
<1>8. CASE IngestFrame
  <2>1. latest' \in AtMostOne(Frame) /\ generation' \in Nat /\ updated' \in Nat
    <3>1. CASE CanAssemble
      <4> DEFINE f == [sps |-> sps, pps |-> pps, idr |-> unit.ver,
                       generation |-> generation + 1, after |-> unit.after]
      <4>1. latest' = <<f>> /\ generation' = generation + 1 /\ updated' = updated + 1
        BY <1>8, <3>1 DEF IngestFrame, NotifyLocked
      <4>2. f \in Frame
        BY <3>1, SMTT(30) DEF CanAssemble, Frame, Unit
      <4> HIDE DEF f
      <4> QED
        BY <4>1, <4>2, OneElement
    <3>2. CASE ~CanAssemble
      BY <1>8, <3>2 DEF IngestFrame
    <3> QED
      BY <3>1, <3>2
  <2> QED
    BY <1>2, <1>3, <1>8, <2>1 DEF IngestFrame, netVars
<1>9. CASE EndRun
  BY <1>2, <1>9 DEF EndRun, FailWith, NotifyLocked, netVars, frameVars
<1>10. CASE ConnectionDown
  BY <1>2, <1>10 DEF ConnectionDown, FailWith, NotifyLocked, netVars, runVars, frameVars
<1> QED
  BY <1>1, <1>2, <1>4, <1>5, <1>6, <1>7, <1>8, <1>9, <1>10 DEF Track

\* A step of a request leaves the stream and every other request alone, but for cmdMu.
LEMMA RequestTypeStep ==
    ASSUME TypeOK, NEW r \in Requests, Capture(r) \/ ContextEnds(r)
    PROVE  /\ TypeOK'
           /\ UNCHANGED <<netVars, runVars, frameVars, mediaErr, updated>>
           /\ \A q \in Requests : q # r =>
                /\ capPc'[q] = capPc[q] /\ ctxDone'[q] = ctxDone[q]
                /\ boundary'[q] = boundary[q] /\ awaited'[q] = awaited[q]
                /\ got'[q] = got[q] /\ outcome'[q] = outcome[q] /\ file'[q] = file[q]
<1> USE DEF TypeOK, RequestTypeOK
<1>1. UNCHANGED <<netVars, runVars, frameVars, mediaErr, updated>>
  BY DEF Capture, CheckAvailable, Lock, GenerationBoundary, WaitCheck, Wake, Decode,
         WriteTemp, Commit, ContextEnds
<1>2. StreamTypeOK'
  BY <1>1 DEF StreamTypeOK, netVars, runVars, frameVars
<1> DEFINE Rest ==
      RequestTypeOK' /\ \A q \in Requests : q # r =>
                /\ capPc'[q] = capPc[q] /\ ctxDone'[q] = ctxDone[q]
                /\ boundary'[q] = boundary[q] /\ awaited'[q] = awaited[q]
                /\ got'[q] = got[q] /\ outcome'[q] = outcome[q] /\ file'[q] = file[q]
<1> SUFFICES Rest
  BY <1>1, <1>2
<1>3. CASE CheckAvailable(r)
  BY <1>3 DEF CheckAvailable, Goto, Return, CapturePcs
<1>4. CASE Lock(r)
  BY <1>4 DEF Lock, Goto, Return, CapturePcs, UnderLock
<1>5. CASE GenerationBoundary(r)
  BY <1>5 DEF GenerationBoundary, Goto, CapturePcs, UnderLock, StreamTypeOK
<1>6. CASE WaitCheck(r)
  BY <1>6 DEF WaitCheck, Goto, Return, CapturePcs, UnderLock, StreamTypeOK
<1>7. CASE Wake(r)
  BY <1>7 DEF Wake, Goto, Return, CapturePcs, UnderLock
<1>8. CASE Decode(r)
  <2>1. <<>> \in AtMostOne(Frame)
    BY DEF AtMostOne
  <2> QED
    BY <1>8, <2>1 DEF Decode, Goto, Return, CapturePcs
<1>9. CASE WriteTemp(r)
  BY <1>9 DEF WriteTemp, Goto, CapturePcs
<1>10. CASE Commit(r)
  BY <1>10 DEF Commit, Goto, CapturePcs
<1>11. CASE ContextEnds(r)
  BY <1>11 DEF ContextEnds
<1> QED
  BY <1>3, <1>4, <1>5, <1>6, <1>7, <1>8, <1>9, <1>10, <1>11 DEF Capture

\* Every step leaves every variable of its type.
LEMMA TypeStep == TypeOK /\ [Next]_vars => TypeOK'
<1> SUFFICES ASSUME TypeOK, [Next]_vars PROVE TypeOK'
  OBVIOUS
<1>1. CASE UNCHANGED vars
  BY <1>1 DEF TypeOK, StreamTypeOK, RequestTypeOK, vars, netVars, runVars, frameVars, capVars
<1>2. CASE Next
  BY <1>2, StreamTypeStep, RequestTypeStep DEF Next
<1> QED
  BY <1>1, <1>2

-----------------------------------------------------------------------------
(***************************************************************************)
(* The stream: which parameter sets are known.                             *)
(***************************************************************************)

\* StreamOK depends on these variables only.
LEMMA StreamFrame ==
    ASSUME StreamOK, UNCHANGED <<netVars, runVars, sps, pps>>
    PROVE  StreamOK'
  BY DEF StreamOK, Known, netVars, runVars

\* Every step of the device, the network and the track keeps track of what is known.
LEMMA StreamStep ==
    ASSUME TypeOK, StreamOK, Next
    PROVE  StreamOK'
<1> USE CaptureAssumption DEF CaptureAssumption
<1>1. CASE UnitLost
  BY <1>1 DEF UnitLost, StreamOK
<1>2. CASE OnTrack
  BY <1>2 DEF OnTrack, SeedParameterSets, StreamOK, Known, netVars
<1>3. CASE Push
  <2>1. PICK v \in Versions, h \in Contents :
          /\ Encoded(v, h)
          /\ builder' = <<[ver |-> v, has |-> h, after |-> {r \in Traced : Started(r)}]>>
    BY <1>3 DEF Push
  <2>2. builder' # <<>> /\ builder'[1].ver = v /\ builder'[1].has = h
    BY <2>1
  <2>3. enc' = v /\ (v # enc => "params" \in h)
    BY <2>1 DEF Encoded
  <2>4. trackPc = "read" /\ lostParams' = lostParams /\ sps' = sps /\ pps' = pps
    BY <1>3 DEF Push, frameVars
  <2>5. CASE builder = <<>>
    <3>1. trackPc' = "read"
      BY <1>3, <2>4, <2>5 DEF Push, runVars
    <3> QED
      BY <2>2, <2>3, <2>4, <2>5, <3>1 DEF StreamOK, Known
  <2>6. CASE builder # <<>>
    <3>1. trackPc' = "params" /\ unit' = builder[1]
      BY <1>3, <2>6 DEF Push
    <3> QED
      BY <2>2, <2>3, <2>4, <2>6, <3>1 DEF StreamOK, Known
  <2> QED
    BY <2>5, <2>6
<1>4. CASE IngestParams
  BY <1>4 DEF IngestParams, StreamOK, Known, netVars
<1>5. CASE IngestFrame
  BY <1>5 DEF IngestFrame, StreamOK, Known, netVars
<1>6. CASE EndRun
  BY <1>6 DEF EndRun, StreamOK, netVars
<1>7. CASE ConnectionDown
  BY <1>7, StreamFrame DEF ConnectionDown, frameVars
<1>8. ASSUME NEW r \in Requests, Capture(r) \/ ContextEnds(r) PROVE StreamOK'
  <2>1. UNCHANGED <<netVars, runVars, frameVars>>
    BY <1>8, RequestTypeStep
  <2> QED
    BY <2>1, StreamFrame DEF frameVars
<1> QED
  BY <1>1, <1>2, <1>3, <1>4, <1>5, <1>6, <1>7, <1>8 DEF Next, Track

\* IngestFrame is the only step that publishes a frame. What it publishes is counted,
\* decodable unless parameter sets were lost, and wakes whoever waits.
LEMMA Published ==
    ASSUME TypeOK, StreamOK, UnitLost \/ Track \/ ConnectionDown
    PROVE  \/ UNCHANGED <<latest, generation>>
           \/ /\ generation' = generation + 1 /\ updated' = updated + 1
              /\ latest' # <<>> /\ latest'[1].generation = generation'
              /\ mediaErr = "none" /\ mediaErr' = "none" /\ UNCHANGED lostParams
              /\ ~lostParams => Decodable(latest'[1])
<1>1. CASE IngestFrame /\ CanAssemble
  <2> DEFINE f == [sps |-> sps, pps |-> pps, idr |-> unit.ver,
                   generation |-> generation + 1, after |-> unit.after]
  <2>1. latest' = <<f>> /\ generation' = generation + 1 /\ updated' = updated + 1
    BY <1>1 DEF IngestFrame, NotifyLocked
  <2>2. latest' # <<>> /\ latest'[1] = f
    BY <2>1
  <2>3. ~lostParams => Decodable(f)
    BY <1>1 DEF IngestFrame, CanAssemble, StreamOK, Known, Decodable
  <2>4. f.generation = generation + 1
    OBVIOUS
  <2> QED
    BY <1>1, <2>1, <2>2, <2>3, <2>4 DEF IngestFrame, CanAssemble, netVars
<1>2. CASE IngestFrame /\ ~CanAssemble
  BY <1>2 DEF IngestFrame
<1>3. CASE ~IngestFrame
  BY <1>3 DEF Track, UnitLost, OnTrack, Push, IngestParams, EndRun, ConnectionDown, frameVars
<1> QED
  BY <1>1, <1>2, <1>3

-----------------------------------------------------------------------------
(***************************************************************************)
(* The requests: what they hold and what they are given.                   *)
(***************************************************************************)

\* A request is given the published frame when it is newer than its boundary, and drops
\* it when decoding fails.
LEMMA Given ==
    ASSUME TypeOK, NEW r \in Requests, Capture(r) \/ ContextEnds(r)
    PROVE  \/ got'[r] = got[r]
           \/ got'[r] = <<>> /\ capPc'[r] = "done" /\ outcome'[r] = "error"
           \/ got'[r] = latest /\ capPc[r] = "check" /\ Newer(r)
  BY DEF TypeOK, RequestTypeOK, Capture, CheckAvailable, Lock, GenerationBoundary, WaitCheck,
         Wake, Decode, WriteTemp, Commit, ContextEnds, Goto, Return

\* No step hands out a frame that cannot be decoded.
LEMMA FramesStep ==
    ASSUME TypeOK, StreamOK, FramesOK, Next
    PROVE  FramesOK'
<1>1. CASE UnitLost \/ Track \/ ConnectionDown
  <2>1. UNCHANGED got
    BY <1>1, StreamTypeStep DEF capVars
  <2>2. UNCHANGED lostParams \/ lostParams' = TRUE
    BY <1>1 DEF Track, UnitLost, OnTrack, Push, IngestParams, IngestFrame, EndRun,
                ConnectionDown, netVars
  <2>3. CASE UNCHANGED latest
    BY <2>1, <2>2, <2>3 DEF FramesOK, Decodable
  <2>4. CASE UNCHANGED lostParams /\ (~lostParams => Decodable(latest'[1]))
    BY <2>1, <2>4 DEF FramesOK, Decodable
  <2> QED
    BY <1>1, <2>3, <2>4, Published
<1>2. ASSUME NEW r \in Requests, Capture(r) \/ ContextEnds(r) PROVE FramesOK'
  <2>1. UNCHANGED <<lostParams, latest>> /\ \A q \in Requests : q # r => got'[q] = got[q]
    BY <1>2, RequestTypeStep DEF netVars, frameVars
  <2>2. got'[r] \in {got[r], <<>>, latest}
    BY <1>2, Given
  <2> QED
    BY <2>1, <2>2 DEF FramesOK, Decodable
<1> QED
  BY <1>1, <1>2 DEF Next

\* Every step of a request that ends with a frame to show has one.
LEMMA GotStep ==
    ASSUME TypeOK, GotOK, Next
    PROVE  GotOK'
<1>1. CASE UnitLost \/ Track \/ ConnectionDown
  BY <1>1, StreamTypeStep DEF GotOK, Captured, capVars
<1>2. ASSUME NEW r \in Requests, Capture(r) \/ ContextEnds(r) PROVE GotOK'
  <2>1. \A q \in Requests :
           q # r => capPc'[q] = capPc[q] /\ got'[q] = got[q] /\ outcome'[q] = outcome[q]
    BY <1>2, RequestTypeStep
  <2>2. capPc'[r] \in {"decode", "save", "commit"} \/ outcome'[r] \in {"captured", "saved"}
            => got'[r] # <<>>
    BY <1>2
    DEF TypeOK, RequestTypeOK, GotOK, Captured, Capture, CheckAvailable, Lock,
        GenerationBoundary, WaitCheck, Newer, Wake, Decode, WriteTemp, Commit, ContextEnds,
        Goto, Return
  <2> QED
    BY <2>1, <2>2 DEF GotOK, Captured
<1> QED
  BY <1>1, <1>2 DEF Next

\* The command lock excludes: nobody enters while it is held, and only its holder
\* gives it back (client.go: lock and the deferred unlock).
LEMMA LockStep ==
    ASSUME TypeOK, LockOK, Next
    PROVE  LockOK'
<1>1. CASE UnitLost \/ Track \/ ConnectionDown
  BY <1>1, StreamTypeStep DEF LockOK, capVars
<1>2. ASSUME NEW r \in Requests, Capture(r) \/ ContextEnds(r) PROVE LockOK'
  <2>1. \A q \in Requests : q # r => capPc'[q] = capPc[q]
    BY <1>2, RequestTypeStep
  <2>2. \/ cmdMu' = cmdMu /\ (capPc'[r] \in UnderLock => capPc[r] \in UnderLock)
        \/ cmdMu = Nobody /\ cmdMu' = r
        \/ cmdMu \in {r, Nobody} /\ capPc'[r] \notin UnderLock
    BY <1>2, CaptureAssumption
    DEF CaptureAssumption, TypeOK, RequestTypeOK, Capture, CheckAvailable, Lock,
        GenerationBoundary, WaitCheck, Wake, Decode, WriteTemp, Commit, ContextEnds, Goto,
        Return, UnderLock
  <2> QED
    BY <2>1, <2>2, CaptureAssumption DEF LockOK, CaptureAssumption
<1> QED
  BY <1>1, <1>2 DEF Next

\* Frames are counted when they are published, boundaries are read from that count under
\* the command lock, and a request takes a frame with the lock still held.
LEMMA GenerationStep ==
    ASSUME TypeOK, StreamOK, LockOK, GenerationOK, Next
    PROVE  GenerationOK'
<1>1. CASE UnitLost \/ Track \/ ConnectionDown
  <2>1. UNCHANGED <<capPc, got, boundary>>
    BY <1>1, StreamTypeStep DEF capVars
  <2>2. generation \in Nat /\ got \in [Requests -> AtMostOne(Frame)]
    BY DEF TypeOK, StreamTypeOK, RequestTypeOK
  <2>3. \A r \in Requests : got[r] # <<>> => got[r][1].generation \in Nat
    <3> SUFFICES ASSUME NEW r \in Requests, got[r] # <<>>
                 PROVE  got[r][1].generation \in Nat
      OBVIOUS
    <3>1. got[r][1] \in Frame
      BY <2>2, AtMostOneElement
    <3> QED
      BY <3>1 DEF Frame
  <2>4. \/ UNCHANGED <<latest, generation>>
        \/ generation' = generation + 1 /\ latest'[1].generation = generation'
    BY <1>1, Published
  <2> QED
    BY <2>1, <2>2, <2>3, <2>4 DEF GenerationOK
<1>2. ASSUME NEW r \in Requests, Capture(r) \/ ContextEnds(r) PROVE GenerationOK'
  <2>1. UNCHANGED <<latest, generation>>
    BY <1>2, RequestTypeStep DEF frameVars
  <2>2. \A q \in Requests : q # r =>
           capPc'[q] = capPc[q] /\ got'[q] = got[q] /\ boundary'[q] = boundary[q]
    BY <1>2, RequestTypeStep
  <2>3. generation \in Nat
    BY DEF TypeOK, StreamTypeOK
  <2>4. /\ latest # <<>> => latest[1].generation = generation
        /\ \A q \in Requests : got'[q] # <<>> => got'[q][1].generation <= generation
    <3>1. got'[r] = got[r] \/ got'[r] = <<>> \/ (got'[r] = latest /\ latest # <<>>)
      BY <1>2, Given DEF Newer
    <3> QED
      BY <2>2, <2>3, <3>1 DEF GenerationOK
  <2>5. ASSUME NEW p \in Requests, NEW q \in Requests,
               capPc'[p] \in {"check", "sleep"}, got'[q] # <<>>
        PROVE  got'[q][1].generation <= boundary'[p]
    <3>1. CASE got'[q] # got[q]
      <4>1. q = r /\ capPc[r] = "check"
        BY <1>2, <2>2, <2>5, <3>1, Given
      <4>2. capPc'[r] = "decode"
        BY <1>2, <2>5, <3>1, <4>1
        DEF TypeOK, RequestTypeOK, Capture, CheckAvailable, Lock, GenerationBoundary,
            WaitCheck, Wake, Decode, WriteTemp, Commit, ContextEnds, Goto, Return
      <4>3. p # r
        BY <2>5, <4>2
      <4> QED
        BY <2>2, <2>5, <4>1, <4>3 DEF LockOK, UnderLock
    <3>2. CASE got'[q] = got[q] /\ p # r
      BY <2>2, <2>5, <3>2 DEF GenerationOK
    <3>3. CASE got'[q] = got[q] /\ p = r
      <4>1. \/ GenerationBoundary(r)
            \/ capPc[r] \in {"check", "sleep"} /\ boundary'[r] = boundary[r]
        BY <1>2, <2>5, <3>3
        DEF TypeOK, RequestTypeOK, Capture, CheckAvailable, Lock, WaitCheck, Wake, Decode,
            WriteTemp, Commit, ContextEnds, Goto, Return
      <4>2. GenerationBoundary(r) => boundary'[r] = generation
        BY DEF TypeOK, RequestTypeOK, GenerationBoundary
      <4> QED
        BY <2>5, <3>3, <4>1, <4>2 DEF GenerationOK
    <3> QED
      BY <3>1, <3>2, <3>3
  <2> QED
    BY <2>1, <2>4, <2>5 DEF GenerationOK
<1> QED
  BY <1>1, <1>2 DEF Next

\* The frame a request takes is newer than its boundary, and so newer than every frame
\* anybody has.
LEMMA DistinctStep ==
    ASSUME TypeOK, GenerationOK, DistinctOK, Next
    PROVE  DistinctOK'
<1>1. CASE UnitLost \/ Track \/ ConnectionDown
  BY <1>1, StreamTypeStep DEF DistinctOK, capVars
<1>2. ASSUME NEW r \in Requests, Capture(r) \/ ContextEnds(r) PROVE DistinctOK'
  <2>1. \A q \in Requests : q # r => got'[q] = got[q]
    BY <1>2, RequestTypeStep
  <2>2. CASE got'[r] \in {got[r], <<>>}
    BY <2>1, <2>2 DEF DistinctOK
  <2>3. CASE got'[r] = latest /\ capPc[r] = "check" /\ Newer(r)
    <3>1. boundary[r] \in Nat /\ got \in [Requests -> AtMostOne(Frame)]
          /\ latest \in AtMostOne(Frame)
      BY DEF TypeOK, StreamTypeOK, RequestTypeOK
    <3>2. latest[1].generation \in Nat /\ latest[1].generation > boundary[r]
      <4>1. latest[1] \in Frame
        BY <2>3, <3>1, AtMostOneElement DEF Newer
      <4> QED
        BY <2>3, <4>1 DEF Newer, Frame
    <3>3. ASSUME NEW q \in Requests, got[q] # <<>>
          PROVE  got[q][1].generation # latest[1].generation
      <4>1. got[q][1] \in Frame
        BY <3>1, <3>3, AtMostOneElement
      <4>2. got[q][1].generation \in Nat
        BY <4>1 DEF Frame
      <4>3. got[q][1].generation <= boundary[r]
        BY <2>3, <3>3 DEF GenerationOK
      <4> QED
        BY <3>1, <3>2, <4>2, <4>3
    <3> QED
      BY <2>1, <2>3, <3>3 DEF DistinctOK
  <2> QED
    BY <1>2, <2>2, <2>3, Given
<1> QED
  BY <1>1, <1>2 DEF Next

\* A new frame or an error comes with a new channel.
LEMMA Notified ==
    ASSUME TypeOK, StreamOK, UnitLost \/ Track \/ ConnectionDown
    PROVE  \/ UNCHANGED <<latest, mediaErr, updated>>
           \/ updated' = updated + 1
<1>1. CASE UNCHANGED <<latest, generation>>
  BY <1>1
  DEF Track, UnitLost, OnTrack, Push, IngestParams, IngestFrame, EndRun, ConnectionDown,
      FailWith, NotifyLocked, frameVars
<1> QED
  BY <1>1, Published

\* Whoever sleeps looked at the frame and at the error under the mutex, together with the
\* channel.
LEMMA WaitStep ==
    ASSUME TypeOK, StreamOK, WaitOK, Next
    PROVE  WaitOK'
<1>1. CASE UnitLost \/ Track \/ ConnectionDown
  <2>1. UNCHANGED <<capPc, awaited, boundary>>
    BY <1>1, StreamTypeStep DEF capVars
  <2>2. updated \in Nat /\ awaited \in [Requests -> Nat]
    BY DEF TypeOK, StreamTypeOK, RequestTypeOK
  <2>3. CASE UNCHANGED <<latest, mediaErr, updated>>
    BY <2>1, <2>3 DEF WaitOK, NoMissedUpdate, Newer
  <2>4. CASE updated' = updated + 1
    BY <2>1, <2>2, <2>4 DEF WaitOK, NoMissedUpdate
  <2> QED
    BY <1>1, <2>3, <2>4, Notified
<1>2. ASSUME NEW r \in Requests, Capture(r) \/ ContextEnds(r) PROVE WaitOK'
  <2>1. UNCHANGED <<latest, mediaErr, updated>>
    BY <1>2, RequestTypeStep DEF frameVars
  <2>2. \A q \in Requests : q # r =>
           capPc'[q] = capPc[q] /\ awaited'[q] = awaited[q] /\ boundary'[q] = boundary[q]
    BY <1>2, RequestTypeStep
  <2>3. capPc'[r] = "sleep" =>
           \/ capPc[r] = "sleep" /\ awaited'[r] = awaited[r] /\ boundary'[r] = boundary[r]
           \/ /\ ~Newer(r) /\ mediaErr = "none"
              /\ awaited'[r] = updated /\ boundary'[r] = boundary[r]
    BY <1>2
    DEF TypeOK, RequestTypeOK, Capture, CheckAvailable, Lock, GenerationBoundary, WaitCheck,
        Wake, Decode, WriteTemp, Commit, ContextEnds, Goto, Return
  <2>4. updated \in Nat
    BY DEF TypeOK, StreamTypeOK
  <2> QED
    BY <2>1, <2>2, <2>3, <2>4 DEF WaitOK, NoMissedUpdate, Newer
<1> QED
  BY <1>1, <1>2 DEF Next

\* The rename and the answer "saved" are one step, the last.
LEMMA SaveStep ==
    ASSUME TypeOK, SaveOK, Next
    PROVE  SaveOK'
<1>1. CASE UnitLost \/ Track \/ ConnectionDown
  BY <1>1, StreamTypeStep DEF SaveOK, SaveIsAtomic, capVars
<1>2. ASSUME NEW r \in Requests, Capture(r) \/ ContextEnds(r) PROVE SaveOK'
  <2>1. \A q \in Requests : q # r =>
           capPc'[q] = capPc[q] /\ outcome'[q] = outcome[q] /\ file'[q] = file[q]
    BY <1>2, RequestTypeStep
  <2>2. /\ capPc[r] # "done"
        /\ \/ capPc'[r] = "done" /\ file'[r] = "new" /\ outcome'[r] = "saved"
           \/ file'[r] = file[r] /\ outcome'[r] \in {outcome[r], "error", "captured"}
    BY <1>2
    DEF TypeOK, RequestTypeOK, Capture, CheckAvailable, Lock, GenerationBoundary, WaitCheck,
        Wake, Decode, WriteTemp, Commit, ContextEnds, Goto, Return
  <2> QED
    BY <2>1, <2>2 DEF SaveOK, SaveIsAtomic
<1> QED
  BY <1>1, <1>2 DEF Next

-----------------------------------------------------------------------------
(***************************************************************************)
(* The theorems.                                                           *)
(***************************************************************************)

\* Before the track and the first request there is nothing to be wrong.
LEMMA CaptureInit == Init => CaptureInv
<1> SUFFICES ASSUME Init PROVE CaptureInv
  OBVIOUS
<1>1. TypeOK
  BY TypeInit
<1> QED
  BY <1>1
  DEF Init, CaptureInv, StreamOK, FramesOK, GotOK, LockOK, GenerationOK, DistinctOK, WaitOK,
      SaveOK, Known, Captured, NoMissedUpdate, SaveIsAtomic, UnderLock

\* Every step of the stream, of ingestion and of the requests keeps the invariant.
LEMMA CaptureStep == CaptureInv /\ [Next]_vars => CaptureInv'
<1> SUFFICES ASSUME CaptureInv, [Next]_vars PROVE CaptureInv'
  OBVIOUS
<1>1. CASE Next
  BY <1>1, TypeStep, StreamStep, FramesStep, GotStep, LockStep, GenerationStep, DistinctStep,
     WaitStep, SaveStep
  DEF CaptureInv
<1>2. CASE UNCHANGED vars
  BY <1>2
  DEF vars, netVars, runVars, frameVars, capVars, CaptureInv, TypeOK, StreamTypeOK,
      RequestTypeOK, StreamOK, FramesOK, GotOK, LockOK, GenerationOK, DistinctOK, WaitOK,
      SaveOK, Known, Captured, NoMissedUpdate, SaveIsAtomic, Newer
<1> QED
  BY <1>1, <1>2

\* The invariant of the frame capture and its requests.
THEOREM CaptureCorrect == Spec => []CaptureInv
  BY CaptureInit, CaptureStep, PTL DEF Spec

\* A screenshot is a frame with the parameter sets its slices were encoded with
\* (video.go:28-33), through seeding, changes of mode and losses that spare parameter sets.
THEOREM DecodableCorrect == Spec => []FrameIsDecodable
<1>1. CaptureInv => FrameIsDecodable
  BY DEF CaptureInv, FramesOK, GotOK, Decodable, FrameIsDecodable
<1> QED
  BY <1>1, CaptureCorrect, PTL

\* No two requests are ever given the same frame: the boundary is read, and the frame
\* taken, under one and the same command lock (client.go, CaptureScreenshot).
THEOREM OneFrameCorrect == Spec => []OneFramePerRequest
<1>1. CaptureInv => OneFramePerRequest
  BY DEF CaptureInv, DistinctOK, GotOK, OneFramePerRequest
<1> QED
  BY <1>1, CaptureCorrect, PTL

\* notifyLocked loses nobody (video.go:267-270).
THEOREM UpdateCorrect == Spec => []NoMissedUpdate
<1>1. CaptureInv => NoMissedUpdate
  BY DEF CaptureInv, WaitOK
<1> QED
  BY <1>1, CaptureCorrect, PTL

\* SaveScreenshot is all or nothing (client.go:446-448), whichever step fails.
THEOREM SaveCorrect == Spec => []SaveIsAtomic
<1>1. CaptureInv => SaveIsAtomic
  BY DEF CaptureInv, SaveOK
<1> QED
  BY <1>1, CaptureCorrect, PTL
=============================================================================
