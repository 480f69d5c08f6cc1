---------------------------- MODULE FrameCapture ----------------------------
(***************************************************************************)
(* Screenshots: frameCapture (video.go), fed by the goroutine of the video *)
(* track (session.go, OnTrack), and its readers CaptureScreenshot and      *)
(* SaveScreenshot (client.go).                                             *)
(*                                                                         *)
(* One access unit stands for all its RTP packets. What matters of it is   *)
(* which parameter sets it was encoded with, whether it carries them, and  *)
(* whether it is a keyframe. Losing one packet loses the access unit       *)
(* (h264.go:31-38).                                                        *)
(***************************************************************************)
EXTENDS Integers, Sequences

CONSTANTS
    Requests,      \* calls of SaveScreenshot, each with a path of its own
    Nobody,        \* nobody holds cmdMu
    Versions,      \* parameter sets (SPS and PPS) of the encoder
    FirstVersion,  \* the one in force when the track starts
    NoVersion,     \* no parameter set known
    MaxUnits,      \* bound: number of access units the device sends
    Traced         \* the requests whose frames are traced back to their arrival

ASSUME CaptureAssumption ==
    /\ Nobody \notin Requests
    /\ FirstVersion \in Versions /\ NoVersion \notin Versions
    /\ MaxUnits \in Nat
    /\ Traced \subseteq Requests

\* What an access unit may carry: nothing of interest, a keyframe, parameter
\* sets ahead of a later keyframe, or both.
Contents == {{}, {"idr"}, {"params"}, {"params", "idr"}}

\* A unit has the parameter sets it was encoded with (ver), what it carries (has), and
\* the traced requests that were already under way when it had been received in full
\* (after). A frame has the parameter sets put in front of the slices and the slices' own.

VARIABLES
    enc, sent, lostParams,         \* the encoder; units sent; a unit with parameter sets was lost
    builder,                       \* the unit the sample builder holds back, if any
    trackPc, unit,                 \* the track goroutine and the unit it ingests
    sps, pps, latest, generation,  \* frameCapture, latest as a sequence of at most one
    mediaErr, updated,             \* frameCapture.err; the identity of the channel frameCapture.updated
    capPc, ctxDone, cmdMu,         \* the requests: place, context ended, the command lock
    boundary, awaited, got,        \* ... generation boundary, channel waited on, frame obtained
    outcome, file                  \* ... result, what is at the output path

netVars == <<enc, sent, lostParams, builder>>
runVars == <<trackPc, unit>>
frameVars == <<sps, pps, latest, generation>>
capVars == <<capPc, ctxDone, cmdMu, boundary, awaited, got, outcome, file>>
vars == <<netVars, runVars, frameVars, mediaErr, updated, capVars>>

NoUnit == [ver |-> FirstVersion, has |-> {}, after |-> {}]

Init ==
    /\ enc = FirstVersion /\ sent = 0 /\ lostParams = FALSE
    /\ builder = <<>>
    /\ trackPc = "start" /\ unit = NoUnit
    /\ sps = NoVersion /\ pps = NoVersion /\ latest = <<>> /\ generation = 0
    /\ mediaErr = "none" /\ updated = 0
    /\ capPc = [r \in Requests |-> "idle"]
    /\ ctxDone = [r \in Requests |-> FALSE]
    /\ cmdMu = Nobody
    /\ boundary = [r \in Requests |-> 0]
    /\ awaited = [r \in Requests |-> 0]
    /\ got = [r \in Requests |-> <<>>]
    /\ outcome = [r \in Requests |-> "none"]
    /\ file = [r \in Requests |-> "old"]

Started(r) == capPc[r] \notin {"idle", "lock"}

-----------------------------------------------------------------------------
(***************************************************************************)
(* The device, the network and the sample builder (external).              *)
(***************************************************************************)

\* The next access unit of the device. New parameter sets are announced in the unit
\* that brings them into force.
Encoded(v, h) ==
    /\ sent < MaxUnits
    /\ sent' = sent + 1
    /\ v # enc => "params" \in h
    /\ enc' = v

\* A unit with parameter sets is lost on its way. Without the others the stream is
\* just shorter.
UnitLost ==
    /\ \E v \in Versions, h \in Contents : Encoded(v, h) /\ "params" \in h
    /\ lostParams' = TRUE
    /\ UNCHANGED <<builder, runVars, frameVars, mediaErr, updated, capVars>>

-----------------------------------------------------------------------------
(***************************************************************************)
(* frameCapture: notifyLocked, fail and the track goroutine.               *)
(***************************************************************************)

\* Mutant: waiters are not told.
NotifyLocked_Silent == UNCHANGED updated

\* notifyLocked: the current channel is closed and replaced.
NotifyLocked == updated' = updated + 1

\* fail: the first terminal error stays, and wakes the waiters.
FailWith(e) ==
    IF mediaErr # "none" THEN UNCHANGED <<mediaErr, updated>>
    ELSE mediaErr' = e /\ NotifyLocked

\* seedParameterSets: the SDP answer may carry parameter sets; they only fill a gap.
SeedParameterSets(seeded) ==
    /\ sps' = IF seeded /\ sps = NoVersion THEN FirstVersion ELSE sps
    /\ pps' = IF seeded /\ pps = NoVersion THEN FirstVersion ELSE pps

\* OnTrack: a codec other than H.264 is rejected for good.
OnTrack ==
    /\ trackPc = "start"
    /\ \/ /\ trackPc' = "ended"
          /\ FailWith("codec")
          /\ UNCHANGED <<sps, pps>>
       \/ /\ trackPc' = "read"
          /\ \E seeded \in BOOLEAN : SeedParameterSets(seeded)
          /\ UNCHANGED <<mediaErr, updated>>
    /\ UNCHANGED <<netVars, unit, latest, generation, capVars>>

\* run and push: the next unit arrives. The sample builder keeps it until it can prove
\* that it is complete, which the packets of the following unit do, and hands out the
\* one before it.
Push ==
    /\ trackPc = "read"
    /\ \E v \in Versions, h \in Contents :
         /\ Encoded(v, h)
         /\ builder' = <<[ver |-> v, has |-> h, after |-> {r \in Traced : Started(r)}]>>
    /\ IF builder = <<>> THEN UNCHANGED runVars
       ELSE unit' = builder[1] /\ trackPc' = "params"
    /\ UNCHANGED <<lostParams, frameVars, mediaErr, updated, capVars>>

\* Mutant: parameter sets are adopted once.
IngestParams_KeepFirst ==
    /\ trackPc = "params"
    /\ sps' = IF "params" \in unit.has /\ sps = NoVersion THEN unit.ver ELSE sps
    /\ pps' = IF "params" \in unit.has /\ pps = NoVersion THEN unit.ver ELSE pps
    /\ IF "idr" \in unit.has THEN trackPc' = "frame" /\ UNCHANGED unit
       ELSE trackPc' = "read" /\ unit' = NoUnit
    /\ UNCHANGED <<netVars, latest, generation, mediaErr, updated, capVars>>

\* ingest, the scan: parameter sets in the stream replace what is known.
IngestParams ==
    /\ trackPc = "params"
    /\ sps' = IF "params" \in unit.has THEN unit.ver ELSE sps
    /\ pps' = IF "params" \in unit.has THEN unit.ver ELSE pps
    /\ IF "idr" \in unit.has THEN trackPc' = "frame" /\ UNCHANGED unit
       ELSE trackPc' = "read" /\ unit' = NoUnit
    /\ UNCHANGED <<netVars, latest, generation, mediaErr, updated, capVars>>

CanAssemble == mediaErr = "none" /\ sps # NoVersion /\ pps # NoVersion

\* ingest, its last section: assemble the frame, count it, publish it, wake the waiters.
IngestFrame ==
    /\ trackPc = "frame"
    /\ trackPc' = "read"
    /\ unit' = NoUnit
    /\ IF CanAssemble
       THEN /\ generation' = generation + 1
            /\ latest' = <<[sps |-> sps, pps |-> pps, idr |-> unit.ver,
                            generation |-> generation + 1, after |-> unit.after]>>
            /\ NotifyLocked
       ELSE UNCHANGED <<generation, latest, updated>>
    /\ UNCHANGED <<netVars, sps, pps, mediaErr, capVars>>

\* run ends, on a read error or with the session's context; endRun.
EndRun ==
    /\ trackPc = "read"
    /\ trackPc' = "ended"
    /\ FailWith("track")
    /\ UNCHANGED <<netVars, unit, frameVars, capVars>>

\* OnConnectionStateChange: failed, closed or disconnected. The track may go on.
ConnectionDown ==
    /\ mediaErr = "none"
    /\ FailWith("connection")
    /\ UNCHANGED <<netVars, runVars, frameVars, capVars>>

-----------------------------------------------------------------------------
(***************************************************************************)
(* CaptureScreenshot.                                                      *)
(***************************************************************************)
Goto(r, pc) == capPc' = [capPc EXCEPT ![r] = pc]

\* CaptureScreenshot returns: the deferred unlock runs, if the lock was taken.
Return(r, res) ==
    /\ outcome' = [outcome EXCEPT ![r] = res]
    /\ cmdMu' = IF cmdMu = r THEN Nobody ELSE cmdMu

\* CheckAvailable: without a decoder, nothing is attempted.
CheckAvailable(r) ==
    /\ capPc[r] = "idle"
    /\ \/ Goto(r, "lock") /\ UNCHANGED <<outcome, cmdMu>>
       \/ Goto(r, "done") /\ Return(r, "error")
    /\ UNCHANGED <<netVars, runVars, frameVars, mediaErr, updated,
                   ctxDone, boundary, awaited, got, file>>

\* Client.lock.
Lock(r) ==
    /\ capPc[r] = "lock"
    /\ \/ /\ ctxDone[r]
          /\ Goto(r, "done") /\ Return(r, "error")
       \/ /\ ~ctxDone[r] /\ cmdMu = Nobody
          /\ cmdMu' = r
          /\ Goto(r, "boundary")
          /\ UNCHANGED outcome
    /\ UNCHANGED <<netVars, runVars, frameVars, mediaErr, updated,
                   ctxDone, boundary, awaited, got, file>>

GenerationBoundary(r) ==
    /\ capPc[r] = "boundary"
    /\ boundary' = [boundary EXCEPT ![r] = generation]
    /\ Goto(r, "check")
    /\ UNCHANGED <<netVars, runVars, frameVars, mediaErr, updated,
                   ctxDone, cmdMu, awaited, got, outcome, file>>

\* Mutant: the frame at the boundary is good enough.
Newer_OrSame(r) == latest # <<>> /\ latest[1].generation >= boundary[r]

Newer(r) == latest # <<>> /\ latest[1].generation > boundary[r]

\* waitForFrameAfter under the mutex: a newer frame, else the error, else the channel
\* to wait on. Its locals are dropped when it returns.
WaitCheck(r) ==
    /\ capPc[r] = "check"
    /\ \/ /\ Newer(r)
          /\ got' = [got EXCEPT ![r] = latest]
          /\ Goto(r, "decode")
          /\ boundary' = [boundary EXCEPT ![r] = 0]
          /\ UNCHANGED <<awaited, outcome, cmdMu>>
       \/ /\ ~Newer(r) /\ mediaErr # "none"
          /\ Goto(r, "done") /\ Return(r, "error")
          /\ boundary' = [boundary EXCEPT ![r] = 0]
          /\ UNCHANGED <<got, awaited>>
       \/ /\ ~Newer(r) /\ mediaErr = "none"
          /\ awaited' = [awaited EXCEPT ![r] = updated]
          /\ Goto(r, "sleep")
          /\ UNCHANGED <<got, boundary, outcome, cmdMu>>
    /\ UNCHANGED <<netVars, runVars, frameVars, mediaErr, updated, ctxDone, file>>

\* ... and its select.
Wake(r) ==
    /\ capPc[r] = "sleep"
    /\ awaited' = [awaited EXCEPT ![r] = 0]
    /\ \/ /\ awaited[r] # updated
          /\ Goto(r, "check")
          /\ UNCHANGED <<boundary, outcome, cmdMu>>
       \/ /\ ctxDone[r]
          /\ Goto(r, "done") /\ Return(r, "error")
          /\ boundary' = [boundary EXCEPT ![r] = 0]
    /\ UNCHANGED <<netVars, runVars, frameVars, mediaErr, updated, ctxDone, got, file>>

\* Decode, check the dimensions, encode: each may fail, and the context is asked after
\* decoding and again after encoding.
Decode(r) ==
    /\ capPc[r] = "decode"
    /\ \/ /\ Goto(r, "done") /\ Return(r, "error")
          /\ got' = [got EXCEPT ![r] = <<>>]
       \/ /\ ~ctxDone[r]
          /\ Goto(r, "save") /\ Return(r, "captured")
          /\ UNCHANGED got
    /\ UNCHANGED <<netVars, runVars, frameVars, mediaErr, updated,
                   ctxDone, boundary, awaited, file>>

-----------------------------------------------------------------------------
(***************************************************************************)
(* writeScreenshot.                                                        *)
(***************************************************************************)

\* Mutant: the image is written in place.
WriteTemp_InPlace(r) ==
    /\ capPc[r] = "save"
    /\ \/ /\ ~ctxDone[r]
          /\ Goto(r, "commit") /\ file' = [file EXCEPT ![r] = "partial"] /\ UNCHANGED outcome
       \/ /\ Goto(r, "done")
          /\ outcome' = [outcome EXCEPT ![r] = "error"]
          /\ UNCHANGED file
    /\ UNCHANGED <<netVars, runVars, frameVars, mediaErr, updated,
                   ctxDone, cmdMu, boundary, awaited, got>>

\* The directory and the temporary file; any step may fail.
WriteTemp(r) ==
    /\ capPc[r] = "save"
    /\ \/ /\ ~ctxDone[r]
          /\ Goto(r, "commit") /\ UNCHANGED outcome
       \/ /\ Goto(r, "done")
          /\ outcome' = [outcome EXCEPT ![r] = "error"]
    /\ UNCHANGED <<netVars, runVars, frameVars, mediaErr, updated,
                   ctxDone, cmdMu, boundary, awaited, got, file>>

\* The rename commits, unless the context ended first or the rename fails.
Commit(r) ==
    /\ capPc[r] = "commit"
    /\ Goto(r, "done")
    /\ \/ /\ ~ctxDone[r]
          /\ file' = [file EXCEPT ![r] = "new"]
          /\ outcome' = [outcome EXCEPT ![r] = "saved"]
       \/ /\ outcome' = [outcome EXCEPT ![r] = "error"]
          /\ UNCHANGED file
    /\ UNCHANGED <<netVars, runVars, frameVars, mediaErr, updated,
                   ctxDone, cmdMu, boundary, awaited, got>>

ContextEnds(r) ==
    /\ capPc[r] # "done"
    /\ ~ctxDone[r]
    /\ ctxDone' = [ctxDone EXCEPT ![r] = TRUE]
    /\ UNCHANGED <<netVars, runVars, frameVars, mediaErr, updated,
                   capPc, cmdMu, boundary, awaited, got, outcome, file>>

-----------------------------------------------------------------------------
Track == OnTrack \/ Push \/ IngestParams \/ IngestFrame \/ EndRun

Capture(r) ==
    \/ CheckAvailable(r) \/ Lock(r) \/ GenerationBoundary(r) \/ WaitCheck(r) \/ Wake(r)
    \/ Decode(r) \/ WriteTemp(r) \/ Commit(r)

Next ==
    \/ UnitLost \/ Track \/ ConnectionDown
    \/ \E r \in Requests : Capture(r) \/ ContextEnds(r)

Spec == Init /\ [][Next]_vars

\* Goroutines that can run do run. Nothing is assumed of the device, of the network or
\* of the callers' contexts.
Fairness ==
    /\ WF_vars(IngestParams) /\ WF_vars(IngestFrame)
    /\ \A r \in Requests : WF_vars(Capture(r))

FairSpec == Spec /\ Fairness

-----------------------------------------------------------------------------
(***************************************************************************)
(* Properties.                                                             *)
(***************************************************************************)

Captured(r) == outcome[r] \in {"captured", "saved"}

\* A frame can be decoded on its own (video.go:28-33): the parameter sets put in front
\* of the keyframe are the ones it was encoded with, through the SDP's sets, a change of
\* mode and lost units, unless the loss took parameter sets with it.
FrameIsDecodable ==
    \A r \in Requests :
        Captured(r) /\ ~lostParams => got[r][1].sps = got[r][1].idr /\ got[r][1].pps = got[r][1].idr

\* Each screenshot is a frame of its own: no two requests, one after the other or
\* waiting together, are given the same one.
OneFramePerRequest ==
    \A r, q \in Requests : r # q /\ Captured(r) /\ Captured(q) => got[r] # got[q]

\* notifyLocked loses nobody (video.go:267-270): whoever sleeps on the current channel
\* has nothing to wake up for.
NoMissedUpdate ==
    \A r \in Requests :
        capPc[r] = "sleep" /\ awaited[r] = updated => ~Newer(r) /\ mediaErr = "none"

\* SaveScreenshot is all or nothing (client.go:446-448): at no moment is there a
\* truncated image at the path, and there is a new one exactly when the caller is told so,
\* whichever step fails or is overtaken by the end of the context. (The temporary file
\* itself, and its deferred removal, are not modelled; the check method `screenshot`
\* writes its artifact in place, and claims nothing of the kind: catalog.go:224.)
SaveIsAtomic ==
    \A r \in Requests : file[r] # "partial" /\ (file[r] = "new" <=> outcome[r] = "saved")

\* The failure of the stream reaches a waiting request, even one whose context never ends.
FailureReachesWaiter ==
    \A r \in Requests :
        (capPc[r] = "sleep" /\ mediaErr # "none") ~> capPc[r] \notin {"check", "sleep"}

\* client.go:365-366, of CaptureScreenshot: "A successful result is therefore always
\* request-fresh: it can never be a cached frame from before this call".
RequestFresh == \A r \in Requests : Captured(r) => r \in got[r][1].after
=============================================================================
