# Formal models of plugin-jetkvm

TLA+ modules for the client half of plugin-jetkvm (`candy/plugin-jetkvm`): a Go
program that controls a JetKVM (a network KVM wired to the keyboard, mouse,
video and power of a real machine) over WebRTC. Paths below are relative to
`candy/plugin-jetkvm/`; `kvmclient` is `internal/kvmclient/`.

What makes this program worth modelling is that its mistakes are physical. A key
that stays down, a wheel event that arrives under somebody else's control, or a
screenshot from before the last key press, is not an exception somebody can
catch. The code knows this: most of `hid.go` and `owner.go` is about what can be
promised to a caller when Send fails, a timer fires or the connection goes away
in between two steps.

## 1. Inventory

| Component | State it keeps | Operations | Interacts with |
|---|---|---|---|
| HID channel (`kvmclient/hid.go`) | connection state; active generation and counter; held model with pointer coordinates; two bounded queues; lifecycle semaphore; one-slot low-buffer signal | readiness handshake, begin lease, send report, keyboard release with drain barrier, release-all, close | one writer goroutine owns Send; Pion's acknowledgement and close callbacks; lease users, watchdogs and Close callers share it |
| Control lease (`kvmclient/owner.go`) | exclusivity slot; per lease a token, `sync.Once`, a lifetime context, a result | Acquire, TryAcquire and their persistent forms, the watchdog, Release, neutralize | calls the HID channel; released by user, watchdog or Close at the same time |
| RPC client (`kvmclient/rpc.go`) | map of pending ids to one-slot channels; send mutex; id counter | call, send, handleMessage, failPending | read pump and OnClose of Pion; every command |
| Client commands (`kvmclient/client.go`, `charly_extension.go`) | command lock; session; lease; decoder | Connect, Status, Call, Scroll, CaptureScreenshot, SaveScreenshot, Close | all of the above |
| Video capture (`kvmclient/video.go`) | SPS, PPS, latest frame, generation, terminal error, notification channel | run/push/ingest, seed parameter sets, fail, boundary, wait for a newer frame | goroutine of the track writes, screenshot requests read |
| Session (`kvmclient/session.go`), signaling (`signaling.go`) | peer connection; queues of local and remote candidates; readiness channels | establish, pump signaling events, request keyframes, close | HTTP login, websocket, Pion callbacks |
| RTP inspection (`h264.go`), diagnostics (`diagnostics.go`) | sequence tracker with a 64-packet window and 16-bit wrap, frame tracker, counters | observe a packet, classify, report the first unmet stage | track goroutine |
| Pure input code (`control_validation.go`, `pointer_drag.go`, `keymap.go`, `keycombo.go`, `type_string.go`, `mouse_button.go`, `hidproto/`) | none | validate, build drag steps, look up, encode | check methods |
| Check methods and gate (`catalog.go`, `methods.go`, `provider.go`, `session.go`, `ocr.go`) | none between steps | safety gate, dispatch, key/type/pointer/drag sequences under one lease, decoding of terminal and flow steps | client commands |
| Credentials and device entity (`credential.go`, `kind.go`) | none | precedence of inline value, environment, store, entity | provider |
| I/O shells (`http.go`, `url.go`, `compat.go`, `decoder.go`, `redact.go`, `errors.go`, `plugin.go`, `install.go`, `cmd/`) | none of their own | one request or subprocess at a time | client commands |

Behaviours that are hard, by component:

* **HID and lease.** Five kinds of goroutine meet: user, watchdog, Close, writer,
  Pion callback. The writer validates under a mutex and sends outside it. Send
  errors are ambiguous. A release needs the writer that may be stuck in a drain
  barrier of the lease that is being released. Two kinds of goroutine consume the
  same one-slot signal. A release may give up and must still not leave a token
  behind. *Correct* means: whoever is told "released" can rely on it, and nobody
  gets control of a machine on which a key may still be down.
* **RPC.** Responses are delivered outside the lock, may come late, twice or
  never, and a lost channel fails everybody. *Correct* means: the pump never
  blocks, and an error that is not marked ambiguous leaves nothing behind.
* **Scroll.** The wheel goes over the RPC channel, which knows nothing of leases.
  *Correct* means: no wheel report is under way while somebody else may hold the
  lease.
* **Video.** A waiter must not miss an update, must not get an old frame, and a
  frame must carry the parameter sets it was encoded with.
* **Session.** Candidates race the offer and the answer, in both directions;
  readiness races loss; an error may come when half of the goroutines run.
  *Correct* means: no candidate is lost or sent too early, nothing the device sends
  stops the trickle, and Connect returns a session that works or leaves nothing open.
* **Diagnostics.** Counters are written by the track goroutine and read one after the
  other; sequence numbers wrap; packets come late, twice or never. *Correct* means: the
  stage a failure names is one the pipeline really was at, and losses are counted right.
* **Check steps.** A step drops the errors of its deferred Release and Close, sends are
  answered before they are delivered, and the watchdog, the host's context or the link
  may strike between any two of them. *Correct* means: a pass means what was authored was
  typed and let go of, nothing acts without consent, and every step ends.

The hazards behind these, each with its line and the properties that cover it,
are listed in `PROJECT.json`.

## 2. Modules

| Module | Models | Extends / instantiates |
|---|---|---|
| `HidClient` | `hid.go`, `owner.go`, `Client.Close` | instantiates `ControlLease` with a refinement mapping |
| `ControlLease` | the promise of the control lease (`owner.go:22-49`), without writer, queues or retries | |
| `HidInvariant` | the inductive invariant of the proofs | extends `HidClient` |
| `MCHid` | the reports users may send in the instances | extends `HidInvariant` |
| `HidProofs`, `HidNeutralProofs`, `HidPromiseProofs` | theorems about `HidClient` | each extends the one before, the first `HidInvariant` |
| `RpcClient` | `rpc.go` | |
| `Scroll` | `Client.Scroll`, `Client.Status`, command lock | extends `RpcClient` |
| `ScrollProofs` | theorems about `RpcClient` and `Scroll` | extends `Scroll` |
| `FrameCapture` | `video.go`, `CaptureScreenshot`, `SaveScreenshot` | |
| `FrameCaptureProofs` | theorems about `FrameCapture` | extends `FrameCapture` |
| `Session` | `Connect`, `Client.Close`, `session.go`, `signaling.go` | |
| `SessionProofs` | theorems about `Session` | extends `Session` |
| `RtpTrackers` | packet classification, sequence and frame-run trackers of `h264.go`, as operators | |
| `VideoDiagnostics` | the counters of `diagnostics.go`, their snapshot, `Boundary`, and the failing `CaptureScreenshot` | extends `RtpTrackers` |
| `MCDiagnostics` | the stream of the instances | extends `VideoDiagnostics` |
| `VideoDiagnosticsProofs` | theorems about `RtpTrackers` and `VideoDiagnostics` | extends `VideoDiagnostics` |
| `PointerDrag` | validators and drag builder (`control_validation.go`, `pointer_drag.go`), as operators | |
| `CheckStep` | Invoke, safety gate, dispatch, check methods, install recipes (`provider.go`, `methods.go`, `catalog.go`, `install.go`), one lease after the other, and Close | extends `PointerDrag` |
| `MCSteps` | the authored steps of the instance | extends `CheckStep` |
| `CheckStepProofs` | theorems about `PointerDrag` and `CheckStep` | extends `CheckStep` |

In each module a definition whose name has a suffix (`BufferFull_OffByOne`) and
whose comment starts with "Mutant:" is a deliberately wrong variant of the
definition that follows it. It is used only to show that a property can fail.

### HidClient

*State.* `state`, `activeGen`, `genCounter`, `held`, `heldPos`, `lifecycle`,
`sendQ`, `prioQ`, `lowEdge`, `handshakeDone` are the fields of `hidClient`; `slot`
is the lease's channel. `activeDone` needs no variable: it is closed exactly when
`activeGen` has moved on from the generation captured in `writerGen`. `wire` is
Pion's outbound buffer and `dev`, `devPos` the peer, which acts on reports in
order (the channel is ordered and reliable). `callPc...` are the user goroutines,
`relPc...` the releases and, under the name `Conn`, the handshake.

*Steps.* One action is one section of code between two points where another
goroutine can come in: a mutex section, a channel operation, a select arm, Send,
a reading of the buffered amount. So `write` is four actions (`Take` inside
`WriterTakePriority`/`WriterTakeInput`, `WriterFinal`, `WriterSend` or
`WriterSendError`, and for a drain request `WriterDrainCheck/Edge/End`), and a
release is `RelLock`, `RelInvalidate`, then `RelEnqueue`/`RelWritten` per report,
`RelDrainCheck/Edge/Down`, `RelClear`, `RelUnlock`, with `RelAttemptFailed` for
every error of an attempt. `Held.Release` by the user and by the watchdog are one
release behind `sync.Once`: whoever comes second waits (`UserRelease`,
`ReleaseReturn`).

*Abstractions.* A frame is its interface, whether it leaves something pressed, and
its coordinates. Bytes of buffer are counted in frames; the low threshold is zero,
as in the code. A context is "ended or not". `AcquireFail` stands for every error
of the four forms of acquire. An abandoned request stays where it is and is marked
dead, which is what its retained, ended context does.

### RpcClient and Scroll

A call is named by its id (never reused). `pending` is the map, `box` the one-slot
channels, `holding` the channels a reader has taken out of the map under the mutex
and not yet written to: this is the window the hazards are about. `inQ` holds
frames of the four kinds `handleMessage` tells apart. `Scroll` adds the command
lock, under which every call of the client is made, so that two calls overlap only
between a return and its late answer; the lease seen from outside (who owns the slot, can the HID channel grant
it), and time in units of `neutralizeTimeout`, because the safety of Scroll rests
on one inequality between two timers. `Status` is the other command that shares
lock and channel; `Call` of `charly_extension.go` takes the same steps. The HID channel
and the RPC channel are lost independently (`SessionDown`, `ChannelDown`): a lost
connection closes the first, the second hears of it by its own OnClose.

### FrameCapture

`sps`, `pps`, `latest`, `generation`, `mediaErr`, `updated` are the fields of
`frameCapture`; a channel is its number, and closing and replacing it is counting.
An access unit is the version of the parameter sets it was encoded with, and what
it carries. `builder` is the unit Pion's sample builder holds back until the next
one proves it complete. The `after` of a unit is history: the requests that were
under way when it had arrived. It is recorded for the requests in `Traced` only, which
keeps the other run small.

Saving is two steps, the temporary file and the rename. The removal of a temporary file
that was not renamed is left out, and so `SaveIsAtomic` is about the path the caller
named. It is a promise of `SaveScreenshot`: the check method `screenshot` writes its
artifact in place (`catalog.go:224`) and makes none.

### Session

`connPc` is the goroutine in Connect and, after success, in Close. `offerOnWire` and
`queuedLocal` are the variables under `localCandidateMu`; `flushLocal` is what Connect
took from the queue, `iceHand` the candidate `OnICECandidate` has let through and not yet
written. `connected`, `closed`, `rpcOpen`, `hidOpen` are the channels that are closed
once, `sessDone` the session's context, `peer` the state Pion has reported. `sigOut` and
`sigIn` are all messages of either side; the pump has read the first `read` of `sigIn`.
`applied` and `rejected` say what became of remote candidates.

A message of the device is its kind; a refused answer, a malformed and an unhandled
message all leave the pump as it was, so the run sends one of them. The HTTP requests
before the websocket are one step that succeeds or fails: they leave nothing open. The
HID handshake is one step here and many in `HidClient`. `OnTrack` runs in a goroutine of
Pion's and may get its turn after the connection is lost or closed; its goroutines then
end at their first look at it. An RPC channel that closes while the connection stays up
is not modelled here: nothing in `session.go` looks at it (readiness asks that the
channels *have* opened), and what the calls on it do is `RpcClient`. `AddICECandidate` for the queued
candidates is one step together with the answer. Neutralization before `session.close`
is in `HidClient`.

### RtpTrackers and VideoDiagnostics

A packet is its place in `Stream`: frame, payload, marker. The network delivers,
repeats, reorders and loses them (`copies` counts). The trackers are operators on
records; `recent`, a bitmap in the code, is the set of its bits, and `Space` and
`Window` stand for 2^16 and 64. No packet is half a turn of the counter or more away
from the latest one (`Near`): beyond that a number does not tell on which side of it the
packet belongs, to this tracker or to any other. The stream itself may go round the
counter any number of times. The track goroutine counts in the order of the code:
wire inspection, then the sample builder, then one NAL unit after the other. `repPc`
is a caller whose screenshot got no frame; it reads the counters one by one (`out`),
as `snapshot` does. A counter `Boundary` only compares with zero is the set of what was
counted. `Says` is what the text of each boundary says, in full; what was true at some
instant of the snapshot is collected in `held`, a history variable, and so are `first`,
`late`, `tooLate`. While the caller waits and reads, the track goroutine goes on and the
network still repeats and reorders packets.

The model starts where Connect returned, so the negotiation rows of `Boundary` are met
only by a rejected or a second answer. The row "fragmentation" is dead code: it is
reached only without an access unit, and looks at the types of NAL units that access units
held. Fragments of which nothing was assembled are reported as "depacketize". The
second snapshot that `CaptureScreenshot` takes for the hint about the HDMI signal, and
`VideoDiagnostics()` called without a failure, read the same counters and are left out,
and so are the tallies by SSRC and the source of the parameter sets, which no answer
depends on.

### PointerDrag and CheckStep

`PointerDrag` is arithmetic: what a builder or a validator accepts is a predicate,
`Interpolate` the weighted form of the code.

A method of `CheckStep` is data: the list of its sub-methods, each with or without a
lease, each the list of its sends, waits and calls, with the report a deferred function
sends if it stops early. One goroutine interprets it (`pc`), and the watchdog, the host's
context and the link act in between. `wire` is the ordered link; a send is answered when
it is queued and delivered later. `acted` is what calls have changed on the device,
`typed` the chords it has seen go down and `down` what is down now. The firmware clears
keys when the last session disconnects; that is the peer's doing and not assumed.

Simplified: relative mouse methods (the steps of an absolute one), the retries inside a
release (`HidClient`), the scroll method (`Scroll`), the matchers on a method's output.
Macro steps are resolved one after the other while keys are already going out, as in
`methodKeys`, and so a macro with an unknown key has typed its beginning; a text is
resolved as a whole. The console flows of `session.go` are sequences of the same
methods on one connection, interpreted by the SDK like an install recipe.

## 3. Runs

| Run | Instance | Checks |
|---|---|---|
| `hid_handover` | 2 users, 3 generations, 2 frames, one attempt, ambiguous Send | `SlotOwnsGeneration`, `SoleDrainWaiter`, `HeldIsConservative`, `VerifiedIsNeutral`, `LeaseStartsNeutral`, `DrainBarrierIsReal`, `ImplementsControlLease` |
| `hid_close` | 1 user who moves the pointer between 2 positions, 1 Close, loss of transport, 2 attempts | `HidInv`, `NoLostWakeup`, `NeutralKeepsPosition`, `BufferBounded`, `ClosedIsTerminal` |
| `hid_live` | 1 user, 1 Close, loss of transport | `ReleaseEnds`, `CallsReturn` |
| `late_input` | 1 user | violation of `NoLateInput` |
| `stale_token` | 1 user, 2 frames | violation of `StaleMeansDropped` |
| `scroll` | a Scroll, a Status and another holder; room for 1 request; the lease lasts 2 units | `UnambiguousIsSettled`, `PumpNeverBlocks`, `WaiterIsReachable`, `NoWheelUnderOthers`, `ScrollIsTruthful`, `CallsEndWithChannel`, `ScrollEnds` |
| `capture` | 2 requests, 3 access units, 2 versions of the parameter sets | `FrameIsDecodable`, `OneFramePerRequest`, `NoMissedUpdate`, `SaveIsAtomic`, `FailureReachesWaiter` |
| `capture_fresh` | 1 request, 3 access units | violation of `RequestFresh` |
| `session` | 1 local and 2 remote candidates, room for 1 ahead of the answer, 3 messages of the device, one unread at a time | `LocalTrickle`, `RemoteTrickle`, `TrickleContinues`, `ReturnsAlive`, `ConnectEnds`, `NothingLeaks` |
| `diagnostics` | 5 packets in 4 frames, 4 arrivals, of which 2 before or during the one failed screenshot; sequence numbers modulo 10, wrapping after the second packet | `SequenceAccounting`, `RunsMeasureFrames`, `BoundaryTextHeld` |
| `stalled` | the same stream, 2 arrivals, two failed screenshots | violation of `FailureIsExplained` |
| `steps` | one step of every kind of method, valid and not, and one per reason to refuse it | `PassIsTyped`, `CloseIsTruthful`, `ActsOnlyWithConsent`, `StepEnds` |

**Why the bounds are enough to be interesting.** Queues of depth 1 are the ones
that fill. A buffer of 3 frames with a reserve of 2 leaves room for a single input
frame, so that the limit is met, and still takes a neutral set of two. Three generations let a lease be
granted, end badly, and be granted again (a release burns one too). Two attempts
are what the code has; the run with Close uses them, the others need only one.
In `scroll`, two calls with room for one request make the cap, the mutex and a late
answer meet; 2 units put the end of the RPC context between the start of the lease and
its end, and the code's own numbers are 30 s and 2 s, of which only the order matters.
The peer of that run may also stay silent, by taking no request; a plain result, and
a response nobody asked for, take the steps of an error and of the second of two.
Three access units are one to be held back, one to push it out, and one more to
change the mode. In `session`, two remote candidates with room for one fill the
queue, and three messages are an answer, a candidate and either a second candidate or
noise, in every order; one local candidate can be found before, during and after the
flush. In `diagnostics`, the five packets are parameter sets, a keyframe in one packet,
another in two fragments, and a truncated aggregate; four arrivals, in any order and with
repetitions, leave one out or more. Two of them are enough for one screenshot to meet every
answer of `Boundary` but the dead one and "decode", which takes an earlier screenshot, as
in `stalled`; the theorem about the texts covers any number. A window of
two is crossed by a packet three behind, and ten sequence numbers leave room for every
packet to be `Near` every other. In `steps`, two keys are enough to tell orders apart,
and a drag of two waypoints has a start, a way and an end. The theorems of section 5 hold
without these bounds.

`hid_handover` uses symmetry of the users, which is sound because its properties
are safety properties and none names a user.

Deadlock is not checked: every instance stops by design when its calls, leases
and units are used up. That nobody is stuck before that is the business of
`ReleaseEnds`, `CallsReturn`, `CallsEndWithChannel`, `ScrollEnds`,
`FailureReachesWaiter`, `ConnectEnds` and `StepEnds`.

**Fairness.** Weak fairness for goroutines that can take a step (Go's scheduler
is fair in that sense), and for the client's own timers: the watchdog, the
`neutralizeTimeout` of a release, the RPC deadline of a scroll. Nothing is assumed
of the peer, which may never acknowledge, answer or send a frame, nor, with one
exception, of users and the contexts they pass, which may never end. The exception is
`CheckStep`: the context of a check step ends, because the host binds each attempt by its
deadline (`session.go:43-50`); `StepEnds` needs it, since a screenshot or a call has no
deadline of its own there. A select with several ready arms is a
choice; no property depends on it being a fair one.

**Timing assumptions**, three of them. Two say that straight-line code takes less than
two seconds. In `RelContextEnds`: the context of a release does not end before its
first look at the lifecycle gate, nor does it end while another release is between
taking the gate and revoking the lease one statement later. In `Tick`: a scroll
gets from the end of its RPC context to `session.close` within one unit, which is
the margin `maxScrollRPCDuration` is defined to leave. Without the first,
`SlotOwnsGeneration` fails: a release that gives up at the gate frees the slot and
has revoked nothing. The third, in `FiveSecondsPass`: a snapshot of the diagnostics takes
less than five seconds, so the stream does not fall silent in the middle of one.

## 4. Disagreements between code and comments

* `late_input`. The lease's contract says a frame of an ended lease "is dropped, not
  delivered late" (`owner.go:32`). `write` validates, unlocks, then calls Send, so a
  release or a close in between does not stop the frame. The damage is contained:
  the frame is in `held` already and precedes the neutral reports on the ordered
  channel, which is why `VerifiedIsNeutral` holds all the same.
* `stale_token`. `ErrStaleControlToken` "is not a maybe" (`hid.go:87`), but the drain
  barrier returns it for a frame that has been sent (`hid.go:472`).
* `capture_fresh`. A screenshot "can never be a cached frame from before this call"
  (`client.go:365`). The boundary counts ingested frames. A keyframe that arrived in
  full before the call and waits in the sample builder is ingested after it.
* `stalled`. After a failed screenshot "FailureBoundary names the single stage the
  pipeline stopped at" (`client.go:503`). `Boundary` looks at counters of the whole
  session: after one good frame, every later failure is explained with "none".

Four texts of `Boundary` (`diagnostics.go:573-587`) say more than its counters can tell,
so they may be false at every instant of the snapshot. `BoundaryTextHeld` names them, with
the weaker fact that was then so (`Instead`); the other ten were true, in full, at some
instant. Each of the four is needed: without its row TLC finds the property violated.

* `noParamSets`, "IDR arrived but SPS/PPS parameter sets never did". The snapshot reads the
  counters of SPS and PPS before that of IDR (`diagnostics.go:501-503`), and an access unit
  with all three may be ingested in between. The sets have then arrived, and this text is
  reported for a keyframe that is about to become a frame.
* `noKeyframe`, "the device never sent an IDR keyframe". The client knows of the packets
  that came: a keyframe whose packets were lost, or are still to be looked at, was sent.
  The comment above the row wants the encoder blamed only where it is to blame.
* `transport`, "peer connection never reached connected". It was, and then was lost before
  the first packet.
* `answer`, "no SDP answer was applied". One was, and a second, redundant one was rejected
  before the track came (`diagnostics.go:603-607` rules this out only once there is a track).

## 5. Proofs

Every theorem holds for all values of the constants its module's assumptions admit. The
bounds of the runs are among them, so each theorem holds for every bound.

* `ConstantsAssumption` (`HidClient`): names are distinct, queues and attempts are
  positive, the reserve fits in the buffer.
* `RpcAssumption`, `ScrollAssumption`: names are distinct, the lease lasts at least two
  units, which is what the code's 30 s and 2 s amount to.
* `CaptureAssumption`, `SessionAssumption`: names are distinct.
* `RtpAssumption`, `DiagnosticsAssumption`: the counter's range is even and the window at
  most half of it (2^16 and 64); the device sends frame after frame; a packet that is
  not an aggregate holds one NAL unit or none, and what it holds is not itself a fragment
  or an aggregate (RFC 6184).
* `DragAssumption`: the ranges are not empty, the default number of steps is allowed.
* `StepAssumption`: the steps are steps. `CatalogAssumption`: they are steps of this
  catalog. A read-only method sends no input and makes no writing call; only the raw
  escape hatch can name a call that wipes the device; a call whose failure ends the
  method comes before anything that acts (every method that writes makes one call,
  `catalog.go:522-735`, every method that sends input makes none); a chord is let go of
  before the next is pressed and before the sub-method ends (`pressAndRelease` and the
  pairs of `MapTypeString`). TLC evaluates all of them on the instances.

The timing assumptions of section 3 are part of the specifications. `PositionKept` is
proved for Sends that do not fail ambiguously: a report that may or may not have gone out
leaves the pointer in one of two places, and the property says so.

| Module | Theorem | States |
|---|---|---|
| `HidProofs` | `TypeCorrect`, `GateCorrect`, `SlotCorrect`, `ClosedCorrect`, `QueueCorrect` | types; one release transaction at a time, with the lease revoked inside it; `SlotOwnsGeneration`; `ClosedIsTerminal`; what can be in the queues and in the writer's hands |
| `HidNeutralProofs` | `WireCorrect`, `HeldCorrect`, `VerifiedCorrect`, `DrainWaiterCorrect`, `NeutralStartCorrect` | what can be on the wire while a release is under way; `HeldIsConservative`, `VerifiedIsNeutral`, `SoleDrainWaiter`, `LeaseStartsNeutral` |
| `HidPromiseProofs` | `WakeCorrect`, `BufferCorrect`, `BarrierCorrect`, `InvariantCorrect`, `LeaseCorrect`, `PositionKept` | `NoLostWakeup`, `BufferBounded`, `DrainBarrierIsReal`, `HidInv`; `ImplementsControlLease`: the client refines `ControlLease`; `NeutralKeepsPosition` |
| `ScrollProofs` | `SettledCorrect`, `PumpCorrect`, `ReachableCorrect`, `WheelCorrect`, `TruthCorrect` | `UnambiguousIsSettled`, `PumpNeverBlocks`, `WaiterIsReachable`, `NoWheelUnderOthers`, `ScrollIsTruthful` |
| `FrameCaptureProofs` | `CaptureCorrect`, `DecodableCorrect`, `OneFrameCorrect`, `UpdateCorrect`, `SaveCorrect` | the inductive invariant; `FrameIsDecodable`, `OneFramePerRequest`, `NoMissedUpdate`, `SaveIsAtomic` |
| `SessionProofs` | `SessionCorrect`, `LocalCorrect`, `RemoteCorrect`, `ReturnCorrect`, `DownCorrect` | the inductive invariant; `LocalTrickle`, `RemoteTrickle`, `ReturnsAlive`; what was torn down is down, and nothing starts again |
| `VideoDiagnosticsProofs` | `TrackerCorrect`, `SequenceCorrect`, `SnapshotCorrect`, `BoundaryTextCorrect`, `RunsCorrect`, `KeyRunsCorrect`, `RunsMeasured` | the sequence tracker against the packets it has seen, `SequenceAccounting`; the snapshot against the counters, `BoundaryTextHeld`; the frame tracker against what came of each frame, and of each keyframe, `RunsMeasureFrames` |
| `CheckStepProofs` | `DragNeverRefused`, `DragIsAGesture`, `CloseTruthful`, `ConsentCorrect`, `PassTyped` | the builder refuses no drag with valid ends, button and steps, and what it returns starts at the start, ends lifted at the end and never moves back; `CloseIsTruthful`, `ActsOnlyWithConsent`, `PassIsTyped` |

*HidClient.* `VerifiedIsNeutral` is far from inductive. `HidInvariant` builds what it
needs in layers, each proved from those below:

1. `GateInv`: the gate is owned by exactly the release that is in its
   transaction, and inside it no generation is active.
2. `SlotInv`: the active generation is the token of the owner of the slot, whose
   own release has not yet passed the gate, nor given up on it.
3. `QueueInv`: a privileged request that is still waited for is unique and is the
   report its release waits for. An abandoned one is dead and will not be sent.
   So a result "ok" means *this* report was sent.
4. `WireInv`: for each neutral report written in this attempt, its interface is
   *quelled*: whatever on the wire presses it, and the peer itself if it is
   pressed, is followed by a report that releases it. No new input can follow,
   because the generation is revoked and the writer, having written the neutral
   report, has no input in its hands. When the wire has drained, quelled means
   released: this is what `RelClear` relies on.

Three promises need a little more. `NoLostWakeup` is inductive with `SoleDrainWaiter`:
nobody begins to wait while the wire is empty, and the only waiter is the only one who
takes the edge. `BufferBounded` needs `RoomOK`: between the check of the level and Send
only acknowledgements change the level, because Send is the writer's alone.
`DrainBarrierIsReal` needs `BarrierInv`: a request with a barrier releases the keyboard,
and behind it the keyboard stays quelled, since the writer that waits sends nothing.

The refinement maps the owner to the owner of the slot while a generation is
active, the residue to `held`, and what is pressed to `MayPress`: pressed at the
peer, on the wire, or past the last validation. Each step of the client is then a
step of `ControlLease` or changes none of the three.

`NeutralKeepsPosition` is about a report that is planned long before it is sent.
`PointerInv` carries it there: the recorded coordinates are those at which the pointer
will stand when the wire has drained, unless a user's pointer report is in the writer's
hands; the plan of a release, and any absolute report the writer is about to send, carry
the recorded coordinates, which nobody moves while the generation is revoked; and what a
release has put on the wire stays right whatever is appended behind it.

*Scroll.* `IndInv` has a part for the calls and a part for what uses them. `SentOnce`: a
request is in flight or taken, never both, and only after SendText. `OnePlace`: the
channel of a call is registered, in one reader's hands or filled, never two of these, so
a reader always finds the slot empty. `Evidence`: a response exists only for a request
that was taken. From these a result that is not ambiguous is settled, and stays so
(`UnambiguousIsSettled` is part of its own invariant). `Covered` is the inequality of the
two timers: while the delivery has not been judged the lease is still the scroll's.
`Recorded` says what the error must contain at each stage.

*FrameCapture.* `CaptureInv`. `StreamOK` follows a unit from the encoder through the
sample builder to the goroutine: as long as no parameter sets were lost, those that are
known when slices are published are those the slices were encoded with, though the
builder holds a unit of the next mode already. `GenerationOK` and `LockOK` make frames
distinct: a capture's boundary is not behind any frame in anybody's hands, because it
was read under the command lock, and nobody else obtains a frame until that is free
again. `WaitOK`: a capture that sleeps took its channel together with what it saw, so
whatever happened since has closed it.

*Session.* `SessionInv`. `StageOK` says what has been ready at each stage of Connect and
that only loss and `session.close` take it back; a success checks for both. `OfferOK`
says which of queue, hand and wire may be in use on either side of the offer; `PlaceOK`
that a candidate is in at most one of them, once; `NoneLost` that it is in one at least
while the websocket works. `ArrivalsOK` and the order of `applied` followed by
`pendingRemote` carry the other direction. `DownOK` says what is closed at each stage of
giving up; from it `NothingLeaks` needs only that goroutines with nothing left to wait
for do run.

*VideoDiagnostics.* `Tracks` relates the tracker to the set of packets it has observed:
its highest number is that of the highest, its bits are the members less than a window
behind, and the number without wrap-around is as far from the first as the packet is. A
packet is received before it is counted in the tracker; in between what is known of it is
owed (`Owed`). For the snapshot, a value read from a counter that only grows stays a
lower bound (`SnapshotOK`), and what an access unit holds was on the wire before
(`CountersOK`): so each row of `Boundary` was true when its last counter was read, or
before. That needs the NAL units of a frame, a recursive function: it is shown to exist
and to meet its equation by induction over a set of numbers. `RunsOK`: a run is never
longer than what came of its frame, and exactly as long while everything came in order;
`KeyRunsOK` says the same of the runs that had a keyframe in them.

*CheckStep.* `StepInv`: `Covered` says that an interface without residue is lifted on the
device and by everything on the wire; `Planned` that the neutral reports sent so far stand
behind everything offered before them; the rest ties residue, lease and place together.
On top of it, `Consent`: as long as the step has not failed, a trace on the device means
that an operation that acts was left behind (`Traced`). A call the device does not know
stands, by the catalog, before any of these, so a step that ends with "method not found"
has left no trace and may be called skipped. On top of both, `TypedInv`: what is typed,
and at most one chord that is still on the wire, is what was sent so far (`Conserved`);
and once every chord has been let go of (`LetGo`) neither wire nor device holds one down,
which the drain behind each release brings about before the next chord goes out. What is to
be typed is recursive over sub-methods and operations; both functions are shown to exist,
and to meet their equations, as chains of links, by induction over the numbers.

*Only model-checked.* Every safety property the passing runs check is a theorem. What is
left to TLC is liveness under fairness, which is out of the prover's reach: `ReleaseEnds`,
`CallsReturn`, `CallsEndWithChannel`, `ScrollEnds`, `FailureReachesWaiter`,
`TrickleContinues`, `ConnectEnds`, `NothingLeaks` and `StepEnds`, on the instances of
section 3. Of `NothingLeaks`, what does not rest on fairness is `DownCorrect`.

## 6. Not modelled

* `decoder.go`: a subprocess and its pipes. `CaptureScreenshot` sees it fail or succeed.
* `http.go`, `url.go`: requests one after the other and URL syntax. They leave nothing
  open that `Session` would have to close.
* `hidproto/`: byte layouts. `HidClient` uses what a report means. `keymap.go`,
  `keycombo.go`, `mouse_button.go`: tables; that a chord resolves or not is all the
  sequences depend on.
* `errors.go`, `redact.go`: texts. The sentinels a caller decides on are in `Scroll` and
  `RpcClient`.
* `credential.go`, `kind.go`: the first source that is not empty wins, in one pass. Their
  outcome (an address, an entity) is an input of `CheckStep`.
* `params/cue_types_gen.go` is generated; `internal/fakedevice` is a test double, and the
  modules take the peer from how the client uses it.
* Inside modelled code: log and error texts; bytes of frames and of JSON; Pion's
  settings (codecs, ICE filters, sizes of the sample builder); the range checks of hold
  times, macros and wheel deltas.

## 7. Plan

What is left, in this order:

1. An abstract specification of the frame capture (a request gets the first decodable
   frame after its boundary, or the error of the stream), which `FrameCapture`
   implements, and the proof that it does: `DecodableCorrect`, `OneFrameCorrect` and
   `UpdateCorrect` are its lemmas.
2. A composition of `Session` with `HidClient`'s handshake, to check the one step that
   stands for it.
3. The safety halves of the other liveness properties, as `DownCorrect` is one: that
   whoever still runs or waits has been told what ends it.
