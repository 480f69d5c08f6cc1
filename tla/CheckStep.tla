----------------------------- MODULE CheckStep -----------------------------
(***************************************************************************)
(* One `jetkvm:` check step, from Invoke (provider.go) through the safety  *)
(* gate and dispatch (methods.go) to its method (catalog.go, install.go)   *)
(* and the deferred Client.Close. A method is the list of what it does: a  *)
(* sub-method per lease it takes, each the list of its sends, waits and    *)
(* calls. It composes the gate, the methods, the control lease and the     *)
(* link to the device; HidClient and Scroll model the lease and the legacy *)
(* call one level down, so a send is one step here.                        *)
(*                                                                         *)
(* Actors: the step's goroutine, the watchdog of its lease, the host's     *)
(* context, and the device at the end of an ordered link.                  *)
(***************************************************************************)
EXTENDS PointerDrag, SequencesExt

CONSTANTS
    Keys,     \* the chords the resolver knows; anything else does not resolve
    Steps     \* the authored steps of the instance: a subset of Step

-----------------------------------------------------------------------------
(***************************************************************************)
(* What the methods do.                                                    *)
(***************************************************************************)

Down(chord)         == [op |-> "keyboard", press |-> chord]
Up                  == [op |-> "release"]
HoldDown            == [op |-> "hold"]
Point(p, buttons)   == [op |-> "pointer", at |-> p, press |-> buttons]
Bad                 == [op |-> "bad"]          \* an authoring error
Look                == [op |-> "look"]         \* CaptureScreenshot, OCR included
Rpc(m, writes)      == [op |-> "rpc", m |-> m, writes |-> writes, tolerant |-> FALSE]
Tolerant(call)      == [call EXCEPT !.tolerant = TRUE]

\* undo: the report a deferred function sends when the sub-method stops early.
WithLease(undo, ops) == [lease |-> TRUE, undo |-> undo, ops |-> ops]
NoLease(ops)         == [lease |-> FALSE, undo |-> "none", ops |-> ops]

\* pressAndRelease of a resolved chord (ResolveKeyCombo).
PressAndRelease(chord) == IF chord \in Keys THEN <<Down(chord), HoldDown, Up>> ELSE <<Bad>>

\* methodKeys: key and key-combo, and macro, whose steps are resolved one by one.
MethodKeys(chords) ==
    <<WithLease("keyboard", IF chords = <<>> THEN <<Bad>>
                            ELSE FlattenSeq([i \in DOMAIN chords |-> PressAndRelease(chords[i])]))>>

\* MapTypeString: the whole text resolves before anything is sent.
MapTypeString(text) ==
    IF \A i \in DOMAIN text : text[i] \in Keys
    THEN FlattenSeq([i \in DOMAIN text |-> <<Down(text[i]), Up>>])
    ELSE <<Bad>>

\* methodType.
MethodType(text) == <<WithLease("none", MapTypeString(text))>>

\* What ResolveMouseButton makes of a name it does not know.
NoButton == 0

\* methodPointer: a move, or a move, a press and a lift, at one position. The button
\* is resolved under the lease, on a move too if the step names one.
MethodPointer(p, button, click) ==
    IF ~ValidateCoord(p) THEN <<NoLease(<<Bad>>)>>
    ELSE IF button = NoButton THEN <<WithLease("none", <<Bad>>)>>
    ELSE <<WithLease("none", <<Point(p, 0)>> \o
                             (IF click THEN <<Point(p, button), Point(p, 0)>> ELSE <<>>))>>

\* methodDrag: the deferred report lifts the button at the destination.
MethodDrag(from, to, button) ==
    IF ~ValidateCoord(from) \/ ~ValidateCoord(to) THEN <<NoLease(<<Bad>>)>>
    ELSE IF ~DragAccepted(from, to, button, StepsOf(0)) THEN <<WithLease("none", <<Bad>>)>>
    ELSE LET R == DragReports(from, to, button, StepsOf(0))
         IN  <<WithLease("pointer", [i \in DOMAIN R |-> Point([x |-> R[i].x, y |-> R[i].y], R[i].buttons)])>>

\* Power, media, USB and configuration methods and the raw escape hatch: the
\* authored fields are valid or not, then one call.
MethodCall(valid, call) == <<NoLease(<<IF valid THEN call ELSE Bad>>)>>

\* methodDiagnostics: an error of one call becomes a line of the report.
MethodDiagnostics(calls) == <<NoLease([i \in DOMAIN calls |-> Tolerant(calls[i])])>>

\* screenshot and ocr.
MethodScreenshot == <<NoLease(<<Look>>)>>

\* install: the console engine looks at the screen before each of its actions,
\* which are methods run on the same connection past the gate.
RunInstall(actions) == FlattenSeq([i \in DOMAIN actions |-> MethodScreenshot \o actions[i]])

-----------------------------------------------------------------------------
(***************************************************************************)
(* The gate.                                                               *)
(***************************************************************************)

readOnlyMethods ==
    {"status", "screenshot", "ocr", "version", "diagnostics", "video-state", "usb-state",
     "atx-state", "dc-state", "virtual-media-state", "storage-files", "wol-devices", "macros",
     "keyboard-layout", "timezones", "cloud-state", "network-state", "network-settings",
     "tailscale-status", "update-status", "devmode-state", "ssh-key", "tls-state", "extensions",
     "public-ip", "check-media-url", "usb-config"}
neverAutonomous     == {"factory-reset", "update"}
rpcForbiddenMethods == {"factoryReset", "tryUpdate", "tryUpdateComponents"}

\* An authored step with what the environment knows about it: box mode, the
\* device entity it names, an address (authored, from the entity, the host's
\* environment or the deployment), its required fields.
StepOf(method, allow, work) ==
    [method |-> method, allow |-> allow, work |-> work,
     box |-> FALSE, entity |-> "none", address |-> TRUE, complete |-> TRUE]

Operation ==
    [op : {"keyboard"}, press : Keys]
    \cup [op : {"pointer"}, at : [x : Int, y : Int], press : 0..MaxButtonMask]
    \cup [op : {"release", "hold", "bad", "look"}]
    \cup [op : {"rpc"}, m : STRING, writes : BOOLEAN, tolerant : BOOLEAN]

SubMethod == [lease : BOOLEAN, undo : {"none", "keyboard", "pointer"}, ops : Seq(Operation)]

Step == [method : STRING, allow : BOOLEAN, work : Seq(SubMethod), box : BOOLEAN,
         entity : {"none", "found", "missing"}, address : BOOLEAN, complete : BOOLEAN]

ASSUME StepAssumption == Steps \subseteq Step /\ "up" \notin Keys

\* An operation that may change the device.
Acts(o) == o.op \in {"keyboard", "pointer"} \/ (o.op = "rpc" /\ o.writes)

\* The catalog: a read-only method does not act; a call that wipes the device
\* has no method of its own; a call whose failure ends the method ("method not
\* found" skips the step) comes before anything that acts; a chord is let go of
\* before the next one is pressed and before the sub-method ends.
ASSUME CatalogAssumption ==
    \A s \in Steps : \A n \in 1..Len(s.work) : \A m \in 1..Len(s.work[n].ops) :
        LET ops == s.work[n].ops
        IN  /\ Acts(ops[m]) => s.method \notin readOnlyMethods
            /\ ops[m].op = "rpc" /\ ops[m].writes /\ ops[m].m \in rpcForbiddenMethods =>
                   s.method = "rpc"
            /\ ops[m].op = "rpc" /\ ~ops[m].tolerant =>
                   \A l \in 1..n : \A k \in 1..Len(s.work[l].ops) :
                       l < n \/ k < m => ~Acts(s.work[l].ops[k])
            /\ ops[m].op = "keyboard" =>
                   \E k \in (m + 1)..Len(ops) :
                       ops[k].op = "release" /\ \A j \in (m + 1)..k : ops[j].op # "keyboard"

\* Mutant: a deny-list, everything else may act.
MethodSafety_DenyList(s) == s.method \notin neverAutonomous

\* methodSafety: may the method act?
MethodSafety(s) == s.method \in readOnlyMethods \/ (s.method \notin neverAutonomous /\ s.allow)

\* Invoke up to dispatch, and dispatch up to Connect: "go", or the verdict.
Gate(s) ==
    IF s.box THEN "skip"
    ELSE IF s.entity = "missing" THEN "fail"
    ELSE IF ~s.address THEN "skip"
    ELSE IF ~s.complete THEN "fail"
    ELSE IF ~MethodSafety(s) THEN "skip"
    ELSE "go"

-----------------------------------------------------------------------------
VARIABLES
    step,     \* the authored step
    pc,       \* where its goroutine is
    sub, i,   \* the sub-method and the operation it has come to
    err,      \* the error it returns: "none", "fail", "missing" (method not found)
    ctxDone,  \* the host's context has ended
    lease,    \* "none", "held", "revoked" (while its release neutralizes)
    neutral,  \* the neutralization under way: "idle", or the report it sends next, or "drain"
    residue,  \* hidClient.held: interfaces that may hold input
    hid,      \* "off" (no control), "ready", "closed"
    closed,   \* what Client.Close returned: "confirmed" (nil) or "unverified"
    link,     \* the peer connection is up
    wire,     \* reports Pion has accepted and the device has not acknowledged, in order
    down,     \* what the device holds down on each interface
    typed,    \* the chords that reached the device
    acted,    \* the calls the device carried out that change it
    verdict   \* what the host is told

progVars == <<step, pc, sub, i, err, verdict>>
hidVars  == <<lease, neutral, residue, hid, closed>>
devVars  == <<down, typed, acted>>
vars     == <<progVars, ctxDone, hidVars, link, wire, devVars>>

Report(ifc, press) == [ifc |-> ifc, press |-> press]
NoPress(ifc) == IF ifc = "keyboard" THEN "up" ELSE 0
Lifted == [ifc \in {"keyboard", "pointer"} |-> NoPress(ifc)]

Init ==
    /\ step \in Steps
    /\ pc = "invoke" /\ sub = 1 /\ i = 1 /\ err = "none" /\ verdict = "none"
    /\ ctxDone = FALSE
    /\ lease = "none" /\ neutral = "idle" /\ residue = {} /\ hid = "off" /\ closed = "none"
    /\ link = FALSE /\ wire = <<>>
    /\ down = Lifted /\ typed = <<>> /\ acted = {}

Running  == step.work[sub]
Op       == Running.ops[i]
AtOp(op) == pc = "op" /\ i <= Len(Running.ops) /\ Op.op = op

GoTo(place) == pc' = place /\ UNCHANGED <<step, sub, i, err, verdict>>
NextOp      == pc' = "op" /\ i' = i + 1 /\ UNCHANGED <<step, sub, err, verdict>>

\* The sub-method stops with error e: its deferred report, if it has one that
\* applies by now, then the release of its lease.
Unwind(e) ==
    /\ err' = e
    /\ pc' = IF \/ Running.undo = "pointer"
                \/ Running.undo = "keyboard" /\ Op.op \in {"hold", "release"}
             THEN "undo"
             ELSE IF Running.lease THEN "leave" ELSE "next"
    /\ UNCHANGED <<step, sub, i, verdict>>

-----------------------------------------------------------------------------
(***************************************************************************)
(* Invoke, dispatch and the sequence of sub-methods.                       *)
(***************************************************************************)

Invoke ==
    /\ pc = "invoke"
    /\ LET g == Gate(step)
       IN  IF g = "go" THEN GoTo("connect")
           ELSE /\ pc' = "ended" /\ verdict' = g
                /\ UNCHANGED <<step, sub, i, err>>
    /\ UNCHANGED <<ctxDone, hidVars, link, wire, devVars>>

\* Connect succeeds; control exists only if the step allows it.
Connected ==
    /\ pc = "connect" /\ ~ctxDone
    /\ GoTo("next")
    /\ link' = TRUE /\ hid' = IF step.allow THEN "ready" ELSE "off"
    /\ UNCHANGED <<ctxDone, lease, neutral, residue, closed, wire, devVars>>

ConnectFails ==
    /\ pc = "connect"
    /\ pc' = "ended" /\ verdict' = "fail"
    /\ UNCHANGED <<step, sub, i, err, ctxDone, hidVars, link, wire, devVars>>

\* The next sub-method, or the deferred Close of dispatch.
NextSub ==
    /\ pc = "next"
    /\ IF err # "none" \/ sub > Len(step.work) THEN GoTo("closing")
       ELSE /\ pc' = IF Running.lease THEN "acquire" ELSE "op"
            /\ i' = 1
            /\ UNCHANGED <<step, sub, err, verdict>>
    /\ UNCHANGED <<ctxDone, hidVars, link, wire, devVars>>

\* ControlLease and Acquire: a lease begins on a neutral, ready channel only.
Acquire ==
    /\ pc = "acquire"
    /\ IF ~ctxDone /\ hid = "ready" /\ residue = {}
       THEN lease' = "held" /\ GoTo("op")
       ELSE /\ UNCHANGED lease
            /\ pc' = "next" /\ err' = "fail"
            /\ UNCHANGED <<step, sub, i, verdict>>
    /\ UNCHANGED <<ctxDone, neutral, residue, hid, closed, link, wire, devVars>>

\* The last operation of a sub-method succeeded.
OpsDone ==
    /\ pc = "op" /\ i > Len(Running.ops)
    /\ IF Running.lease THEN GoTo("leave")
       ELSE pc' = "next" /\ sub' = sub + 1 /\ UNCHANGED <<step, i, err, verdict>>
    /\ UNCHANGED <<ctxDone, hidVars, link, wire, devVars>>

AuthoringError ==
    /\ AtOp("bad") /\ Unwind("fail")
    /\ UNCHANGED <<ctxDone, hidVars, link, wire, devVars>>

-----------------------------------------------------------------------------
(***************************************************************************)
(* Input under a lease.                                                    *)
(***************************************************************************)

Writable == lease = "held" /\ hid = "ready"

Offer(ifc, press) == residue' = IF press = NoPress(ifc) THEN residue ELSE residue \cup {ifc}

\* SendKeyboardReport, SendPointerReport: done when Pion has accepted the report.
SendReport ==
    /\ AtOp("keyboard") \/ AtOp("pointer")
    /\ Writable /\ ~ctxDone
    /\ Offer(Op.op, Op.press) /\ wire' = Append(wire, Report(Op.op, Op.press))
    /\ NextOp
    /\ UNCHANGED <<ctxDone, lease, neutral, hid, closed, link, devVars>>

\* Revoked, cancelled or refused by a full buffer: nothing was offered. Offered
\* and refused by Pion: the residue stays. Cancelled with the writer past its
\* last check: the caller has an error and the report is on its way.
SendFails ==
    /\ AtOp("keyboard") \/ AtOp("pointer")
    /\ \/ /\ ~Writable \/ ctxDone \/ wire # <<>>
          /\ UNCHANGED <<residue, wire>>
       \/ Writable /\ Offer(Op.op, Op.press) /\ UNCHANGED wire
       \/ /\ Writable /\ ctxDone
          /\ Offer(Op.op, Op.press) /\ wire' = Append(wire, Report(Op.op, Op.press))
    /\ Unwind("fail")
    /\ UNCHANGED <<ctxDone, lease, neutral, hid, closed, link, devVars>>

\* pressAndRelease holds the chord for a while, or until the context ends.
HoldElapses ==
    /\ AtOp("hold")
    /\ NextOp \/ (ctxDone /\ Unwind("fail"))
    /\ UNCHANGED <<ctxDone, hidVars, link, wire, devVars>>

\* Mutant: releasing a key is one more unconfirmed report.
ReleaseKeyboard_Sent ==
    /\ AtOp("release") /\ Writable /\ ~ctxDone
    /\ wire' = Append(wire, Report("keyboard", "up"))
    /\ NextOp
    /\ UNCHANGED <<ctxDone, hidVars, link, devVars>>

\* ReleaseKeyboard sends the zero report, then waits for the link to drain.
ReleaseKeyboard ==
    /\ AtOp("release") /\ Writable /\ ~ctxDone
    /\ wire' = Append(wire, Report("keyboard", "up"))
    /\ GoTo("drain")
    /\ UNCHANGED <<ctxDone, hidVars, link, devVars>>

ReleaseKeyboardFails ==
    /\ AtOp("release") /\ Unwind("fail")
    /\ UNCHANGED <<ctxDone, hidVars, link, wire, devVars>>

Drained ==
    /\ pc = "drain" /\ wire = <<>>
    /\ NextOp
    /\ UNCHANGED <<ctxDone, hidVars, link, wire, devVars>>

\* The wait ends with the context, the lease or the channel.
DrainFails ==
    /\ pc = "drain" /\ (ctxDone \/ ~Writable)
    /\ Unwind("fail")
    /\ UNCHANGED <<ctxDone, hidVars, link, wire, devVars>>

\* The deferred report, under a context that never ends: ReleaseKeyboard waits
\* for the drain, the zero-button report does not.
Undo ==
    /\ pc = "undo"
    /\ \/ /\ Writable
          /\ wire' = Append(wire, Report(Running.undo, NoPress(Running.undo)))
          /\ GoTo(IF Running.undo = "keyboard" THEN "undoDrain" ELSE "leave")
       \/ /\ UNCHANGED wire
          /\ GoTo("leave")
    /\ UNCHANGED <<ctxDone, hidVars, link, devVars>>

\* Mutant: only the channel's end interrupts the wait.
UndoDrained_Uninterrupted ==
    /\ pc = "undoDrain" /\ (wire = <<>> \/ hid # "ready")
    /\ GoTo("leave")
    /\ UNCHANGED <<ctxDone, hidVars, link, wire, devVars>>

UndoDrained ==
    /\ pc = "undoDrain" /\ (wire = <<>> \/ ~Writable)
    /\ GoTo("leave")
    /\ UNCHANGED <<ctxDone, hidVars, link, wire, devVars>>

-----------------------------------------------------------------------------
(***************************************************************************)
(* Calls and screenshots.                                                  *)
(***************************************************************************)

\* After a call that failed: methodDiagnostics goes on, the others stop.
CallFailed(e) == IF Op.tolerant THEN NextOp ELSE Unwind(e)

Effect == IF Op.writes THEN acted \cup {Op.m} ELSE acted

\* methodRawRPC refuses the methods that wipe the device.
RpcRefused ==
    /\ AtOp("rpc") /\ step.method = "rpc" /\ Op.m \in rpcForbiddenMethods
    /\ Unwind("fail")
    /\ UNCHANGED <<ctxDone, hidVars, link, wire, devVars>>

Callable == AtOp("rpc") /\ ~(step.method = "rpc" /\ Op.m \in rpcForbiddenMethods)

\* callSummary: the device answers with a result, an error after doing part of
\* it or nothing, or that it has no such method.
RpcAnswered ==
    /\ Callable /\ link /\ ~ctxDone
    /\ \/ acted' = Effect /\ NextOp
       \/ acted' \in {acted, Effect} /\ CallFailed("fail")
       \/ UNCHANGED acted /\ CallFailed("missing")
    /\ UNCHANGED <<ctxDone, hidVars, link, wire, down, typed>>

\* No answer: the context ends or the channel closes, after the request went
\* out or before.
RpcLost ==
    /\ Callable /\ (~link \/ ctxDone)
    /\ acted' \in {acted, Effect}
    /\ CallFailed("fail")
    /\ UNCHANGED <<ctxDone, hidVars, link, wire, down, typed>>

\* CaptureScreenshot: a new frame comes and is decoded, or the decoder fails. No
\* deadline of its own bounds the wait for the frame...
LookTaken ==
    /\ AtOp("look") /\ link /\ ~ctxDone
    /\ NextOp \/ Unwind("fail")
    /\ UNCHANGED <<ctxDone, hidVars, link, wire, devVars>>

\* ... only the end of the context, or of the link, cuts it.
LookCut ==
    /\ AtOp("look") /\ (~link \/ ctxDone)
    /\ Unwind("fail")
    /\ UNCHANGED <<ctxDone, hidVars, link, wire, devVars>>

-----------------------------------------------------------------------------
(***************************************************************************)
(* Release of the lease, by the step or by its watchdog, and Client.Close. *)
(***************************************************************************)

\* Held.Release, first call: the lease is revoked before anything else is sent.
Revoke ==
    /\ lease = "held" /\ lease' = "revoked" /\ neutral' = "keyboard"
    /\ UNCHANGED <<progVars, ctxDone, residue, hid, closed, link, wire, devVars>>

\* The deferred Release of the sub-method; its error is dropped.
Release == pc = "leave" /\ Revoke

Released ==
    /\ pc = "leave" /\ lease = "none"
    /\ pc' = "next" /\ sub' = sub + 1
    /\ UNCHANGED <<step, i, err, verdict, ctxDone, hidVars, link, wire, devVars>>

\* Held.watch: the context ended, or the lease is 30 seconds old (at any time).
Watchdog == Revoke

\* Client.Close begins: without control there is nothing to neutralize.
Close ==
    /\ pc = "closing" /\ neutral = "idle"
    /\ IF hid = "off" THEN closed' = "confirmed" /\ GoTo("closed") /\ UNCHANGED neutral
       ELSE neutral' = "keyboard" /\ GoTo("neutralizing") /\ UNCHANGED closed
    /\ UNCHANGED <<ctxDone, lease, residue, hid, link, wire, devVars>>

\* releaseAllLocked is over. A release frees the lease whatever the outcome, a
\* close makes the channel terminal.
NeutralEnds(ok) ==
    /\ neutral' = "idle"
    /\ residue' = IF ok THEN {} ELSE residue
    /\ IF lease = "revoked"
       THEN lease' = "none" /\ UNCHANGED <<progVars, hid, closed>>
       ELSE /\ hid' = "closed" /\ closed' = IF ok THEN "confirmed" ELSE "unverified"
            /\ GoTo("closed") /\ UNCHANGED lease
    /\ UNCHANGED <<ctxDone, link, wire, devVars>>

\* A channel that is not ready and never offered anything needs no neutralization.
NeutralSkipped == neutral = "keyboard" /\ hid # "ready" /\ residue = {} /\ NeutralEnds(TRUE)

\* Mutant: the plan has the keyboard report only.
NeutralReport_KeyboardOnly ==
    /\ neutral \in {"keyboard", "pointer"} /\ hid = "ready"
    /\ wire' = Append(wire, Report(neutral, NoPress(neutral)))
    /\ neutral' = "drain"
    /\ UNCHANGED <<progVars, ctxDone, lease, residue, hid, closed, link, devVars>>

\* buildNeutralizationPlan: the keyboard always, the pointer if it may hold a
\* button. (The relative mouse, which no method drives, is left out.)
NeutralReport ==
    /\ neutral \in {"keyboard", "pointer"} /\ hid = "ready"
    /\ wire' = Append(wire, Report(neutral, NoPress(neutral)))
    /\ neutral' = IF neutral = "keyboard" /\ "pointer" \in residue THEN "pointer" ELSE "drain"
    /\ UNCHANGED <<progVars, ctxDone, lease, residue, hid, closed, link, devVars>>

NeutralConfirmed == neutral = "drain" /\ wire = <<>> /\ NeutralEnds(TRUE)

\* The reports could not be sent, or not be confirmed within two seconds.
NeutralFails == neutral # "idle" /\ NeutralEnds(FALSE)

\* isMethodNotFound and the verdict pipeline.
VerdictOf(e) == CASE e = "none" -> "pass" [] e = "missing" -> "skip" [] e = "fail" -> "fail"

\* The rest of Client.Close: the peer connection goes, with what was on its way.
\* dispatch drops the error of Close; Invoke answers.
Teardown ==
    /\ pc = "closed"
    /\ pc' = "ended" /\ verdict' = VerdictOf(err)
    /\ hid' = "closed" /\ link' = FALSE
    /\ UNCHANGED <<step, sub, i, err, ctxDone, lease, neutral, residue, closed, wire, devVars>>

-----------------------------------------------------------------------------
(***************************************************************************)
(* The host and the device.                                                *)
(***************************************************************************)

\* The host bounds every attempt by the deadline of its context.
ContextEnds ==
    /\ ~ctxDone /\ pc # "ended"
    /\ ctxDone' = TRUE
    /\ UNCHANGED <<progVars, hidVars, link, wire, devVars>>

\* The session ends: the HID channel closes, what is on the wire never arrives.
LinkLost ==
    /\ link /\ link' = FALSE
    /\ hid' = IF hid = "ready" THEN "closed" ELSE hid
    /\ UNCHANGED <<progVars, ctxDone, lease, neutral, residue, closed, wire, devVars>>

\* The next report arrives, is acknowledged and takes effect.
Deliver ==
    /\ link /\ wire # <<>>
    /\ wire' = Tail(wire)
    /\ down' = [down EXCEPT ![Head(wire).ifc] = Head(wire).press]
    /\ typed' = IF Head(wire).ifc = "keyboard" /\ Head(wire).press # "up"
                THEN Append(typed, Head(wire).press) ELSE typed
    /\ UNCHANGED <<progVars, ctxDone, hidVars, link, acted>>

Program ==
    \/ Invoke \/ Connected \/ ConnectFails \/ NextSub \/ Acquire \/ OpsDone \/ AuthoringError
    \/ SendReport \/ SendFails \/ HoldElapses \/ ReleaseKeyboard \/ ReleaseKeyboardFails
    \/ Drained \/ DrainFails \/ Undo \/ UndoDrained \/ RpcRefused \/ RpcLost \/ LookCut
    \/ Release \/ Released \/ Close \/ Teardown

Neutralization == NeutralSkipped \/ NeutralReport \/ NeutralConfirmed \/ NeutralFails

Peer == RpcAnswered \/ LookTaken \/ Deliver

Next == Program \/ Watchdog \/ Neutralization \/ Peer \/ ContextEnds \/ LinkLost

\* The goroutines run; the lease's 30 seconds, the two seconds of a
\* neutralization and the host's deadline (session.go:43-50) pass. The device need
\* neither answer, nor send video, nor acknowledge.
Fairness ==
    WF_vars(Program) /\ WF_vars(Watchdog) /\ WF_vars(Neutralization) /\ WF_vars(ContextEnds)

Spec == Init /\ [][Next]_vars /\ Fairness

-----------------------------------------------------------------------------
(***************************************************************************)
(* Properties.                                                             *)
(***************************************************************************)

\* The chords typed when those of before and the first operations of ops have been.
ChordsWith(before, ops) ==
    LET typedBy[m \in 0..Len(ops)] ==
            IF m = 0 THEN before
            ELSE IF ops[m].op = "keyboard" THEN Append(typedBy[m - 1], ops[m].press)
            ELSE typedBy[m - 1]
    IN  typedBy

\* The chords of the first sub-methods of a step, in order.
ChordsAfter(s) ==
    LET typedBy[n \in 0..Len(s.work)] ==
            IF n = 0 THEN <<>>
            ELSE ChordsWith(typedBy[n - 1], s.work[n].ops)[Len(s.work[n].ops)]
    IN  typedBy

\* The chords a step is to press, in order.
Chords(s) == ChordsAfter(s)[Len(s.work)]

\* A step that passes has typed exactly its chords, in their order, on the
\* device, and left no key down, although every send is answered before it is
\* delivered and the errors of Held.Release and Client.Close are dropped.
PassIsTyped ==
    verdict = "pass" => typed = Chords(step) /\ down["keyboard"] = "up"

\* Client.Close answers nil only if the device holds nothing down, whatever was
\* on the wire when the step, its watchdog or the link gave up.
CloseIsTruthful == closed = "confirmed" => down = Lifted

\* Something is pressed on the device, was, or will be when the wire drains.
Pressed ==
    typed # <<>> \/ down # Lifted \/ \E n \in DOMAIN wire : wire[n].press # NoPress(wire[n].ifc)

\* The device is changed only by a step that is allowed to, never by a refused
\* one, and the raw escape hatch never wipes it; a skip has changed nothing.
ActsOnlyWithConsent ==
    Pressed \/ acted # {} =>
        /\ step.allow /\ ~step.box /\ step.address
        /\ step.method \notin neverAutonomous
        /\ acted \cap rpcForbiddenMethods = {}
        /\ verdict # "skip"

\* Every step ends, although deferred releases run under a context that never
\* does and the device may stop acknowledging.
StepEnds == <>(pc = "ended")
=============================================================================
