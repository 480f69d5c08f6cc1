---------------------------- MODULE PointerDrag ----------------------------
(***************************************************************************)
(* The pure arithmetic of absolute-pointer gestures: the validators of     *)
(* control_validation.go and the drag builder of pointer_drag.go with its  *)
(* wrapper in charly_extension.go. An operator that answers an error in    *)
(* the code is a predicate here.                                           *)
(***************************************************************************)
EXTENDS Integers, Sequences

CONSTANTS
    MaxCoordinate,     \* MaxAbsoluteCoordinate (32767) and catalog.go's maxCoordinate
    MaxButtonMask,     \* MaxPointerButtonMask (31)
    MaxDragSteps,      \* MaxDragSteps (256)
    DefaultDragSteps   \* DefaultDragSteps (24)

ASSUME DragAssumption ==
    /\ MaxCoordinate \in Nat /\ MaxButtonMask \in Nat \ {0}
    /\ MaxDragSteps \in Nat /\ DefaultDragSteps \in 1..MaxDragSteps

\* validateCoord of catalog.go, the plugin's own bound.
ValidateCoord(p) == p.x \in 0..MaxCoordinate /\ p.y \in 0..MaxCoordinate

\* ValidatePointer: zero buttons is a move or a release.
ValidatePointer(r) == ValidateCoord(r) /\ r.buttons \in 0..MaxButtonMask

\* ValidatePointerGesture: a gesture presses something.
ValidatePointerGesture(p, buttons) == ValidateCoord(p) /\ buttons \in 1..MaxButtonMask

\* ValidatePointerDragReports.
ValidatePointerDragReports(reports) ==
    /\ Len(reports) \in 1..(MaxDragSteps + 3)
    /\ \A i \in 1..Len(reports) : ValidatePointer(reports[i])
    /\ \E i \in 1..Len(reports) : reports[i].buttons # 0

\* One coordinate after i of d equal parts of the way from a to b (the weighted form).
Interpolate(a, b, i, d) == (a * (d - i) + b * i) \div d

\* The position of the i-th pressed report: i = 0 is the start, i = steps + 1
\* the destination, which the weighted form yields too.
Waypoint(from, to, i, steps) ==
    [x |-> Interpolate(from.x, to.x, i, steps + 1), y |-> Interpolate(from.y, to.y, i, steps + 1)]

\* BuildPointerDragReports after its checks: press at the start, move, release
\* at the destination.
DragReports(from, to, button, steps) ==
    [i \in 1..(steps + 3) |->
        LET p == Waypoint(from, to, IF i > steps + 2 THEN steps + 1 ELSE i - 1, steps)
        IN  [x |-> p.x, y |-> p.y, buttons |-> IF i = steps + 3 THEN 0 ELSE button]]

\* The conditions under which BuildPointerDragReports answers no error.
DragAccepted(from, to, button, steps) ==
    /\ ValidatePointerGesture(from, button) /\ ValidatePointerGesture(to, button)
    /\ steps \in 0..MaxDragSteps
    /\ ValidatePointerDragReports(DragReports(from, to, button, steps))

\* BuildPointerDrag: an unset step count takes the default.
StepsOf(steps) == IF steps <= 0 THEN DefaultDragSteps ELSE steps
=============================================================================
