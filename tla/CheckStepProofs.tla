-------------------------- MODULE CheckStepProofs --------------------------
(***************************************************************************)
(* What the drag builder guarantees for every screen size, button mask and *)
(* number of steps; then, for every authored step, that Client.Close is    *)
(* truthful (the inductive invariant StepInv), that the device is only     *)
(* changed with consent (Consent, on top of it) and that a step that       *)
(* passes has typed its chords (TypedInv, on top of both).                 *)
(***************************************************************************)
EXTENDS CheckStep, WellFoundedInduction, TLAPS

(***************************************************************************)
(* The drag builder.                                                       *)
(***************************************************************************)

\* A weighted mean of two numbers in 0..m lies in 0..m.
LEMMA MeanInRange ==
    ASSUME NEW m \in Nat, NEW a \in 0..m, NEW b \in 0..m, NEW d \in Nat \ {0}, NEW k \in 0..d
    PROVE  Interpolate(a, b, k, d) \in 0..m
<1>1. a * (d - k) \in 0..(m * (d - k))
  BY SMT
<1>2. b * k \in 0..(m * k)
  BY SMT
<1>3. m * (d - k) + m * k = m * d
  BY SMT
<1>4. a * (d - k) + b * k \in 0..(m * d)
  BY <1>1, <1>2, <1>3, SMT
<1>5. \A n \in 0..(m * d) : n \div d \in 0..m
  BY SMT
<1> QED
  BY <1>4, <1>5 DEF Interpolate

\* Later parts are nearer to the destination: the weighted mean never turns back.
LEMMA MeanIsMonotone ==
    ASSUME NEW m \in Nat, NEW a \in 0..m, NEW b \in 0..m, NEW d \in Nat \ {0}, NEW k \in 0..(d - 1)
    PROVE  /\ a <= b => Interpolate(a, b, k, d) <= Interpolate(a, b, k + 1, d)
           /\ b <= a => Interpolate(a, b, k + 1, d) <= Interpolate(a, b, k, d)
<1> DEFINE at(j) == a * (d - j) + b * j
<1>1. at(k + 1) = at(k) + (b - a)
  BY SMT
<1>2. at(k) \in Int /\ at(k + 1) \in Int
  BY SMT
<1>3. \A n \in Int, l \in Int : n <= l => n \div d <= l \div d
  BY SMT
<1>4. a <= b => at(k) <= at(k + 1)
  BY <1>1, <1>2, SMT
<1>5. b <= a => at(k + 1) <= at(k)
  BY <1>1, <1>2, SMT
<1> QED
  BY <1>2, <1>3, <1>4, <1>5 DEF Interpolate

\* A waypoint between two positions on the screen is on the screen.
LEMMA WaypointOnScreen ==
    ASSUME NEW from \in [x : Int, y : Int], NEW to \in [x : Int, y : Int], NEW steps \in Nat,
           NEW k \in 0..(steps + 1), ValidateCoord(from), ValidateCoord(to)
    PROVE  ValidateCoord(Waypoint(from, to, k, steps))
<1>1. steps + 1 \in Nat \ {0}
  OBVIOUS
<1>2. MaxCoordinate \in Nat
  BY DragAssumption
<1>3. Interpolate(from.x, to.x, k, steps + 1) \in 0..MaxCoordinate
  BY <1>1, <1>2, MeanInRange DEF ValidateCoord
<1>4. Interpolate(from.y, to.y, k, steps + 1) \in 0..MaxCoordinate
  BY <1>1, <1>2, MeanInRange DEF ValidateCoord
<1> QED
  BY <1>3, <1>4 DEF Waypoint, ValidateCoord

\* BuildPointerDragReports re-validates what it built ("every generated
\* coordinate is checked"): that check can never fail, so an authored drag with
\* valid ends, a button and a step count in range is always performed.
THEOREM DragNeverRefused ==
    ASSUME NEW from \in [x : Int, y : Int], NEW to \in [x : Int, y : Int],
           NEW button \in Int, NEW steps \in 0..MaxDragSteps,
           ValidatePointerGesture(from, button), ValidatePointerGesture(to, button)
    PROVE  DragAccepted(from, to, button, steps)
<1> DEFINE R == DragReports(from, to, button, steps)
           part(k) == IF k > steps + 2 THEN steps + 1 ELSE k - 1
<1>1. /\ MaxCoordinate \in Nat /\ MaxButtonMask \in Nat \ {0} /\ MaxDragSteps \in Nat
      /\ steps \in Nat
  BY DragAssumption
<1>2. ValidateCoord(from) /\ ValidateCoord(to) /\ button \in 1..MaxButtonMask
  BY DEF ValidatePointerGesture
<1>3. Len(R) = steps + 3 /\ DOMAIN R = 1..(steps + 3)
  BY <1>1 DEF DragReports
<1>4. ASSUME NEW k \in 1..(steps + 3)
      PROVE  /\ R[k].buttons = IF k = steps + 3 THEN 0 ELSE button
             /\ ValidatePointer(R[k])
  <2>1. part(k) \in 0..(steps + 1)
    BY <1>1
  <2>2. ValidateCoord(Waypoint(from, to, part(k), steps))
    BY <1>1, <1>2, <2>1, WaypointOnScreen
  <2>3. R[k] = [x |-> Waypoint(from, to, part(k), steps).x,
                y |-> Waypoint(from, to, part(k), steps).y,
                buttons |-> IF k = steps + 3 THEN 0 ELSE button]
    BY DEF DragReports
  <2> QED
    BY <1>1, <1>2, <2>2, <2>3 DEF ValidatePointer, ValidateCoord
<1>5. \E k \in 1..Len(R) : R[k].buttons # 0
  <2>1. 1 \in 1..(steps + 3) /\ 1 # steps + 3
    BY <1>1
  <2>2. R[1].buttons = button /\ button # 0
    BY <1>2, <1>4, <2>1
  <2> QED
    BY <1>3, <2>1, <2>2
<1>6. Len(R) \in 1..(MaxDragSteps + 3)
  BY <1>1, <1>3
<1> HIDE DEF R
<1>7. ValidatePointerDragReports(R)
  BY <1>3, <1>4, <1>5, <1>6 DEF ValidatePointerDragReports
<1> QED
  BY <1>7 DEF DragAccepted, R

\* A drag presses at the start, ends with the button up at the destination, and
\* in between moves towards the destination on each axis, never back.
THEOREM DragIsAGesture ==
    ASSUME NEW from \in [x : Int, y : Int], NEW to \in [x : Int, y : Int],
           NEW button \in 1..MaxButtonMask, NEW steps \in 0..MaxDragSteps,
           ValidateCoord(from), ValidateCoord(to)
    PROVE  LET R == DragReports(from, to, button, steps)
           IN  /\ R[1] = [x |-> from.x, y |-> from.y, buttons |-> button]
               /\ R[Len(R)] = [x |-> to.x, y |-> to.y, buttons |-> 0]
               /\ \A k \in 1..(Len(R) - 1) :
                      /\ R[k].buttons = button
                      /\ from.x <= to.x => R[k].x <= R[k + 1].x
                      /\ to.x <= from.x => R[k + 1].x <= R[k].x
                      /\ from.y <= to.y => R[k].y <= R[k + 1].y
                      /\ to.y <= from.y => R[k + 1].y <= R[k].y
<1> DEFINE R == DragReports(from, to, button, steps)
           at(a, b, k) == Interpolate(a, b, k, steps + 1)
<1>1. /\ MaxCoordinate \in Nat /\ MaxDragSteps \in Nat /\ steps \in Nat /\ steps + 1 \in Nat \ {0}
      /\ from.x \in 0..MaxCoordinate /\ from.y \in 0..MaxCoordinate
      /\ to.x \in 0..MaxCoordinate /\ to.y \in 0..MaxCoordinate
  BY DragAssumption DEF ValidateCoord
<1>2. Len(R) = steps + 3
  BY <1>1 DEF DragReports
<1>3. \A k \in 1..(steps + 2) : R[k] = [x |-> at(from.x, to.x, k - 1),
                                        y |-> at(from.y, to.y, k - 1), buttons |-> button]
  BY <1>1 DEF DragReports, Waypoint
<1>4. R[steps + 3] = [x |-> at(from.x, to.x, steps + 1),
                      y |-> at(from.y, to.y, steps + 1), buttons |-> 0]
  BY <1>1 DEF DragReports, Waypoint
<1>5. ASSUME NEW a \in 0..MaxCoordinate, NEW b \in 0..MaxCoordinate
      PROVE  at(a, b, 0) = a /\ at(a, b, steps + 1) = b
  <2>1. \A n \in Nat : (n * (steps + 1)) \div (steps + 1) = n
    BY <1>1, SMT
  <2>2. a * ((steps + 1) - 0) + b * 0 = a * (steps + 1)
    BY <1>1, SMT
  <2>3. a * ((steps + 1) - (steps + 1)) + b * (steps + 1) = b * (steps + 1)
    BY <1>1, SMT
  <2> QED
    BY <1>1, <2>1, <2>2, <2>3 DEF Interpolate
<1>6. ASSUME NEW a \in 0..MaxCoordinate, NEW b \in 0..MaxCoordinate, NEW k \in 0..steps
      PROVE  /\ a <= b => at(a, b, k) <= at(a, b, k + 1)
             /\ b <= a => at(a, b, k + 1) <= at(a, b, k)
  <2>1. (steps + 1) - 1 = steps
    BY <1>1
  <2> QED
    BY <1>1, <2>1, MeanIsMonotone
<1> HIDE DEF R, at
<1>7. R[1] = [x |-> from.x, y |-> from.y, buttons |-> button]
  <2>1. 1 \in 1..(steps + 2) /\ 1 - 1 = 0
    BY <1>1
  <2> QED
    BY <1>1, <1>3, <1>5, <2>1
<1>8. R[Len(R)] = [x |-> to.x, y |-> to.y, buttons |-> 0]
  BY <1>1, <1>2, <1>4, <1>5
<1>9. ASSUME NEW k \in 1..(Len(R) - 1)
       PROVE  /\ R[k].buttons = button
              /\ from.x <= to.x => R[k].x <= R[k + 1].x
              /\ to.x <= from.x => R[k + 1].x <= R[k].x
              /\ from.y <= to.y => R[k].y <= R[k + 1].y
              /\ to.y <= from.y => R[k + 1].y <= R[k].y
  <2>1. k \in 1..(steps + 2)
    BY <1>1, <1>2
  <2>2. R[k] = [x |-> at(from.x, to.x, k - 1), y |-> at(from.y, to.y, k - 1), buttons |-> button]
    BY <1>3, <2>1
  <2>3. CASE k = steps + 2
    <3>1. k + 1 = steps + 3 /\ k - 1 = steps + 1
      BY <1>1, <2>3
    <3>2. at(from.x, to.x, steps + 1) \in Nat /\ at(from.y, to.y, steps + 1) \in Nat
      BY <1>1, <1>5
    <3>3. R[k].buttons = button /\ R[k].x = R[k + 1].x /\ R[k].y = R[k + 1].y
      BY <1>4, <2>2, <3>1
    <3>4. R[k].x \in Nat /\ R[k].y \in Nat
      BY <2>2, <3>1, <3>2
    <3>5. \A n \in Nat : n <= n
      OBVIOUS
    <3> QED
      BY <3>3, <3>4, <3>5
  <2>4. CASE k # steps + 2
    <3>1. k + 1 \in 1..(steps + 2) /\ k - 1 \in 0..steps /\ (k + 1) - 1 = (k - 1) + 1
      <4>1. \A n \in Nat : \A j \in 1..(n + 2) : j # n + 2 =>
                j + 1 \in 1..(n + 2) /\ j - 1 \in 0..n /\ (j + 1) - 1 = (j - 1) + 1
        BY SMT
      <4> QED
        BY <1>1, <2>1, <2>4, <4>1
    <3>2. R[k + 1] = [x |-> at(from.x, to.x, (k - 1) + 1), y |-> at(from.y, to.y, (k - 1) + 1),
                      buttons |-> button]
      BY <1>3, <3>1
    <3>3. /\ from.x <= to.x => at(from.x, to.x, k - 1) <= at(from.x, to.x, (k - 1) + 1)
          /\ to.x <= from.x => at(from.x, to.x, (k - 1) + 1) <= at(from.x, to.x, k - 1)
      BY <1>1, <1>6, <3>1
    <3>4. /\ from.y <= to.y => at(from.y, to.y, k - 1) <= at(from.y, to.y, (k - 1) + 1)
          /\ to.y <= from.y => at(from.y, to.y, (k - 1) + 1) <= at(from.y, to.y, k - 1)
      BY <1>1, <1>6, <3>1
    <3>5. /\ R[k].buttons = button
          /\ R[k].x = at(from.x, to.x, k - 1) /\ R[k].y = at(from.y, to.y, k - 1)
          /\ R[k + 1].x = at(from.x, to.x, (k - 1) + 1) /\ R[k + 1].y = at(from.y, to.y, (k - 1) + 1)
      BY <2>2, <3>2
    <3> QED
      BY <3>3, <3>4, <3>5
  <2> QED
    BY <2>3, <2>4
<1> QED
  BY <1>7, <1>8, <1>9 DEF R

-----------------------------------------------------------------------------
(***************************************************************************)
(* Client.Close.                                                           *)
(***************************************************************************)

Ifaces == {"keyboard", "pointer"}
Packet == [ifc : {"keyboard"}, press : Keys \cup {"up"}]
          \cup [ifc : {"pointer"}, press : 0..MaxButtonMask]

IsDevice(d) == d = [ifc \in Ifaces |-> d[ifc]]

InLease == {"op", "drain", "undo", "undoDrain", "leave"}

StepTypeOK ==
    /\ step \in Step /\ sub \in Nat \ {0} /\ i \in Nat \ {0}
    /\ lease \in {"none", "held", "revoked"} /\ hid \in {"off", "ready", "closed"}
    /\ closed \in {"none", "confirmed", "unverified"}

DeviceTyped ==
    /\ neutral \in {"idle", "keyboard", "pointer", "drain"} /\ residue \subseteq Ifaces
    /\ wire \in Seq(Packet) /\ IsDevice(down)

\* A sub-method is running, and its deferred report is one the device knows.
Located ==
    /\ pc \in InLease \cup {"acquire"} => sub \in 1..Len(step.work)
    /\ pc = "acquire" => Running.lease
    /\ pc = "undo" => Running.undo \in Ifaces

\* A lease exists only while the sub-method that took it runs; a neutralization
\* only while the lease is revoked, or in Close.
Scoped ==
    /\ lease # "none" => pc \in InLease /\ Running.lease
    /\ neutral # "idle" => lease = "revoked" \/ (lease = "none" /\ pc = "neutralizing")

\* Without control nothing is offered.
OffIsClean ==
    /\ hid = "off" => residue = {}
    /\ pc \in {"invoke", "connect"} => hid = "off"

\* Close answers last, and nil only on an empty residue.
ClosedIsLast ==
    /\ closed # "none" => pc \in {"closed", "ended"}
    /\ closed = "confirmed" => residue = {}

\* In wire w, all that is on its way to an interface, from the n-th report on,
\* lifts it.
LiftsFrom(w, n, ifc) ==
    \A m \in 1..Len(w) : m >= n /\ w[m].ifc = ifc => w[m].press = NoPress(ifc)

\* With wire w and device state d, the interface is, and stays, lifted.
Neutral(w, d, ifc) == d[ifc] = NoPress(ifc) /\ LiftsFrom(w, 1, ifc)

\* The interface will be lifted when the wire has drained.
Settles(w, d, ifc) ==
    \/ Neutral(w, d, ifc)
    \/ \E n \in 1..Len(w) : w[n].ifc = ifc /\ LiftsFrom(w, n, ifc)

\* hidClient.held covers whatever is or may come down.
Covered == \A ifc \in Ifaces : ifc \notin residue => Neutral(wire, down, ifc)

\* The plan has put its reports behind everything offered before.
Planned ==
    /\ neutral \in {"pointer", "drain"} => Settles(wire, down, "keyboard")
    /\ neutral = "drain" => Settles(wire, down, "pointer")

Control == StepTypeOK /\ Located /\ Scoped /\ OffIsClean /\ ClosedIsLast
Device  == DeviceTyped /\ Covered /\ Planned
StepInv == Control /\ Device

-----------------------------------------------------------------------------
(***************************************************************************)
(* The wire.                                                               *)
(***************************************************************************)

\* A report leaves the other interfaces as they were.
LEMMA AppendOther ==
    ASSUME NEW w \in Seq(Packet), NEW d, NEW p \in Packet, NEW ifc \in Ifaces, p.ifc # ifc
    PROVE  Neutral(w, d, ifc) => Neutral(Append(w, p), d, ifc)
<1>1. Len(Append(w, p)) = Len(w) + 1 /\ Len(w) \in Nat
  OBVIOUS
<1>2. \A m \in 1..Len(w) : Append(w, p)[m] = w[m]
  OBVIOUS
<1>3. Append(w, p)[Len(w) + 1] = p
  OBVIOUS
<1> QED
  BY <1>1, <1>2, <1>3 DEF Neutral, LiftsFrom

\* A lifting report settles its interface and disturbs none.
LEMMA AppendLift ==
    ASSUME NEW w \in Seq(Packet), NEW d, NEW ifc \in Ifaces
    PROVE  LET v == Append(w, Report(ifc, NoPress(ifc)))
           IN  /\ v \in Seq(Packet)
               /\ Settles(v, d, ifc)
               /\ \A j \in Ifaces : /\ Neutral(w, d, j) => Neutral(v, d, j)
                                    /\ Settles(w, d, j) => Settles(v, d, j)
<1> DEFINE p == Report(ifc, NoPress(ifc))
           v == Append(w, p)
<1>1. p.ifc = ifc /\ p.press = NoPress(ifc)
  BY DEF Report
<1>2. p \in Packet
  BY DragAssumption DEF Report, NoPress, Packet, Ifaces
<1> HIDE DEF p
<1>3. v \in Seq(Packet) /\ Len(v) = Len(w) + 1 /\ Len(w) \in Nat
  BY <1>2
<1>4. \A m \in 1..Len(w) : v[m] = w[m]
  BY <1>2
<1>5. v[Len(w) + 1] = p
  BY <1>2
<1> HIDE DEF v
<1>6. \A j \in Ifaces, n \in 1..Len(w) : LiftsFrom(w, n, j) => LiftsFrom(v, n, j)
  BY <1>1, <1>3, <1>4, <1>5 DEF LiftsFrom
<1>7. LiftsFrom(v, Len(w) + 1, ifc)
  BY <1>1, <1>3, <1>5 DEF LiftsFrom
<1>8. \A j \in Ifaces : LiftsFrom(w, 1, j) => LiftsFrom(v, 1, j)
  BY <1>1, <1>3, <1>4, <1>5 DEF LiftsFrom
<1>9. Settles(v, d, ifc)
  <2>1. Len(w) + 1 \in 1..Len(v)
    BY <1>3
  <2> QED
    BY <1>1, <1>5, <1>7, <2>1 DEF Settles
<1>10. ASSUME NEW j \in Ifaces
       PROVE  /\ Neutral(w, d, j) => Neutral(v, d, j)
              /\ Settles(w, d, j) => Settles(v, d, j)
  <2>1. Neutral(w, d, j) => Neutral(v, d, j)
    BY <1>8 DEF Neutral
  <2>2. ASSUME NEW n \in 1..Len(w), w[n].ifc = j, LiftsFrom(w, n, j)
        PROVE  n \in 1..Len(v) /\ v[n].ifc = j /\ LiftsFrom(v, n, j)
    BY <1>3, <1>4, <1>6, <2>2
  <2> QED
    BY <2>1, <2>2 DEF Settles
<1> QED
  BY <1>3, <1>9, <1>10 DEF v, p

\* A delivery disturbs no interface that is lifted or settles.
LEMMA DeliverSettles ==
    ASSUME NEW w \in Seq(Packet), NEW d, IsDevice(d), w # <<>>, NEW j \in Ifaces
    PROVE  LET e == [d EXCEPT ![Head(w).ifc] = Head(w).press]
           IN  /\ Tail(w) \in Seq(Packet) /\ IsDevice(e)
               /\ Neutral(w, d, j) => Neutral(Tail(w), e, j)
               /\ Settles(w, d, j) => Settles(Tail(w), e, j)
<1> DEFINE e == [d EXCEPT ![Head(w).ifc] = Head(w).press]
           v == Tail(w)
<1>1. /\ v \in Seq(Packet) /\ Len(w) \in Nat \ {0} /\ Len(v) = Len(w) - 1
      /\ \A m \in 1..Len(v) : m + 1 \in 1..Len(w) /\ v[m] = w[m + 1]
      /\ w[1] = Head(w)
  OBVIOUS
<1>2. e[j] = IF w[1].ifc = j THEN w[1].press ELSE d[j]
  BY <1>1 DEF IsDevice
<1>5. IsDevice(e)
  BY <1>1 DEF IsDevice
<1> HIDE DEF e, v
<1>3. Neutral(w, d, j) => Neutral(v, e, j)
  <2>1. SUFFICES ASSUME Neutral(w, d, j) PROVE Neutral(v, e, j)
    OBVIOUS
  <2>2. w[1].ifc = j => w[1].press = NoPress(j)
    BY <1>1, <2>1 DEF Neutral, LiftsFrom
  <2>3. LiftsFrom(v, 1, j)
    BY <1>1, <2>1 DEF Neutral, LiftsFrom
  <2> QED
    BY <1>2, <2>1, <2>2, <2>3 DEF Neutral
<1>4. ASSUME NEW n \in 1..Len(w), w[n].ifc = j, LiftsFrom(w, n, j)
      PROVE  Settles(v, e, j)
  <2>1. CASE n = 1
    <3>1. e[j] = NoPress(j)
      BY <1>1, <1>2, <1>4, <2>1 DEF LiftsFrom
    <3>2. LiftsFrom(v, 1, j)
      BY <1>1, <1>4, <2>1 DEF LiftsFrom
    <3> QED
      BY <3>1, <3>2 DEF Settles, Neutral
  <2>2. CASE n # 1
    <3>1. n - 1 \in 1..Len(v) /\ (n - 1) + 1 = n
      BY <1>1, <2>2
    <3>2. v[n - 1].ifc = j
      BY <1>1, <1>4, <3>1
    <3>3. ASSUME NEW m \in 1..Len(v), m >= n - 1, v[m].ifc = j
          PROVE  v[m].press = NoPress(j)
      <4>1. m + 1 \in 1..Len(w) /\ m + 1 >= n /\ v[m] = w[m + 1]
        BY <1>1, <3>3
      <4> QED
        BY <1>4, <3>3, <4>1 DEF LiftsFrom
    <3>4. LiftsFrom(v, n - 1, j)
      BY <3>3 DEF LiftsFrom
    <3> QED
      BY <3>1, <3>2, <3>4 DEF Settles
  <2> QED
    BY <2>1, <2>2
<1> QED
  BY <1>1, <1>3, <1>4, <1>5 DEF Settles, e, v

\* An interface that settles is lifted once the wire is empty.
LEMMA EmptySettled ==
    ASSUME NEW d, NEW j, Settles(<<>>, d, j)
    PROVE  Neutral(<<>>, d, j)
BY DEF Settles

-----------------------------------------------------------------------------
(***************************************************************************)
(* StepInv is inductive.                                                   *)
(***************************************************************************)

\* What a running sub-method and its current operation are.
LEMMA RunningTyped ==
    ASSUME StepInv, pc \in InLease \cup {"acquire"}
    PROVE  Running \in SubMethod
BY DEF StepInv, Control, StepTypeOK, Located, Running, Step

\* While a method is at an operation, the operation is one that its catalog entry lists.
LEMMA OpTyped ==
    ASSUME StepInv, NEW o, AtOp(o)
    PROVE  Op \in Operation /\ Op.op = o /\ pc = "op"
<1>1. Running.ops \in Seq(Operation) /\ i \in 1..Len(Running.ops)
  BY RunningTyped DEF AtOp, InLease, SubMethod, StepInv, Control, StepTypeOK
<1> QED
  BY <1>1 DEF AtOp, Op

\* A report that is sent is a packet.
LEMMA SentTyped ==
    ASSUME StepInv, AtOp("keyboard") \/ AtOp("pointer")
    PROVE  Op.op \in Ifaces /\ Report(Op.op, Op.press) \in Packet
<1>1. CASE AtOp("keyboard")
  <2>1. Op \in Operation /\ Op.op = "keyboard"
    BY <1>1, OpTyped
  <2>2. Op.press \in Keys
    BY <2>1 DEF Operation
  <2> QED
    BY <2>1, <2>2 DEF Report, Packet, Ifaces
<1>2. CASE AtOp("pointer")
  <2>1. Op \in Operation /\ Op.op = "pointer"
    BY <1>2, OpTyped
  <2>2. Op.press \in 0..MaxButtonMask
    BY <2>1 DEF Operation
  <2> QED
    BY <2>1, <2>2 DEF Report, Packet, Ifaces
<1> QED
  BY <1>1, <1>2

\* A step begins unconnected, with nothing down and nothing under way.
LEMMA InitInv == Init => StepInv
<1> SUFFICES ASSUME Init PROVE StepInv
  OBVIOUS
<1>1. Control
  <2>1. step \in Step
    BY StepAssumption DEF Init
  <2> QED
    BY <2>1 DEF Init, Control, StepTypeOK, Located, Scoped, OffIsClean, ClosedIsLast, InLease
<1>2. Device
  <2>1. wire \in Seq(Packet)
    BY DEF Init
  <2>2. IsDevice(down)
    BY DEF Init, IsDevice, Lifted, Ifaces
  <2>3. Covered /\ Planned
    BY DEF Init, Covered, Planned, Neutral, LiftsFrom, Lifted, Ifaces
  <2> QED
    BY <2>1, <2>2, <2>3 DEF Init, Device, DeviceTyped
<1> QED
  BY <1>1, <1>2 DEF StepInv

\* A step that leaves the device, its wire and the residue alone keeps the rest.
LEMMA DeviceUntouched ==
    ASSUME StepInv, UNCHANGED <<residue, neutral, wire, down>>
    PROVE  Device'
BY DEF StepInv, Device, DeviceTyped, Covered, Planned, Neutral, Settles, LiftsFrom, IsDevice

\* Whatever an operation does to the device, it leads on, or into the unwinding.
LEMMA Advances ==
    ASSUME StepInv, pc \in {"op", "drain"}, UNCHANGED <<lease, neutral, hid, closed>>,
           residue' = residue \/ hid # "off",
           NextOp \/ GoTo("drain") \/ \E e \in {"fail", "missing"} : Unwind(e)
    PROVE  Control'
<1> USE DEF StepInv, Control, StepTypeOK, Located, Scoped, OffIsClean, ClosedIsLast, InLease,
            Running
<1>1. CASE NextOp
  BY <1>1 DEF NextOp
<1>2. CASE GoTo("drain")
  BY <1>2 DEF GoTo
<1>3. ASSUME NEW e, Unwind(e)
      PROVE  Control'
  BY <1>3 DEF Unwind, Ifaces
<1> QED
  BY <1>1, <1>2, <1>3

\* Steps of the program that send nothing and end no neutralization.
LEMMA QuietSteps ==
    ASSUME StepInv,
           \/ Invoke \/ Connected \/ ConnectFails \/ NextSub \/ Acquire \/ OpsDone
           \/ HoldElapses \/ ReleaseKeyboardFails \/ Drained \/ DrainFails \/ UndoDrained
           \/ RpcRefused \/ RpcAnswered \/ RpcLost \/ LookTaken \/ LookCut \/ AuthoringError
           \/ Released \/ Teardown \/ ContextEnds \/ LinkLost
    PROVE  StepInv'
<1> USE DEF progVars, hidVars, devVars
<1>1. UNCHANGED <<residue, neutral, wire, down>>
  BY DEF Invoke, Connected, ConnectFails, NextSub, Acquire, OpsDone, HoldElapses,
     ReleaseKeyboardFails, Drained, DrainFails, UndoDrained, RpcRefused, RpcAnswered, RpcLost,
     LookTaken, LookCut, AuthoringError, Released, Teardown, ContextEnds, LinkLost
<1>2. Device'
  BY <1>1, DeviceUntouched
<1>3. Control'
  <2> USE DEF StepInv, Control, StepTypeOK, Located, Scoped, OffIsClean, ClosedIsLast, InLease,
              Running
  <2>1. CASE Invoke
    BY <1>1, <2>1 DEF Invoke, GoTo, Gate
  <2>2. CASE Connected \/ ConnectFails
    BY <1>1, <2>2 DEF Connected, ConnectFails, GoTo
  <2>3. CASE NextSub
    BY <1>1, <2>3 DEF NextSub, GoTo
  <2>4. CASE Acquire
    BY <1>1, <2>4 DEF Acquire, GoTo
  <2>5. CASE OpsDone \/ Released
    BY <1>1, <2>5 DEF OpsDone, Released, GoTo
  <2>6. CASE Teardown
    BY <1>1, <2>6 DEF Teardown
  <2>7. CASE ContextEnds \/ LinkLost
    BY <1>1, <2>7 DEF ContextEnds, LinkLost
  <2>8. CASE UndoDrained
    BY <1>1, <2>8 DEF UndoDrained, GoTo
  <2>9. CASE \/ HoldElapses \/ ReleaseKeyboardFails \/ Drained \/ DrainFails \/ RpcRefused
             \/ RpcAnswered \/ RpcLost \/ LookTaken \/ LookCut \/ AuthoringError
    <3> HIDE DEF StepInv, Control, StepTypeOK, Located, Scoped, OffIsClean, ClosedIsLast, InLease,
                 Running
    <3>1. pc \in {"op", "drain"} /\ UNCHANGED <<lease, neutral, hid, closed, residue>>
      BY <2>9 DEF HoldElapses, ReleaseKeyboardFails, Drained, DrainFails, RpcRefused,
         RpcAnswered, RpcLost, LookTaken, LookCut, AuthoringError, AtOp, Callable
    <3>2. NextOp \/ \E e \in {"fail", "missing"} : Unwind(e)
      BY <2>9 DEF HoldElapses, ReleaseKeyboardFails, Drained, DrainFails, RpcRefused,
         RpcAnswered, RpcLost, LookTaken, LookCut, AuthoringError, CallFailed
    <3> QED
      BY <3>1, <3>2, Advances
  <2> HIDE DEF StepInv, Control, StepTypeOK, Located, Scoped, OffIsClean, ClosedIsLast, InLease,
               Running
  <2> QED
    BY <2>1, <2>2, <2>3, <2>4, <2>5, <2>6, <2>7, <2>8, <2>9
<1> QED
  BY <1>2, <1>3 DEF StepInv

\* A report sent under the lease goes out while no neutralization is under way.
LEMMA WritableIdle ==
    ASSUME StepInv, Writable
    PROVE  neutral = "idle" /\ hid = "ready"
BY DEF StepInv, Control, Scoped, Writable

\* A lifting report under the lease.
LEMMA LiftSent ==
    ASSUME StepInv, neutral' = "idle", NEW ifc \in Ifaces, UNCHANGED <<residue, down>>,
           wire' = Append(wire, Report(ifc, NoPress(ifc)))
    PROVE  Device'
<1>1. wire \in Seq(Packet)
  BY DEF StepInv, Device, DeviceTyped
<1>2. wire' \in Seq(Packet) /\ \A j \in Ifaces : Neutral(wire, down, j) => Neutral(wire', down, j)
  BY <1>1, AppendLift
<1> QED
  BY <1>2 DEF StepInv, Device, DeviceTyped, Covered, Planned, IsDevice

\* Any report under the lease: what it may press is in the residue.
LEMMA InputSent ==
    ASSUME StepInv, neutral' = "idle", AtOp("keyboard") \/ AtOp("pointer"), UNCHANGED down,
           Offer(Op.op, Op.press), wire' = wire \/ wire' = Append(wire, Report(Op.op, Op.press))
    PROVE  Device'
<1> DEFINE p == Report(Op.op, Op.press)
<1>1. wire \in Seq(Packet) /\ Op.op \in Ifaces /\ p \in Packet /\ residue \subseteq Ifaces
  BY SentTyped DEF StepInv, Device, DeviceTyped
<1>2. p.ifc = Op.op /\ p.press = Op.press
  BY DEF Report
<1>3. residue \subseteq residue' /\ residue' \subseteq Ifaces
      /\ (Op.op \notin residue' => Op.press = NoPress(Op.op))
  BY <1>1 DEF Offer
<1>4. wire' \in Seq(Packet)
  BY <1>1
<1>5. ASSUME NEW j \in Ifaces, j \notin residue'
      PROVE  Neutral(wire', down', j)
  <2>1. Neutral(wire, down, j)
    BY <1>3, <1>5 DEF StepInv, Device, Covered
  <2>2. CASE wire' = wire
    BY <2>1, <2>2
  <2>3. CASE wire' = Append(wire, p) /\ j # Op.op
    <3> HIDE DEF p
    <3> QED
      BY <1>1, <1>2, <2>1, <2>3, AppendOther
  <2>4. CASE wire' = Append(wire, p) /\ j = Op.op
    <3>1. p = Report(j, NoPress(j))
      BY <1>3, <1>5, <2>4 DEF Report
    <3> HIDE DEF p
    <3> QED
      BY <1>1, <2>1, <2>4, <3>1, AppendLift
  <2> QED
    BY <2>2, <2>3, <2>4
<1> QED
  BY <1>3, <1>4, <1>5 DEF StepInv, Device, DeviceTyped, Covered, Planned, IsDevice

\* What the running method sends is still owed a neutral report, or is that report itself.
LEMMA SendingSteps ==
    ASSUME StepInv, SendReport \/ SendFails \/ ReleaseKeyboard \/ Undo
    PROVE  StepInv'
<1> USE DEF progVars, hidVars, devVars
<1>1. CASE SendReport \/ SendFails
  <2>1. pc = "op" /\ UNCHANGED <<lease, neutral, hid, closed, down>>
    BY <1>1 DEF SendReport, SendFails, AtOp
  <2>2. \/ UNCHANGED <<residue, wire>>
        \/ /\ Writable /\ Offer(Op.op, Op.press)
           /\ wire' = wire \/ wire' = Append(wire, Report(Op.op, Op.press))
    BY <1>1 DEF SendReport, SendFails
  <2>3. NextOp \/ \E e \in {"fail", "missing"} : Unwind(e)
    BY <1>1 DEF SendReport, SendFails
  <2>4. residue' = residue \/ hid # "off"
    BY <2>2, WritableIdle
  <2>5. Control'
    BY <2>1, <2>3, <2>4, Advances
  <2>6. Device'
    <3>1. CASE UNCHANGED <<residue, wire>>
      BY <2>1, <3>1, DeviceUntouched
    <3>2. CASE /\ Writable /\ Offer(Op.op, Op.press)
               /\ wire' = wire \/ wire' = Append(wire, Report(Op.op, Op.press))
      <4>1. neutral' = "idle"
        BY <2>1, <3>2, WritableIdle
      <4>2. AtOp("keyboard") \/ AtOp("pointer")
        BY <1>1 DEF SendReport, SendFails
      <4> QED
        BY <2>1, <3>2, <4>1, <4>2, InputSent
    <3> QED
      BY <2>2, <3>1, <3>2
  <2> QED
    BY <2>5, <2>6 DEF StepInv
<1>2. CASE ReleaseKeyboard
  <2>1. /\ pc = "op" /\ UNCHANGED <<lease, neutral, hid, closed, residue, down>> /\ GoTo("drain")
        /\ Writable /\ wire' = Append(wire, Report("keyboard", NoPress("keyboard")))
    BY <1>2 DEF ReleaseKeyboard, AtOp, NoPress
  <2>2. Control'
    BY <2>1, Advances
  <2>3. Device'
    BY <2>1, WritableIdle, LiftSent DEF Ifaces
  <2> QED
    BY <2>2, <2>3 DEF StepInv
<1>3. CASE Undo
  <2>1. /\ pc = "undo" /\ UNCHANGED <<lease, neutral, hid, closed, residue, down>>
        /\ GoTo("leave") \/ GoTo("undoDrain")
    BY <1>3 DEF Undo
  <2>2. Control'
    BY <2>1 DEF StepInv, Control, StepTypeOK, Located, Scoped, OffIsClean, ClosedIsLast, InLease,
       Running, GoTo
  <2>3. Running.undo \in Ifaces
    BY <2>1 DEF StepInv, Control, Located
  <2>4. CASE UNCHANGED wire
    <3>1. Device'
      BY <2>1, <2>4, DeviceUntouched
    <3> QED
      BY <2>2, <3>1 DEF StepInv
  <2>5. CASE Writable /\ wire' = Append(wire, Report(Running.undo, NoPress(Running.undo)))
    <3>1. Device'
      BY <2>1, <2>3, <2>5, WritableIdle, LiftSent
    <3> QED
      BY <2>2, <3>1 DEF StepInv
  <2> QED
    BY <1>3, <2>4, <2>5 DEF Undo
<1> QED
  BY <1>1, <1>2, <1>3

\* The lease is revoked, by the step or its watchdog, and Close begins.
LEMMA NeutralBegins ==
    ASSUME StepInv, Revoke \/ Close
    PROVE  StepInv'
<1> USE DEF progVars, hidVars, devVars
<1>1. /\ UNCHANGED <<residue, wire, down>>
      /\ neutral' = neutral \/ neutral' = "keyboard"
  BY DEF Revoke, Close
<1>2. Device'
  BY <1>1 DEF StepInv, Device, DeviceTyped, Covered, Planned, IsDevice
<1>3. Control'
  <2> USE DEF StepInv, Control, StepTypeOK, Located, Scoped, OffIsClean, ClosedIsLast, InLease,
              Running
  <2>1. CASE Revoke
    BY <2>1 DEF Revoke
  <2>2. CASE Close
    BY <2>2 DEF Close, GoTo
  <2> QED
    BY <2>1, <2>2
<1> QED
  BY <1>2, <1>3 DEF StepInv

\* A neutralization that ends well has left nothing down.
LEMMA NeutralEnding ==
    ASSUME StepInv, neutral # "idle", NEW ok \in BOOLEAN, NeutralEnds(ok),
           ok => \A ifc \in Ifaces : Neutral(wire, down, ifc)
    PROVE  StepInv'
<1> USE DEF progVars, hidVars, devVars
<1>1. /\ neutral' = "idle" /\ UNCHANGED <<wire, down>>
      /\ residue' = IF ok THEN {} ELSE residue
  BY DEF NeutralEnds
<1>2. Device'
  BY <1>1 DEF StepInv, Device, DeviceTyped, Covered, Planned, IsDevice
<1>3. Control'
  BY <1>1 DEF StepInv, Control, StepTypeOK, Located, Scoped, OffIsClean, ClosedIsLast, InLease,
              Running, NeutralEnds, GoTo
<1> QED
  BY <1>2, <1>3 DEF StepInv

\* Neutralization ends only when what the client held is neutral or the session is gone.
LEMMA NeutralSteps ==
    ASSUME StepInv, Neutralization
    PROVE  StepInv'
<1>1. CASE NeutralSkipped
  <2>1. \A ifc \in Ifaces : Neutral(wire, down, ifc)
    BY <1>1 DEF NeutralSkipped, StepInv, Device, Covered
  <2>2. neutral # "idle" /\ NeutralEnds(TRUE)
    BY <1>1 DEF NeutralSkipped
  <2> QED
    BY <2>1, <2>2, NeutralEnding
<1>2. CASE NeutralReport
  <2>1. /\ UNCHANGED <<lease, residue, hid, closed, down, step, pc, sub, i>>
        /\ neutral \in {"keyboard", "pointer"} /\ neutral \in Ifaces
        /\ wire' = Append(wire, Report(neutral, NoPress(neutral)))
        /\ neutral' = IF neutral = "keyboard" /\ "pointer" \in residue THEN "pointer" ELSE "drain"
    BY <1>2 DEF NeutralReport, Ifaces, progVars, devVars
  <2>2. Control'
    BY <2>1 DEF StepInv, Control, StepTypeOK, Located, Scoped, OffIsClean, ClosedIsLast, InLease,
       Running
  <2>3. /\ wire' \in Seq(Packet) /\ Settles(wire', down, neutral)
        /\ \A j \in Ifaces : /\ Neutral(wire, down, j) => Neutral(wire', down, j)
                             /\ Settles(wire, down, j) => Settles(wire', down, j)
    BY <2>1, AppendLift DEF StepInv, Device, DeviceTyped
  <2>4. DeviceTyped' /\ Covered'
    BY <2>1, <2>3 DEF StepInv, Device, DeviceTyped, Covered, IsDevice
  <2>5. Planned'
    <3>1. neutral = "pointer" => Settles(wire, down, "keyboard")
      BY DEF StepInv, Device, Planned
    <3>2. Settles(wire', down, "keyboard")
      BY <2>1, <2>3, <3>1 DEF Ifaces
    <3>3. neutral' = "drain" => Settles(wire', down, "pointer")
      <4>1. "pointer" \notin residue => Settles(wire, down, "pointer")
        BY DEF StepInv, Device, Covered, Settles, Ifaces
      <4> QED
        BY <2>1, <2>3, <4>1 DEF Ifaces
    <3> QED
      BY <2>1, <3>2, <3>3 DEF Planned
  <2> QED
    BY <2>2, <2>4, <2>5 DEF StepInv, Device
<1>3. CASE NeutralConfirmed
  <2>1. neutral = "drain" /\ wire = <<>> /\ NeutralEnds(TRUE)
    BY <1>3 DEF NeutralConfirmed
  <2>2. Settles(wire, down, "keyboard") /\ Settles(wire, down, "pointer")
    BY <2>1 DEF StepInv, Device, Planned
  <2>3. \A ifc \in Ifaces : Neutral(wire, down, ifc)
    BY <2>1, <2>2, EmptySettled DEF Ifaces
  <2> QED
    BY <2>1, <2>3, NeutralEnding
<1>4. CASE NeutralFails
  BY <1>4, NeutralEnding DEF NeutralFails
<1> QED
  BY <1>1, <1>2, <1>3, <1>4 DEF Neutralization

\* A report that arrives leaves the wire and takes effect: the two together cover as much.
LEMMA DeliverStep ==
    ASSUME StepInv, Deliver
    PROVE  StepInv'
<1> DEFINE e == [down EXCEPT ![Head(wire).ifc] = Head(wire).press]
<1>1. /\ UNCHANGED <<lease, neutral, residue, hid, closed, step, pc, sub, i>>
      /\ wire # <<>> /\ wire' = Tail(wire) /\ down' = e
  BY DEF Deliver, progVars, hidVars
<1>2. Control'
  BY <1>1 DEF StepInv, Control, StepTypeOK, Located, Scoped, OffIsClean, ClosedIsLast, InLease,
     Running
<1>3. wire \in Seq(Packet) /\ IsDevice(down)
  BY DEF StepInv, Device, DeviceTyped
<1>4. \A j \in Ifaces : /\ wire' \in Seq(Packet) /\ IsDevice(down')
                        /\ Neutral(wire, down, j) => Neutral(wire', down', j)
                        /\ Settles(wire, down, j) => Settles(wire', down', j)
  BY <1>1, <1>3, DeliverSettles
<1> HIDE DEF e
<1>5. DeviceTyped' /\ Covered' /\ Planned'
  BY <1>1, <1>4 DEF StepInv, Device, DeviceTyped, Covered, Planned, Ifaces, IsDevice
<1> QED
  BY <1>2, <1>5 DEF StepInv, Device

\* Every step of the program, of the watchdog and of the device keeps the invariant.
LEMMA NextInv == StepInv /\ [Next]_vars => StepInv'
<1> SUFFICES ASSUME StepInv, [Next]_vars PROVE StepInv'
  OBVIOUS
<1>1. CASE Next
  BY <1>1, QuietSteps, SendingSteps, NeutralBegins, NeutralSteps, DeliverStep
  DEF Next, Program, Peer, Watchdog, Release
<1>2. CASE UNCHANGED vars
  <2>1. Device'
    BY <1>2, DeviceUntouched DEF vars, hidVars, devVars
  <2>2. Control'
    BY <1>2 DEF vars, progVars, hidVars, StepInv, Control, StepTypeOK, Located, Scoped, OffIsClean,
       ClosedIsLast, InLease, Running
  <2> QED
    BY <2>1, <2>2 DEF StepInv
<1> QED
  BY <1>1, <1>2

\* When Client.Close returns nil at the end of a check step, the device holds
\* no key and no button down: the residue is empty only when every report that
\* pressed something has been followed, on the wire, by one that lifts it.
THEOREM CloseTruthful == Spec => []CloseIsTruthful
<1>1. StepInv => CloseIsTruthful
  <2> SUFFICES ASSUME StepInv, closed = "confirmed" PROVE down = Lifted
    BY DEF CloseIsTruthful
  <2>1. residue = {}
    BY DEF StepInv, Control, ClosedIsLast
  <2>2. \A ifc \in Ifaces : down[ifc] = NoPress(ifc)
    BY <2>1 DEF StepInv, Device, Covered, Neutral
  <2> QED
    BY <2>2 DEF StepInv, Device, DeviceTyped, IsDevice, Lifted, Ifaces
<1> QED
  BY InitInv, NextInv, <1>1, PTL DEF Spec

-----------------------------------------------------------------------------
(***************************************************************************)
(* Consent.                                                                *)
(***************************************************************************)

\* Nothing has changed the device, nor will what is on its way.
Untouched ==
    typed = <<>> /\ acted = {} /\ \A ifc \in Ifaces : Neutral(wire, down, ifc)

\* The step has left the m-th operation of its n-th sub-method behind.
Passed(n, m) == n < sub \/ (n = sub /\ m < i /\ pc \in InLease)

\* While all goes well, whatever touched the device is an operation left behind.
Traced ==
    err = "none" /\ ~Untouched =>
        \E n \in 1..Len(step.work) : \E m \in 1..Len(step.work[n].ops) :
            Passed(n, m) /\ Acts(step.work[n].ops[m])

\* An error ends the method.
Errors ==
    /\ err \in {"none", "fail", "missing"}
    /\ pc \in {"invoke", "connect", "acquire", "op", "drain"} => err = "none"

\* Control, and every trace on the device, took consent.
Allowed ==
    /\ hid = "ready" => step.allow
    /\ ~Untouched => step.allow

\* Past Invoke, the gate has let the step through.
Gated == (pc \in {"invoke", "ended"} /\ Untouched) \/ Gate(step) = "go"

Unwiped == acted \cap rpcForbiddenMethods = {}

\* What is or will be reported as a skip has left no trace.
Skips ==
    /\ err = "missing" => Untouched
    /\ verdict = "skip" => Untouched
    /\ verdict # "none" => pc = "ended"

Consent == step \in Steps /\ Traced /\ Errors /\ Allowed /\ Gated /\ Unwiped /\ Skips

\* How a step that does not act itself moves the program.
Moves ==
    /\ step' = step /\ Errors' /\ err' \in {err, "fail"}
    /\ err' = "none" => \A n \in Nat, m \in Nat : Passed(n, m) => Passed(n, m)'
    /\ hid' = "ready" => hid = "ready" \/ step.allow
    /\ Gate(step) = "go" \/ pc' \in {pc, "ended"}
    /\ pc = "ended" => pc' = "ended"
    /\ verdict' = verdict \/ (pc' = "ended" /\ (verdict' = "skip" => Untouched))

\* A step that neither acts nor disturbs an untouched device keeps the invariant.
LEMMA MovesKeep ==
    ASSUME Consent, Moves, acted' = acted, Untouched => Untouched'
    PROVE  Consent'
<1>1. Traced'
  <2>1. SUFFICES ASSUME err' = "none", ~Untouched'
                 PROVE  \E n \in 1..Len(step.work) : \E m \in 1..Len(step.work[n].ops) :
                            Passed(n, m)' /\ Acts(step.work[n].ops[m])
    BY DEF Moves, Traced
  <2>2. err = "none" /\ ~Untouched
    BY <2>1 DEF Moves
  <2>3. PICK n \in 1..Len(step.work) : \E m \in 1..Len(step.work[n].ops) :
            Passed(n, m) /\ Acts(step.work[n].ops[m])
    BY <2>2 DEF Consent, Traced
  <2>4. PICK m \in 1..Len(step.work[n].ops) : Passed(n, m) /\ Acts(step.work[n].ops[m])
    BY <2>3
  <2>5. n \in Nat /\ m \in Nat
    OBVIOUS
  <2>6. Passed(n, m)'
    BY <2>1, <2>4, <2>5 DEF Moves
  <2> QED
    BY <2>4, <2>6
<1>2. Allowed'
  BY DEF Consent, Moves, Allowed
<1>3. Gated'
  BY DEF Consent, Moves, Gated
<1>4. Unwiped'
  BY DEF Consent, Unwiped
<1>5. Skips'
  BY DEF Consent, Moves, Skips
<1> QED
  BY <1>1, <1>2, <1>3, <1>4, <1>5 DEF Consent, Moves

\* A device that is left alone, or sent a report that lifts, stays untouched.
LEMMA UntouchedStays ==
    ASSUME StepInv, UNCHANGED devVars,
           \/ UNCHANGED wire
           \/ \E ifc \in Ifaces : wire' = Append(wire, Report(ifc, NoPress(ifc)))
    PROVE  acted' = acted /\ (Untouched => Untouched')
<1>1. UNCHANGED <<down, typed, acted>>
  BY DEF devVars
<1>2. CASE UNCHANGED wire
  BY <1>1, <1>2 DEF Untouched
<1>3. ASSUME NEW ifc \in Ifaces, wire' = Append(wire, Report(ifc, NoPress(ifc)))
      PROVE  Untouched => Untouched'
  <2>1. wire \in Seq(Packet)
    BY DEF StepInv, Device, DeviceTyped
  <2>2. \A j \in Ifaces : Neutral(wire, down, j) => Neutral(wire', down, j)
    BY <1>3, <2>1, AppendLift
  <2> QED
    BY <1>1, <2>2 DEF Untouched
<1> QED
  BY <1>1, <1>2, <1>3

\* What is delivered to an untouched device lifts.
LEMMA DeliveryStays ==
    ASSUME StepInv, Deliver
    PROVE  acted' = acted /\ (Untouched => Untouched')
<1>1. /\ wire # <<>> /\ wire' = Tail(wire) /\ acted' = acted
      /\ down' = [down EXCEPT ![Head(wire).ifc] = Head(wire).press]
      /\ typed' = IF Head(wire).ifc = "keyboard" /\ Head(wire).press # "up"
                  THEN Append(typed, Head(wire).press) ELSE typed
  BY DEF Deliver
<1>2. wire \in Seq(Packet) /\ IsDevice(down)
  BY DEF StepInv, Device, DeviceTyped
<1>3. \A j \in Ifaces : Neutral(wire, down, j) => Neutral(wire', down', j)
  BY <1>1, <1>2, DeliverSettles
<1>4. ASSUME Untouched
      PROVE  typed' = <<>>
  <2>1. 1 \in 1..Len(wire) /\ wire[1] = Head(wire)
    BY <1>1, <1>2
  <2>2. LiftsFrom(wire, 1, "keyboard") /\ typed = <<>>
    BY <1>4 DEF Untouched, Neutral, Ifaces
  <2>3. Head(wire).ifc = "keyboard" => Head(wire).press = "up"
    BY <2>1, <2>2 DEF LiftsFrom, NoPress
  <2> QED
    BY <1>1, <2>2, <2>3
<1> QED
  BY <1>1, <1>3, <1>4 DEF Untouched

\* The steps of the program that send nothing and call nothing.
LEMMA ProgramMoves ==
    ASSUME StepInv, Consent,
           \/ Invoke \/ Connected \/ ConnectFails \/ NextSub \/ Acquire \/ OpsDone
           \/ HoldElapses \/ ReleaseKeyboardFails \/ Drained \/ DrainFails \/ UndoDrained
           \/ RpcRefused \/ LookTaken \/ LookCut \/ AuthoringError \/ Released \/ Teardown
    PROVE  Moves
<1> USE DEF progVars, hidVars, devVars
<1>0. sub \in Nat \ {0} /\ i \in Nat \ {0}
  BY DEF StepInv, Control, StepTypeOK
<1>1. Errors /\ Gated /\ Skips
  BY DEF Consent
<1>2. CASE Invoke
  <2>1. Gate(step) # "go" => Untouched
    BY <1>1 DEF Gated
  <2>2. pc = "invoke" /\ UNCHANGED <<step, sub, i, err, hid>>
    BY <1>2 DEF Invoke, GoTo
  <2>3. \/ Gate(step) = "go" /\ pc' = "connect" /\ verdict' = verdict
        \/ Gate(step) # "go" /\ pc' = "ended"
    BY <1>2 DEF Invoke, GoTo
  <2>4. Errors'
    BY <1>1, <2>2, <2>3 DEF Errors
  <2>5. \A n \in Nat, m \in Nat : Passed(n, m) => Passed(n, m)'
    BY <2>2 DEF Passed, InLease
  <2> QED
    BY <2>1, <2>2, <2>3, <2>4, <2>5 DEF Moves
<1>3. CASE Connected \/ ConnectFails
  <2>1. /\ pc = "connect" /\ UNCHANGED <<step, sub, i, err>>
        /\ hid' = "ready" => hid = "ready" \/ step.allow
        /\ \/ pc' = "next" /\ verdict' = verdict
           \/ pc' = "ended" /\ verdict' = "fail"
    BY <1>3 DEF Connected, ConnectFails, GoTo
  <2>2. Errors' /\ Gate(step) = "go"
    BY <1>1, <2>1 DEF Errors, Gated
  <2>3. \A n \in Nat, m \in Nat : Passed(n, m) => Passed(n, m)'
    BY <2>1 DEF Passed, InLease
  <2> QED
    BY <2>1, <2>2, <2>3 DEF Moves
<1>4. CASE NextSub \/ Acquire
  <2>1. /\ pc \in {"next", "acquire"} /\ UNCHANGED <<step, sub, verdict, hid>>
        /\ pc' \in {"closing", "acquire", "op", "next"} /\ err' \in {err, "fail"}
        /\ pc' \in {"acquire", "op"} => err' = "none"
    BY <1>1, <1>4 DEF NextSub, Acquire, GoTo, Errors
  <2>2. Errors' /\ Gate(step) = "go"
    BY <1>1, <2>1 DEF Errors, Gated
  <2>3. \A n \in Nat, m \in Nat : Passed(n, m) => Passed(n, m)'
    BY <2>1 DEF Passed, InLease
  <2> QED
    BY <2>1, <2>2, <2>3 DEF Moves
<1>5. CASE OpsDone \/ Released
  <2>1. /\ pc \in InLease /\ UNCHANGED <<step, i, err, verdict, hid>>
        /\ \/ pc' = "leave" /\ sub' = sub
           \/ pc' = "next" /\ sub' = sub + 1
    BY <1>5 DEF OpsDone, Released, GoTo, InLease
  <2>2. Errors' /\ Gate(step) = "go"
    BY <1>1, <2>1 DEF Errors, Gated, InLease
  <2>3. \A n \in Nat, m \in Nat : Passed(n, m) => Passed(n, m)'
    BY <1>0, <2>1 DEF Passed, InLease
  <2> QED
    BY <2>1, <2>2, <2>3 DEF Moves, InLease
<1>6. CASE \/ HoldElapses \/ ReleaseKeyboardFails \/ Drained \/ DrainFails \/ UndoDrained
           \/ RpcRefused \/ LookTaken \/ LookCut \/ AuthoringError
  <2>1. pc \in {"op", "drain", "undoDrain"} /\ hid' = hid
    BY <1>6 DEF HoldElapses, ReleaseKeyboardFails, Drained, DrainFails, UndoDrained, RpcRefused,
       LookTaken, LookCut, AuthoringError, AtOp
  <2>2. (NextOp /\ pc \in {"op", "drain"}) \/ GoTo("leave") \/ Unwind("fail")
    BY <1>6 DEF HoldElapses, ReleaseKeyboardFails, Drained, DrainFails, UndoDrained, RpcRefused,
       LookTaken, LookCut, AuthoringError, AtOp
  <2>3. /\ UNCHANGED <<step, sub, verdict>> /\ err' \in {err, "fail"}
        /\ pc' \in {"op", "leave", "undo", "next"} /\ (pc' = "op" => err' = err /\ pc \in {"op", "drain"})
        /\ err' = "none" => pc' \in InLease /\ i' \in {i, i + 1}
    BY <2>2 DEF NextOp, GoTo, Unwind, InLease
  <2>4. Errors' /\ Gate(step) = "go"
    BY <1>1, <2>1, <2>3 DEF Errors, Gated
  <2>5. err' = "none" => \A n \in Nat, m \in Nat : Passed(n, m) => Passed(n, m)'
    BY <1>0, <2>1, <2>3 DEF Passed, InLease
  <2> QED
    BY <2>1, <2>3, <2>4, <2>5 DEF Moves
<1>7. CASE Teardown
  <2>1. /\ pc = "closed" /\ pc' = "ended" /\ UNCHANGED <<step, sub, i, err>>
        /\ verdict' = VerdictOf(err) /\ hid' = "closed"
    BY <1>7 DEF Teardown
  <2>2. Errors' /\ Gate(step) = "go"
    BY <1>1, <2>1 DEF Errors, Gated
  <2>3. verdict' = "skip" => Untouched
    BY <1>1, <2>1 DEF VerdictOf, Errors, Skips
  <2>4. \A n \in Nat, m \in Nat : Passed(n, m) => Passed(n, m)'
    BY <2>1 DEF Passed, InLease
  <2> QED
    BY <2>1, <2>2, <2>3, <2>4 DEF Moves
<1> QED
  BY <1>2, <1>3, <1>4, <1>5, <1>6, <1>7

\* The steps that send lifting reports, revoke or end a lease, and those of the
\* host and the link, leave the program where it is, or move it on to the next wait.
LEMMA OtherPlaces ==
    ASSUME StepInv,
           \/ ReleaseKeyboard \/ Undo \/ Revoke \/ Close \/ Neutralization
           \/ ContextEnds \/ LinkLost \/ Deliver \/ UNCHANGED vars
    PROVE  /\ UNCHANGED <<step, sub, i, err, verdict>>
           /\ hid' \in {hid, "closed"}
           /\ \/ pc' = pc
              \/ pc = "op" /\ pc' = "drain" /\ ReleaseKeyboard
              \/ pc = "undo" /\ pc' \in {"undoDrain", "leave"}
              \/ pc = "closing" /\ pc' \in {"closed", "neutralizing"}
              \/ pc = "neutralizing" /\ pc' = "closed"
<1> USE DEF progVars, hidVars, devVars
<1>1. CASE ReleaseKeyboard \/ Undo \/ Close
  BY <1>1 DEF ReleaseKeyboard, Undo, Close, GoTo, AtOp
<1>2. CASE Revoke \/ ContextEnds \/ LinkLost \/ Deliver \/ UNCHANGED vars
  BY <1>2 DEF Revoke, ContextEnds, LinkLost, Deliver, vars
<1>3. CASE NeutralReport
  BY <1>3 DEF NeutralReport
<1>4. ASSUME NEW ok \in BOOLEAN, neutral # "idle", NeutralEnds(ok)
      PROVE  /\ UNCHANGED <<step, sub, i, err, verdict>>
             /\ hid' \in {hid, "closed"}
             /\ pc' = pc \/ (pc = "neutralizing" /\ pc' = "closed")
  <2>1. lease = "revoked" \/ pc = "neutralizing"
    BY <1>4 DEF StepInv, Control, Scoped
  <2> QED
    BY <1>4, <2>1 DEF NeutralEnds, GoTo
<1>5. CASE NeutralSkipped \/ NeutralConfirmed \/ NeutralFails
  BY <1>4, <1>5 DEF NeutralSkipped, NeutralConfirmed, NeutralFails
<1> QED
  BY <1>1, <1>2, <1>3, <1>5 DEF Neutralization

\* What they send, if anything, lifts.
LEMMA OtherLifts ==
    ASSUME StepInv,
           \/ ReleaseKeyboard \/ Undo \/ Revoke \/ Close \/ Neutralization
           \/ ContextEnds \/ LinkLost \/ UNCHANGED vars
    PROVE  /\ UNCHANGED devVars
           /\ UNCHANGED wire \/ \E ifc \in Ifaces : wire' = Append(wire, Report(ifc, NoPress(ifc)))
<1>1. CASE ReleaseKeyboard
  BY <1>1 DEF ReleaseKeyboard, NoPress, Ifaces
<1>2. CASE Undo
  <2>1. Running.undo \in Ifaces
    BY <1>2 DEF Undo, StepInv, Control, Located
  <2> QED
    BY <1>2, <2>1 DEF Undo
<1>3. CASE NeutralReport
  BY <1>3 DEF NeutralReport, Ifaces
<1>4. CASE \/ Revoke \/ Close \/ NeutralSkipped \/ NeutralConfirmed \/ NeutralFails
           \/ ContextEnds \/ LinkLost \/ UNCHANGED vars
  BY <1>4 DEF Revoke, Close, NeutralSkipped, NeutralConfirmed, NeutralFails, NeutralEnds,
     ContextEnds, LinkLost, vars
<1> QED
  BY <1>1, <1>2, <1>3, <1>4 DEF Neutralization

\* They move the program as an invariant of consent can bear.
LEMMA OtherMoves ==
    ASSUME StepInv, Consent,
           \/ ReleaseKeyboard \/ Undo \/ Revoke \/ Close \/ Neutralization
           \/ ContextEnds \/ LinkLost \/ Deliver \/ UNCHANGED vars
    PROVE  Moves
<1>1. Errors /\ Gated /\ Skips
  BY DEF Consent
<1>2. /\ UNCHANGED <<step, sub, i, err, verdict>>
      /\ hid' \in {hid, "closed"}
      /\ \/ pc' = pc
         \/ pc = "op" /\ pc' = "drain"
         \/ pc = "undo" /\ pc' \in {"undoDrain", "leave"}
         \/ pc = "closing" /\ pc' \in {"closed", "neutralizing"}
         \/ pc = "neutralizing" /\ pc' = "closed"
  BY OtherPlaces
<1>3. Errors'
  BY <1>1, <1>2 DEF Errors
<1>4. \A n \in Nat, m \in Nat : Passed(n, m) => Passed(n, m)'
  BY <1>2 DEF Passed, InLease
<1>5. Gate(step) = "go" \/ pc' = pc
  BY <1>1, <1>2 DEF Gated
<1> QED
  BY <1>2, <1>3, <1>4, <1>5 DEF Moves

\* The operation under way: the catalog lists it, and the gate let it through.
LEMMA OpListed ==
    ASSUME StepInv, Consent, NEW o, AtOp(o)
    PROVE  /\ sub \in 1..Len(step.work) /\ i \in 1..Len(step.work[sub].ops)
           /\ Op = step.work[sub].ops[i] /\ Op.op = o
           /\ pc = "op" /\ err = "none" /\ verdict = "none" /\ Gate(step) = "go"
<1>1. pc = "op" /\ i <= Len(Running.ops) /\ Op.op = o
  BY DEF AtOp
<1>2. sub \in 1..Len(step.work) /\ i \in Nat \ {0}
  BY <1>1 DEF StepInv, Control, StepTypeOK, Located, InLease
<1>3. Running.ops \in Seq(Operation)
  BY <1>1, RunningTyped DEF InLease, SubMethod
<1>4. i \in 1..Len(step.work[sub].ops)
  BY <1>1, <1>2, <1>3 DEF Running
<1> QED
  BY <1>1, <1>2, <1>4 DEF Op, Running, Consent, Errors, Gated, Skips

\* An operation that touches the device is left behind, or ends the method.
LEMMA ActedMoves ==
    ASSUME StepInv, Consent, NEW o, AtOp(o), hid' = hid,
           NextOp \/ Unwind("fail"),
           (Acts(Op) /\ step.allow) \/ (Untouched => Untouched'),
           acted' \cap rpcForbiddenMethods = {}
    PROVE  Consent'
<1>1. /\ sub \in 1..Len(step.work) /\ i \in 1..Len(step.work[sub].ops)
      /\ Op = step.work[sub].ops[i]
      /\ pc = "op" /\ err = "none" /\ verdict = "none" /\ Gate(step) = "go"
  BY OpListed
<1>2. i \in Nat /\ sub \in Nat
  BY <1>1
<1>3. /\ UNCHANGED <<step, sub, verdict>>
      /\ \/ pc' = "op" /\ i' = i + 1 /\ err' = err
         \/ pc' \in {"undo", "leave", "next"} /\ err' = "fail"
  BY DEF NextOp, Unwind
<1>4. Traced'
  <2>1. SUFFICES ASSUME err' = "none", ~Untouched'
                 PROVE  \E n \in 1..Len(step.work) : \E m \in 1..Len(step.work[n].ops) :
                            Passed(n, m)' /\ Acts(step.work[n].ops[m])
    BY <1>3 DEF Traced
  <2>2. CASE Acts(Op)
    <3>1. PICK n \in 1..Len(step.work) : n = sub
      BY <1>1
    <3>2. PICK m \in 1..Len(step.work[n].ops) : m = i
      BY <1>1, <3>1
    <3>3. Passed(n, m)'
      BY <1>2, <1>3, <2>1, <3>1, <3>2 DEF Passed, InLease
    <3> QED
      BY <1>1, <2>2, <3>1, <3>2, <3>3
  <2>3. CASE Untouched => Untouched'
    <3>1. PICK n \in 1..Len(step.work) : \E m \in 1..Len(step.work[n].ops) :
              Passed(n, m) /\ Acts(step.work[n].ops[m])
      BY <1>1, <2>1, <2>3 DEF Consent, Traced
    <3>2. PICK m \in 1..Len(step.work[n].ops) : Passed(n, m) /\ Acts(step.work[n].ops[m])
      BY <3>1
    <3>3. Passed(n, m)'
      BY <1>1, <1>2, <1>3, <2>1, <3>2 DEF Passed, InLease
    <3> QED
      BY <3>2, <3>3
  <2> QED
    BY <2>2, <2>3
<1>5. Errors' /\ Gated' /\ Skips'
  BY <1>1, <1>3 DEF Errors, Gated, Skips
<1>6. Allowed'
  BY <1>3 DEF Consent, Allowed
<1> QED
  BY <1>3, <1>4, <1>5, <1>6 DEF Consent, Unwiped

\* Input goes out under a lease, and a lease takes consent.
LEMMA InputConsent ==
    ASSUME StepInv, Consent, SendReport \/ SendFails
    PROVE  Consent'
<1>1. PICK o \in {"keyboard", "pointer"} : AtOp(o)
  BY DEF SendReport, SendFails
<1>2. Acts(Op)
  BY <1>1 DEF AtOp, Acts
<1>3. UNCHANGED <<hid, typed, acted, down>> /\ (NextOp \/ Unwind("fail"))
  BY DEF SendReport, SendFails, hidVars, devVars
<1>4. CASE Writable
  BY <1>1, <1>2, <1>3, <1>4, ActedMoves DEF Writable, Consent, Allowed, Unwiped
<1>5. CASE ~Writable
  <2>1. wire' = wire
    BY <1>5 DEF SendReport, SendFails
  <2>2. Untouched => Untouched'
    BY <1>3, <2>1 DEF Untouched
  <2> QED
    BY <1>1, <1>3, <2>2, ActedMoves DEF Consent, Unwiped
<1> QED
  BY <1>4, <1>5

\* A call changes the device only in a method that is allowed to, and "method
\* not found" is said of a device that nothing has touched.
LEMMA CallConsent ==
    ASSUME StepInv, Consent, RpcAnswered \/ RpcLost
    PROVE  Consent'
<1>1. /\ AtOp("rpc") /\ ~(step.method = "rpc" /\ Op.m \in rpcForbiddenMethods)
      /\ UNCHANGED <<hid, wire, down, typed>>
  BY DEF RpcAnswered, RpcLost, Callable, hidVars
<1>2. /\ sub \in 1..Len(step.work) /\ i \in 1..Len(step.work[sub].ops)
      /\ Op = step.work[sub].ops[i] /\ Op.op = "rpc"
      /\ pc = "op" /\ err = "none" /\ verdict = "none" /\ Gate(step) = "go"
  BY <1>1, OpListed
<1>3. /\ Acts(Op) => step.method \notin readOnlyMethods
      /\ Op.op = "rpc" /\ Op.writes /\ Op.m \in rpcForbiddenMethods => step.method = "rpc"
      /\ Op.op = "rpc" /\ ~Op.tolerant =>
             \A l \in 1..sub : \A k \in 1..Len(step.work[l].ops) :
                 l < sub \/ k < i => ~Acts(step.work[l].ops[k])
  BY <1>2, CatalogAssumption DEF Consent
<1>4. acted' = acted \/ (Op.writes /\ acted' = acted \cup {Op.m})
  BY DEF RpcAnswered, RpcLost, Effect
<1>5. acted' = acted => (Untouched => Untouched')
  BY <1>1 DEF Untouched
<1>6. Op.writes => Acts(Op)
  BY <1>2 DEF Acts
<1>7. Acts(Op) => step.allow
  BY <1>2, <1>3 DEF Gate, MethodSafety
<1>8. acted' \cap rpcForbiddenMethods = {}
  BY <1>1, <1>2, <1>3, <1>4, <1>6 DEF Consent, Unwiped
<1>9. CASE NextOp \/ Unwind("fail")
  BY <1>1, <1>4, <1>5, <1>6, <1>7, <1>8, <1>9, ActedMoves
<1>10. CASE acted' = acted /\ ~Op.tolerant /\ Unwind("missing")
  <2>1. Untouched
    <3>1. SUFFICES ASSUME ~Untouched PROVE FALSE
      OBVIOUS
    <3>2. PICK n \in 1..Len(step.work) : \E m \in 1..Len(step.work[n].ops) :
              Passed(n, m) /\ Acts(step.work[n].ops[m])
      BY <1>2, <3>1 DEF Consent, Traced
    <3>3. PICK m \in 1..Len(step.work[n].ops) : Passed(n, m) /\ Acts(step.work[n].ops[m])
      BY <3>2
    <3>4. n \in 1..sub /\ (n < sub \/ m < i)
      BY <1>2, <3>3 DEF Passed
    <3> QED
      BY <1>2, <1>3, <1>10, <3>3, <3>4
  <2>2. Untouched'
    BY <1>5, <1>10, <2>1
  <2>3. /\ UNCHANGED <<step, verdict>> /\ err' = "missing"
        /\ pc' \in {"undo", "leave", "next"}
    BY <1>10 DEF Unwind
  <2>4. Traced' /\ Errors' /\ Gated' /\ Skips'
    BY <1>2, <2>2, <2>3 DEF Traced, Errors, Gated, Skips
  <2>5. Allowed'
    BY <1>1, <2>2, <2>3 DEF Consent, Allowed
  <2> QED
    BY <1>8, <2>3, <2>4, <2>5 DEF Consent, Unwiped
<1> QED
  BY <1>9, <1>10 DEF RpcAnswered, RpcLost, CallFailed

\* A step begins with an untouched device.
LEMMA InitConsent == Init => Consent
<1> SUFFICES ASSUME Init PROVE Consent
  OBVIOUS
<1>1. Untouched
  BY DEF Init, Untouched, Neutral, LiftsFrom, Lifted, Ifaces
<1> QED
  BY <1>1 DEF Init, Consent, Traced, Errors, Allowed, Gated, Unwiped, Skips

\* Every step keeps the invariant: four actions act, the others only move.
LEMMA NextConsent == StepInv /\ Consent /\ [Next]_vars => Consent'
<1> SUFFICES ASSUME StepInv, Consent, [Next]_vars PROVE Consent'
  OBVIOUS
<1>1. CASE SendReport \/ SendFails \/ RpcAnswered \/ RpcLost
  BY <1>1, InputConsent, CallConsent
<1>2. CASE \/ Invoke \/ Connected \/ ConnectFails \/ NextSub \/ Acquire \/ OpsDone
           \/ HoldElapses \/ ReleaseKeyboardFails \/ Drained \/ DrainFails \/ UndoDrained
           \/ RpcRefused \/ LookTaken \/ LookCut \/ AuthoringError \/ Released \/ Teardown
  <2>1. UNCHANGED devVars /\ UNCHANGED wire
    BY <1>2 DEF Invoke, Connected, ConnectFails, NextSub, Acquire, OpsDone, HoldElapses,
       ReleaseKeyboardFails, Drained, DrainFails, UndoDrained, RpcRefused, LookTaken, LookCut,
       AuthoringError, Released, Teardown
  <2> QED
    BY <1>2, <2>1, ProgramMoves, UntouchedStays, MovesKeep
<1>3. CASE \/ ReleaseKeyboard \/ Undo \/ Revoke \/ Close \/ Neutralization
           \/ ContextEnds \/ LinkLost \/ UNCHANGED vars
  <2>1. /\ UNCHANGED devVars
        /\ UNCHANGED wire \/ \E ifc \in Ifaces : wire' = Append(wire, Report(ifc, NoPress(ifc)))
    BY <1>3, OtherLifts
  <2> QED
    BY <1>3, <2>1, OtherMoves, UntouchedStays, MovesKeep
<1>4. CASE Deliver
  BY <1>4, OtherMoves, DeliveryStays, MovesKeep
<1> QED
  BY <1>1, <1>2, <1>3, <1>4 DEF Next, Program, Peer, Watchdog, Release

\* Whatever changed the device, or is on its way to, was consented to: the step
\* passed the gate and allows control, the raw escape hatch never wiped the
\* device, and a step reported as skipped has left no trace, not even when a
\* call of it turned out not to exist.
THEOREM ConsentCorrect == Spec => []ActsOnlyWithConsent
<1>1. StepInv /\ Consent => ActsOnlyWithConsent
  <2> SUFFICES ASSUME StepInv, Consent, Pressed \/ acted # {}
               PROVE  /\ step.allow /\ ~step.box /\ step.address
                      /\ step.method \notin neverAutonomous
                      /\ acted \cap rpcForbiddenMethods = {}
                      /\ verdict # "skip"
    BY DEF ActsOnlyWithConsent
  <2>1. ~Untouched
    <3> SUFFICES ASSUME Untouched PROVE ~Pressed /\ acted = {}
      OBVIOUS
    <3>1. down = Lifted
      BY DEF Untouched, Neutral, StepInv, Device, DeviceTyped, IsDevice, Lifted, Ifaces
    <3>2. ASSUME NEW n \in DOMAIN wire
          PROVE  wire[n].press = NoPress(wire[n].ifc)
      <4>1. wire \in Seq(Packet)
        BY DEF StepInv, Device, DeviceTyped
      <4>2. n \in 1..Len(wire) /\ wire[n] \in Packet /\ n >= 1
        BY <4>1
      <4>3. wire[n].ifc \in Ifaces
        BY <4>2 DEF Packet, Ifaces
      <4>4. LiftsFrom(wire, 1, wire[n].ifc)
        BY <4>3 DEF Untouched, Neutral
      <4> QED
        BY <4>2, <4>4 DEF LiftsFrom
    <3> QED
      BY <3>1, <3>2 DEF Untouched, Pressed
  <2>2. step.allow /\ Gate(step) = "go"
    BY <2>1 DEF Consent, Allowed, Gated
  <2>3. ~step.box /\ step.address /\ MethodSafety(step)
    BY <2>2 DEF Gate
  <2>4. step.method \notin neverAutonomous
    BY <2>3 DEF MethodSafety, readOnlyMethods, neverAutonomous
  <2> QED
    BY <2>1, <2>2, <2>3, <2>4 DEF Consent, Unwiped, Skips
<1>2. StepInv /\ Consent /\ [Next]_vars => StepInv' /\ Consent'
  BY NextInv, NextConsent
<1> QED
  BY InitInv, InitConsent, <1>1, <1>2, PTL DEF Spec

-----------------------------------------------------------------------------
(***************************************************************************)
(* What a step is to type. ChordsWith and ChordsAfter are recursive        *)
(* functions: that they exist, and that they satisfy their equations, is   *)
(* shown by induction over the numbers, for a set instead of a predicate.  *)
(***************************************************************************)

\* What holds of zero and passes to the next number holds of all.
LEMMA NumberInduction ==
    ASSUME NEW G, 0 \in G, \A n \in Nat : n \in G => n + 1 \in G
    PROVE  \A n \in Nat : n \in G
<1> DEFINE R == {p \in Nat \X Nat : p[1] < p[2]}
<1> SUFFICES ASSUME Nat \ G # {} PROVE FALSE
  OBVIOUS
<1>1. IsWellFoundedOn(R, Nat)
  BY NatLessThanWellFounded DEF OpToRel
<1>2. PICK x \in Nat \ G : \A y \in Nat \ G : <<y, x>> \notin R
  BY <1>1, WFMin
<1>3. x # 0 /\ x - 1 \in Nat /\ x - 1 < x /\ x - 1 + 1 = x
  BY <1>2
<1>4. x - 1 \in G
  BY <1>2, <1>3
<1> QED
  BY <1>2, <1>3, <1>4

\* A chain that starts in a set and never leaves it is in it all along.
LEMMA ChainTyped ==
    ASSUME NEW N \in Nat, NEW V, NEW c, c[0] \in V, \A n \in 1..N : c[n - 1] \in V => c[n] \in V
    PROVE  \A n \in 0..N : c[n] \in V
<1> DEFINE G == {n \in Nat : n <= N => c[n] \in V}
<1>1. 0 \in G
  OBVIOUS
<1>2. ASSUME NEW n \in Nat, n \in G PROVE n + 1 \in G
  <2> SUFFICES ASSUME n + 1 <= N PROVE c[n + 1] \in V
    OBVIOUS
  <2>1. PICK k \in 1..N : k = n + 1 /\ k - 1 = n
    OBVIOUS
  <2>2. c[k - 1] \in V
    BY <1>2, <2>1
  <2> QED
    BY <2>1, <2>2
<1> HIDE DEF G
<1>3. \A n \in Nat : n \in G
  BY <1>1, <1>2, NumberInduction
<1> QED
  BY <1>3 DEF G

\* A chain that starts at a, its n-th link given by F[n].
Chain(c, N, a, F) == c[0] = a /\ \A n \in 1..N : c[n] = F[n][c[n - 1]]

\* A chain of a given start and given links exists.
LEMMA ChainExists ==
    ASSUME NEW N \in Nat, NEW V, NEW a \in V, NEW F \in [1..N -> [V -> V]]
    PROVE  \E c \in [0..N -> V] : Chain(c, N, a, F)
<1> DEFINE Is(c, k) == c \in [0..k -> V] /\ c[0] = a /\ \A n \in 1..k : c[n] = F[n][c[n - 1]]
           G == {k \in Nat : k <= N => \E c : Is(c, k)}
<1>1. 0 \in G
  <2>1. Is([n \in 0..0 |-> a], 0)
    OBVIOUS
  <2> QED
    BY <2>1
<1>2. ASSUME NEW k \in Nat, k \in G PROVE k + 1 \in G
  <2> SUFFICES ASSUME k + 1 <= N PROVE \E c : Is(c, k + 1)
    OBVIOUS
  <2>1. PICK c : Is(c, k)
    BY <1>2
  <2>2. PICK l \in 1..N : l = k + 1 /\ l - 1 = k
    OBVIOUS
  <2> DEFINE d == [n \in 0..l |-> IF n = l THEN F[l][c[k]] ELSE c[n]]
  <2>3. c[k] \in V /\ F[l][c[k]] \in V
    BY <2>1
  <2>4. d \in [0..l -> V] /\ d[0] = a
    BY <2>1, <2>2, <2>3
  <2>5. ASSUME NEW n \in 1..l PROVE d[n] = F[n][d[n - 1]]
    <3>1. n - 1 \in 0..k /\ n - 1 \in 0..l /\ n - 1 # l /\ n \in 0..l
      BY <2>2
    <3>2. d[n - 1] = c[n - 1]
      BY <3>1
    <3>3. CASE n = l
      BY <2>2, <3>1, <3>2, <3>3
    <3>4. CASE n # l
      <4>1. n \in 1..k /\ d[n] = c[n]
        BY <2>2, <3>1, <3>4
      <4>2. c[n] = F[n][c[n - 1]]
        BY <2>1, <4>1
      <4> QED
        BY <3>2, <4>1, <4>2
    <3> QED
      BY <3>3, <3>4
  <2> HIDE DEF d
  <2>6. Is(d, k + 1)
    BY <2>2, <2>4, <2>5
  <2> QED
    BY <2>6
<1> HIDE DEF G
<1>3. N \in G
  BY <1>1, <1>2, NumberInduction
<1> QED
  BY <1>3 DEF G, Chain

\* The chords typed on the way through a sub-method.
LEMMA ChordsWithIs ==
    ASSUME NEW before \in Seq(Keys), NEW ops \in Seq(Operation)
    PROVE  LET c == ChordsWith(before, ops)
           IN  /\ c[0] = before
               /\ \A m \in 1..Len(ops) :
                      c[m] = IF ops[m].op = "keyboard" THEN Append(c[m - 1], ops[m].press)
                             ELSE c[m - 1]
               /\ \A m \in 0..Len(ops) : c[m] \in Seq(Keys)
<1> DEFINE N == Len(ops)
           V == Seq(Keys)
           Is(g) == g = [m \in 0..N |->
                            IF m = 0 THEN before
                            ELSE IF ops[m].op = "keyboard" THEN Append(g[m - 1], ops[m].press)
                            ELSE g[m - 1]]
           F == [m \in 1..N |-> [v \in V |-> IF ops[m].op = "keyboard" THEN Append(v, ops[m].press)
                                             ELSE v]]
           c == ChordsWith(before, ops)
<1>1. N \in Nat
  OBVIOUS
<1>2. ASSUME NEW m \in 1..N, ops[m].op = "keyboard", NEW v \in V
      PROVE  Append(v, ops[m].press) \in V
  <2>1. ops[m] \in Operation
    OBVIOUS
  <2>2. ops[m].press \in Keys
    BY <1>2, <2>1 DEF Operation
  <2> QED
    BY <2>2
<1> HIDE DEF V
<1>3. F \in [1..N -> [V -> V]]
  BY <1>2
<1>4. before \in V
  BY DEF V
<1> HIDE DEF N
<1>5. PICK f \in [0..N -> V] : f[0] = before /\ \A m \in 1..N : f[m] = F[m][f[m - 1]]
  <2> HIDE DEF F
  <2>1. \E f \in [0..N -> V] : Chain(f, N, before, F)
    BY <1>1, <1>3, <1>4, ChainExists
  <2> QED
    BY <2>1 DEF Chain
<1>6. Is(f)
  <2>1. ASSUME NEW m \in 0..N
        PROVE  f[m] = IF m = 0 THEN before
                      ELSE IF ops[m].op = "keyboard" THEN Append(f[m - 1], ops[m].press)
                      ELSE f[m - 1]
    <3>1. CASE m # 0
      <4>1. m \in 1..N /\ m - 1 \in 0..N
        BY <1>1, <3>1
      <4>2. f[m - 1] \in V
        BY <4>1
      <4>3. f[m] = F[m][f[m - 1]]
        BY <1>5, <4>1
      <4> QED
        BY <3>1, <4>1, <4>2, <4>3
    <3> QED
      BY <1>5, <3>1
  <2>2. f = [m \in 0..N |-> f[m]]
    OBVIOUS
  <2> QED
    BY <2>1, <2>2
<1>7. c = CHOOSE g : Is(g)
  BY DEF ChordsWith, N
<1> HIDE DEF F, c
<1>8. Is(c)
  <2> HIDE DEF Is
  <2> QED
    BY <1>6, <1>7
<1>9. c[0] = before
  <2>1. 0 \in 0..N
    BY <1>1
  <2> QED
    BY <1>8, <2>1
<1>10. ASSUME NEW m \in 1..N
       PROVE  c[m] = IF ops[m].op = "keyboard" THEN Append(c[m - 1], ops[m].press) ELSE c[m - 1]
  <2>1. m \in 0..N /\ m # 0
    BY <1>1
  <2> QED
    BY <1>8, <2>1
<1> HIDE DEF Is
<1>11. \A m \in 1..N : c[m - 1] \in V => c[m] \in V
  BY <1>2, <1>10
<1>12. \A m \in 0..N : c[m] \in V
  BY <1>1, <1>4, <1>9, <1>11, ChainTyped
<1> QED
  BY <1>9, <1>10, <1>12 DEF c, N, V

\* The chords typed from one sub-method to the next.
LEMMA ChordsAfterIs ==
    ASSUME NEW s \in Step
    PROVE  LET c == ChordsAfter(s)
           IN  /\ c[0] = <<>>
               /\ \A n \in 1..Len(s.work) :
                      c[n] = ChordsWith(c[n - 1], s.work[n].ops)[Len(s.work[n].ops)]
               /\ \A n \in 0..Len(s.work) : c[n] \in Seq(Keys)
<1> DEFINE N == Len(s.work)
           V == Seq(Keys)
           through(v, n) == ChordsWith(v, s.work[n].ops)[Len(s.work[n].ops)]
           Is(g) == g = [n \in 0..N |-> IF n = 0 THEN <<>> ELSE through(g[n - 1], n)]
           F == [n \in 1..N |-> [v \in V |-> through(v, n)]]
           c == ChordsAfter(s)
<1>1. s.work \in Seq(SubMethod) /\ N \in Nat
  BY DEF Step
<1>2. ASSUME NEW n \in 1..N, NEW v \in V
      PROVE  through(v, n) \in V
  <2>1. s.work[n] \in SubMethod
    BY <1>1
  <2>2. s.work[n].ops \in Seq(Operation) /\ Len(s.work[n].ops) \in 0..Len(s.work[n].ops)
    BY <2>1 DEF SubMethod
  <2> QED
    BY <2>2, ChordsWithIs
<1>3. <<>> \in V
  OBVIOUS
<1> HIDE DEF V, N, through
<1>4. F \in [1..N -> [V -> V]]
  BY <1>2
<1>5. PICK f \in [0..N -> V] : f[0] = <<>> /\ \A n \in 1..N : f[n] = F[n][f[n - 1]]
  <2> HIDE DEF F
  <2>1. \E f \in [0..N -> V] : Chain(f, N, <<>>, F)
    BY <1>1, <1>3, <1>4, ChainExists
  <2> QED
    BY <2>1 DEF Chain
<1>6. Is(f)
  <2>1. ASSUME NEW n \in 0..N
        PROVE  f[n] = IF n = 0 THEN <<>> ELSE through(f[n - 1], n)
    <3>1. CASE n # 0
      <4>1. n \in 1..N /\ n - 1 \in 0..N
        BY <1>1, <3>1
      <4>2. f[n - 1] \in V
        BY <4>1
      <4>3. f[n] = F[n][f[n - 1]]
        BY <1>5, <4>1
      <4> QED
        BY <3>1, <4>1, <4>2, <4>3
    <3> QED
      BY <1>5, <3>1
  <2>2. f = [n \in 0..N |-> f[n]]
    OBVIOUS
  <2> QED
    BY <2>1, <2>2
<1>7. c = CHOOSE g : Is(g)
  BY DEF ChordsAfter, N, through
<1> HIDE DEF F, c
<1>8. Is(c)
  <2> HIDE DEF Is
  <2> QED
    BY <1>6, <1>7
<1>9. c[0] = <<>>
  <2>1. 0 \in 0..N
    BY <1>1
  <2> QED
    BY <1>8, <2>1
<1>10. ASSUME NEW n \in 1..N
       PROVE  c[n] = through(c[n - 1], n)
  <2>1. n \in 0..N /\ n # 0
    BY <1>1
  <2> QED
    BY <1>8, <2>1
<1> HIDE DEF Is
<1>11. \A n \in 1..N : c[n - 1] \in V => c[n] \in V
  BY <1>2, <1>10
<1>12. \A n \in 0..N : c[n] \in V
  BY <1>1, <1>3, <1>9, <1>11, ChainTyped
<1> QED
  BY <1>9, <1>10, <1>12 DEF c, N, V, through

-----------------------------------------------------------------------------
(***************************************************************************)
(* What a step has typed.                                                  *)
(***************************************************************************)

\* A sub-method is on its way, and has not failed.
OnWay == pc \in {"op", "drain", "leave"}

\* The chords sent so far: those of the operations that are left behind.
SentSoFar ==
    IF OnWay THEN ChordsWith(ChordsAfter(step)[sub - 1], Running.ops)[i - 1]
    ELSE ChordsAfter(step)[sub - 1]

\* Every chord pressed so far has been let go of.
LetGo ==
    OnWay => \A m \in 1..(i - 1) : Running.ops[m].op = "keyboard" =>
                 \E k \in (m + 1)..(i - 1) : Running.ops[k].op = "release"

\* In wire w, the n-th report is the only one that presses a key.
OnlyPress(w, n) ==
    /\ w[n].ifc = "keyboard" /\ w[n].press # "up"
    /\ \A l \in 1..Len(w) : w[l].ifc = "keyboard" /\ l # n => w[l].press = "up"

\* What is typed is what was sent, but for one chord that may be on its way.
Conserved(w, t, all) ==
    \/ t = all /\ LiftsFrom(w, 1, "keyboard")
    \/ \E n \in 1..Len(w) : OnlyPress(w, n) /\ all = Append(t, w[n].press)

\* Where a step that has not failed can be.
Placed ==
    /\ sub \in 1..(Len(step.work) + 1)
    /\ pc \in {"op", "drain", "acquire", "leave"} => sub <= Len(step.work)
    /\ pc = "op" => i <= Len(Running.ops) + 1
    /\ pc = "leave" => i = Len(Running.ops) + 1
    /\ pc = "drain" => i <= Len(Running.ops) /\ Op.op = "release"
    /\ pc = "acquire" => i = 1
    /\ pc \notin {"undo", "undoDrain"}
    /\ pc \in {"closing", "neutralizing", "closed"} => sub = Len(step.work) + 1

\* Until the step fails.
Typing ==
    err = "none" =>
        /\ Placed
        /\ Conserved(wire, typed, SentSoFar)
        /\ LetGo => Neutral(wire, down, "keyboard")
        /\ pc = "drain" => Settles(wire, down, "keyboard")

PassedAll == verdict = "pass" => err = "none" /\ pc = "ended" /\ sub = Len(step.work) + 1

TypedInv == Typing /\ PassedAll

\* A report that presses no key adds nothing to what is on its way.
LEMMA AppendConserves ==
    ASSUME NEW w \in Seq(Packet), NEW t, NEW all, NEW p \in Packet,
           p.ifc = "keyboard" => p.press = "up", Conserved(w, t, all)
    PROVE  Conserved(Append(w, p), t, all)
<1> DEFINE v == Append(w, p)
<1>1. Len(v) = Len(w) + 1 /\ Len(w) \in Nat /\ \A m \in 1..Len(w) : v[m] = w[m]
  OBVIOUS
<1>2. v[Len(w) + 1] = p
  OBVIOUS
<1> HIDE DEF v
<1>3. LiftsFrom(w, 1, "keyboard") => LiftsFrom(v, 1, "keyboard")
  BY <1>1, <1>2 DEF LiftsFrom, NoPress
<1>4. \A n \in 1..Len(w) : OnlyPress(w, n) => n \in 1..Len(v) /\ OnlyPress(v, n) /\ v[n] = w[n]
  BY <1>1, <1>2 DEF OnlyPress
<1> QED
  BY <1>3, <1>4 DEF Conserved, v

\* A chord that is sent when no other is on its way.
LEMMA PressConserves ==
    ASSUME NEW w \in Seq(Packet), NEW t, NEW p \in Packet, p.ifc = "keyboard", p.press # "up",
           LiftsFrom(w, 1, "keyboard")
    PROVE  Conserved(Append(w, p), t, Append(t, p.press))
<1> DEFINE v == Append(w, p)
           n == Len(w) + 1
<1>1. Len(v) = n /\ n \in 1..n /\ \A m \in 1..n : m # n => m \in 1..Len(w) /\ v[m] = w[m] /\ m >= 1
  OBVIOUS
<1>2. v[n] = p
  OBVIOUS
<1> HIDE DEF v, n
<1>3. OnlyPress(v, n)
  BY <1>1, <1>2 DEF OnlyPress, LiftsFrom, NoPress
<1> QED
  BY <1>1, <1>2, <1>3 DEF Conserved, v

\* With no chord on its way, all that was sent is typed.
LEMMA LiftedConserved ==
    ASSUME NEW w, NEW t, NEW all, Conserved(w, t, all), LiftsFrom(w, 1, "keyboard"),
           Len(w) \in Nat
    PROVE  t = all
<1>1. ASSUME NEW n \in 1..Len(w), OnlyPress(w, n) PROVE FALSE
  BY <1>1 DEF OnlyPress, LiftsFrom, NoPress
<1> QED
  BY <1>1 DEF Conserved

\* A chord that arrives is typed.
LEMMA DeliverConserves ==
    ASSUME NEW w \in Seq(Packet), w # <<>>, NEW t, NEW all, Conserved(w, t, all)
    PROVE  Conserved(Tail(w),
                     IF Head(w).ifc = "keyboard" /\ Head(w).press # "up"
                     THEN Append(t, Head(w).press) ELSE t,
                     all)
<1> DEFINE v == Tail(w)
           u == IF Head(w).ifc = "keyboard" /\ Head(w).press # "up" THEN Append(t, Head(w).press) ELSE t
<1>1. /\ Len(w) \in Nat \ {0} /\ Len(v) = Len(w) - 1
      /\ \A m \in 1..Len(v) : m + 1 \in 1..Len(w) /\ v[m] = w[m + 1] /\ m + 1 # 1 /\ m + 1 >= 1
      /\ Head(w) = w[1] /\ 1 \in 1..Len(w)
  OBVIOUS
<1>2. u = IF w[1].ifc = "keyboard" /\ w[1].press # "up" THEN Append(t, w[1].press) ELSE t
  BY <1>1
<1> HIDE DEF u, v
<1>3. CASE t = all /\ LiftsFrom(w, 1, "keyboard")
  <2>1. u = t
    BY <1>1, <1>2, <1>3 DEF LiftsFrom, NoPress
  <2>2. LiftsFrom(v, 1, "keyboard")
    BY <1>1, <1>3 DEF LiftsFrom
  <2> QED
    BY <1>3, <2>1, <2>2 DEF Conserved, u, v
<1>4. ASSUME NEW n \in 1..Len(w), OnlyPress(w, n), all = Append(t, w[n].press)
      PROVE  Conserved(v, u, all)
  <2>1. CASE n = 1
    <3>1. u = all
      BY <1>2, <1>4, <2>1 DEF OnlyPress
    <3>2. LiftsFrom(v, 1, "keyboard")
      BY <1>1, <1>4, <2>1 DEF OnlyPress, LiftsFrom, NoPress
    <3> QED
      BY <3>1, <3>2 DEF Conserved
  <2>2. CASE n # 1
    <3>1. u = t
      BY <1>1, <1>2, <1>4, <2>2 DEF OnlyPress
    <3>2. PICK m \in 1..Len(v) : m + 1 = n
      BY <1>1, <2>2
    <3>3. v[m] = w[n]
      BY <1>1, <3>2
    <3>4. ASSUME NEW l \in 1..Len(v), v[l].ifc = "keyboard", l # m PROVE v[l].press = "up"
      <4>1. l + 1 \in 1..Len(w) /\ v[l] = w[l + 1] /\ l + 1 # n
        BY <1>1, <3>2, <3>4
      <4> QED
        BY <1>4, <3>4, <4>1 DEF OnlyPress
    <3>5. OnlyPress(v, m)
      BY <1>4, <3>3, <3>4 DEF OnlyPress
    <3> QED
      BY <1>4, <3>1, <3>3, <3>5 DEF Conserved
  <2> QED
    BY <2>1, <2>2
<1> QED
  BY <1>3, <1>4 DEF Conserved, u, v

\* The sub-method that runs and what was typed before it.
LEMMA RunningChords ==
    ASSUME StepInv, sub <= Len(step.work)
    PROVE  /\ Running = step.work[sub] /\ Running.ops \in Seq(Operation)
           /\ ChordsAfter(step)[sub - 1] \in Seq(Keys)
           /\ ChordsAfter(step)[sub] =
                  ChordsWith(ChordsAfter(step)[sub - 1], Running.ops)[Len(Running.ops)]
           /\ sub \in 1..Len(step.work)
<1>1. step \in Step /\ sub \in Nat \ {0}
  BY DEF StepInv, Control, StepTypeOK
<1>2. step.work \in Seq(SubMethod)
  BY <1>1 DEF Step
<1>3. sub \in 1..Len(step.work) /\ sub - 1 \in 0..Len(step.work)
  BY <1>1, <1>2
<1>4. step.work[sub] \in SubMethod
  BY <1>2, <1>3
<1> QED
  BY <1>1, <1>3, <1>4, ChordsAfterIs DEF Running, SubMethod

\* An operation is left behind: a chord that it presses is now among those sent.
LEMMA SentAdvances ==
    ASSUME StepInv, Placed, pc \in {"op", "drain"}, i <= Len(Running.ops), NextOp
    PROVE  SentSoFar' = IF Op.op = "keyboard" THEN Append(SentSoFar, Op.press) ELSE SentSoFar
<1> DEFINE before == ChordsAfter(step)[sub - 1]
           c == ChordsWith(before, Running.ops)
<1>1. sub <= Len(step.work)
  BY DEF Placed
<1>2. Running.ops \in Seq(Operation) /\ before \in Seq(Keys)
  BY <1>1, RunningChords
<1>3. i \in 1..Len(Running.ops)
  BY <1>2 DEF StepInv, Control, StepTypeOK
<1>4. c[i] = IF Running.ops[i].op = "keyboard" THEN Append(c[i - 1], Running.ops[i].press) ELSE c[i - 1]
  BY <1>2, <1>3, ChordsWithIs
<1>5. SentSoFar = c[i - 1]
  BY DEF SentSoFar, OnWay
<1>6. SentSoFar' = c[(i + 1) - 1]
  BY DEF SentSoFar, OnWay, NextOp, Running
<1>7. (i + 1) - 1 = i
  BY <1>3
<1> QED
  BY <1>4, <1>5, <1>6, <1>7 DEF Op

\* A sub-method begins with nothing sent of its own, and ends with all of it.
LEMMA SentBounds ==
    ASSUME StepInv, sub <= Len(step.work)
    PROVE  /\ ChordsWith(ChordsAfter(step)[sub - 1], Running.ops)[0] = ChordsAfter(step)[sub - 1]
           /\ i = Len(Running.ops) + 1 =>
                  ChordsWith(ChordsAfter(step)[sub - 1], Running.ops)[i - 1] = ChordsAfter(step)[sub]
<1>1. Running.ops \in Seq(Operation) /\ ChordsAfter(step)[sub - 1] \in Seq(Keys)
  BY RunningChords
<1>2. Len(Running.ops) \in Nat
  BY <1>1
<1>3. i = Len(Running.ops) + 1 => i - 1 = Len(Running.ops)
  BY <1>2
<1> QED
  BY <1>1, <1>3, RunningChords, ChordsWithIs

\* What the catalog says of a chord, of the sub-method that runs.
LEMMA ChordReleased ==
    ASSUME StepInv, Consent, sub <= Len(step.work), NEW m \in 1..Len(Running.ops),
           Running.ops[m].op = "keyboard"
    PROVE  \E k \in (m + 1)..Len(Running.ops) :
               Running.ops[k].op = "release" /\ \A j \in (m + 1)..k : Running.ops[j].op # "keyboard"
<1>1. sub \in 1..Len(step.work) /\ step \in Steps
  BY RunningChords DEF Consent
<1> QED
  BY <1>1, CatalogAssumption DEF Running

\* When a sub-method has come to its end, or to its next chord, every chord
\* before has been let go of.
LEMMA ChordsLetGo ==
    ASSUME StepInv, Consent, sub <= Len(step.work),
           i = Len(Running.ops) + 1 \/ (i <= Len(Running.ops) /\ Running.ops[i].op = "keyboard")
    PROVE  LetGo
<1>1. Running.ops \in Seq(Operation) /\ i \in Nat \ {0}
  BY RunningChords DEF StepInv, Control, StepTypeOK
<1>2. Len(Running.ops) \in Nat /\ i <= Len(Running.ops) + 1
  BY <1>1
<1>3. ASSUME NEW m \in 1..(i - 1), Running.ops[m].op = "keyboard"
      PROVE  \E k \in (m + 1)..(i - 1) : Running.ops[k].op = "release"
  <2>1. m \in 1..Len(Running.ops)
    BY <1>1, <1>2
  <2>2. PICK k \in (m + 1)..Len(Running.ops) :
            Running.ops[k].op = "release" /\ \A j \in (m + 1)..k : Running.ops[j].op # "keyboard"
    BY <1>3, <2>1, ChordReleased
  <2>3. ASSUME k >= i PROVE FALSE
    <3>1. i <= Len(Running.ops) /\ i \in (m + 1)..k
      BY <1>1, <1>2, <2>2, <2>3
    <3>2. Running.ops[i].op = "keyboard"
      BY <1>2, <3>1
    <3> QED
      BY <2>2, <3>1, <3>2
  <2>4. k \in (m + 1)..(i - 1)
    BY <1>1, <1>2, <2>3
  <2> QED
    BY <2>2, <2>4
<1> QED
  BY <1>3 DEF LetGo

\* How a step that sends no chord and ends no drain moves the program.
Steers ==
    /\ PassedAll'
    /\ err' = "none" => /\ err = "none" /\ Placed' /\ SentSoFar' = SentSoFar
                        /\ LetGo' => LetGo
                        /\ pc' = "drain" => pc = "drain"

\* Such a step keeps the invariant if it leaves the device alone or lifts.
LEMMA SteersKeep ==
    ASSUME StepInv, TypedInv, Steers, UNCHANGED <<typed, down>>,
           \/ UNCHANGED wire
           \/ \E ifc \in Ifaces : wire' = Append(wire, Report(ifc, NoPress(ifc)))
    PROVE  TypedInv'
<1> SUFFICES ASSUME err' = "none"
             PROVE  /\ Conserved(wire', typed', SentSoFar')
                    /\ LetGo' => Neutral(wire', down', "keyboard")
                    /\ pc' = "drain" => Settles(wire', down', "keyboard")
  BY DEF Steers, TypedInv, Typing
<1>1. /\ Conserved(wire, typed, SentSoFar)
      /\ LetGo' => Neutral(wire, down, "keyboard")
      /\ pc' = "drain" => Settles(wire, down, "keyboard")
      /\ SentSoFar' = SentSoFar /\ typed' = typed /\ down' = down
  BY DEF Steers, TypedInv, Typing
<1>2. CASE UNCHANGED wire
  BY <1>1, <1>2
<1>3. ASSUME NEW ifc \in Ifaces, wire' = Append(wire, Report(ifc, NoPress(ifc)))
      PROVE  /\ Conserved(wire', typed', SentSoFar')
             /\ LetGo' => Neutral(wire', down', "keyboard")
             /\ pc' = "drain" => Settles(wire', down', "keyboard")
  <2>1. wire \in Seq(Packet)
    BY DEF StepInv, Device, DeviceTyped
  <2>2. /\ Neutral(wire, down, "keyboard") => Neutral(wire', down, "keyboard")
        /\ Settles(wire, down, "keyboard") => Settles(wire', down, "keyboard")
    BY <1>3, <2>1, AppendLift DEF Ifaces
  <2>3. PICK p \in Packet : p = Report(ifc, NoPress(ifc))
    BY DragAssumption DEF Report, NoPress, Packet, Ifaces
  <2>4. p.ifc = "keyboard" => p.press = "up"
    BY <2>3 DEF Report, NoPress
  <2>5. Conserved(wire', typed, SentSoFar)
    BY <1>1, <1>3, <2>1, <2>3, <2>4, AppendConserves
  <2> QED
    BY <1>1, <2>2, <2>5
<1> QED
  BY <1>2, <1>3

\* A step that fails the method.
LEMMA FailureKeeps ==
    ASSUME StepInv, TypedInv, err' # "none", verdict' = verdict, pc # "ended"
    PROVE  TypedInv'
BY DEF TypedInv, Typing, PassedAll

\* An operation that is neither a chord nor its release is left behind.
LEMMA OtherOpSteers ==
    ASSUME StepInv, Consent, TypedInv, NEW o, AtOp(o), NextOp, o \notin {"keyboard", "release"}
    PROVE  Steers
<1>1. /\ sub \in 1..Len(step.work) /\ Running.ops = step.work[sub].ops
      /\ i \in 1..Len(Running.ops) /\ Op = Running.ops[i] /\ Op.op = o
      /\ pc = "op" /\ err = "none" /\ verdict = "none"
  BY OpListed DEF Running, Op
<1>2. /\ UNCHANGED <<step, sub, err, verdict>> /\ pc' = "op" /\ i' = i + 1
  BY DEF NextOp
<1>3. Placed
  BY <1>1 DEF TypedInv, Typing
<1>4. SentSoFar' = SentSoFar
  BY <1>1, <1>3, SentAdvances
<1>5. Running' = Running
  BY <1>2 DEF Running
<1>6. Running.ops \in Seq(Operation) /\ sub <= Len(step.work)
  BY <1>1, RunningChords
<1>7. i + 1 <= Len(Running.ops) + 1
  BY <1>1, <1>6
<1>8. Placed'
  BY <1>1, <1>2, <1>3, <1>5, <1>7 DEF Placed
<1>9. LetGo' => LetGo
  <2> SUFFICES ASSUME LetGo', NEW m \in 1..(i - 1), Running.ops[m].op = "keyboard"
               PROVE  \E k \in (m + 1)..(i - 1) : Running.ops[k].op = "release"
    BY DEF LetGo
  <2>1. m \in 1..((i + 1) - 1)
    BY <1>1
  <2>2. PICK k \in (m + 1)..((i + 1) - 1) : Running.ops[k].op = "release"
    BY <1>2, <1>5, <2>1 DEF LetGo, OnWay
  <2>3. k # i
    BY <1>1, <2>2
  <2>4. k \in (m + 1)..(i - 1)
    BY <1>1, <2>3
  <2> QED
    BY <2>2, <2>4
<1> QED
  BY <1>1, <1>2, <1>4, <1>8, <1>9 DEF Steers, PassedAll

\* Between operations.
LEMMA SequenceSteers ==
    ASSUME StepInv, Consent, TypedInv,
           Invoke \/ Connected \/ ConnectFails \/ NextSub \/ Acquire \/ OpsDone \/ Released \/ Teardown
    PROVE  Steers
<1>1. /\ sub \in Nat \ {0} /\ i \in Nat \ {0} /\ Len(step.work) \in Nat
      /\ err = "none" => Placed
      /\ verdict # "none" => pc = "ended"
  BY DEF StepInv, Control, StepTypeOK, Step, TypedInv, Typing, Consent, Skips
<1>2. CASE Invoke \/ Connected \/ ConnectFails
  <2>1. /\ pc \in {"invoke", "connect"} /\ pc' \in {"connect", "next", "ended"}
        /\ UNCHANGED <<step, sub, i, err>>
        /\ verdict' \in {verdict, Gate(step), "fail"}
    BY <1>2 DEF Invoke, Connected, ConnectFails, GoTo
  <2>2. verdict' # "pass"
    BY <1>1, <2>1 DEF Gate
  <2>3. SentSoFar' = SentSoFar /\ LetGo
    BY <2>1 DEF SentSoFar, LetGo, OnWay
  <2>4. err = "none" => Placed'
    BY <1>1, <2>1 DEF Placed
  <2> QED
    BY <2>1, <2>2, <2>3, <2>4 DEF Steers, PassedAll
<1>3. CASE NextSub
  <2>1. /\ pc = "next" /\ UNCHANGED <<step, sub, err, verdict>> /\ LetGo
        /\ ChordsAfter(step)[sub - 1] = SentSoFar
    BY <1>3 DEF NextSub, GoTo, LetGo, SentSoFar, OnWay
  <2>2. CASE err # "none" \/ sub > Len(step.work)
    <3>1. pc' = "closing" /\ i' = i
      BY <1>3, <2>2 DEF NextSub, GoTo
    <3>2. SentSoFar' = SentSoFar
      BY <2>1, <3>1 DEF SentSoFar, OnWay
    <3>3. err = "none" => Placed'
      BY <1>1, <2>1, <2>2, <3>1 DEF Placed
    <3> QED
      BY <1>1, <2>1, <3>1, <3>2, <3>3 DEF Steers, PassedAll
  <2>3. CASE err = "none" /\ sub <= Len(step.work)
    <3>1. pc' \in {"acquire", "op"} /\ i' = 1
      BY <1>1, <1>3, <2>3 DEF NextSub
    <3>2. SentSoFar' = SentSoFar
      <4>1. SentSoFar' = IF OnWay' THEN ChordsWith(ChordsAfter(step)[sub - 1], Running.ops)[1 - 1]
                         ELSE ChordsAfter(step)[sub - 1]
        BY <2>1, <3>1 DEF SentSoFar, Running
      <4> QED
        BY <2>1, <2>3, <4>1, SentBounds
    <3>3. Running.ops \in Seq(Operation) /\ Running' = Running
      BY <2>1, <2>3, RunningChords DEF Running
    <3>4. 1 <= Len(Running.ops) + 1
      BY <3>3
    <3>5. Placed'
      BY <1>1, <2>1, <2>3, <3>1, <3>3, <3>4 DEF Placed
    <3> QED
      BY <1>1, <2>1, <3>1, <3>2, <3>5 DEF Steers, PassedAll
  <2> QED
    BY <1>1, <2>2, <2>3
<1>4. CASE Acquire
  <2>1. pc = "acquire" /\ UNCHANGED <<step, sub, i, verdict>> /\ LetGo
    BY <1>4 DEF Acquire, GoTo, LetGo, OnWay
  <2>2. CASE pc' = "op" /\ err' = err
    <3>1. err = "none" /\ Placed
      BY <1>1, <2>1 DEF Consent, Errors
    <3>2. i = 1 /\ sub <= Len(step.work)
      BY <2>1, <3>1 DEF Placed
    <3>3. SentSoFar' = SentSoFar
      <4>1. SentSoFar' = ChordsWith(ChordsAfter(step)[sub - 1], Running.ops)[1 - 1]
        BY <2>1, <2>2, <3>2 DEF SentSoFar, Running, OnWay
      <4>2. SentSoFar = ChordsAfter(step)[sub - 1]
        BY <2>1 DEF SentSoFar, OnWay
      <4> QED
        BY <3>2, <4>1, <4>2, SentBounds
    <3>4. Running.ops \in Seq(Operation) /\ Running' = Running
      BY <2>1, <3>2, RunningChords DEF Running
    <3>5. 1 <= Len(Running.ops) + 1
      BY <3>4
    <3>6. Placed'
      BY <2>1, <2>2, <3>1, <3>2, <3>4, <3>5 DEF Placed
    <3> QED
      BY <1>1, <2>1, <2>2, <3>1, <3>3, <3>6 DEF Steers, PassedAll
  <2>3. CASE err' = "fail"
    BY <1>1, <2>1, <2>3 DEF Steers, PassedAll
  <2> QED
    BY <1>4, <2>2, <2>3 DEF Acquire, GoTo
<1>5. CASE OpsDone \/ Released
  <2>1. /\ UNCHANGED <<step, i, err, verdict>> /\ pc \in {"op", "leave"}
        /\ pc = "op" => i > Len(Running.ops)
        /\ \/ pc = "op" /\ pc' = "leave" /\ sub' = sub
           \/ pc' = "next" /\ sub' = sub + 1
    BY <1>5 DEF OpsDone, Released, GoTo
  <2>2. verdict = "none"
    BY <1>1, <2>1
  <2>3. ASSUME err = "none"
        PROVE  Placed' /\ SentSoFar' = SentSoFar /\ LetGo
    <3>1. Placed /\ sub <= Len(step.work)
      BY <1>1, <2>1, <2>3 DEF Placed
    <3>2. Running.ops \in Seq(Operation)
      BY <3>1, RunningChords
    <3>3. i = Len(Running.ops) + 1
      BY <1>1, <2>1, <3>1, <3>2 DEF Placed
    <3>4. LetGo
      BY <3>1, <3>3, ChordsLetGo
    <3>5. SentSoFar = ChordsWith(ChordsAfter(step)[sub - 1], Running.ops)[i - 1]
      BY <2>1 DEF SentSoFar, OnWay
    <3>6. CASE pc' = "leave" /\ sub' = sub
      <4>1. Running' = Running
        BY <2>1, <3>6 DEF Running
      <4>2. SentSoFar' = SentSoFar
        BY <2>1, <3>5, <3>6, <4>1 DEF SentSoFar, OnWay
      <4> QED
        BY <2>1, <3>1, <3>3, <3>4, <3>6, <4>1, <4>2 DEF Placed
    <3>7. CASE pc' = "next" /\ sub' = sub + 1
      <4>1. SentSoFar' = ChordsAfter(step)[(sub + 1) - 1]
        BY <2>1, <3>7 DEF SentSoFar, OnWay
      <4>2. (sub + 1) - 1 = sub
        BY <1>1
      <4>3. SentSoFar' = SentSoFar
        BY <3>1, <3>3, <3>5, <4>1, <4>2, SentBounds
      <4>4. Placed'
        BY <1>1, <2>1, <3>1, <3>7 DEF Placed
      <4> QED
        BY <3>4, <4>3, <4>4
    <3> QED
      BY <2>1, <3>6, <3>7
  <2> QED
    BY <2>1, <2>2, <2>3 DEF Steers, PassedAll
<1>6. CASE Teardown
  <2>1. /\ pc = "closed" /\ pc' = "ended" /\ UNCHANGED <<step, sub, i, err>>
        /\ verdict' = VerdictOf(err)
    BY <1>6 DEF Teardown
  <2>2. verdict' = "pass" => err = "none"
    BY <2>1 DEF VerdictOf, Consent, Errors
  <2>3. SentSoFar' = SentSoFar /\ LetGo
    BY <2>1 DEF SentSoFar, LetGo, OnWay
  <2>4. err = "none" => Placed' /\ sub = Len(step.work) + 1
    BY <1>1, <2>1 DEF Placed
  <2> QED
    BY <2>1, <2>2, <2>3, <2>4 DEF Steers, PassedAll
<1> QED
  BY <1>2, <1>3, <1>4, <1>5, <1>6

\* Whoever runs beside the program, and the end of a step, send no chord.
LEMMA OtherSteers ==
    ASSUME StepInv, TypedInv,
           \/ Undo \/ UndoDrained \/ Revoke \/ Close \/ Neutralization
           \/ ContextEnds \/ LinkLost \/ UNCHANGED vars
    PROVE  Steers
<1>1. /\ UNCHANGED <<step, sub, i, err, verdict>>
      /\ \/ pc' = pc
         \/ pc \in {"undo", "undoDrain"}
         \/ pc = "closing" /\ pc' \in {"closed", "neutralizing"}
         \/ pc = "neutralizing" /\ pc' = "closed"
  <2>1. CASE UndoDrained
    BY <2>1 DEF UndoDrained, GoTo
  <2>2. CASE \/ Undo \/ Revoke \/ Close \/ Neutralization
             \/ ContextEnds \/ LinkLost \/ UNCHANGED vars
    <3>1. ~(pc = "op" /\ pc' = "drain")
      BY <2>2 DEF Undo, Revoke, Close, Neutralization, NeutralSkipped, NeutralReport,
         NeutralConfirmed, NeutralFails, NeutralEnds, ContextEnds, LinkLost, vars, progVars, GoTo
    <3> QED
      BY <2>2, <3>1, OtherPlaces
  <2> QED
    BY <2>1, <2>2
<1>2. PassedAll'
  BY <1>1 DEF TypedInv, PassedAll, Typing, Placed
<1>3. ASSUME err = "none"
      PROVE  Placed' /\ SentSoFar' = SentSoFar /\ (LetGo' => LetGo) /\ (pc' = "drain" => pc = "drain")
  <2>1. Placed
    BY <1>3 DEF TypedInv, Typing
  <2>2. \/ pc' = pc
        \/ pc = "closing" /\ pc' \in {"closed", "neutralizing"}
        \/ pc = "neutralizing" /\ pc' = "closed"
    BY <1>1, <2>1 DEF Placed
  <2>3. Running' = Running /\ Op' = Op
    BY <1>1 DEF Running, Op
  <2>4. Placed'
    BY <1>1, <2>1, <2>2, <2>3 DEF Placed
  <2>5. SentSoFar' = SentSoFar
    BY <1>1, <2>2, <2>3 DEF SentSoFar, OnWay
  <2>6. LetGo' => LetGo
    BY <1>1, <2>2, <2>3 DEF LetGo, OnWay
  <2> QED
    BY <2>2, <2>4, <2>5, <2>6
<1> QED
  BY <1>1, <1>2, <1>3 DEF Steers

\* A chord is sent when the one before has been let go of; any other report
\* leaves the chords as they are.
LEMMA SendTyped ==
    ASSUME StepInv, Consent, TypedInv, SendReport
    PROVE  TypedInv'
<1> DEFINE p == Report(Op.op, Op.press)
<1>1. /\ AtOp("keyboard") \/ AtOp("pointer")
      /\ NextOp /\ wire' = Append(wire, p) /\ UNCHANGED <<down, typed>>
  BY DEF SendReport, devVars
<1>2. /\ Op \in Operation /\ p \in Packet /\ p.ifc = Op.op /\ p.press = Op.press
      /\ wire \in Seq(Packet)
  BY <1>1, OpTyped, SentTyped DEF Report, StepInv, Device, DeviceTyped
<1>3. CASE AtOp("pointer")
  <2>1. Steers
    BY <1>1, <1>3, OtherOpSteers
  <2>2. Op.op = "pointer"
    BY <1>3 DEF AtOp
  <2> HIDE DEF p
  <2>3. /\ Conserved(wire, typed, SentSoFar) => Conserved(wire', typed, SentSoFar)
        /\ Neutral(wire, down, "keyboard") => Neutral(wire', down, "keyboard")
    BY <1>1, <1>2, <2>2, AppendConserves, AppendOther DEF Ifaces
  <2>4. pc' # "drain"
    BY <1>1 DEF NextOp
  <2> QED
    BY <1>1, <2>1, <2>3, <2>4 DEF Steers, TypedInv, Typing
<1>4. CASE AtOp("keyboard")
  <2>1. /\ sub \in 1..Len(step.work) /\ Running.ops = step.work[sub].ops
        /\ i \in 1..Len(Running.ops) /\ Op = Running.ops[i] /\ Op.op = "keyboard"
        /\ pc = "op" /\ err = "none" /\ verdict = "none"
    BY <1>4, OpListed DEF Running, Op
  <2>2. Op.press # "up"
    BY <1>2, <2>1, StepAssumption DEF Operation
  <2>3. /\ UNCHANGED <<step, sub, err, verdict>> /\ pc' = "op" /\ i' = i + 1
    BY <1>1 DEF NextOp
  <2>4. Placed /\ Conserved(wire, typed, SentSoFar) /\ (LetGo => Neutral(wire, down, "keyboard"))
    BY <2>1 DEF TypedInv, Typing
  <2>5. Running.ops \in Seq(Operation) /\ sub <= Len(step.work)
    BY <2>1, RunningChords
  <2>6. LetGo
    BY <2>1, <2>5, ChordsLetGo
  <2>7. LiftsFrom(wire, 1, "keyboard") /\ typed = SentSoFar
    <3>1. LiftsFrom(wire, 1, "keyboard") /\ Len(wire) \in Nat
      BY <1>2, <2>4, <2>6 DEF Neutral
    <3> QED
      BY <2>4, <3>1, LiftedConserved
  <2>8. SentSoFar' = Append(typed, p.press)
    BY <1>1, <1>2, <2>1, <2>4, <2>7, SentAdvances
  <2> HIDE DEF p
  <2>9. Conserved(wire', typed', SentSoFar')
    BY <1>1, <1>2, <2>1, <2>2, <2>7, <2>8, PressConserves
  <2>10. Running' = Running
    BY <2>3 DEF Running
  <2>11. i + 1 <= Len(Running.ops) + 1
    BY <2>1, <2>5
  <2>12. Placed'
    BY <2>1, <2>3, <2>4, <2>10, <2>11 DEF Placed
  <2>13. ~LetGo'
    <3> SUFFICES ASSUME LetGo' PROVE FALSE
      OBVIOUS
    <3>1. i \in 1..((i + 1) - 1)
      BY <2>1
    <3>2. \E k \in (i + 1)..((i + 1) - 1) : Running.ops[k].op = "release"
      BY <2>1, <2>3, <2>10, <3>1 DEF LetGo, OnWay
    <3> QED
      BY <2>1, <3>2
  <2> QED
    BY <2>1, <2>3, <2>9, <2>12, <2>13 DEF TypedInv, Typing, PassedAll
<1> QED
  BY <1>1, <1>3, <1>4

\* The release of a key is on its way.
LEMMA ReleaseTyped ==
    ASSUME StepInv, Consent, TypedInv, ReleaseKeyboard
    PROVE  TypedInv'
<1>1. /\ AtOp("release") /\ GoTo("drain") /\ UNCHANGED <<down, typed>>
      /\ wire' = Append(wire, Report("keyboard", NoPress("keyboard")))
  BY DEF ReleaseKeyboard, devVars, NoPress
<1>2. /\ sub \in 1..Len(step.work) /\ Running.ops = step.work[sub].ops
      /\ i \in 1..Len(Running.ops) /\ Op.op = "release"
      /\ pc = "op" /\ err = "none" /\ verdict = "none"
  BY <1>1, OpListed DEF Running
<1>3. pc' = "drain" /\ UNCHANGED <<step, sub, i, err, verdict>>
  BY <1>1 DEF GoTo
<1>4. /\ Placed /\ Conserved(wire, typed, SentSoFar)
      /\ LetGo => Neutral(wire, down, "keyboard")
  BY <1>2 DEF TypedInv, Typing
<1>5. Running' = Running /\ Op' = Op
  BY <1>3 DEF Running, Op
<1>6. SentSoFar' = SentSoFar /\ (LetGo' => LetGo)
  BY <1>2, <1>3, <1>5 DEF SentSoFar, LetGo, OnWay
<1>7. i <= Len(Running.ops)
  BY <1>2
<1>8. Placed'
  BY <1>2, <1>3, <1>4, <1>5, <1>7 DEF Placed
<1>9. wire \in Seq(Packet)
  BY DEF StepInv, Device, DeviceTyped
<1>10. /\ Neutral(wire, down, "keyboard") => Neutral(wire', down, "keyboard")
       /\ Settles(wire', down, "keyboard")
  BY <1>1, <1>9, AppendLift DEF Ifaces
<1>11. Conserved(wire', typed', SentSoFar')
  <2>1. PICK p \in Packet : p = Report("keyboard", NoPress("keyboard"))
    BY DEF Report, NoPress, Packet
  <2>2. p.press = "up"
    BY <2>1 DEF Report, NoPress
  <2> QED
    BY <1>1, <1>4, <1>6, <1>9, <2>1, <2>2, AppendConserves
<1> QED
  BY <1>1, <1>2, <1>3, <1>4, <1>6, <1>8, <1>10, <1>11 DEF TypedInv, Typing, PassedAll

\* When the drain is over the chord has arrived, and so has its release.
LEMMA DrainTyped ==
    ASSUME StepInv, Consent, TypedInv, Drained
    PROVE  TypedInv'
<1>1. /\ pc = "drain" /\ wire = <<>> /\ NextOp /\ UNCHANGED <<wire, down, typed>>
  BY DEF Drained, devVars
<1>2. err = "none" /\ verdict = "none"
  BY <1>1 DEF Consent, Errors, Skips
<1>3. /\ Placed /\ Conserved(wire, typed, SentSoFar) /\ Settles(wire, down, "keyboard")
  BY <1>1, <1>2 DEF TypedInv, Typing
<1>4. sub <= Len(step.work) /\ i <= Len(Running.ops) /\ Op.op = "release"
  BY <1>1, <1>3 DEF Placed
<1>5. Running.ops \in Seq(Operation) /\ i \in Nat \ {0} /\ sub \in Nat
  BY <1>4, RunningChords DEF StepInv, Control, StepTypeOK
<1>6. /\ UNCHANGED <<step, sub, err, verdict>> /\ pc' = "op" /\ i' = i + 1
  BY <1>1 DEF NextOp
<1>7. SentSoFar' = SentSoFar
  BY <1>1, <1>3, <1>4, SentAdvances
<1>8. Running' = Running
  BY <1>6 DEF Running
<1>9. i + 1 <= Len(Running.ops) + 1
  BY <1>4, <1>5
<1>10. Placed'
  BY <1>1, <1>3, <1>4, <1>6, <1>8, <1>9 DEF Placed
<1>11. Neutral(wire, down, "keyboard")
  BY <1>1, <1>3, EmptySettled
<1> QED
  BY <1>1, <1>2, <1>3, <1>6, <1>7, <1>10, <1>11 DEF TypedInv, Typing, PassedAll

\* What arrives leaves the wire and is typed.
LEMMA DeliverTyped ==
    ASSUME StepInv, TypedInv, Deliver
    PROVE  TypedInv'
<1>1. /\ wire # <<>> /\ wire' = Tail(wire) /\ UNCHANGED <<step, pc, sub, i, err, verdict>>
      /\ down' = [down EXCEPT ![Head(wire).ifc] = Head(wire).press]
      /\ typed' = IF Head(wire).ifc = "keyboard" /\ Head(wire).press # "up"
                  THEN Append(typed, Head(wire).press) ELSE typed
  BY DEF Deliver, progVars
<1>2. wire \in Seq(Packet) /\ IsDevice(down)
  BY DEF StepInv, Device, DeviceTyped
<1>3. Running' = Running /\ Op' = Op
  BY <1>1 DEF Running, Op
<1>4. SentSoFar' = SentSoFar /\ LetGo' = LetGo /\ Placed' = Placed
  BY <1>1, <1>3 DEF SentSoFar, LetGo, OnWay, Placed
<1>5. Conserved(wire, typed, SentSoFar) => Conserved(wire', typed', SentSoFar)
  BY <1>1, <1>2, DeliverConserves
<1>6. /\ Neutral(wire, down, "keyboard") => Neutral(wire', down', "keyboard")
      /\ Settles(wire, down, "keyboard") => Settles(wire', down', "keyboard")
  BY <1>1, <1>2, DeliverSettles DEF Ifaces
<1> QED
  BY <1>1, <1>4, <1>5, <1>6 DEF TypedInv, Typing, PassedAll

\* A step begins with nothing sent.
LEMMA InitTyped == Init => TypedInv
<1> SUFFICES ASSUME Init PROVE TypedInv
  OBVIOUS
<1>1. /\ pc = "invoke" /\ sub = 1 /\ verdict = "none" /\ typed = <<>> /\ wire = <<>>
      /\ down["keyboard"] = "up" /\ step \in Step
  BY StepAssumption DEF Init, Lifted, NoPress
<1>2. Len(step.work) \in Nat
  BY <1>1 DEF Step
<1>3. ChordsAfter(step)[0] = <<>>
  BY <1>1, ChordsAfterIs
<1>4. SentSoFar = <<>>
  BY <1>1, <1>3 DEF SentSoFar, OnWay
<1>5. LiftsFrom(wire, 1, "keyboard")
  BY <1>1 DEF LiftsFrom
<1>6. Placed
  BY <1>1, <1>2 DEF Placed
<1> QED
  BY <1>1, <1>4, <1>5, <1>6 DEF TypedInv, Typing, PassedAll, Conserved, Neutral, NoPress

\* The rest of the operations: left behind without a report, or the end of the
\* method.
LEMMA OpsTyped ==
    ASSUME StepInv, Consent, TypedInv,
           \/ HoldElapses \/ LookTaken \/ LookCut \/ RpcAnswered \/ RpcLost \/ RpcRefused
           \/ AuthoringError
           \/ ReleaseKeyboardFails \/ DrainFails \/ SendFails
    PROVE  TypedInv'
<1>1. CASE \E e \in {"fail", "missing"} : Unwind(e)
  <2>1. err' # "none" /\ verdict' = verdict
    BY <1>1 DEF Unwind
  <2>2. pc # "ended"
    BY DEF HoldElapses, LookTaken, LookCut, RpcAnswered, RpcLost, RpcRefused, AuthoringError,
       ReleaseKeyboardFails, DrainFails, SendFails, Callable, AtOp
  <2> QED
    BY <2>1, <2>2, FailureKeeps
<1>2. CASE \E o \in {"hold", "look", "rpc"} : AtOp(o) /\ NextOp /\ UNCHANGED <<typed, down, wire>>
  BY <1>2, OtherOpSteers, SteersKeep
<1>3. CASE HoldElapses \/ LookTaken \/ LookCut
  BY <1>1, <1>2, <1>3 DEF HoldElapses, LookTaken, LookCut, devVars
<1>4. CASE RpcAnswered \/ RpcLost
  BY <1>1, <1>2, <1>4 DEF RpcAnswered, RpcLost, Callable, CallFailed
<1>5. CASE RpcRefused \/ AuthoringError \/ ReleaseKeyboardFails \/ DrainFails \/ SendFails
  BY <1>1, <1>5 DEF RpcRefused, AuthoringError, ReleaseKeyboardFails, DrainFails, SendFails
<1> QED
  BY <1>3, <1>4, <1>5

\* Every step keeps the invariant.
LEMMA NextTyped == StepInv /\ Consent /\ TypedInv /\ [Next]_vars => TypedInv'
<1> SUFFICES ASSUME StepInv, Consent, TypedInv, [Next]_vars PROVE TypedInv'
  OBVIOUS
<1>1. CASE \/ Invoke \/ Connected \/ ConnectFails \/ NextSub \/ Acquire \/ OpsDone
           \/ Released \/ Teardown
  <2>1. UNCHANGED <<typed, down, wire>>
    BY <1>1 DEF Invoke, Connected, ConnectFails, NextSub, Acquire, OpsDone, Released, Teardown,
       devVars
  <2> QED
    BY <1>1, <2>1, SequenceSteers, SteersKeep
<1>2. CASE UndoDrained
  <2>1. UNCHANGED <<typed, down, wire>>
    BY <1>2 DEF UndoDrained, devVars
  <2> QED
    BY <1>2, <2>1, OtherSteers, SteersKeep
<1>3. CASE \/ Undo \/ Revoke \/ Close \/ Neutralization
           \/ ContextEnds \/ LinkLost \/ UNCHANGED vars
  <2>1. /\ UNCHANGED <<typed, down>>
        /\ UNCHANGED wire \/ \E ifc \in Ifaces : wire' = Append(wire, Report(ifc, NoPress(ifc)))
    BY <1>3, OtherLifts DEF devVars
  <2> QED
    BY <1>3, <2>1, OtherSteers, SteersKeep
<1>4. CASE SendReport \/ ReleaseKeyboard \/ Drained \/ Deliver
  BY <1>4, SendTyped, ReleaseTyped, DrainTyped, DeliverTyped
<1>5. CASE \/ HoldElapses \/ LookTaken \/ LookCut \/ RpcAnswered \/ RpcLost \/ RpcRefused
           \/ AuthoringError
           \/ ReleaseKeyboardFails \/ DrainFails \/ SendFails
  BY <1>5, OpsTyped
<1> QED
  BY <1>1, <1>2, <1>3, <1>4, <1>5 DEF Next, Program, Peer, Watchdog, Release

\* A step that the host is told has passed has typed exactly the chords it was
\* to press, in their order, and left no key down.
THEOREM PassTyped == Spec => []PassIsTyped
<1>1. StepInv /\ Consent /\ TypedInv => PassIsTyped
  <2> SUFFICES ASSUME StepInv, TypedInv, verdict = "pass"
               PROVE  typed = Chords(step) /\ down["keyboard"] = "up"
    BY DEF PassIsTyped
  <2>1. err = "none" /\ pc = "ended" /\ sub = Len(step.work) + 1
    BY DEF TypedInv, PassedAll
  <2>2. LetGo /\ SentSoFar = ChordsAfter(step)[sub - 1]
    BY <2>1 DEF LetGo, SentSoFar, OnWay
  <2>3. Neutral(wire, down, "keyboard") /\ Conserved(wire, typed, SentSoFar)
    BY <2>1, <2>2 DEF TypedInv, Typing
  <2>4. Len(step.work) \in Nat /\ Len(wire) \in Nat
    BY DEF StepInv, Control, StepTypeOK, Step, Device, DeviceTyped
  <2>5. SentSoFar = Chords(step)
    BY <2>1, <2>2, <2>4 DEF Chords
  <2>6. typed = SentSoFar
    BY <2>3, <2>4, LiftedConserved DEF Neutral
  <2> QED
    BY <2>3, <2>5, <2>6 DEF Neutral, NoPress
<1>2. StepInv /\ Consent /\ TypedInv /\ [Next]_vars => StepInv' /\ Consent' /\ TypedInv'
  BY NextInv, NextConsent, NextTyped
<1> QED
  BY InitInv, InitConsent, InitTyped, <1>1, <1>2, PTL DEF Spec
=============================================================================
