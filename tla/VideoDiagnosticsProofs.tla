---------------------- MODULE VideoDiagnosticsProofs ----------------------
(***************************************************************************)
(* Theorems about VideoDiagnostics and the trackers it drives.             *)
(*                                                                         *)
(* The sequence tracker: with a set S of packets observed, the highest     *)
(* number is that of the highest of S, the bits of recent are the members  *)
(* of S less than Window behind it, and the number without wrap-around is  *)
(* as far from the first as the highest packet is (Tracks). A packet is    *)
(* counted twice, as received and in the tracker; between the two it is    *)
(* pkt, and what is known of it is owed (SequenceOK).                      *)
(*                                                                         *)
(* The snapshot: each value read stays true or has made its boundary true  *)
(* (SnapshotOK), for the counters only grow, and what an access unit holds *)
(* was on the wire before (CountersOK).                                    *)
(*                                                                         *)
(* The frame tracker: RunsOK.                                              *)
(***************************************************************************)
EXTENDS VideoDiagnostics, FiniteSetTheorems, WellFoundedInduction, TLAPS

-----------------------------------------------------------------------------
(***************************************************************************)
(* Numbers.                                                                *)
(***************************************************************************)

\* A set of numbers that is not empty has a least one.
LEMMA LeastNumber ==
    ASSUME NEW T, T \subseteq Nat, T # {}
    PROVE  \E x \in T : \A y \in T : x <= y
<1> DEFINE R == {p \in Nat \X Nat : p[1] < p[2]}
<1>1. IsWellFoundedOn(R, Nat)
  BY NatLessThanWellFounded DEF OpToRel
<1>2. PICK x \in T : \A y \in T : <<y, x>> \notin R
  BY <1>1, WFMin
<1>3. ASSUME NEW y \in T PROVE x <= y
  <2>1. ~(y < x)
    BY <1>2
  <2> QED
    BY <2>1
<1> QED
  BY <1>3

\* Induction over the numbers, for a set instead of a predicate.
LEMMA NumberInduction ==
    ASSUME NEW G, 0 \in G, \A n \in Nat : n \in G => n + 1 \in G
    PROVE  \A n \in Nat : n \in G
<1> SUFFICES ASSUME Nat \ G # {} PROVE FALSE
  OBVIOUS
<1>1. PICK x \in Nat \ G : \A y \in Nat \ G : x <= y
  BY LeastNumber
<1>2. x # 0 /\ x - 1 \in Nat /\ x - 1 + 1 = x
  BY <1>1
<1>3. x - 1 \in G
  BY <1>1, <1>2
<1> QED
  BY <1>1, <1>2, <1>3

\* Max is what its members and bounds say.
LEMMA MaxIs ==
    ASSUME NEW T, T \subseteq Int, NEW m \in T, \A y \in T : y <= m
    PROVE  Max(T) = m
<1>1. ASSUME NEW x \in T, \A y \in T : x >= y PROVE x = m
  <2>1. x >= m /\ x <= m /\ x \in Int /\ m \in Int
    BY <1>1
  <2> QED
    BY <2>1
<1>2. \A y \in T : m >= y
  OBVIOUS
<1> QED
  BY <1>1, <1>2 DEF Max

\* The highest of finitely many packets is one of them.
LEMMA HighestPacket ==
    ASSUME NEW N \in Nat, NEW T, T \subseteq 0..N, T # {}
    PROVE  Max(T) \in T /\ \A y \in T : y <= Max(T)
<1> DEFINE U == {N - x : x \in T}
<1>1. U \subseteq Nat /\ U # {}
  <2>1. \A x \in T : N - x \in Nat
    OBVIOUS
  <2> QED
    BY <2>1
<1>2. PICK u \in U : \A y \in U : u <= y
  BY <1>1, LeastNumber
<1>3. PICK x \in T : u = N - x
  BY <1>2
<1>4. ASSUME NEW y \in T PROVE y <= x
  <2>1. N - y \in U
    OBVIOUS
  <2>2. u <= N - y
    BY <1>2, <2>1
  <2> QED
    BY <1>3, <2>2
<1>5. T \subseteq Int
  OBVIOUS
<1>6. Max(T) = x
  BY <1>3, <1>4, <1>5, MaxIs
<1> QED
  BY <1>3, <1>4, <1>6

\* Full turns of the circle add up.
LEMMA Turns ==
    ASSUME NEW s \in Nat, NEW p \in Int, NEW q \in Int
    PROVE  /\ p * s \in Int /\ q * s \in Int
           /\ (p + q) * s = p * s + q * s
           /\ (q - p) * s = q * s - p * s
           /\ ((q - p) - 1) * s = (q * s - p * s) - s
  OBVIOUS

\* The remainder is the number on the circle that differs by full turns, and the only one.
LEMMA Remainder ==
    ASSUME NEW s \in Nat, s > 0, NEW n \in Int
    PROVE  /\ n % s \in 0..(s - 1)
           /\ \E q \in Int : n = q * s + (n % s)
           /\ \A q \in Int, r \in 0..(s - 1) : n = q * s + r => n % s = r
<1>1. n % s \in 0..(s - 1) /\ \E q \in Int : n = q * s + (n % s)
  OBVIOUS
<1>2. ASSUME NEW q \in Int, NEW r \in 0..(s - 1), n = q * s + r
      PROVE  n % s = r
  BY <1>2
<1> QED
  BY <1>1, <1>2

\* One step of d from a number on the circle.
LEMMA RemainderAhead ==
    ASSUME NEW s \in Nat, s > 0, NEW n \in Int, NEW d \in 0..(s - 1)
    PROVE  (n + d) % s = IF (n % s) + d < s THEN (n % s) + d ELSE ((n % s) + d) - s
<1> DEFINE m == n % s
           over == m + d >= s
<1>1. PICK p \in Int : n = p * s + m
  BY Remainder
<1>2. m \in 0..(s - 1)
  BY Remainder
<1> DEFINE q == IF over THEN 1 ELSE 0
           r == IF over THEN (m + d) - s ELSE m + d
<1>3. r \in 0..(s - 1) /\ q \in Int /\ p + q \in Int
  <2> HIDE DEF m
  <2> QED
    BY <1>2
<1>4. n + d = (p + q) * s + r
  <2> DEFINE ps == p * s
             qs == q * s
  <2>1. ps \in Int /\ qs = (IF over THEN s ELSE 0) /\ (p + q) * s = ps + qs
    BY <1>3, Turns
  <2>2. n + d = (ps + qs) + r
    <3>1. n = ps + m
      BY <1>1
    <3> HIDE DEF ps, qs, m
    <3> QED
      BY <1>2, <2>1, <3>1
  <2> QED
    BY <2>1, <2>2
<1>5. (n + d) % s = r
  <2> HIDE DEF r, q, m
  <2>1. n + d \in Int
    OBVIOUS
  <2>2. \A a \in Int, b \in 0..(s - 1) : n + d = a * s + b => (n + d) % s = b
    BY <2>1, Remainder
  <2> QED
    BY <1>3, <1>4, <2>2, Zenon
<1> QED
  BY <1>2, <1>5

\* The distance of two numbers less than a turn apart, on the circle.
LEMMA RemainderBetween ==
    ASSUME NEW s \in Nat, s > 0, NEW n \in Int, NEW k \in Int, n - k < s, n - k > -s
    PROVE  ((n % s) - (k % s)) % s = IF n >= k THEN n - k ELSE s + (n - k)
<1> DEFINE m == n % s
           l == k % s
           r == IF n >= k THEN n - k ELSE s + (n - k)
<1>1. PICK p \in Int : n = p * s + m
  BY Remainder
<1>2. PICK q \in Int : k = q * s + l
  BY Remainder
<1>3. m \in Int /\ l \in Int /\ m - l \in Int
  BY Remainder
<1> DEFINE t == IF n >= k THEN q - p ELSE (q - p) - 1
<1>4. r \in 0..(s - 1) /\ t \in Int
  OBVIOUS
<1>5. m - l = t * s + r
  <2> DEFINE ps == p * s
             qs == q * s
  <2>1. ps \in Int /\ qs \in Int /\ t * s = IF n >= k THEN qs - ps ELSE (qs - ps) - s
    BY Turns
  <2>2. m - l = (IF n >= k THEN qs - ps ELSE (qs - ps) - s) + r
    <3>1. n = ps + m /\ k = qs + l
      BY <1>1, <1>2
    <3> HIDE DEF ps, qs, m, l
    <3> QED
      BY <1>3, <2>1, <3>1
  <2> QED
    BY <2>1, <2>2
<1>6. (m - l) % s = r
  <2> HIDE DEF m, l, r, t
  <2> QED
    BY <1>3, <1>4, <1>5, Remainder
<1> QED
  BY <1>6

-----------------------------------------------------------------------------
(***************************************************************************)
(* The sequence tracker.                                                   *)
(***************************************************************************)

\* A tracker's fields.
SequenceState ==
    [started : BOOLEAN, first : 0..(Space - 1), highest : 0..(Space - 1), cycles : Nat,
     received : Nat, duplicates : Nat, reordered : Nat, maxJump : Int, recent : SUBSET Nat]

\* The packets in the window of a tracker, by their distance behind the highest one.
WindowOf(S) == {b \in 0..(Window - 1) : Max(S) - b \in S}

\* Tracker t has observed the packets S, the first of which was f.
Tracks(t, S, f) ==
    /\ t \in SequenceState
    /\ t.started <=> S # {}
    /\ S = {} => t.cycles = 0 /\ t.received = 0 /\ t.duplicates = 0 /\ t.reordered = 0
    /\ S # {} => /\ f \in S
                 /\ t.first = SeqOf(f) /\ t.highest = SeqOf(Max(S))
                 /\ Extended(t) - t.first = Max(S) - f
                 /\ t.recent = WindowOf(S)
    /\ Cardinality(S) <= t.received - t.duplicates

\* Packets are told apart by numbers that lie less than half a turn apart.
LEMMA Circle ==
    ASSUME NEW i \in Ids, NEW h \in Ids
    PROVE  /\ SeqOf(i) \in 0..(Space - 1)
           /\ Near(i, h) => Delta(SeqOf(i), SeqOf(h)) = i - h
<1> DEFINE half == Space \div 2
           n == FirstSeq + i
           k == FirstSeq + h
<1>1. Space \in Nat /\ Space > 1 /\ FirstSeq \in Nat /\ half \in Nat /\ Space = 2 * half
  BY RtpAssumption, DiagnosticsAssumption
<1>2. i \in Nat /\ h \in Nat
  BY DEF Ids
<1>4. n \in Int /\ k \in Int /\ n - k = i - h /\ (n >= k <=> i >= h)
  BY <1>1, <1>2
<1>5. ASSUME Near(i, h)
      PROVE  Delta(SeqOf(i), SeqOf(h)) = i - h
  <2>0. i - h < half /\ h - i < half
    BY <1>5 DEF Near
  <2> DEFINE d == ((n % Space) - (k % Space)) % Space
  <2>4. Delta(SeqOf(i), SeqOf(h)) = IF d >= half THEN d - Space ELSE d
    BY DEF Delta, SeqOf
  <2> HIDE DEF n, k, half
  <2>1. n - k < Space /\ n - k > -Space
    BY <1>1, <1>2, <2>0, <1>4
  <2>2. n - k \in Int /\ Space > 0
    BY <1>1, <1>4
  <2>3. ((n % Space) - (k % Space)) % Space = IF n >= k THEN n - k ELSE Space + (n - k)
    BY <1>1, <1>4, <2>1, <2>2, RemainderBetween
  <2>5. d = IF i >= h THEN i - h ELSE Space + (i - h)
    BY <1>4, <2>3, Zenon
  <2> HIDE DEF d
  <2> QED
    BY <1>1, <1>2, <2>0, <2>4, <2>5
<1> QED
  BY <1>1, <1>5, <1>4, Remainder DEF SeqOf

\* Finitely many packets, with a highest one.
LEMMA PacketSet ==
    ASSUME NEW S, S \subseteq Ids
    PROVE  /\ IsFiniteSet(S) /\ Cardinality(S) \in Nat
           /\ S # {} => Max(S) \in S /\ Max(S) \in Ids /\ \A j \in S : j <= Max(S)
<1>1. Len(Stream) \in Nat
  BY DiagnosticsAssumption
<1>2. IsFiniteSet(Ids)
  BY <1>1, FS_Interval DEF Ids
<1>3. IsFiniteSet(S) /\ Cardinality(S) \in Nat
  BY <1>2, FS_Subset, FS_CardinalityType
<1>4. S \subseteq 0..Len(Stream)
  BY <1>1 DEF Ids
<1> QED
  BY <1>1, <1>3, <1>4, HighestPacket

\* The window is at least one packet wide; packets are numbered.
LEMMA WindowSize == Window \in Nat /\ Window >= 1 /\ Ids \subseteq Int
<1>1. Space \div 2 \in Int
  BY RtpAssumption
<1> QED
  BY <1>1, RtpAssumption, DiagnosticsAssumption DEF Ids

\* One more packet: the highest one and their number.
LEMMA OneMore ==
    ASSUME NEW S, S \subseteq Ids, NEW i \in Ids
    PROVE  /\ Max(S \cup {i}) = IF S = {} \/ i > Max(S) THEN i ELSE Max(S)
           /\ Cardinality(S \cup {i}) = Cardinality(S) + (IF i \in S THEN 0 ELSE 1)
<1>0. S # {} => Max(S) \in S /\ \A j \in S : j <= Max(S)
  BY PacketSet
<1>1. Ids \subseteq Int /\ S \cup {i} \subseteq Int
  BY DiagnosticsAssumption DEF Ids
<1>2. Cardinality(S \cup {i}) = Cardinality(S) + (IF i \in S THEN 0 ELSE 1)
  BY PacketSet, FS_AddElement
<1>3. CASE S = {} \/ i > Max(S)
  <2>1. ASSUME NEW j \in S PROVE j <= i
    <3>1. Max(S) < i /\ Max(S) \in Int /\ j <= Max(S) /\ j \in Int /\ i \in Int
      BY <1>0, <1>1, <1>3
    <3> QED
      BY <3>1
  <2> QED
    <3>1. \A y \in S \cup {i} : y <= i
      BY <1>1, <2>1
    <3>2. Max(S \cup {i}) = i
      BY <1>1, <3>1, MaxIs
    <3> QED
      BY <1>2, <1>3, <3>2
<1>4. CASE ~(S = {} \/ i > Max(S))
  <2>0. Max(S) \in Int /\ i \in Int /\ ~(i > Max(S))
    BY <1>0, <1>1, <1>4
  <2>1. i <= Max(S)
    BY <2>0
  <2>2. Max(S) \in S \cup {i} /\ \A j \in S \cup {i} : j <= Max(S)
    BY <1>0, <1>4, <2>1
  <2> QED
    BY <1>1, <1>2, <1>4, <2>2, MaxIs
<1> QED
  BY <1>3, <1>4

\* A packet ahead shifts the window.
LEMMA WindowAhead ==
    ASSUME NEW S, S \subseteq Ids, S # {}, NEW i \in Ids, i > Max(S)
    PROVE  {0} \cup {b \in {j + (i - Max(S)) : j \in WindowOf(S)} : b < Window} = WindowOf(S \cup {i})
<1> DEFINE h == Max(S)
           d == i - h
           shifted == {b \in {j + d : j \in WindowOf(S)} : b < Window}
<1>1. /\ h \in S /\ \A j \in S : j <= h /\ j \in Int
      /\ h \in Int /\ i \in Int /\ d \in Int /\ d > 0 /\ Window \in Int /\ Window >= 1
      /\ Max(S \cup {i}) = i
  <2>1. Window \in Nat /\ Window >= 1 /\ Ids \subseteq Int
    BY WindowSize
  <2>2. h \in S /\ \A j \in S : j <= h
    BY PacketSet
  <2>3. Max(S \cup {i}) = i
    BY OneMore
  <2>4. h \in Int /\ i \in Int /\ \A j \in S : j \in Int
    BY <2>1, <2>2
  <2>5. i > h
    OBVIOUS
  <2> HIDE DEF h
  <2> QED
    BY <2>1, <2>2, <2>3, <2>4, <2>5
<1>2. ASSUME NEW b \in shifted PROVE b \in WindowOf(S \cup {i})
  <2>1. PICK j \in WindowOf(S) : b = j + d /\ b < Window
    BY <1>2
  <2>2. j \in 0..(Window - 1) /\ h - j \in S
    BY <2>1 DEF WindowOf
  <2>3. b \in 0..(Window - 1) /\ i - b = h - j
    BY <1>1, <2>1, <2>2
  <2> QED
    BY <1>1, <2>2, <2>3 DEF WindowOf
<1>3. 0 \in WindowOf(S \cup {i})
  BY <1>1 DEF WindowOf
<1>4. ASSUME NEW b \in WindowOf(S \cup {i}), b # 0 PROVE b \in shifted
  <2>1. b \in 0..(Window - 1) /\ i - b \in S \cup {i} /\ i - b # i
    BY <1>1, <1>4 DEF WindowOf
  <2>2. i - b \in S /\ i - b <= h
    BY <1>1, <2>1
  <2>3. b - d \in 0..(Window - 1) /\ h - (b - d) = i - b
    BY <1>1, <2>1, <2>2
  <2>4. b - d \in WindowOf(S) /\ b = (b - d) + d /\ b < Window
    BY <1>1, <2>1, <2>2, <2>3 DEF WindowOf
  <2> QED
    BY <2>4
<1> QED
  BY <1>2, <1>3, <1>4

\* A packet behind adds its bit, if it still has one.
LEMMA WindowBehind ==
    ASSUME NEW S, S \subseteq Ids, S # {}, NEW i \in Ids, i <= Max(S)
    PROVE  /\ Max(S) - i < Window => (Max(S) - i \in WindowOf(S) <=> i \in S)
           /\ WindowOf(S \cup {i}) = IF Max(S) - i < Window THEN WindowOf(S) \cup {Max(S) - i}
                                     ELSE WindowOf(S)
<1> DEFINE h == Max(S)
           back == h - i
<1>1. /\ h \in Int /\ i \in Int /\ back \in Nat /\ h - back = i
      /\ Window \in Int /\ Window >= 1
      /\ Max(S \cup {i}) = h
  <2>1. Window \in Nat /\ Window >= 1 /\ Ids \subseteq Int
    BY WindowSize
  <2>2. h \in S
    BY PacketSet
  <2>3. h \in Int /\ i \in Int /\ ~(i > h)
    <3>1. h \in Int /\ i \in Int /\ i <= h
      BY <2>1, <2>2
    <3> HIDE DEF h
    <3> QED
      BY <3>1
  <2>4. Max(S \cup {i}) = h
    BY <2>3, OneMore
  <2> QED
    BY <2>1, <2>3, <2>4
<1>2. ASSUME back < Window
      PROVE  back \in 0..(Window - 1)
  BY <1>1, <1>2
<1>3. ASSUME NEW b \in 0..(Window - 1), h - b = i
      PROVE  b = back
  BY <1>1, <1>3
<1>4. back < Window => (back \in WindowOf(S) <=> i \in S)
  BY <1>1, <1>2 DEF WindowOf
<1>5. CASE back < Window
  <2>1. \A b \in 0..(Window - 1) : h - b \in S \cup {i} <=> h - b \in S \/ b = back
    BY <1>1, <1>3
  <2> HIDE DEF h, back
  <2> QED
    BY <1>1, <1>2, <1>4, <1>5, <2>1 DEF WindowOf, h, back
<1>6. CASE ~(back < Window)
  <2>1. \A b \in 0..(Window - 1) : b # back
    BY <1>1, <1>6
  <2>2. \A b \in 0..(Window - 1) : h - b \in S \cup {i} <=> h - b \in S
    BY <1>3, <2>1
  <2> QED
    BY <1>1, <1>4, <1>6, <2>2 DEF WindowOf
<1> QED
  BY <1>5, <1>6

\* The number of a packet ahead of another, by the number of the other: a wrap is seen as
\* a smaller number.
LEMMA NumberAhead ==
    ASSUME NEW i \in Ids, NEW h \in Ids, i > h, Near(i, h)
    PROVE  SeqOf(i) = SeqOf(h) + (i - h) - (IF SeqOf(i) < SeqOf(h) THEN Space ELSE 0)
<1> DEFINE n == FirstSeq + h
           d == i - h
           s == SeqOf(h)
<1>1. Space \in Nat /\ Space > 0 /\ FirstSeq \in Nat /\ Space \div 2 \in Nat /\ Space = 2 * (Space \div 2)
  BY RtpAssumption, DiagnosticsAssumption
<1>2. i \in Nat /\ h \in Nat /\ i - h < Space \div 2
  BY DEF Ids, Near
<1>3. n \in Int /\ d \in 1..(Space - 1) /\ d \in 0..(Space - 1) /\ n + d = FirstSeq + i
  BY <1>1, <1>2
<1>4. s \in 0..(Space - 1)
  BY Circle
<1>5. SeqOf(i) = IF s + d < Space THEN s + d ELSE (s + d) - Space
  <2> HIDE DEF d, n
  <2>1. (n + d) % Space = IF (n % Space) + d < Space THEN (n % Space) + d ELSE ((n % Space) + d) - Space
    BY <1>1, <1>3, RemainderAhead
  <2> QED
    BY <1>3, <2>1, Zenon DEF SeqOf, n
<1>6. SeqOf(i) = s + d - (IF SeqOf(i) < s THEN Space ELSE 0)
  <2> HIDE DEF d, s
  <2> QED
    BY <1>1, <1>3, <1>4, <1>5
<1> QED
  BY <1>6

SequenceFields ==
    {"started", "first", "highest", "cycles", "received", "duplicates", "reordered", "maxJump", "recent"}

\* A tracker as a record of its fields.
LEMMA FieldsOf ==
    ASSUME NEW t \in SequenceState
    PROVE  t = [k \in SequenceFields |-> t[k]]
  BY DEF SequenceState, SequenceFields

\* A record of these fields is a tracker when each has its type.
LEMMA FieldsTyped ==
    ASSUME NEW t, t = [k \in SequenceFields |-> t[k]],
           t.started \in BOOLEAN, t.first \in 0..(Space - 1), t.highest \in 0..(Space - 1),
           t.cycles \in Nat, t.received \in Nat, t.duplicates \in Nat, t.reordered \in Nat,
           t.maxJump \in Int, t.recent \in SUBSET Nat
    PROVE  t \in SequenceState
  BY DEF SequenceState, SequenceFields

\* What observe changes when the packet is ahead (rtpSequenceTracker.observe).
LEMMA AheadFields ==
    ASSUME NEW t \in SequenceState, NEW s, NEW u, u = Ahead([t EXCEPT !.received = @ + 1], s)
    PROVE  /\ u = [k \in SequenceFields |-> u[k]]
           /\ u.started = t.started /\ u.first = t.first /\ u.highest = s
           /\ u.cycles = IF s < t.highest THEN t.cycles + 1 ELSE t.cycles
           /\ u.received = t.received + 1 /\ u.duplicates = t.duplicates /\ u.reordered = t.reordered
           /\ u.maxJump = IF Delta(s, t.highest) > t.maxJump THEN Delta(s, t.highest) ELSE t.maxJump
           /\ u.recent = {0} \cup {b \in {j + Delta(s, t.highest) : j \in t.recent} : b < Window}
<1> DEFINE r == [t EXCEPT !.received = @ + 1]
<1>1. t = [k \in SequenceFields |-> t[k]]
  BY FieldsOf
<1>2. r = [k \in SequenceFields |-> r[k]]
  BY <1>1
<1>3. /\ r.started = t.started /\ r.first = t.first /\ r.highest = t.highest /\ r.cycles = t.cycles
      /\ r.received = t.received + 1 /\ r.duplicates = t.duplicates /\ r.reordered = t.reordered
      /\ r.maxJump = t.maxJump /\ r.recent = t.recent
  BY <1>1 DEF SequenceFields
<1> HIDE DEF r
<1>4. u = Ahead(r, s)
  BY DEF r
<1>5. u = [k \in SequenceFields |-> u[k]]
  BY <1>2, <1>4 DEF Ahead
<1> DEFINE d == Delta(s, r.highest)
           bits == {0} \cup {b \in {j + d : j \in r.recent} : b < Window}
           jump == IF d > r.maxJump THEN d ELSE r.maxJump
           turns == IF s < r.highest THEN r.cycles + 1 ELSE r.cycles
<1>6. u = [r EXCEPT !.recent = bits, !.maxJump = jump, !.cycles = turns, !.highest = s]
  BY <1>4 DEF Ahead
<1>7. /\ u.started = r.started /\ u.first = r.first /\ u.highest = s /\ u.cycles = turns
      /\ u.received = r.received /\ u.duplicates = r.duplicates /\ u.reordered = r.reordered
      /\ u.maxJump = jump /\ u.recent = bits
  <2> HIDE DEF bits, jump, turns
  <2> QED
    BY <1>2, <1>6 DEF SequenceFields
<1> QED
  BY <1>3, <1>5, <1>7

\* The fields that only the first packet and packets ahead change.
Unmoved(t, u) ==
    /\ u.started = t.started /\ u.first = t.first /\ u.highest = t.highest
    /\ u.cycles = t.cycles /\ u.maxJump = t.maxJump

\* What observe changes when the packet is the highest once more.
LEMMA SameFields ==
    ASSUME NEW t \in SequenceState, NEW u, u = [t EXCEPT !.received = @ + 1, !.duplicates = @ + 1]
    PROVE  /\ u \in SequenceState /\ Unmoved(t, u)
           /\ u.received = t.received + 1 /\ u.duplicates = t.duplicates + 1
           /\ u.reordered = t.reordered /\ u.recent = t.recent
<1>1. t = [k \in SequenceFields |-> t[k]]
  BY FieldsOf
<1>2. u = [k \in SequenceFields |-> u[k]]
  BY <1>1
<1>3. /\ Unmoved(t, u) /\ u.received = t.received + 1 /\ u.duplicates = t.duplicates + 1
      /\ u.reordered = t.reordered /\ u.recent = t.recent
  BY <1>1 DEF SequenceFields, Unmoved
<1>4. u \in SequenceState
  <2>1. /\ t.started \in BOOLEAN /\ t.first \in 0..(Space - 1) /\ t.highest \in 0..(Space - 1)
        /\ t.cycles \in Nat /\ t.received + 1 \in Nat /\ t.duplicates + 1 \in Nat /\ t.reordered \in Nat
        /\ t.maxJump \in Int /\ t.recent \in SUBSET Nat
    BY DEF SequenceState
  <2> QED
    BY <1>2, <1>3, <2>1, FieldsTyped DEF Unmoved
<1> QED
  BY <1>3, <1>4

\* What observe changes when the packet is behind.
LEMMA BehindFields ==
    ASSUME NEW t \in SequenceState, NEW back \in Nat, NEW u,
           u = Behind([t EXCEPT !.received = @ + 1], back)
    PROVE  /\ u \in SequenceState /\ Unmoved(t, u)
           /\ u.received = t.received + 1
           /\ IF back < Window /\ back \in t.recent
              THEN u.duplicates = t.duplicates + 1 /\ u.reordered = t.reordered /\ u.recent = t.recent
              ELSE /\ u.duplicates = t.duplicates /\ u.reordered = t.reordered + 1
                   /\ u.recent = IF back < Window THEN t.recent \cup {back} ELSE t.recent
<1> DEFINE r == [t EXCEPT !.received = @ + 1]
<1>1. t = [k \in SequenceFields |-> t[k]]
  BY FieldsOf
<1>2. r = [k \in SequenceFields |-> r[k]]
  BY <1>1
<1>3. /\ r.started = t.started /\ r.first = t.first /\ r.highest = t.highest /\ r.cycles = t.cycles
      /\ r.received = t.received + 1 /\ r.duplicates = t.duplicates /\ r.reordered = t.reordered
      /\ r.maxJump = t.maxJump /\ r.recent = t.recent
  BY <1>1 DEF SequenceFields
<1>4. /\ t.started \in BOOLEAN /\ t.first \in 0..(Space - 1) /\ t.highest \in 0..(Space - 1)
      /\ t.cycles \in Nat /\ t.received + 1 \in Nat /\ t.duplicates \in Nat /\ t.reordered \in Nat
      /\ t.duplicates + 1 \in Nat /\ t.reordered + 1 \in Nat
      /\ t.maxJump \in Int /\ t.recent \in SUBSET Nat /\ t.recent \cup {back} \in SUBSET Nat
  BY DEF SequenceState
<1> HIDE DEF r
<1>5. u = Behind(r, back)
  BY DEF r
<1>6. CASE back < Window /\ back \in t.recent
  <2>1. u = [r EXCEPT !.duplicates = @ + 1]
    BY <1>3, <1>5, <1>6 DEF Behind
  <2>2. u = [k \in SequenceFields |-> u[k]]
    BY <1>2, <2>1
  <2>3. /\ Unmoved(r, u) /\ u.received = r.received
        /\ u.duplicates = r.duplicates + 1 /\ u.reordered = r.reordered /\ u.recent = r.recent
    BY <1>2, <2>1 DEF SequenceFields, Unmoved
  <2>4. /\ Unmoved(t, u) /\ u.received = t.received + 1
        /\ u.duplicates = t.duplicates + 1 /\ u.reordered = t.reordered /\ u.recent = t.recent
    BY <1>3, <2>3 DEF Unmoved
  <2>5. u \in SequenceState
    BY <1>4, <2>2, <2>4, FieldsTyped DEF Unmoved
  <2> QED
    BY <1>6, <2>4, <2>5
<1>7. CASE ~(back < Window /\ back \in t.recent)
  <2> DEFINE bits == IF back < Window THEN r.recent \cup {back} ELSE r.recent
  <2>1. u = [r EXCEPT !.reordered = @ + 1, !.recent = bits]
    BY <1>3, <1>5, <1>7 DEF Behind
  <2>2. u = [k \in SequenceFields |-> u[k]]
    BY <1>2, <2>1
  <2>3. /\ Unmoved(r, u) /\ u.received = r.received
        /\ u.duplicates = r.duplicates /\ u.reordered = r.reordered + 1 /\ u.recent = bits
    <3> HIDE DEF bits
    <3> QED
      BY <1>2, <2>1 DEF SequenceFields, Unmoved
  <2>4. /\ Unmoved(t, u) /\ u.received = t.received + 1
        /\ u.duplicates = t.duplicates /\ u.reordered = t.reordered + 1
        /\ u.recent = IF back < Window THEN t.recent \cup {back} ELSE t.recent
    BY <1>3, <2>3 DEF Unmoved
  <2>5. u \in SequenceState
    BY <1>4, <2>2, <2>4, FieldsTyped DEF Unmoved
  <2> QED
    BY <1>7, <2>4, <2>5
<1> QED
  BY <1>6, <1>7

\* The first packet.
LEMMA TrackFirst ==
    ASSUME NEW t, NEW i \in Ids, Tracks(t, {}, i), NEW u, u = ObserveSequence(t, SeqOf(i))
    PROVE  /\ Tracks(u, {i}, i)
           /\ u.received = 1 /\ u.duplicates = 0 /\ u.reordered = 0
<1>1. /\ t \in SequenceState /\ ~t.started
      /\ t.cycles = 0 /\ t.received = 0 /\ t.duplicates = 0 /\ t.reordered = 0
  BY DEF Tracks
<1>2. u = [t EXCEPT !.received = 1, !.started = TRUE, !.first = SeqOf(i), !.highest = SeqOf(i), !.recent = {0}]
  BY <1>1 DEF ObserveSequence, SequenceState
<1>3. SeqOf(i) \in 0..(Space - 1) /\ SeqOf(i) \in Int /\ i \in Int /\ Space \in Nat
  BY Circle, WindowSize, RtpAssumption
<1>4. /\ u.started = TRUE /\ u.first = SeqOf(i) /\ u.highest = SeqOf(i) /\ u.cycles = 0
      /\ u.received = 1 /\ u.duplicates = 0 /\ u.reordered = 0 /\ u.recent = {0}
      /\ u \in SequenceState
  <2>1. t = [k \in SequenceFields |-> t[k]]
    BY <1>1, FieldsOf
  <2>2. u = [k \in SequenceFields |-> u[k]]
    BY <1>2, <2>1
  <2>3. /\ u.started = TRUE /\ u.first = SeqOf(i) /\ u.highest = SeqOf(i) /\ u.cycles = 0
        /\ u.received = 1 /\ u.duplicates = 0 /\ u.reordered = 0 /\ u.recent = {0}
        /\ u.maxJump = t.maxJump
    BY <1>1, <1>2, <2>1 DEF SequenceFields
  <2>4. t.maxJump \in Int /\ {0} \in SUBSET Nat
    BY <1>1 DEF SequenceState
  <2>5. /\ u.started \in BOOLEAN /\ u.first \in 0..(Space - 1) /\ u.highest \in 0..(Space - 1)
        /\ u.cycles \in Nat /\ u.received \in Nat /\ u.duplicates \in Nat /\ u.reordered \in Nat
        /\ u.maxJump \in Int /\ u.recent \in SUBSET Nat
    <3>1. SeqOf(i) \in 0..(Space - 1) /\ 0 \in Nat /\ 1 \in Nat /\ TRUE \in BOOLEAN
      BY <1>3
    <3> QED
      BY <2>3, <2>4, <3>1, Zenon
  <2>6. u \in SequenceState
    BY <2>2, <2>5, FieldsTyped
  <2> QED
    BY <2>3, <2>6
<1>5. Max({i}) = i
  BY <1>3, MaxIs
<1>6. WindowOf({i}) = {0}
  <2>1. 0 \in 0..(Window - 1) /\ Window \in Int
    BY WindowSize
  <2>2. \A b \in 0..(Window - 1) : i - b = i <=> b = 0
    BY <1>3
  <2> QED
    BY <1>3, <1>5, <2>1, <2>2 DEF WindowOf
<1>7. Cardinality({i}) = 1
  BY FS_Singleton
<1>8. Extended(u) - u.first = i - i
  BY <1>3, <1>4 DEF Extended
<1> QED
  BY <1>4, <1>5, <1>6, <1>7, <1>8 DEF Tracks

\* What a packet means to a tracker that has started.
LEMMA Distance ==
    ASSUME NEW t, NEW S, S \subseteq Ids, S # {}, NEW f, Tracks(t, S, f), NEW i \in Ids,
           Near(i, Max(S))
    PROVE  /\ t \in SequenceState /\ t.started
           /\ Max(S) \in S /\ Max(S) \in Ids /\ Max(S) \in Int /\ i \in Int /\ f \in S /\ f \in Int
           /\ Delta(SeqOf(i), t.highest) = i - Max(S)
           /\ t.highest = SeqOf(Max(S)) /\ t.first = SeqOf(f)
           /\ t.recent = WindowOf(S)
           /\ Extended(t) - t.first = Max(S) - f
           /\ Cardinality(S) <= t.received - t.duplicates
           /\ Cardinality(S) \in Nat
<1>1. Max(S) \in S /\ Max(S) \in Ids /\ Cardinality(S) \in Nat
  BY PacketSet
<1>2. t.highest = SeqOf(Max(S)) /\ t \in SequenceState
  BY DEF Tracks
<1>3. Delta(SeqOf(i), t.highest) = i - Max(S)
  BY <1>1, <1>2, Circle
<1>4. f \in S
  BY DEF Tracks
<1>5. Max(S) \in Int /\ i \in Int /\ f \in Int
  BY <1>1, <1>4, WindowSize
<1>6. /\ t.started /\ t.first = SeqOf(f) /\ t.recent = WindowOf(S)
      /\ Extended(t) - t.first = Max(S) - f
      /\ Cardinality(S) <= t.received - t.duplicates
  BY DEF Tracks
<1> QED
  BY <1>1, <1>2, <1>3, <1>4, <1>5, <1>6

\* A packet that changed neither of the counts of what came late.
SameCounts(t, u) == u.duplicates = t.duplicates /\ u.reordered = t.reordered

\* A packet ahead of all others: the highest number moves, through a wrap or not.
LEMMA TrackAhead ==
    ASSUME NEW t, NEW S, S \subseteq Ids, S # {}, NEW f, Tracks(t, S, f), NEW i \in Ids,
           i > Max(S), Near(i, Max(S)), NEW u, u = ObserveSequence(t, SeqOf(i))
    PROVE  /\ Tracks(u, S \cup {i}, f)
           /\ u.received = t.received + 1 /\ SameCounts(t, u)
<1> DEFINE h == Max(S)
           d == i - h
           over == SeqOf(i) < t.highest
           bits == {0} \cup {b \in {j + d : j \in t.recent} : b < Window}
           jump == IF d > t.maxJump THEN d ELSE t.maxJump
           turns == IF over THEN t.cycles + 1 ELSE t.cycles
<1>1. /\ t \in SequenceState /\ t.started
      /\ h \in S /\ h \in Ids /\ h \in Int /\ i \in Int /\ f \in S /\ f \in Int
      /\ Delta(SeqOf(i), t.highest) = d
      /\ t.highest = SeqOf(h) /\ t.first = SeqOf(f)
      /\ t.recent = WindowOf(S)
      /\ Extended(t) - t.first = h - f
      /\ Cardinality(S) <= t.received - t.duplicates /\ Cardinality(S) \in Nat
  BY Distance
<1>2. d > 0 /\ d \in Int
  BY <1>1
<1>3. u = Ahead([t EXCEPT !.received = @ + 1], SeqOf(i))
  BY <1>1, <1>2 DEF ObserveSequence
<1>4. bits = WindowOf(S \cup {i})
  BY <1>1, WindowAhead
<1>5. SeqOf(i) \in 0..(Space - 1) /\ jump \in Int /\ turns \in Nat /\ WindowOf(S \cup {i}) \in SUBSET Nat
  BY <1>1, <1>2, Circle DEF SequenceState, WindowOf
<1>6. /\ u.started /\ u.first = t.first /\ u.highest = SeqOf(i) /\ u.cycles = turns
      /\ u.received = t.received + 1 /\ u.duplicates = t.duplicates /\ u.reordered = t.reordered
      /\ u.recent = WindowOf(S \cup {i})
      /\ u \in SequenceState
  <2>1. /\ u = [k \in SequenceFields |-> u[k]]
        /\ u.started = t.started /\ u.first = t.first /\ u.highest = SeqOf(i) /\ u.cycles = turns
        /\ u.received = t.received + 1 /\ u.duplicates = t.duplicates /\ u.reordered = t.reordered
        /\ u.maxJump = jump /\ u.recent = bits
    <3> DEFINE e == Delta(SeqOf(i), t.highest)
    <3>1. /\ u = [k \in SequenceFields |-> u[k]]
          /\ u.started = t.started /\ u.first = t.first /\ u.highest = SeqOf(i) /\ u.cycles = turns
          /\ u.received = t.received + 1 /\ u.duplicates = t.duplicates /\ u.reordered = t.reordered
          /\ u.maxJump = IF e > t.maxJump THEN e ELSE t.maxJump
          /\ u.recent = {0} \cup {b \in {j + e : j \in t.recent} : b < Window}
      <4>1. t \in SequenceState
        BY <1>1
      <4> DEFINE s == SeqOf(i)
      <4>2. u = Ahead([t EXCEPT !.received = @ + 1], s)
        BY <1>3
      <4> HIDE DEF s
      <4>3. /\ u = [k \in SequenceFields |-> u[k]]
            /\ u.started = t.started /\ u.first = t.first /\ u.highest = s
            /\ u.cycles = IF s < t.highest THEN t.cycles + 1 ELSE t.cycles
            /\ u.received = t.received + 1 /\ u.duplicates = t.duplicates /\ u.reordered = t.reordered
            /\ u.maxJump = IF Delta(s, t.highest) > t.maxJump THEN Delta(s, t.highest) ELSE t.maxJump
            /\ u.recent = {0} \cup {b \in {j + Delta(s, t.highest) : j \in t.recent} : b < Window}
        BY <4>1, <4>2, AheadFields
      <4> QED
        BY <4>3 DEF s
    <3>2. e = d
      BY <1>1
    <3> QED
      BY <3>1, <3>2
  <2> HIDE DEF bits, jump, turns
  <2>2. /\ t.started \in BOOLEAN /\ t.first \in 0..(Space - 1) /\ t.received + 1 \in Nat
        /\ t.duplicates \in Nat /\ t.reordered \in Nat
    BY <1>1 DEF SequenceState
  <2>3. u \in SequenceState
    BY <1>4, <1>5, <2>1, <2>2, FieldsTyped
  <2> QED
    BY <1>1, <1>4, <2>1, <2>3
<1>7. Max(S \cup {i}) = i /\ Cardinality(S \cup {i}) = Cardinality(S) + 1 /\ S \cup {i} # {}
  <2>1. i \notin S
    <3>1. \A j \in S : j <= h
      BY PacketSet
    <3> QED
      BY <1>1, <1>2, <3>1
  <2> QED
    BY <2>1, OneMore
<1>8. Extended(u) - u.first = i - f
  <2>1. SeqOf(i) = SeqOf(h) + d - (IF over THEN Space ELSE 0)
    BY <1>1, NumberAhead
  <2>2. (t.cycles + 1) * Space = t.cycles * Space + Space /\ t.cycles * Space \in Int
    BY <1>1, RtpAssumption DEF SequenceState
  <2>3. Extended(u) = turns * Space + SeqOf(i) /\ Extended(t) = t.cycles * Space + SeqOf(h)
    BY <1>1, <1>6 DEF Extended
  <2>4. turns * Space = t.cycles * Space + (IF over THEN Space ELSE 0)
    BY <2>2
  <2>5. Extended(u) = Extended(t) + d
    <3> DEFINE k == t.cycles * Space
               w == IF over THEN Space ELSE 0
    <3>1. k \in Int /\ w \in Int /\ SeqOf(h) \in Int /\ d \in Int
      BY <1>1, <1>2, <2>2, RtpAssumption, Circle
    <3>2. Extended(u) = (k + w) + SeqOf(i) /\ Extended(t) = k + SeqOf(h)
      BY <2>3, <2>4
    <3>3. SeqOf(i) = SeqOf(h) + d - w
      BY <2>1
    <3> HIDE DEF k, w, d, h
    <3> QED
      BY <3>1, <3>2, <3>3
  <2>6. Extended(t) \in Int /\ t.first \in Int
    <3>1. SeqOf(h) \in Int /\ SeqOf(f) \in Int
      BY <1>1, Circle
    <3> QED
      BY <1>1, <2>2, <2>3, <3>1
  <2> HIDE DEF h
  <2> QED
    BY <1>1, <1>6, <2>5, <2>6 DEF d
<1>9. Cardinality(S \cup {i}) <= u.received - u.duplicates
  BY <1>1, <1>6, <1>7 DEF SequenceState
<1> QED
  BY <1>1, <1>6, <1>7, <1>8, <1>9 DEF Tracks, SameCounts

\* A packet that is the highest one again, or behind it: inside the window it is told
\* apart from one that comes again.
LEMMA TrackNotAhead ==
    ASSUME NEW t, NEW S, S \subseteq Ids, S # {}, NEW f, Tracks(t, S, f), NEW i \in Ids,
           i <= Max(S), Near(i, Max(S)), NEW u, u = ObserveSequence(t, SeqOf(i))
    PROVE  /\ Tracks(u, S \cup {i}, f)
           /\ u.received = t.received + 1
           /\ Max(S) - i < Window =>
                IF i \in S THEN u.duplicates = t.duplicates + 1 /\ u.reordered = t.reordered
                ELSE u.duplicates = t.duplicates /\ u.reordered = t.reordered + 1
<1> DEFINE h == Max(S)
           back == h - i
<1>1. /\ t \in SequenceState /\ t.started
      /\ h \in S /\ h \in Ids /\ h \in Int /\ i \in Int /\ f \in S /\ f \in Int
      /\ Delta(SeqOf(i), t.highest) = i - h
      /\ t.highest = SeqOf(h) /\ t.first = SeqOf(f)
      /\ t.recent = WindowOf(S)
      /\ Extended(t) - t.first = h - f
      /\ Cardinality(S) <= t.received - t.duplicates /\ Cardinality(S) \in Nat
  BY Distance
<1>2. back \in Nat /\ Window \in Nat /\ Window >= 1 /\ -(i - h) = back
  BY <1>1, WindowSize
<1>3. Max(S \cup {i}) = h /\ Cardinality(S \cup {i}) = Cardinality(S) + (IF i \in S THEN 0 ELSE 1)
  <2>1. ~(i > h)
    BY <1>1
  <2> QED
    BY <2>1, OneMore
<1>4. /\ back < Window => (back \in WindowOf(S) <=> i \in S)
      /\ WindowOf(S \cup {i}) = IF back < Window THEN WindowOf(S) \cup {back} ELSE WindowOf(S)
  BY WindowBehind
<1>5. /\ u \in SequenceState /\ Unmoved(t, u)
      /\ u.received = t.received + 1
      /\ IF back < Window /\ i \in S
         THEN u.duplicates = t.duplicates + 1 /\ u.reordered = t.reordered
         ELSE u.duplicates = t.duplicates /\ u.reordered = t.reordered + 1
      /\ u.recent = WindowOf(S \cup {i})
  <2>1. CASE i = h
    <3>1. back = 0 /\ back < Window /\ i \in S
      BY <1>1, <1>2, <2>1
    <3>2. u = [t EXCEPT !.received = @ + 1, !.duplicates = @ + 1]
      <4> DEFINE r == [t EXCEPT !.received = @ + 1]
      <4>1. u = [r EXCEPT !.duplicates = @ + 1]
        BY <1>1, <2>1 DEF ObserveSequence
      <4>2. t = [k \in SequenceFields |-> t[k]]
        BY <1>1, FieldsOf
      <4> QED
        BY <4>1, <4>2 DEF SequenceFields
    <3>3. S \cup {i} = S
      BY <3>1
    <3> QED
      BY <1>1, <3>1, <3>2, <3>3, SameFields
  <2>2. CASE i # h
    <3>1. i - h # 0 /\ ~(i - h > 0)
      BY <1>1, <1>2, <2>2
    <3>2. u = Behind([t EXCEPT !.received = @ + 1], back)
      BY <1>1, <1>2, <3>1 DEF ObserveSequence
    <3>3. /\ u \in SequenceState /\ Unmoved(t, u)
          /\ u.received = t.received + 1
          /\ IF back < Window /\ back \in t.recent
             THEN u.duplicates = t.duplicates + 1 /\ u.reordered = t.reordered /\ u.recent = t.recent
             ELSE /\ u.duplicates = t.duplicates /\ u.reordered = t.reordered + 1
                  /\ u.recent = IF back < Window THEN t.recent \cup {back} ELSE t.recent
      BY <1>1, <1>2, <3>2, BehindFields
    <3>4. back < Window /\ back \in WindowOf(S) => WindowOf(S) \cup {back} = WindowOf(S)
      OBVIOUS
    <3> HIDE DEF h, back
    <3> QED
      BY <1>1, <1>4, <3>3, <3>4
  <2> QED
    BY <2>1, <2>2
<1>6. Cardinality(S \cup {i}) <= u.received - u.duplicates
  <2> HIDE DEF h, back
  <2>1. t.received \in Nat /\ t.duplicates \in Nat
    BY <1>1 DEF SequenceState
  <2> QED
    BY <1>1, <1>3, <1>5, <2>1
<1>7. Extended(u) - u.first = h - f
  BY <1>1, <1>5 DEF Extended, Unmoved
<1>8. Tracks(u, S \cup {i}, f)
  <2>1. u.highest = SeqOf(Max(S \cup {i})) /\ u.first = SeqOf(f) /\ u.started
    BY <1>1, <1>3, <1>5 DEF Unmoved
  <2>2. f \in S \cup {i} /\ S \cup {i} # {} /\ Extended(u) - u.first = Max(S \cup {i}) - f
    BY <1>1, <1>3, <1>7
  <2> QED
    BY <1>5, <1>6, <2>1, <2>2 DEF Tracks
<1> QED
  BY <1>5, <1>8

-----------------------------------------------------------------------------
(***************************************************************************)
(* What the tracker knows while packets come.                              *)
(***************************************************************************)
WireFields ==
    {"byClass", "types", "malformed", "fuStarts", "fuEnds", "seq", "runs"}

\* Counters and ghosts of arrivals; the packet between its two counts.
CountsOK ==
    /\ pkt \in Ids \cup {0} /\ (pkt # 0 <=> trackPc = "wire")
    /\ copies \in [Ids -> Nat] /\ rtpPackets \in Nat /\ first \in Nat /\ late \in Nat /\ tooLate \in BOOLEAN
    /\ pkt # 0 => copies[pkt] > 0
    /\ wire = [k \in WireFields |-> wire[k]]

\* The packets that have reached the tracker; one more may be on its way to it.
Observed == {j \in Ids : copies[j] > (IF j = pkt THEN 1 ELSE 0)}

OnItsWay == IF pkt = 0 THEN 0 ELSE 1

\* It is noted as late before the tracker counts it as reordered.
Owed == IF pkt # 0 /\ pkt \notin Observed /\ Observed # {} /\ pkt < Max(Observed) THEN 1 ELSE 0

SequenceOK ==
    /\ Tracks(wire.seq, Observed, first)
    /\ wire.seq.received = rtpPackets - OnItsWay
    /\ Observed = {} => first = pkt /\ late = 0
    /\ pkt # 0 /\ Observed # {} => Near(pkt, Max(Observed))
    /\ ~tooLate =>
         /\ Cardinality(Observed) = wire.seq.received - wire.seq.duplicates
         /\ wire.seq.reordered = late - Owed
         /\ pkt # 0 /\ Observed # {} => Max(Observed) - pkt < Window

\* Nothing has come.
LEMMA SequenceInit == Init => CountsOK /\ SequenceOK
<1> SUFFICES ASSUME Init PROVE CountsOK /\ SequenceOK
  OBVIOUS
<1>1. /\ pkt = 0 /\ trackPc = "none" /\ copies = [i \in Ids |-> 0] /\ rtpPackets = 0
      /\ first = 0 /\ late = 0 /\ tooLate = FALSE /\ wire = NewWire
  BY DEF Init
<1>2. CountsOK
  <2>1. wire = [k \in WireFields |-> wire[k]]
    BY <1>1 DEF NewWire, WireFields
  <2> QED
    BY <1>1, <2>1 DEF CountsOK
<1>3. Observed = {}
  BY <1>1 DEF Observed
<1>4. wire.seq = NewSequence
  BY <1>1 DEF NewWire
<1>5. NewSequence \in SequenceState
  <2>1. 0 \in 0..(Space - 1) /\ {} \in SUBSET Nat
    BY RtpAssumption
  <2> QED
    BY <2>1 DEF NewSequence, SequenceState
<1>6. /\ ~NewSequence.started /\ NewSequence.cycles = 0 /\ NewSequence.received = 0
      /\ NewSequence.duplicates = 0 /\ NewSequence.reordered = 0
  BY DEF NewSequence
<1>7. Cardinality({}) = 0
  BY FS_EmptySet
<1> HIDE DEF NewSequence
<1>8. Tracks(NewSequence, {}, first)
  BY <1>5, <1>6, <1>7 DEF Tracks
<1> QED
  BY <1>1, <1>2, <1>3, <1>4, <1>6, <1>7, <1>8 DEF SequenceOK, OnItsWay, Owed

\* The steps that bring no packet and count none.
Elsewhere ==
    /\ UNCHANGED <<pkt, copies, first, late, tooLate, rtpPackets, wire>>
    /\ trackPc' = trackPc \/ (trackPc # "wire" /\ trackPc' # "wire")

\* Only ReadRTP and the critical section that follows it touch what the tracker knows.
LEMMA OtherSteps == [Next]_vars => RtpPacket \/ WirePacket \/ Elsewhere
<1> SUFFICES ASSUME [Next]_vars PROVE RtpPacket \/ WirePacket \/ Elsewhere
  OBVIOUS
<1> USE DEF Elsewhere, ghostVars
<1>1. CASE TrackStarted \/ TrackRejected \/ TrackAccepted
  BY <1>1 DEF TrackStarted, TrackRejected, TrackAccepted, countVars
<1>2. CASE SampleAssembled \/ PushDone \/ NaluSeen \/ FrameAssembled \/ EndTrack
  BY <1>2 DEF SampleAssembled, PushDone, NaluSeen, FrameAssembled, EndTrack, countVars
<1>3. CASE ConnectionLost \/ AnswerRejected \/ FiveSecondsPass
  BY <1>3 DEF ConnectionLost, AnswerRejected, FiveSecondsPass, countVars, trackVars
<1>4. CASE CaptureBegin \/ CaptureGot \/ CaptureFailed \/ SnapshotRead \/ CaptureReturns
  BY <1>4 DEF CaptureBegin, CaptureGot, CaptureFailed, SnapshotRead, CaptureReturns, countVars, trackVars
<1>5. CASE UNCHANGED vars
  BY <1>5 DEF vars, countVars, trackVars
<1> QED
  BY <1>1, <1>2, <1>3, <1>4, <1>5 DEF Next

\* What is unchanged stays true.
LEMMA SequenceElsewhere ==
    ASSUME CountsOK, SequenceOK, Elsewhere
    PROVE  CountsOK' /\ SequenceOK'
<1>1. Observed' = Observed
  BY DEF Elsewhere, Observed
<1>2. OnItsWay' = OnItsWay /\ Owed' = Owed
  BY <1>1 DEF Elsewhere, OnItsWay, Owed
<1>3. CountsOK'
  BY DEF Elsewhere, CountsOK
<1> QED
  BY <1>1, <1>2, <1>3 DEF Elsewhere, SequenceOK

\* What a packet that arrives finds: who came before it.
LEMMA ArrivedBefore ==
    ASSUME CountsOK, pkt = 0
    PROVE  Arrived = Observed
<1>1. \A j \in Ids : j # pkt
  BY DEF Ids
<1> QED
  BY <1>1 DEF CountsOK, Arrived, Observed

\* ReadRTP returns a packet: it is counted as received, and on its way to the tracker.
LEMMA SequenceArrives ==
    ASSUME CountsOK, SequenceOK, RtpPacket
    PROVE  CountsOK' /\ SequenceOK'
<1>1. PICK i \in Ids : pkt' = i /\ NoteArrival(i) /\ (Arrived # {} => Near(i, Max(Arrived)))
  BY DEF RtpPacket
<1>2. /\ trackPc = "read" /\ trackPc' = "wire" /\ rtpPackets' = rtpPackets + 1 /\ wire' = wire
  BY DEF RtpPacket
<1>3. pkt = 0 /\ Arrived = Observed /\ Observed \subseteq Ids /\ i # 0 /\ i \in Int
  BY <1>2, ArrivedBefore, WindowSize DEF CountsOK, Observed, Ids
<1>4. /\ copies' = [copies EXCEPT ![i] = @ + 1]
      /\ first' = IF first = 0 THEN i ELSE first
      /\ late' = IF copies[i] = 0 /\ i < Max(Observed \cup {0}) THEN late + 1 ELSE late
      /\ tooLate' = (tooLate \/ Max(Observed \cup {0}) - i >= Window)
  BY <1>1, <1>3 DEF NoteArrival
<1>5. copies \in [Ids -> Nat] /\ rtpPackets \in Nat /\ first \in Nat /\ late \in Nat /\ tooLate \in BOOLEAN
  BY DEF CountsOK
<1>6. CountsOK'
  <2>1. copies' \in [Ids -> Nat] /\ copies'[i] > 0
    BY <1>4, <1>5
  <2>2. first' \in Nat /\ late' \in Nat /\ tooLate' \in BOOLEAN /\ rtpPackets' \in Nat
    BY <1>1, <1>2, <1>3, <1>4, <1>5 DEF Ids
  <2> QED
    BY <1>1, <1>2, <1>3, <2>1, <2>2 DEF CountsOK
<1>7. Observed' = Observed
  <2>1. \A j \in Ids : copies'[j] > (IF j = i THEN 1 ELSE 0) <=> copies[j] > 0
    BY <1>4, <1>5
  <2>2. Observed' = {j \in Ids : copies'[j] > (IF j = i THEN 1 ELSE 0)}
    BY <1>1 DEF Observed
  <2> QED
    BY <1>3, <2>1, <2>2 DEF Arrived
<1>8. copies[i] = 0 <=> i \notin Observed
  BY <1>3, <1>5 DEF Observed
<1>9. Observed # {} => Max(Observed \cup {0}) = Max(Observed) /\ Max(Observed) \in Ids
  <2>1. ASSUME Observed # {}
        PROVE  Max(Observed \cup {0}) = Max(Observed) /\ Max(Observed) \in Ids
    <3>1. /\ Max(Observed) \in Observed \cup {0} /\ Max(Observed) \in Ids
          /\ \A j \in Observed : j <= Max(Observed)
      BY <1>3, <2>1, PacketSet
    <3>2. Max(Observed) \in Nat /\ Observed \cup {0} \subseteq Int
      BY <1>3, <3>1, WindowSize DEF Ids
    <3>3. \A j \in Observed \cup {0} : j <= Max(Observed)
      BY <3>1, <3>2
    <3> QED
      BY <3>1, <3>2, <3>3, MaxIs
  <2> QED
    BY <2>1
<1>10. OnItsWay' = 1 /\ OnItsWay = 0 /\ Owed = 0
  BY <1>1, <1>3 DEF OnItsWay, Owed
<1>11. /\ Tracks(wire.seq, Observed, first) /\ wire.seq.received = rtpPackets
       /\ Observed = {} => first = 0 /\ late = 0
       /\ Observed # {} => first \in Observed
       /\ ~tooLate => /\ Cardinality(Observed) = wire.seq.received - wire.seq.duplicates
                      /\ wire.seq.reordered = late
  BY <1>3, <1>5, <1>10 DEF SequenceOK, Tracks
<1>12. CASE Observed = {}
  <2>1. Max(Observed \cup {0}) = 0
    BY <1>12, MaxIs
  <2>2. ~(i < 0) /\ i \in Nat /\ Window \in Nat /\ Window >= 1
    BY <1>3, WindowSize DEF Ids
  <2>3. first' = i /\ late' = 0 /\ tooLate' = tooLate
    BY <1>4, <1>5, <1>11, <1>12, <2>1, <2>2
  <2>4. Owed' = 0
    BY <1>7, <1>12 DEF Owed
  <2>5. Tracks(wire.seq, Observed, first')
    BY <1>11, <1>12 DEF Tracks
  <2> QED
    BY <1>1, <1>2, <1>5, <1>6, <1>7, <1>10, <1>11, <1>12, <2>3, <2>4, <2>5 DEF SequenceOK
<1>13. CASE Observed # {}
  <2>1. first' = first
    BY <1>3, <1>4, <1>11, <1>13 DEF Ids
  <2>2. Max(Observed) \in Int /\ i \in Int /\ Window \in Int
    <3>1. Max(Observed) \in Ids
      BY <1>9, <1>13
    <3>2. Ids \subseteq Int /\ Window \in Int
      BY WindowSize
    <3> QED
      BY <1>3, <3>1, <3>2
  <2>3. tooLate' <=> tooLate \/ ~(Max(Observed) - i < Window)
    <3> DEFINE m == Max(Observed)
    <3>1. tooLate' = (tooLate \/ m - i >= Window)
      BY <1>4, <1>9, <1>13
    <3>2. m \in Int
      BY <2>2
    <3>3. m - i >= Window <=> ~(m - i < Window)
      <4> HIDE DEF m
      <4> QED
        BY <2>2, <3>2
    <3> QED
      BY <3>1, <3>3, Zenon
  <2>4. Owed' = IF i \notin Observed /\ i < Max(Observed) THEN 1 ELSE 0
    BY <1>1, <1>3, <1>7, <1>13 DEF Owed
  <2>5. late' = late + Owed'
    BY <1>4, <1>5, <1>8, <1>9, <1>13, <2>4
  <2>6. Owed' \in Nat
    BY <2>4
  <2>7. Tracks(wire.seq, Observed, first)' /\ (wire.seq.received = rtpPackets - OnItsWay)'
    BY <1>2, <1>5, <1>7, <1>10, <1>11, <2>1 DEF Tracks
  <2>8. (Observed # {})' /\ pkt' = i
    BY <1>1, <1>7, <1>13
  <2>9. ASSUME ~tooLate'
        PROVE  /\ Cardinality(Observed)' = (wire.seq.received - wire.seq.duplicates)'
               /\ (wire.seq.reordered = late - Owed)'
               /\ (Max(Observed) - pkt < Window)'
    <3>1. wire.seq.reordered = late /\ Cardinality(Observed) = wire.seq.received - wire.seq.duplicates
      BY <1>11, <2>3, <2>9
    <3>2. late = late' - Owed'
      <4>1. \A o \in Nat, l \in Nat : l = (l + o) - o
        OBVIOUS
      <4> QED
        BY <1>5, <2>5, <2>6, <4>1
    <3>3. Max(Observed) - i < Window
      BY <2>3, <2>9
    <3> QED
      BY <1>1, <1>2, <1>7, <3>1, <3>2, <3>3
  <2> QED
    <3>1. Near(pkt, Max(Observed))'
      BY <1>1, <1>3, <1>7, <1>13 DEF Near
    <3> QED
      BY <1>6, <2>7, <2>8, <2>9, <3>1 DEF SequenceOK
<1> QED
  BY <1>12, <1>13

\* The critical section of wireMu: the packet on its way is counted.
LEMMA SequenceCounted ==
    ASSUME CountsOK, SequenceOK, WirePacket
    PROVE  CountsOK' /\ SequenceOK'
<1> DEFINE i == pkt
           t == wire.seq
           S == Observed
           u == ObserveSequence(t, SeqOf(i))
<1>1. /\ i \in Ids /\ i # 0 /\ trackPc = "wire" /\ copies[i] > 0 /\ copies \in [Ids -> Nat]
      /\ rtpPackets \in Nat /\ first \in Nat /\ late \in Nat /\ tooLate \in BOOLEAN
  BY DEF CountsOK, WirePacket
<1>2. /\ trackPc' = "push" /\ pkt' = 0 /\ UNCHANGED <<rtpPackets, copies, first, late, tooLate>>
      /\ wire' = [k \in WireFields |-> wire'[k]] /\ wire'.seq = u
  <2>1. wire = [k \in WireFields |-> wire[k]]
    BY DEF CountsOK
  <2>2. trackPc' = "push" /\ pkt' = 0 /\ UNCHANGED <<rtpPackets, copies, first, late, tooLate>>
    BY DEF WirePacket, ghostVars
  <2>3. PICK a, b, c, d, e, g :
           wire' = [wire EXCEPT !.byClass = a, !.types = b, !.malformed = c, !.fuStarts = d, !.fuEnds = e,
                                !.seq = u, !.runs = g]
    BY DEF WirePacket
  <2> HIDE DEF u
  <2>4. wire' = [k \in WireFields |-> wire'[k]]
    BY <2>1, <2>3
  <2>5. wire'.seq = u
    BY <2>1, <2>3 DEF WireFields
  <2> QED
    BY <2>2, <2>4, <2>5
<1>3. CountsOK'
  BY <1>1, <1>2 DEF CountsOK
<1>4. Observed' = S \cup {i} /\ S \subseteq Ids
  <2>1. Observed' = {j \in Ids : copies[j] > 0}
    <3>1. \A j \in Ids : j # 0
      BY DEF Ids
    <3> QED
      BY <1>1, <1>2, <3>1 DEF Observed
  <2> QED
    BY <1>1, <2>1 DEF Observed
<1>5. OnItsWay' = 0 /\ OnItsWay = 1 /\ Owed' = 0
  BY <1>1, <1>2 DEF OnItsWay, Owed
<1>6. /\ Tracks(t, S, first) /\ t.received = rtpPackets - 1
      /\ S = {} => first = i /\ late = 0
      /\ S # {} => Near(i, Max(S))
      /\ ~tooLate => /\ Cardinality(S) = t.received - t.duplicates
                     /\ t.reordered = late - Owed
                     /\ S # {} => Max(S) - i < Window
  BY <1>1, <1>5 DEF SequenceOK
<1>7. t.received \in Nat /\ t.duplicates \in Nat /\ t.reordered \in Nat
  BY <1>6 DEF Tracks, SequenceState
<1>8. Cardinality(S \cup {i}) = Cardinality(S) + (IF i \in S THEN 0 ELSE 1) /\ Cardinality(S) \in Nat
  BY <1>1, <1>4, OneMore, PacketSet
<1> SUFFICES /\ Tracks(u, S \cup {i}, first) /\ u.received = t.received + 1
             /\ ~tooLate => /\ Cardinality(S \cup {i}) = u.received - u.duplicates
                            /\ u.reordered = late
  <2>1. (wire.seq)' = u /\ Cardinality(Observed)' = Cardinality(S \cup {i})
    BY <1>2, <1>4
  <2>2. (Observed # {})'
    BY <1>4
  <2> HIDE DEF u, S, t, i
  <2>3. t.received + 1 = (rtpPackets - OnItsWay)' /\ late - Owed' = late
    BY <1>1, <1>2, <1>5, <1>6, <1>7
  <2>4. Tracks(wire.seq, Observed, first)'
    BY <1>2, <1>4, <2>1 DEF Tracks, u, S, t, i
  <2>5. (wire.seq.received = rtpPackets - OnItsWay)'
    BY <2>1, <2>3
  <2>6. ~tooLate' => /\ Cardinality(Observed)' = (wire.seq.received - wire.seq.duplicates)'
                     /\ (wire.seq.reordered = late - Owed)'
    BY <1>2, <2>1, <2>3
  <2> QED
    BY <1>2, <1>3, <2>2, <2>4, <2>5, <2>6 DEF SequenceOK
<1> HIDE DEF u
<1>9. CASE S = {}
  <2>1. Tracks(u, {i}, i) /\ u.received = 1 /\ u.duplicates = 0 /\ u.reordered = 0
    BY <1>1, <1>6, <1>9, TrackFirst DEF u
  <2>2. t.received = 0 /\ S \cup {i} = {i} /\ Cardinality({i}) = 1
    BY <1>6, <1>9, FS_Singleton DEF Tracks
  <2> QED
    BY <1>6, <1>9, <2>1, <2>2
<1>10. CASE S # {} /\ i > Max(S)
  <2>1. /\ Tracks(u, S \cup {i}, first)
        /\ u.received = t.received + 1 /\ u.duplicates = t.duplicates /\ u.reordered = t.reordered
    <3>1. u = ObserveSequence(t, SeqOf(i)) /\ S # {} /\ Tracks(t, S, first) /\ Near(i, Max(S))
      BY <1>6, <1>10 DEF u
    <3>2. S \subseteq Ids /\ i \in Ids /\ i > Max(S)
      BY <1>1, <1>4, <1>10
    <3> HIDE DEF S, t, i
    <3>3. Tracks(u, S \cup {i}, first)
      BY <3>1, <3>2, TrackAhead
    <3>4. u.received = t.received + 1
      BY <3>1, <3>2, TrackAhead
    <3>5. SameCounts(t, u)
      BY <3>1, <3>2, TrackAhead
    <3> QED
      BY <3>3, <3>4, <3>5 DEF SameCounts
  <2>2. i \notin S /\ Owed = 0
    <3>1. Max(S) \in Int /\ i \in Int /\ \A j \in S : j <= Max(S)
      BY <1>1, <1>4, <1>10, PacketSet, WindowSize
    <3>2. ~(i < Max(S)) /\ ~(i <= Max(S))
      BY <1>10, <3>1
    <3> QED
      BY <3>1, <3>2 DEF Owed
  <2>3. ~tooLate => /\ Cardinality(S \cup {i}) = u.received - u.duplicates
                    /\ u.reordered = late
    <3> HIDE DEF S, t, i
    <3> QED
      BY <1>1, <1>6, <1>7, <1>8, <2>1, <2>2
  <2> QED
    BY <2>1, <2>3
<1>11. CASE S # {} /\ ~(i > Max(S))
  <2>1. Max(S) \in S /\ Max(S) \in Int /\ i \in Int /\ i <= Max(S)
    <3>1. Max(S) \in S /\ Max(S) \in Ids
      BY <1>4, <1>11, PacketSet
    <3>2. Max(S) \in Int /\ i \in Int
      BY <1>1, <3>1, WindowSize
    <3> QED
      BY <1>11, <3>1, <3>2
  <2>2. /\ Tracks(u, S \cup {i}, first)
        /\ u.received = t.received + 1
        /\ Max(S) - i < Window =>
             IF i \in S THEN u.duplicates = t.duplicates + 1 /\ u.reordered = t.reordered
             ELSE u.duplicates = t.duplicates /\ u.reordered = t.reordered + 1
    <3>1. u = ObserveSequence(t, SeqOf(i)) /\ S # {} /\ Tracks(t, S, first) /\ Near(i, Max(S))
      BY <1>6, <1>11 DEF u
    <3>2. S \subseteq Ids /\ i \in Ids /\ i <= Max(S)
      BY <1>1, <1>4, <2>1
    <3> HIDE DEF S, t, i
    <3> QED
      BY <3>1, <3>2, TrackNotAhead
  <2>3. Owed = IF i \in S THEN 0 ELSE 1
    <3>1. i \notin S => i # Max(S)
      BY <2>1
    <3>2. i \notin S => i < Max(S)
      BY <2>1, <3>1
    <3>3. CASE i \in S
      BY <3>3 DEF Owed
    <3>4. CASE i \notin S
      BY <1>1, <1>11, <3>2, <3>4 DEF Owed
    <3> QED
      BY <3>3, <3>4
  <2>4. ~tooLate => /\ Cardinality(S \cup {i}) = u.received - u.duplicates
                    /\ u.reordered = late
    <3> HIDE DEF S, t, i
    <3> QED
      BY <1>1, <1>6, <1>7, <1>8, <1>11, <2>2, <2>3
  <2> QED
    BY <2>2, <2>4
<1> QED
  BY <1>9, <1>10, <1>11

\* What came of the packets between the first and the highest, what did not, and what
\* came from before the first.
LEMMA Gaps ==
    ASSUME NEW A, A \subseteq Ids, NEW f \in A, NEW gaps, NEW early,
           gaps = (f .. Max(A)) \ A, early = {i \in A : i < f}
    PROVE  /\ Cardinality(gaps) \in Nat /\ Cardinality(early) \in Nat /\ Cardinality(A) \in Nat
           /\ Max(A) \in Int /\ f \in Int
           /\ Cardinality(gaps) - Cardinality(early) = Max(A) - f + 1 - Cardinality(A)
<1> DEFINE span == f .. Max(A)
           within == span \cap A
<1>1. Max(A) \in A /\ Max(A) \in Int /\ f \in Int /\ f <= Max(A) /\ \A i \in A : i <= Max(A) /\ i \in Int
  <2>1. Max(A) \in A /\ \A i \in A : i <= Max(A)
    BY PacketSet
  <2> QED
    BY <2>1, WindowSize
<1>2. IsFiniteSet(A) /\ IsFiniteSet(span) /\ Cardinality(span) = Max(A) - f + 1
  <2>1. IsFiniteSet(A)
    BY PacketSet
  <2>2. IsFiniteSet(span) /\ Cardinality(span) = IF f > Max(A) THEN 0 ELSE Max(A) - f + 1
    BY <1>1, FS_Interval
  <2>3. ~(f > Max(A))
    BY <1>1
  <2> QED
    BY <2>1, <2>2, <2>3
<1>3. IsFiniteSet(within) /\ IsFiniteSet(early) /\ IsFiniteSet(gaps)
  <2>1. early \in SUBSET A
    OBVIOUS
  <2>2. IsFiniteSet(early)
    BY <1>2, <2>1, FS_Subset
  <2>3. IsFiniteSet(within)
    BY <1>2, FS_Intersection
  <2>4. IsFiniteSet(gaps)
    BY <1>2, FS_Difference
  <2> QED
    BY <2>2, <2>3, <2>4
<1>4. Cardinality(gaps) = Cardinality(span) - Cardinality(within)
  BY <1>2, FS_Difference
<1>5. A = within \cup early /\ within \cap early = {}
  <2>1. ASSUME NEW i \in A PROVE i \in span <=> ~(i < f)
    <3> DEFINE h == Max(A)
    <3>1. h \in Int /\ i <= h /\ i \in Int /\ f \in Int
      BY <1>1
    <3>2. i \in f .. h <=> ~(i < f)
      <4> HIDE DEF h
      <4> QED
        BY <3>1
    <3> QED
      BY <3>2
  <2> HIDE DEF span
  <2> QED
    BY <2>1
<1>6. Cardinality(A) = Cardinality(within) + Cardinality(early)
  <2>1. Cardinality(within \cup early) = Cardinality(within) + Cardinality(early) - Cardinality(within \cap early)
    BY <1>3, FS_Union
  <2>2. Cardinality({}) = 0 /\ Cardinality(within) \in Nat /\ Cardinality(early) \in Nat
    BY <1>3, FS_EmptySet, FS_CardinalityType
  <2>3. Cardinality(A) = Cardinality(within) + Cardinality(early) - 0
    BY <1>5, <2>1, <2>2
  <2> HIDE DEF within
  <2> QED
    BY <2>2, <2>3
<1>7. /\ Cardinality(gaps) \in Nat /\ Cardinality(early) \in Nat /\ Cardinality(A) \in Nat
      /\ Cardinality(within) \in Nat /\ Cardinality(span) \in Nat
  BY <1>2, <1>3, FS_CardinalityType
<1> HIDE DEF span, within
<1> QED
  BY <1>1, <1>2, <1>4, <1>6, <1>7

\* The larger of zero and a number.
LEMMA AtLeastZero ==
    ASSUME NEW n \in Int
    PROVE  Max({0, n}) = IF n > 0 THEN n ELSE 0
<1>1. CASE n > 0
  BY <1>1, MaxIs
<1>2. CASE ~(n > 0)
  BY <1>2, MaxIs
<1> QED
  BY <1>1, <1>2

\* CountsOK and SequenceOK are an invariant of the capture.
THEOREM TrackerCorrect == Spec => [](CountsOK /\ SequenceOK)
<1>1. CountsOK /\ SequenceOK /\ [Next]_vars => (CountsOK /\ SequenceOK)'
  BY OtherSteps, SequenceElsewhere, SequenceArrives, SequenceCounted
<1> QED
  BY <1>1, SequenceInit, PTL DEF Spec

\* The numbers of a screenshot error are right across the wrap of the 16-bit counter
\* (rtpSequenceTracker), for any number of sequence numbers, any window and any stream,
\* however often it wraps.
THEOREM SequenceCorrect == Spec => []SequenceAccounting
<1>1. ASSUME CountsOK, SequenceOK PROVE SequenceAccounting
  <2> SUFFICES ASSUME Counted PROVE SequenceAccounting
    BY DEF SequenceAccounting
  <2> DEFINE A == Arrived
             h == Max(A)
             gaps == (first .. h) \ A
             early == {i \in A : i < first}
             t == wire.seq
  <2>1. pkt = 0 /\ A # {} /\ Observed = A /\ A \subseteq Ids /\ OnItsWay = 0 /\ Owed = 0
    BY <1>1, ArrivedBefore DEF Counted, OnItsWay, Owed, Observed
  <2>2. /\ t \in SequenceState /\ t.started /\ first \in A
        /\ Extended(t) - t.first = h - first
        /\ Cardinality(A) <= t.received - t.duplicates
        /\ t.received = rtpPackets
        /\ ~tooLate => /\ Cardinality(A) = t.received - t.duplicates
                       /\ t.reordered = late - 0
    BY <1>1, <2>1 DEF SequenceOK, Tracks, CountsOK
  <2>3. /\ Cardinality(gaps) \in Nat /\ Cardinality(early) \in Nat /\ Cardinality(A) \in Nat
        /\ h \in Int /\ first \in Int
        /\ Cardinality(gaps) - Cardinality(early) = h - first + 1 - Cardinality(A)
    BY <2>1, <2>2, Gaps
  <2>4. t.received \in Nat /\ t.duplicates \in Nat /\ late \in Nat
    BY <1>1, <2>2 DEF SequenceState, CountsOK
  <2> DEFINE n == h - first + 1 - (t.received - t.duplicates)
             x == Cardinality(gaps) - Cardinality(early)
  <2>5. Lost(t) = (IF n > 0 THEN n ELSE 0) /\ n \in Int /\ x \in Int
    <3>1. Extended(t) - t.first + 1 - (t.received - t.duplicates) = n
      BY <2>2
    <3>2. n \in Int /\ x \in Int
      BY <2>3, <2>4
    <3> HIDE DEF n, x
    <3> QED
      BY <2>2, <3>1, <3>2 DEF Lost
  <2>6. Lost(t) <= Cardinality(gaps)
    <3>1. n <= x
      <4> HIDE DEF gaps, early, A, h, t
      <4> QED
        BY <2>2, <2>3, <2>4
    <3>2. x <= Cardinality(gaps)
      BY <2>3
    <3> HIDE DEF n, x
    <3> QED
      BY <2>3, <2>5, <3>1, <3>2
  <2>7. tooLate \/ /\ t.duplicates = rtpPackets - Cardinality(A)
                   /\ t.reordered = late
                   /\ Lost(t) = Max({0, x})
    <3> SUFFICES ASSUME ~tooLate
                 PROVE  /\ t.duplicates = rtpPackets - Cardinality(A)
                        /\ t.reordered = late
                        /\ Lost(t) = Max({0, x})
      OBVIOUS
    <3>1. t.duplicates = rtpPackets - Cardinality(A) /\ t.reordered = late
      BY <2>2, <2>3, <2>4
    <3>2. n = x
      <4> HIDE DEF gaps, early, A, h, t
      <4> QED
        BY <2>2, <2>3, <2>4
    <3>3. Max({0, x}) = IF x > 0 THEN x ELSE 0
      BY <2>5, AtLeastZero
    <3> QED
      BY <2>5, <3>1, <3>2, <3>3
  <2> QED
    BY <2>2, <2>6, <2>7 DEF SequenceAccounting
<1> QED
  BY <1>1, TrackerCorrect, PTL

-----------------------------------------------------------------------------
(***************************************************************************)
(* What a snapshot says of the pipeline.                                   *)
(***************************************************************************)
\* The goroutine counts a packet only after it opened the track; what the access units
\* contain has been seen on the wire before.
CountersOK ==
    /\ rtpPackets \in Nat /\ samples \in Nat /\ framesBuilt \in Nat
    /\ trackPc = "none" <=> track = "none"
    /\ track = "none" => rtpPackets = 0
    /\ \A i \in Ids : copies[i] > 0 => i = pkt \/ Classify(Stream[i].payload).types \subseteq wire.types
    /\ seen \subseteq wire.types /\ nals \in Seq(wire.types)
    /\ wire.types \cap {"FU-A", "STAP-A"} = {} /\ pcState \in {"connected", "lost"}

\* When a value is read, and the values read before the n-th read.
Turn == [elapsed |-> 1, rtp |-> 2, au |-> 3, frames |-> 4, pc |-> 5, last |-> 6, frag |-> 7, sps |-> 8, pps |-> 9,
         idr |-> 10, wireIdr |-> 11, track |-> 12, answer |-> 12, decode |-> 12]

FieldsBefore(n) == {f \in DOMAIN Turn : Turn[f] < n}

\* What each value read says of the pipeline from then on, and which fact was noted when
\* it was read.
Read(f) == f \in DOMAIN out

Text(b) == <<b, TRUE>> \in held

Otherwise(b) == <<b, FALSE>> \in held

PacketReads ==
    /\ Read("rtp") /\ out.rtp => rtpPackets > 0
    /\ Read("rtp") /\ ~out.rtp => track = "none" \/ Text("noRTP")
    /\ Read("au") /\ out.au => samples > 0
    /\ Read("au") /\ ~out.au => ~out.rtp \/ Text("depacketize")
    /\ Read("frames") /\ out.frames => framesBuilt > 0
    /\ Read("pc") /\ out.pc # "connected" => Otherwise("transport")
    /\ Read("last") /\ out.last => Text("rtpStalled")

NalReads ==
    /\ Read("frag") => ~out.frag
    /\ Read("sps") /\ ~out.sps => Otherwise("noParamSets")
    /\ Read("pps") /\ ~out.pps => Otherwise("noParamSets")
    /\ Read("idr") /\ ~out.idr => "IDR" \notin wire.types \/ Text("reassembly")
    /\ Read("wireIdr") /\ out.wireIdr => "IDR" \in wire.types
    /\ Read("wireIdr") /\ ~out.wireIdr => ~out.au \/ Text("noKeyframe") \/ Otherwise("noKeyframe")

TrackReads ==
    /\ Read("track") /\ out.track # "none" => track # "none"
    /\ Read("track") /\ out.track = "rejected" => Text("trackRejected")
    /\ Read("track") /\ out.track = "none" => Text("negotiation")
    /\ Read("track") /\ out.track = "none" /\ out.answer => Otherwise("answer")
    /\ Read("track") /\ out.frames => Text("none")
    /\ Read("track") /\ out.frames /\ out.decode => Text("decode")

SnapshotOK ==
    IF Snapshotting
    THEN /\ \E n \in 1 .. 13 : DOMAIN out = FieldsBefore(n)
         /\ Truths \subseteq held
         /\ PacketReads /\ NalReads /\ TrackReads
    ELSE out = <<>>

\* When the facts are noted.
FactsNoted ==
    /\ framesBuilt > 0 /\ decodeFailure => <<"decode", TRUE>> \in Truths
    /\ framesBuilt > 0 => <<"none", TRUE>> \in Truths
    /\ track = "rejected" => <<"trackRejected", TRUE>> \in Truths
    /\ track = "none" /\ answerRejected => <<"answer", FALSE>> \in Truths
    /\ track = "none" => <<"negotiation", TRUE>> \in Truths
    /\ pcState = "lost" => <<"transport", FALSE>> \in Truths
    /\ track # "none" /\ rtpPackets = 0 => <<"noRTP", TRUE>> \in Truths
    /\ rtpPackets > 0 /\ samples = 0 => <<"depacketize", TRUE>> \in Truths
    /\ "IDR" \in wire.types /\ "IDR" \notin seen => <<"reassembly", TRUE>> \in Truths
    /\ samples > 0 /\ "IDR" \notin wire.types =>
         <<"noKeyframe", TRUE>> \in Truths \/ <<"noKeyframe", FALSE>> \in Truths
    /\ "SPS" \notin seen \/ "PPS" \notin seen => <<"noParamSets", FALSE>> \in Truths
    /\ rtpPackets > 0 /\ quiet => <<"rtpStalled", TRUE>> \in Truths
    /\ <<"undetermined", TRUE>> \in Truths

\* The text of a boundary is noted when it is true, what may be so instead when it is so.
LEMMA TruthsAre ==
    /\ \A b \in DOMAIN Says : Says[b] => <<b, TRUE>> \in Truths
    /\ \A b \in DOMAIN Instead : Instead[b] => <<b, FALSE>> \in Truths
<1> HIDE DEF Says, Instead
<1> QED
  BY DEF Truths

\* Facts are noted when they are so.
LEMMA NotedFacts == FactsNoted
<1>1. /\ DOMAIN Says = {"decode", "none", "trackRejected", "answer", "negotiation", "transport", "noRTP",
                       "fragmentation", "depacketize", "reassembly", "noKeyframe", "noParamSets", "rtpStalled",
                       "undetermined"}
      /\ DOMAIN Instead = {"answer", "transport", "noKeyframe", "noParamSets"}
  BY DEF Says, Instead
<1>2. /\ Says.decode = (framesBuilt > 0 /\ decodeFailure) /\ Says.none = (framesBuilt > 0)
      /\ Says.trackRejected = (track = "rejected") /\ Says.negotiation = (track = "none")
      /\ Says.noRTP = (track # "none" /\ rtpPackets = 0)
      /\ Says.depacketize = (rtpPackets > 0 /\ samples = 0)
      /\ Says.reassembly = ("IDR" \in wire.types /\ "IDR" \notin seen)
      /\ Says.noKeyframe = (samples > 0 /\ ~KeyframeSent)
      /\ Says.rtpStalled = (rtpPackets > 0 /\ quiet) /\ Says.undetermined = TRUE
  BY Zenon DEF Says
<1>3. /\ Instead.answer = (track = "none" /\ answerRejected) /\ Instead.transport = (pcState = "lost")
      /\ Instead.noKeyframe = (samples > 0 /\ KeyframeSent /\ "IDR" \notin wire.types)
      /\ Instead.noParamSets = ~({"SPS", "PPS"} \subseteq seen)
  BY Zenon DEF Instead
<1> HIDE DEF Says, Instead, Truths
<1> QED
  BY <1>1, <1>2, <1>3, TruthsAre DEF FactsNoted

\* Reads lists the fields by their turn.
LEMMA ReadOrder ==
    /\ \A n \in 1 .. 12 : Reads[n] = {f \in DOMAIN Turn : Turn[f] = n} /\ Reads[n] # {}
    /\ Len(Reads) = 12
    /\ FieldsBefore(1) = {} /\ FieldsBefore(13) = DOMAIN Turn
    /\ DOMAIN Now = DOMAIN Turn
<1>1. Len(Reads) = 12
  BY DEF Reads
<1>2. DOMAIN Now = DOMAIN Turn
  BY DEF Now, Turn
<1>3. \A f \in DOMAIN Turn : Turn[f] \in 1..12
  BY DEF Turn
<1>4. FieldsBefore(1) = {} /\ FieldsBefore(13) = DOMAIN Turn
  BY <1>3 DEF FieldsBefore
<1>5. ASSUME NEW n \in 1 .. 12 PROVE Reads[n] = {f \in DOMAIN Turn : Turn[f] = n} /\ Reads[n] # {}
  BY DEF Reads, Turn
<1> QED
  BY <1>1, <1>2, <1>4, <1>5

\* The next read is the first one that is not done.
LEMMA NextReadIs ==
    ASSUME NEW n \in 1 .. 12, DOMAIN out = FieldsBefore(n)
    PROVE  /\ NextRead = n
           /\ \A f \in Reads[n] : f \notin DOMAIN out
           /\ DOMAIN out \cup Reads[n] = FieldsBefore(n + 1)
<1>1. \A m \in 1..12 : Reads[m] = {f \in DOMAIN Turn : Turn[f] = m} /\ Reads[m] # {}
  BY ReadOrder
<1>2. \A f \in DOMAIN Turn : Turn[f] \in 1..12
  BY DEF Turn
<1>3. \A m \in 1..12 : (Reads[m] \cap DOMAIN out = {} <=> m >= n) /\ (Reads[m] \subseteq DOMAIN out <=> m < n)
  BY <1>1, <1>2 DEF FieldsBefore
<1>4. Len(Reads) = 12
  BY ReadOrder
<1>5. NextRead = n
  <2>1. Reads[n] \cap DOMAIN out = {} /\ \A m \in 1 .. n - 1 : Reads[m] \subseteq DOMAIN out
    BY <1>3
  <2>2. ASSUME NEW k \in 1..12, Reads[k] \cap DOMAIN out = {}, \A m \in 1 .. k - 1 : Reads[m] \subseteq DOMAIN out
        PROVE  k = n
    <3>1. k >= n
      BY <1>3, <2>2
    <3>2. ~(n < k)
      <4> SUFFICES ASSUME n < k PROVE FALSE
        OBVIOUS
      <4>1. n \in 1 .. k - 1
        OBVIOUS
      <4>2. Reads[n] \subseteq DOMAIN out
        BY <2>2, <4>1
      <4> QED
        BY <1>3, <4>2
    <3> QED
      BY <3>1, <3>2
  <2> QED
    BY <1>4, <2>1, <2>2 DEF NextRead
<1>6. \A f \in Reads[n] : f \notin DOMAIN out
  BY <1>1 DEF FieldsBefore
<1>7. DOMAIN out \cup Reads[n] = FieldsBefore(n + 1)
  BY <1>1, <1>2 DEF FieldsBefore
<1> QED
  BY <1>5, <1>6, <1>7

\* Boundary is the first of its rows that is true, and the last one is.
LEMMA BoundaryIs ==
    ASSUME NEW v
    PROVE  \E i \in 1 .. 14 : /\ Rows(v)[i][1] /\ \A j \in 1 .. i - 1 : ~Rows(v)[j][1]
                              /\ Boundary(v) = Rows(v)[i][2]
<1> DEFINE R == Rows(v)
           good == {i \in 1 .. 14 : R[i][1]}
<1>1. DOMAIN R = 1 .. 14 /\ R[14][1]
  BY DEF Rows
<1> HIDE DEF R
<1>2. PICK i \in good : \A j \in good : i <= j
  BY <1>1, LeastNumber
<1>3. R[i][1] /\ \A j \in 1 .. i - 1 : ~R[j][1]
  BY <1>2
<1> DEFINE k == CHOOSE n \in DOMAIN R : R[n][1] /\ \A j \in 1 .. n - 1 : ~R[j][1]
<1>4. k \in 1 .. 14 /\ R[k][1] /\ \A j \in 1 .. k - 1 : ~R[j][1]
  BY <1>1, <1>3
<1>5. Boundary(v) = R[k][2]
  BY DEF Boundary, FirstRow, R
<1> HIDE DEF k
<1> QED
  BY <1>4, <1>5 DEF R

\* When all values are read, every row of Boundary was true at some instant.
LEMMA RowsHeld ==
    ASSUME CountersOK, SnapshotOK, SnapshotTaken
    PROVE  LET b == Boundary(out) IN Text(b) \/ Otherwise(b)
<1> DEFINE v == out
<1>1. /\ Truths \subseteq held /\ PacketReads /\ NalReads /\ TrackReads
      /\ \A f \in {"elapsed", "rtp", "au", "frames", "pc", "last", "frag", "sps", "pps", "idr", "wireIdr", "track",
                   "answer", "decode"} : Read(f)
  BY DEF SnapshotOK, SnapshotTaken, Now, Read
<1>2. Text("undetermined")
  BY <1>1, NotedFacts DEF FactsNoted, Text
<1>3. track # "none" /\ ~out.rtp => Text("noRTP")
  BY <1>1 DEF PacketReads
<1>4. PICK i \in 1 .. 14 : /\ Rows(v)[i][1] /\ \A j \in 1 .. i - 1 : ~Rows(v)[j][1]
                           /\ Boundary(v) = Rows(v)[i][2]
  BY BoundaryIs
<1> HIDE DEF v
<1> SUFFICES Text(Rows(v)[i][2]) \/ Otherwise(Rows(v)[i][2])
  BY <1>4 DEF v
<1>5. CASE i = 1
  <2>1. v.frames /\ v.decode
    <3>1. Rows(v)[1][1] <=> v.frames /\ v.decode
      BY DEF Rows
    <3> QED
      BY <1>4, <1>5, <3>1
  <2>2. Rows(v)[i][2] = "decode"
    BY <1>5 DEF Rows
  <2> QED
    BY <1>1, <2>1, <2>2 DEF v, TrackReads
<1>6. CASE i = 2
  <2>1. v.frames
    BY <1>4, <1>6 DEF Rows
  <2>2. Rows(v)[i][2] = "none"
    BY <1>6 DEF Rows
  <2> QED
    BY <1>1, <2>1, <2>2 DEF v, TrackReads
<1>7. CASE i = 3
  <2>1. v.track = "rejected"
    BY <1>4, <1>7 DEF Rows
  <2>2. Rows(v)[i][2] = "trackRejected"
    BY <1>7 DEF Rows
  <2> QED
    BY <1>1, <2>1, <2>2 DEF v, TrackReads
<1>8. CASE i = 4
  <2>1. v.track = "none" /\ v.answer
    BY <1>4, <1>8 DEF Rows
  <2>2. Rows(v)[i][2] = "answer"
    BY <1>8 DEF Rows
  <2> QED
    BY <1>1, <2>1, <2>2 DEF v, TrackReads
<1>9. CASE i = 5
  <2>1. v.track = "none"
    BY <1>4, <1>9 DEF Rows
  <2>2. Rows(v)[i][2] = "negotiation"
    BY <1>9 DEF Rows
  <2> QED
    BY <1>1, <2>1, <2>2 DEF v, TrackReads
<1>10. CASE i = 6
  <2>1. v.pc # "connected"
    BY <1>4, <1>10 DEF Rows
  <2>2. Rows(v)[i][2] = "transport"
    BY <1>10 DEF Rows
  <2> QED
    BY <1>1, <2>1, <2>2 DEF v, PacketReads
<1>11. CASE i = 7
  <2>1. ~v.rtp
    BY <1>4, <1>11 DEF Rows
  <2>2. ~Rows(v)[5][1]
    BY <1>4, <1>11
  <2>3. v.track # "none"
    BY <2>2 DEF Rows
  <2>4. Rows(v)[i][2] = "noRTP"
    BY <1>11 DEF Rows
  <2> QED
    BY <1>1, <1>3, <2>1, <2>3, <2>4 DEF v, TrackReads
<1>12. CASE i = 8
  <2>1. v.frag
    BY <1>4, <1>12 DEF Rows
  <2> QED
    BY <1>1, <2>1 DEF v, NalReads
<1>13. CASE i = 9
  <2>1. ~v.au
    BY <1>4, <1>13 DEF Rows
  <2>2. ~Rows(v)[7][1]
    BY <1>4, <1>13
  <2>3. v.rtp
    BY <2>2 DEF Rows
  <2>4. Rows(v)[i][2] = "depacketize"
    BY <1>13 DEF Rows
  <2> QED
    BY <1>1, <2>1, <2>3, <2>4 DEF v, PacketReads
<1>14. CASE i = 10
  <2>1. ~v.idr /\ v.wireIdr
    BY <1>4, <1>14 DEF Rows
  <2>2. Rows(v)[i][2] = "reassembly"
    BY <1>14 DEF Rows
  <2> QED
    BY <1>1, <2>1, <2>2 DEF v, NalReads
<1>15. CASE i = 11
  <2>1. ~v.idr
    BY <1>4, <1>15 DEF Rows
  <2>2. ~Rows(v)[10][1] /\ ~Rows(v)[9][1]
    BY <1>4, <1>15
  <2>3. ~v.wireIdr /\ v.au
    BY <2>1, <2>2 DEF Rows
  <2>4. Rows(v)[i][2] = "noKeyframe"
    BY <1>15 DEF Rows
  <2> QED
    BY <1>1, <2>3, <2>4 DEF v, NalReads
<1>16. CASE i = 12
  <2>1. ~v.sps \/ ~v.pps
    BY <1>4, <1>16 DEF Rows
  <2>2. Rows(v)[i][2] = "noParamSets"
    BY <1>16 DEF Rows
  <2> QED
    BY <1>1, <2>1, <2>2 DEF v, NalReads
<1>17. CASE i = 13
  <2>1. v.last
    BY <1>4, <1>17 DEF Rows
  <2>2. Rows(v)[i][2] = "rtpStalled"
    BY <1>17 DEF Rows
  <2> QED
    BY <1>1, <2>1, <2>2 DEF v, PacketReads
<1>18. CASE i = 14
  <2>1. Rows(v)[i][2] = "undetermined"
    BY <1>18 DEF Rows
  <2> QED
    BY <1>2, <2>1
<1> QED
  BY <1>5, <1>6, <1>7, <1>8, <1>9, <1>10, <1>11, <1>12, <1>13, <1>14, <1>15, <1>16, <1>17, <1>18

\* A sequence of members of a set is one of members of a larger set.
LEMMA SeqGrows ==
    ASSUME NEW A, NEW B, A \subseteq B, NEW s \in Seq(A)
    PROVE  s \in Seq(B)
<1>1. Len(s) \in Nat /\ DOMAIN s = 1 .. Len(s) /\ \A i \in 1 .. Len(s) : s[i] \in A
  OBVIOUS
<1> QED
  BY <1>1

\* The types of the units of a packet that is whole are those its classification found.
LEMMA UnitsClassified ==
    ASSUME NEW i \in Ids, ~Classify(Stream[i].payload).malformed
    PROVE  /\ Stream[i].payload.units \in Seq(NalUnit)
           /\ \A u \in DOMAIN Stream[i].payload.units :
                Stream[i].payload.units[u].type \in Classify(Stream[i].payload).types
<1> DEFINE p == Stream[i].payload
<1>1. p \in Payloads
  <2> DEFINE P == [frame : Nat, payload : Payloads, mark : BOOLEAN]
  <2>1. Stream \in Seq(P)
    BY DiagnosticsAssumption
  <2>2. Stream[i] \in P
    <3> HIDE DEF P
    <3> QED
      BY <2>1 DEF Ids
  <2> QED
    BY <2>2
<1>2. /\ p.class \in Classes /\ p.units \in Seq(NalUnit)
      /\ p.class \in {"single", "FU-A"} => Len(p.units) = 1
      /\ p.class \in {"empty", "other"} => Len(p.units) = 0
  BY <1>1 DEF Payloads
<1>3. ~Classify(p).malformed
  OBVIOUS
<1> HIDE DEF p
<1>4. DOMAIN p.units = 1 .. Len(p.units) /\ Len(p.units) \in Nat
  BY <1>2
<1> SUFFICES ASSUME NEW u \in DOMAIN p.units PROVE p.units[u].type \in Classify(p).types
  BY <1>2 DEF p
<1>5. CASE p.class = "single"
  <2>1. Len(p.units) = 1
    BY <1>2, <1>5
  <2>2. u = 1
    BY <1>4, <2>1
  <2> QED
    BY <1>5, <2>2 DEF Classify, Walked
<1>6. CASE p.class = "FU-A"
  <2>1. Len(p.units) = 1
    BY <1>2, <1>6
  <2>2. u = 1
    BY <1>4, <2>1
  <2>3. ~p.short
    BY <1>3, <1>6 DEF Classify, Walked
  <2> QED
    BY <1>6, <2>2, <2>3 DEF Classify, Walked
<1>7. CASE p.class = "STAP-A"
  <2>1. \A j \in DOMAIN p.units : p.units[j].whole
    BY <1>3, <1>7 DEF Classify
  <2>2. Walked(p) = DOMAIN p.units
    BY <1>4, <1>7, <2>1 DEF Walked
  <2> QED
    BY <2>2 DEF Classify
<1>8. CASE p.class \in {"empty", "other"}
  BY <1>2, <1>4, <1>8
<1> QED
  BY <1>2, <1>5, <1>6, <1>7, <1>8 DEF Classes

\* join[i] is the first i of the sequences e, put together.
JoinOf(join, N, e) == \A i \in 0 .. N : join[i] = IF i = 0 THEN <<>> ELSE join[i - 1] \o e[i]

\* Sequences over a set put together one by one are one over the set.
LEMMA JoinedTyped ==
    ASSUME NEW T, NEW N \in Nat, NEW e, \A i \in 1 .. N : e[i] \in Seq(T), NEW join, JoinOf(join, N, e)
    PROVE  join[N] \in Seq(T)
<1> DEFINE H == {n \in Nat : n <= N => join[n] \in Seq(T)}
<1>1. 0 \in H
  <2>1. join[0] = <<>>
    BY DEF JoinOf
  <2>2. <<>> \in Seq(T)
    OBVIOUS
  <2> QED
    BY <2>1, <2>2, Zenon
<1>2. ASSUME NEW n \in Nat, n \in H PROVE n + 1 \in H
  <2> SUFFICES ASSUME n + 1 <= N PROVE join[n + 1] \in Seq(T)
    OBVIOUS
  <2> DEFINE k == n + 1
  <2>1. k \in 0 .. N /\ k \in 1 .. N /\ k # 0 /\ k - 1 = n
    OBVIOUS
  <2>2. join[n] \in Seq(T)
    BY <1>2, <2>1
  <2> HIDE DEF k, H
  <2>3. join[k] = join[n] \o e[k]
    BY <2>1 DEF JoinOf
  <2>4. \A x, y \in Seq(T) : x \o y \in Seq(T)
    OBVIOUS
  <2>5. join[k] \in Seq(T)
    BY <2>1, <2>2, <2>3, <2>4
  <2> QED
    BY <2>5 DEF k
<1>3. N \in H
  <2> HIDE DEF H
  <2> QED
    BY <1>1, <1>2, NumberInduction
<1> QED
  BY <1>3

\* What a sequence of sequences is put together to, one by one: the function that says so
\* exists, and yields sequences over the same set.
LEMMA Joined ==
    ASSUME NEW T, NEW N \in Nat, NEW e, \A i \in 1 .. N : e[i] \in Seq(T),
           NEW join, join = CHOOSE g : g = [i \in 0 .. N |-> IF i = 0 THEN <<>> ELSE g[i - 1] \o e[i]]
    PROVE  join[N] \in Seq(T)
<1> DEFINE Is(g, n) == g = [i \in 0 .. n |-> IF i = 0 THEN <<>> ELSE g[i - 1] \o e[i]]
           G == {n \in Nat : n <= N => \E g : Is(g, n)}
<1>1. \E g : Is(g, 0)
  <2>1. Is([i \in 0 .. 0 |-> <<>>], 0)
    OBVIOUS
  <2> QED
    BY <2>1
<1>2. ASSUME NEW n \in Nat, NEW g, Is(g, n) PROVE \E h : Is(h, n + 1)
  <2> DEFINE h == [i \in 0 .. n + 1 |-> IF i = n + 1 THEN g[n] \o e[n + 1] ELSE g[i]]
  <2>1. \A i \in 0 .. n : g[i] = IF i = 0 THEN <<>> ELSE g[i - 1] \o e[i]
    BY <1>2
  <2> HIDE DEF Is
  <2>2. ASSUME NEW i \in 0 .. n + 1 PROVE h[i] = IF i = 0 THEN <<>> ELSE h[i - 1] \o e[i]
    <3>1. CASE i = 0
      BY <2>1, <3>1
    <3>2. CASE i = n + 1
      <4>1. i # 0 /\ i - 1 = n /\ n \in 0 .. n + 1 /\ n # n + 1 /\ n \in 0 .. n
        BY <3>2
      <4>2. h[i] = g[n] \o e[n + 1] /\ h[n] = g[n]
        BY <3>2, <4>1
      <4> HIDE DEF h
      <4> QED
        BY <3>2, <4>1, <4>2
    <3>3. CASE i # 0 /\ i # n + 1
      <4>1. i \in 0 .. n /\ i - 1 \in 0 .. n + 1 /\ i - 1 # n + 1
        BY <3>3
      <4>2. h[i] = g[i] /\ h[i - 1] = g[i - 1]
        BY <4>1, <3>3
      <4>3. g[i] = g[i - 1] \o e[i]
        BY <2>1, <3>3, <4>1
      <4> QED
        BY <3>3, <4>2, <4>3
    <3> QED
      BY <3>1, <3>2, <3>3
  <2>3. h = [i \in 0 .. n + 1 |-> h[i]]
    OBVIOUS
  <2> HIDE DEF h
  <2>4. Is(h, n + 1)
    BY <2>2, <2>3 DEF Is
  <2> QED
    BY <2>4
<1>3. \E g : Is(g, N)
  <2> HIDE DEF Is
  <2>1. 0 \in G
    BY <1>1
  <2>2. ASSUME NEW n \in Nat, n \in G PROVE n + 1 \in G
    BY <1>2, <2>2
  <2> HIDE DEF G
  <2>3. N \in G
    BY <2>1, <2>2, NumberInduction
  <2> QED
    BY <2>3 DEF G
<1>4. Is(join, N)
  BY <1>3
<1>5. JoinOf(join, N, e)
  BY <1>4 DEF JoinOf
<1>6. join[N] \in Seq(T)
  <2> HIDE DEF G, Is
  <2> QED
    BY <1>5, JoinedTyped
<1> QED
  BY <1>6

\* The NAL units of a frame are among those its packets were found to have.
LEMMA NalsOnWire ==
    ASSUME NEW f, NEW T,
           \A i \in PacketsOf(f) : /\ ~Classify(Stream[i].payload).malformed
                                   /\ Classify(Stream[i].payload).types \subseteq T
    PROVE  NalsOf(f) \in Seq(T)
<1> DEFINE start(i) == LET p == Stream[i].payload IN
                       IF p.class = "FU-A" /\ ~p.start THEN <<>> ELSE [u \in DOMAIN p.units |-> p.units[u].type]
           N == Len(Stream)
           e == [i \in 1 .. N |-> IF i \in PacketsOf(f) THEN start(i) ELSE <<>>]
           join == CHOOSE g : g = [i \in 0 .. N |-> IF i = 0 THEN <<>> ELSE g[i - 1] \o e[i]]
<1>1. N \in Nat
  BY DiagnosticsAssumption
<1>2. ASSUME NEW i \in 1 .. N PROVE e[i] \in Seq(T)
  <2>1. CASE i \notin PacketsOf(f)
    BY <2>1
  <2>2. CASE i \in PacketsOf(f)
    <3> DEFINE us == Stream[i].payload.units
               ts == [u \in DOMAIN us |-> us[u].type]
    <3>1. us \in Seq(NalUnit) /\ \A u \in DOMAIN us : us[u].type \in T
      BY <2>2, UnitsClassified DEF PacketsOf
    <3>2. ts \in Seq(T)
      <4> HIDE DEF us
      <4>1. DOMAIN us = 1 .. Len(us) /\ Len(us) \in Nat
        BY <3>1
      <4> QED
        BY <3>1, <4>1
    <3>3. start(i) = <<>> \/ start(i) = ts
      OBVIOUS
    <3>4. <<>> \in Seq(T)
      OBVIOUS
    <3> HIDE DEF ts, us, start
    <3> QED
      BY <2>2, <3>2, <3>3, <3>4
  <2> QED
    BY <2>1, <2>2
<1>3. join[N] \in Seq(T)
  <2> HIDE DEF e, N
  <2>1. \A i \in 1 .. N : e[i] \in Seq(T)
    BY <1>2
  <2> QED
    BY <1>1, <2>1, Joined
<1>4. NalsOf(f) = join[N]
  <2>1. \A i \in 0 .. N : i # 0 => i \in 1 .. N
    BY <1>1
  <2> QED
    BY <2>1 DEF NalsOf
<1> QED
  BY <1>3, <1>4

\* What is in a packet is not itself an aggregate or a fragment.
LEMMA UnitsAreSingle ==
    ASSUME NEW i \in Ids
    PROVE  Classify(Stream[i].payload).types \cap {"FU-A", "STAP-A"} = {}
<1> DEFINE p == Stream[i].payload
<1>1. /\ p.units \in Seq(NalUnit)
      /\ p.class \in {"single", "FU-A"} => Len(p.units) = 1
  <2> DEFINE P == [frame : Nat, payload : Payloads, mark : BOOLEAN]
  <2>1. Stream \in Seq(P)
    BY DiagnosticsAssumption
  <2>2. Stream[i] \in P
    <3> HIDE DEF P
    <3> QED
      BY <2>1 DEF Ids
  <2> QED
    BY <2>2 DEF Payloads
<1> HIDE DEF p
<1>2. DOMAIN p.units = 1 .. Len(p.units) /\ \A u \in DOMAIN p.units : p.units[u] \in NalUnit
  BY <1>1
<1>3. \A u \in DOMAIN p.units : p.units[u].type \notin {"FU-A", "STAP-A"}
  BY <1>2 DEF NalUnit
<1>4. \A x \in Classify(p).types : \E u \in DOMAIN p.units : x = p.units[u].type
  <2>1. CASE p.class \in {"single", "FU-A"}
    <3>1. 1 \in DOMAIN p.units
      <4>1. Len(p.units) = 1
        BY <1>1, <2>1
      <4> QED
        BY <1>2, <4>1
    <3>2. \A x \in Classify(p).types : x = p.units[1].type
      BY <2>1 DEF Classify, Walked
    <3> QED
      BY <3>1, <3>2
  <2>2. CASE p.class \notin {"single", "FU-A"}
    BY <2>2 DEF Classify, Walked
  <2> QED
    BY <2>1, <2>2
<1> QED
  BY <1>3, <1>4 DEF p

\* Nothing was counted.
LEMMA CountersInit == Init => CountersOK /\ SnapshotOK
<1> SUFFICES ASSUME Init PROVE CountersOK /\ SnapshotOK
  OBVIOUS
<1>1. /\ trackPc = "none" /\ track = "none" /\ rtpPackets = 0 /\ samples = 0 /\ framesBuilt = 0
      /\ seen = {} /\ nals = <<>> /\ copies = [i \in Ids |-> 0] /\ repPc = "idle" /\ out = <<>>
  BY DEF Init
<1>2. nals \in Seq(wire.types)
  BY <1>1
<1>3. wire.types = {} /\ pcState = "connected"
  BY DEF Init, NewWire
<1> QED
  BY <1>1, <1>2, <1>3 DEF CountersOK, SnapshotOK, Snapshotting

\* The access unit handed out is of packets that have been looked at on the wire.
LEMMA UnitsSeenOnWire ==
    ASSUME CountsOK, CountersOK, SampleAssembled
    PROVE  nals' \in Seq(wire.types)
<1>1. pkt = 0
  BY DEF CountsOK, SampleAssembled
<1>2. PICK f \in Frames : Complete(f) /\ nals' = NalsOf(f)
  BY DEF SampleAssembled
<1>3. ASSUME NEW i \in PacketsOf(f)
      PROVE  ~Classify(Stream[i].payload).malformed /\ Classify(Stream[i].payload).types \subseteq wire.types
  <2>1. i \in Ids /\ i # 0
    BY DEF PacketsOf, Ids
  <2>2. copies[i] > 0 /\ ~Classify(Stream[i].payload).malformed
    BY <1>2 DEF Complete
  <2> QED
    BY <1>1, <2>1, <2>2 DEF CountersOK
<1> QED
  BY <1>2, <1>3, NalsOnWire

\* The types seen on the wire after a packet was looked at.
LEMMA WireGrows ==
    ASSUME CountsOK, WirePacket
    PROVE  wire'.types = wire.types \cup Classify(Stream[pkt].payload).types
<1>1. wire = [k \in WireFields |-> wire[k]]
  BY DEF CountsOK
<1> DEFINE ts == Classify(Stream[pkt].payload).types
<1>2. PICK a, c, d, e, g, h :
         wire' = [wire EXCEPT !.byClass = a, !.types = wire.types \cup ts, !.malformed = c, !.fuStarts = d,
                              !.fuEnds = e, !.seq = g, !.runs = h]
  BY DEF WirePacket
<1> HIDE DEF ts
<1>3. wire'.types = wire.types \cup ts
  BY <1>1, <1>2 DEF WireFields
<1> QED
  BY <1>3 DEF ts

\* CountersOK is inductive.
LEMMA CountersStep ==
    ASSUME CountsOK, CountersOK, [Next]_vars
    PROVE  CountersOK'
<1> DEFINE Looked(i) == Classify(Stream[i].payload).types \subseteq wire.types
<1>0. /\ rtpPackets \in Nat /\ samples \in Nat /\ framesBuilt \in Nat
      /\ trackPc = "none" <=> track = "none"
      /\ track = "none" => rtpPackets = 0
      /\ \A i \in Ids : copies[i] > 0 => i = pkt \/ Looked(i)
      /\ seen \subseteq wire.types /\ nals \in Seq(wire.types)
      /\ wire.types \cap {"FU-A", "STAP-A"} = {} /\ pcState \in {"connected", "lost"}
  BY DEF CountersOK
<1>1. CASE TrackStarted \/ TrackRejected \/ TrackAccepted
  BY <1>1 DEF CountersOK, TrackStarted, TrackRejected, TrackAccepted, countVars, muVars, ghostVars
<1>2. CASE RtpPacket
  <2>1. PICK i \in Ids : pkt' = i /\ copies' = [copies EXCEPT ![i] = @ + 1]
    BY <1>2 DEF RtpPacket, NoteArrival
  <2>2. pkt = 0 /\ \A j \in Ids : j # 0
    BY <1>2 DEF CountsOK, RtpPacket, Ids
  <2>3. \A j \in Ids : copies'[j] > 0 => j = pkt' \/ Looked(j)
    <3>1. ASSUME NEW j \in Ids, j # i, copies'[j] > 0 PROVE Looked(j)
      <4>1. copies'[j] = copies[j]
        BY <2>1, <3>1 DEF CountsOK
      <4> QED
        BY <1>0, <2>2, <3>1, <4>1
    <3> QED
      BY <2>1, <3>1
  <2>4. /\ trackPc = "read" /\ trackPc' = "wire" /\ rtpPackets' = rtpPackets + 1
        /\ UNCHANGED <<pcState, track, samples, framesBuilt, seen, wire, nals>>
    BY <1>2 DEF RtpPacket, muVars
  <2> QED
    BY <1>0, <2>3, <2>4 DEF CountersOK
<1>3. CASE WirePacket
  <2>1. wire'.types = wire.types \cup Classify(Stream[pkt].payload).types
    BY <1>3, WireGrows
  <2>2. /\ trackPc = "wire" /\ trackPc' = "push"
        /\ UNCHANGED <<pcState, track, rtpPackets, copies, samples, framesBuilt, seen, nals>>
    BY <1>3 DEF WirePacket, muVars, ghostVars
  <2>3. \A j \in Ids : copies[j] > 0 => Classify(Stream[j].payload).types \subseteq wire'.types
    BY <1>0, <2>1
  <2>4. nals \in Seq(wire'.types)
    BY <1>0, <2>1, SeqGrows
  <2>5. pkt \in Ids
    BY <1>3 DEF CountsOK, WirePacket
  <2>6. wire'.types \cap {"FU-A", "STAP-A"} = {}
    BY <1>0, <2>1, <2>5, UnitsAreSingle
  <2> QED
    BY <1>0, <2>1, <2>2, <2>3, <2>4, <2>6 DEF CountersOK
<1>4. CASE SampleAssembled
  <2>1. nals' \in Seq(wire.types)
    BY <1>4, UnitsSeenOnWire
  <2>2. /\ trackPc = "push" /\ trackPc' = "ingest" /\ samples' = samples + 1
        /\ UNCHANGED <<pcState, track, pkt, rtpPackets, copies, framesBuilt, seen, wire>>
    BY <1>4 DEF SampleAssembled, muVars, ghostVars
  <2> QED
    BY <1>0, <2>1, <2>2 DEF CountersOK
<1>5. CASE NaluSeen
  <2>1. Head(nals) \in wire.types /\ Tail(nals) \in Seq(wire.types)
    BY <1>0, <1>5 DEF NaluSeen
  <2>2. /\ seen' = seen \cup {Head(nals)} /\ nals' = Tail(nals)
        /\ UNCHANGED <<pcState, trackPc, track, pkt, rtpPackets, copies, samples, framesBuilt, wire>>
    BY <1>5 DEF NaluSeen, muVars, ghostVars
  <2> QED
    BY <1>0, <2>1, <2>2 DEF CountersOK
<1>6. CASE FrameAssembled
  <2>1. framesBuilt' \in Nat
    BY <1>0, <1>6 DEF FrameAssembled
  <2>2. /\ trackPc = "ingest" /\ trackPc' = "push"
        /\ UNCHANGED <<pcState, track, pkt, rtpPackets, copies, samples, seen, nals, wire>>
    BY <1>6 DEF FrameAssembled, muVars, ghostVars
  <2> QED
    BY <1>0, <2>1, <2>2 DEF CountersOK
<1>7. CASE PushDone \/ EndTrack
  BY <1>7 DEF CountersOK, PushDone, EndTrack, countVars, muVars, ghostVars
<1>8. CASE ConnectionLost \/ AnswerRejected \/ FiveSecondsPass
  BY <1>8 DEF CountersOK, ConnectionLost, AnswerRejected, FiveSecondsPass, countVars, trackVars, muVars, ghostVars
<1>9. CASE CaptureBegin \/ CaptureGot \/ CaptureFailed \/ SnapshotRead \/ CaptureReturns
  BY <1>9 DEF CountersOK, CaptureBegin, CaptureGot, CaptureFailed, SnapshotRead, CaptureReturns, countVars, trackVars,
              muVars, ghostVars
<1>10. CASE UNCHANGED vars
  BY <1>10 DEF CountersOK, vars, countVars, trackVars, muVars, ghostVars
<1> QED
  BY <1>1, <1>2, <1>3, <1>4, <1>5, <1>6, <1>7, <1>8, <1>9, <1>10 DEF Next

\* The steps of the pipeline and of what is around it, between two reads.
Pipeline ==
    \/ TrackStarted \/ TrackRejected \/ TrackAccepted
    \/ RtpPacket \/ WirePacket \/ SampleAssembled \/ PushDone \/ NaluSeen \/ FrameAssembled \/ EndTrack
    \/ ConnectionLost \/ AnswerRejected \/ FiveSecondsPass

\* What the pipeline never takes back.
LEMMA PipelineGrows ==
    ASSUME CountsOK, CountersOK, Pipeline
    PROVE  /\ NoteHeld /\ UNCHANGED repVars
           /\ rtpPackets > 0 => rtpPackets' > 0
           /\ samples > 0 => samples' > 0
           /\ framesBuilt > 0 => framesBuilt' > 0
           /\ track # "none" => track' # "none"
           /\ track = "none" => rtpPackets' = 0
           /\ wire.types \subseteq wire'.types
           /\ UNCHANGED seen \/ UNCHANGED wire
<1>1. /\ rtpPackets \in Nat /\ samples \in Nat /\ framesBuilt \in Nat
      /\ trackPc = "none" <=> track = "none"
      /\ track = "none" => rtpPackets = 0
  BY DEF CountersOK
<1>2. CASE TrackStarted \/ TrackRejected \/ TrackAccepted
  BY <1>1, <1>2 DEF TrackStarted, TrackRejected, TrackAccepted, countVars, muVars
<1>3. CASE RtpPacket
  BY <1>1, <1>3 DEF RtpPacket, muVars
<1>4. CASE WirePacket
  <2>1. wire.types \subseteq wire'.types
    BY <1>4, WireGrows
  <2> QED
    BY <1>1, <1>4, <2>1 DEF WirePacket, muVars
<1>5. CASE SampleAssembled \/ PushDone \/ NaluSeen \/ EndTrack
  BY <1>1, <1>5 DEF SampleAssembled, PushDone, NaluSeen, EndTrack, countVars, muVars
<1>6. CASE FrameAssembled
  BY <1>1, <1>6 DEF FrameAssembled, muVars
<1>7. CASE ConnectionLost \/ AnswerRejected \/ FiveSecondsPass
  BY <1>1, <1>7 DEF ConnectionLost, AnswerRejected, FiveSecondsPass, countVars, trackVars, muVars
<1> QED
  BY <1>2, <1>3, <1>4, <1>5, <1>6, <1>7 DEF Pipeline

\* Between two reads what the values read say stays true: what was counted stays counted,
\* and what is still to come makes its boundary true as it comes.
LEMMA SnapshotGoesOn ==
    ASSUME CountsOK, CountersOK, CountersOK', SnapshotOK, Pipeline
    PROVE  SnapshotOK'
<1>1. /\ NoteHeld /\ repPc' = repPc /\ out' = out
      /\ rtpPackets > 0 => rtpPackets' > 0
      /\ samples > 0 => samples' > 0
      /\ framesBuilt > 0 => framesBuilt' > 0
      /\ track # "none" => track' # "none"
      /\ track = "none" => rtpPackets' = 0
      /\ wire.types \subseteq wire'.types
      /\ UNCHANGED seen \/ UNCHANGED wire
  BY PipelineGrows DEF repVars
<1>4. FactsNoted'
  BY NotedFacts, PTL
<1>2. CASE ~Snapshotting
  BY <1>1, <1>2 DEF SnapshotOK, Snapshotting
<1>3. CASE Snapshotting
  <2>1. /\ \E n \in 1 .. 13 : DOMAIN out = FieldsBefore(n)
        /\ PacketReads /\ NalReads /\ TrackReads
    BY <1>3 DEF SnapshotOK
  <2>2. Snapshotting' /\ Truths' \subseteq held'
    BY <1>1, <1>3 DEF Snapshotting, NoteHeld
  <2>3. \A f : Read(f) => held \subseteq held'
    <3>1. out = <<>> => DOMAIN out = {}
      OBVIOUS
    <3> QED
      BY <1>1, <2>2, <3>1 DEF NoteHeld, Read
  <2>4. \A f : Read(f)' <=> Read(f)
    BY <1>1 DEF Read
  <2>5. PacketReads'
    <3>1. track = "none" /\ track' # "none" => <<"noRTP", TRUE>> \in Truths'
      BY <1>1, <1>4 DEF FactsNoted
    <3> QED
      BY <1>1, <2>1, <2>2, <2>3, <2>4, <3>1 DEF PacketReads, Text, Otherwise
  <2>6. NalReads'
    <3>1. "IDR" \notin wire.types /\ "IDR" \in wire'.types => <<"reassembly", TRUE>> \in Truths'
      <4>1. seen \subseteq wire.types
        BY DEF CountersOK
      <4> QED
        BY <1>1, <1>4, <4>1 DEF FactsNoted
    <3> QED
      BY <1>1, <2>1, <2>2, <2>3, <2>4, <3>1 DEF NalReads, Text, Otherwise
  <2>7. TrackReads'
    BY <1>1, <2>1, <2>3, <2>4 DEF TrackReads, Text, Otherwise
  <2> QED
    BY <1>1, <2>1, <2>2, <2>5, <2>6, <2>7 DEF SnapshotOK
<1> QED
  BY <1>2, <1>3

\* A read adds its fields; what was read before stays as it is.
LEMMA ReadAdds ==
    ASSUME SnapshotOK, SnapshotRead
    PROVE  \E n \in 1 .. 12 :
             /\ DOMAIN out = FieldsBefore(n) /\ DOMAIN out' = FieldsBefore(n + 1)
             /\ \A f \in DOMAIN out' :
                  \/ f \in DOMAIN out /\ out'[f] = out[f]
                  \/ Turn[f] = n /\ out'[f] = IF f = "last" /\ ~out.rtp THEN FALSE ELSE Now[f]
<1>1. PICK n \in 1 .. 13 : DOMAIN out = FieldsBefore(n)
  BY DEF SnapshotOK, SnapshotRead
<1>2. n # 13
  BY <1>1, ReadOrder DEF SnapshotRead, SnapshotTaken
<1>3. n \in 1 .. 12
  BY <1>2
<1>4. NextRead = n /\ DOMAIN out \cup Reads[n] = FieldsBefore(n + 1) /\ \A f \in Reads[n] : Turn[f] = n
  BY <1>1, <1>3, NextReadIs, ReadOrder
<1>5. out' = [f \in DOMAIN out \cup Reads[n] |->
                IF f \in DOMAIN out THEN out[f] ELSE IF f = "last" /\ ~out.rtp THEN FALSE ELSE Now[f]]
  BY <1>4 DEF SnapshotRead
<1> HIDE DEF Now
<1>6. DOMAIN out' = FieldsBefore(n + 1)
  BY <1>4, <1>5
<1>7. ASSUME NEW f \in DOMAIN out'
      PROVE  \/ f \in DOMAIN out /\ out'[f] = out[f]
             \/ Turn[f] = n /\ out'[f] = IF f = "last" /\ ~out.rtp THEN FALSE ELSE Now[f]
  BY <1>4, <1>5
<1> QED
  BY <1>1, <1>3, <1>6, <1>7

\* A counter that is not above zero makes its boundary true.
LEMMA NothingCounted ==
    ASSUME CountersOK
    PROVE  /\ rtpPackets > 0 \/ track = "none" \/ <<"noRTP", TRUE>> \in Truths
           /\ samples > 0 \/ ~(rtpPackets > 0) \/ <<"depacketize", TRUE>> \in Truths
<1>1. rtpPackets \in Nat /\ samples \in Nat
  BY DEF CountersOK
<1> QED
  BY <1>1, NotedFacts DEF FactsNoted

\* A value read says what is so now, and the boundary it stands for is true now.
LEMMA SnapshotReads ==
    ASSUME CountersOK, SnapshotOK, SnapshotRead
    PROVE  SnapshotOK'
<1>1. PICK n \in 1 .. 12 :
             /\ DOMAIN out = FieldsBefore(n) /\ DOMAIN out' = FieldsBefore(n + 1)
             /\ \A f \in DOMAIN out' :
                  \/ f \in DOMAIN out /\ out'[f] = out[f]
                  \/ Turn[f] = n /\ out'[f] = IF f = "last" /\ ~out.rtp THEN FALSE ELSE Now[f]
  BY ReadAdds
<1>2. /\ UNCHANGED <<pcState, track, answerRejected, decodeFailure>>
      /\ UNCHANGED <<rtpPackets, quiet, samples, framesBuilt, seen, wire, copies>>
      /\ Snapshotting /\ Snapshotting' /\ NoteHeld
  BY DEF SnapshotRead, Snapshotting, countVars, muVars, ghostVars
<1>3. rtpPackets \in Nat /\ samples \in Nat /\ framesBuilt \in Nat
  BY DEF CountersOK
<1>4. Truths' = Truths /\ Truths \subseteq held' /\ held \subseteq held'
  <2>1. Truths' = Truths
    BY <1>2 DEF Truths, Says, Instead, KeyframeSent, Arrived
  <2>2. out' # <<>>
    <3>1. "elapsed" \in FieldsBefore(n + 1)
      BY DEF FieldsBefore, Turn
    <3>2. DOMAIN <<>> = {}
      OBVIOUS
    <3> QED
      BY <1>1, <3>1, <3>2
  <2> QED
    BY <1>2, <2>1, <2>2 DEF NoteHeld
<1>5. PacketReads /\ NalReads /\ TrackReads
  BY <1>2 DEF SnapshotOK
<1> DEFINE Old(f) == f \in DOMAIN out /\ out'[f] = out[f]
<1>6. ASSUME NEW f \in DOMAIN out', NEW g \in DOMAIN Turn, Turn[g] < Turn[f] PROVE Old(g)
  <2>1. Turn[f] \in Int /\ Turn[g] \in Int /\ Turn[f] < n + 1
    BY <1>1 DEF FieldsBefore, Turn
  <2>2. g \in DOMAIN out' /\ Turn[g] # n
    BY <1>1, <1>6, <2>1 DEF FieldsBefore
  <2> QED
    BY <1>1, <2>2
<1>7. /\ Read("rtp")' => Old("rtp") \/ out'.rtp = (rtpPackets > 0)
      /\ Read("au")' => Old("rtp") /\ (Old("au") \/ out'.au = (samples > 0))
      /\ Read("frames")' => Old("frames") \/ out'.frames = (framesBuilt > 0)
      /\ Read("pc")' => Old("pc") \/ out'.pc = pcState
      /\ Read("last")' => Old("rtp") /\ (Old("last") \/ out'.last = IF ~out.rtp THEN FALSE ELSE quiet)
  <2> USE DEF FieldsBefore, Turn, Read, Now
  <2>1. Read("rtp")' => Old("rtp") \/ out'.rtp = (rtpPackets > 0)
    BY <1>1
  <2>2. Read("au")' => Old("rtp") /\ (Old("au") \/ out'.au = (samples > 0))
    <3>1. Read("au")' => Old("rtp")
      BY <1>6
    <3>2. Read("au")' => Old("au") \/ out'.au = (samples > 0)
      BY <1>1
    <3> QED
      BY <3>1, <3>2
  <2>3. Read("frames")' => Old("frames") \/ out'.frames = (framesBuilt > 0)
    BY <1>1
  <2>4. Read("pc")' => Old("pc") \/ out'.pc = pcState
    BY <1>1
  <2>5. Read("last")' => Old("rtp") /\ (Old("last") \/ out'.last = IF ~out.rtp THEN FALSE ELSE quiet)
    <3>1. Read("last")' => Old("rtp")
      BY <1>6
    <3>2. Read("last")' => Old("last") \/ out'.last = IF ~out.rtp THEN FALSE ELSE quiet
      BY <1>1
    <3> QED
      BY <3>1, <3>2
  <2> QED
    BY <2>1, <2>2, <2>3, <2>4, <2>5
<1>8. /\ Read("frag")' => Old("frag") \/ out'.frag = (seen \cap {"FU-A", "STAP-A"} # {})
      /\ Read("sps")' => Old("sps") \/ out'.sps = ("SPS" \in seen)
      /\ Read("pps")' => Old("pps") \/ out'.pps = ("PPS" \in seen)
      /\ Read("idr")' => Old("idr") \/ out'.idr = ("IDR" \in seen)
      /\ Read("wireIdr")' => Old("au") /\ (Old("wireIdr") \/ out'.wireIdr = ("IDR" \in wire.types))
  <2> USE DEF FieldsBefore, Turn, Read, Now
  <2>1. Read("frag")' => Old("frag") \/ out'.frag = (seen \cap {"FU-A", "STAP-A"} # {})
    BY <1>1
  <2>2. Read("sps")' => Old("sps") \/ out'.sps = ("SPS" \in seen)
    BY <1>1
  <2>3. Read("pps")' => Old("pps") \/ out'.pps = ("PPS" \in seen)
    BY <1>1
  <2>4. Read("idr")' => Old("idr") \/ out'.idr = ("IDR" \in seen)
    BY <1>1
  <2>5. Read("wireIdr")' => Old("au") /\ (Old("wireIdr") \/ out'.wireIdr = ("IDR" \in wire.types))
    <3>1. Read("wireIdr")' => Old("au")
      BY <1>6
    <3>2. Read("wireIdr")' => Old("wireIdr") \/ out'.wireIdr = ("IDR" \in wire.types)
      BY <1>1
    <3> QED
      BY <3>1, <3>2
  <2> QED
    BY <2>1, <2>2, <2>3, <2>4, <2>5
<1>9. Read("track")' => /\ Old("frames")
                        /\ out'.track = track /\ out'.answer = answerRejected /\ out'.decode = decodeFailure
  <2> SUFFICES ASSUME "track" \in DOMAIN out'
               PROVE  /\ Old("frames")
                      /\ out'.track = track /\ out'.answer = answerRejected /\ out'.decode = decodeFailure
    BY DEF Read
  <2>1. Old("frames")
    BY <1>6 DEF Turn
  <2>2. n = 12
    BY <1>1 DEF FieldsBefore, Turn
  <2>3. ASSUME NEW f \in {"track", "answer", "decode"} PROVE f \in DOMAIN out' /\ out'[f] = Now[f]
    <3>1. f \in DOMAIN Turn /\ Turn[f] = 12 /\ f # "last"
      BY DEF Turn
    <3>2. f \in DOMAIN out' /\ f \notin DOMAIN out
      BY <1>1, <2>2, <3>1 DEF FieldsBefore
    <3> QED
      BY <1>1, <3>1, <3>2
  <2> QED
    BY <2>1, <2>3 DEF Now
<1> HIDE DEF Old
<1> USE <1>2, <1>4, <1>5 DEF Old, Read, Text, Otherwise
<1>14. FactsNoted
  BY NotedFacts
<1>15. pcState \in {"connected", "lost"}
  BY DEF CountersOK
<1>10. PacketReads'
  <2>1. /\ Read("rtp")' /\ out'.rtp => rtpPackets > 0
        /\ Read("rtp")' /\ ~out'.rtp => track = "none" \/ Text("noRTP")'
    <3>1. rtpPackets > 0 \/ track = "none" \/ <<"noRTP", TRUE>> \in Truths
      BY NothingCounted
    <3>2. CASE Read("rtp")' /\ Old("rtp")
      BY <3>2 DEF PacketReads
    <3>3. CASE Read("rtp")' /\ out'.rtp = (rtpPackets > 0)
      BY <3>1, <3>3
    <3> QED
      BY <1>7, <3>2, <3>3
  <2>2. /\ Read("au")' /\ out'.au => samples > 0
        /\ Read("au")' /\ ~out'.au => ~out'.rtp \/ Text("depacketize")'
    <3>1. samples > 0 \/ ~(rtpPackets > 0) \/ <<"depacketize", TRUE>> \in Truths
      BY NothingCounted
    <3>2. CASE Read("au")' /\ Old("au") /\ Old("rtp")
      BY <3>2 DEF PacketReads
    <3>3. CASE Read("au")' /\ out'.au = (samples > 0) /\ Old("rtp")
      <4>1. out'.rtp => rtpPackets > 0
        BY <3>3 DEF PacketReads
      <4> QED
        BY <3>1, <3>3, <4>1
    <3> QED
      BY <1>7, <3>2, <3>3
  <2>3. Read("frames")' /\ out'.frames => framesBuilt > 0
    BY <1>7 DEF PacketReads
  <2>4. Read("pc")' /\ out'.pc # "connected" => Otherwise("transport")'
    BY <1>7, <1>14, <1>15 DEF PacketReads, FactsNoted
  <2>5. Read("last")' /\ out'.last => Text("rtpStalled")'
    BY <1>3, <1>7, <1>14 DEF PacketReads, FactsNoted
  <2> QED
    BY <2>1, <2>2, <2>3, <2>4, <2>5 DEF PacketReads
<1>11. NalReads'
  <2>1. Read("frag")' => ~out'.frag
    <3>1. seen \cap {"FU-A", "STAP-A"} = {}
      BY DEF CountersOK
    <3> QED
      BY <1>8, <3>1 DEF NalReads
  <2>2. Read("sps")' /\ ~out'.sps => Otherwise("noParamSets")'
    BY <1>8, <1>14 DEF NalReads, FactsNoted
  <2>3. Read("pps")' /\ ~out'.pps => Otherwise("noParamSets")'
    BY <1>8, <1>14 DEF NalReads, FactsNoted
  <2>4. Read("idr")' /\ ~out'.idr => "IDR" \notin wire.types \/ Text("reassembly")'
    BY <1>8, <1>14 DEF NalReads, FactsNoted
  <2>5. /\ Read("wireIdr")' /\ out'.wireIdr => "IDR" \in wire.types
        /\ Read("wireIdr")' /\ ~out'.wireIdr => ~out'.au \/ Text("noKeyframe")' \/ Otherwise("noKeyframe")'
    BY <1>3, <1>8, <1>14 DEF NalReads, PacketReads, FactsNoted
  <2> QED
    BY <2>1, <2>2, <2>3, <2>4, <2>5 DEF NalReads
<1>12. TrackReads'
  BY <1>3, <1>7, <1>9, <1>14 DEF TrackReads, PacketReads, FactsNoted
<1>13. \E k \in 1 .. 13 : DOMAIN out' = FieldsBefore(k)
  BY <1>1
<1> QED
  BY <1>2, <1>4, <1>10, <1>11, <1>12, <1>13 DEF SnapshotOK

\* A call begins, ends or returns, and nothing is read.
LEMMA SnapshotElsewhere ==
    ASSUME SnapshotOK, CaptureBegin \/ CaptureGot \/ CaptureFailed \/ CaptureReturns \/ UNCHANGED vars
    PROVE  SnapshotOK'
<1>1. CASE CaptureBegin \/ CaptureGot
  BY <1>1 DEF SnapshotOK, CaptureBegin, CaptureGot, Snapshotting
<1>2. CASE CaptureFailed
  <2>1. out = <<>> /\ out' = <<>> /\ Snapshotting' /\ NoteHeld
    BY <1>2 DEF SnapshotOK, CaptureFailed, Snapshotting
  <2>2. DOMAIN out' = FieldsBefore(1) /\ DOMAIN out' = {}
    BY <2>1, ReadOrder
  <2>3. Truths' \subseteq held'
    BY <2>1 DEF NoteHeld
  <2> QED
    BY <2>1, <2>2, <2>3 DEF SnapshotOK, PacketReads, NalReads, TrackReads, Read
<1>3. CASE CaptureReturns
  BY <1>3 DEF SnapshotOK, CaptureReturns, Snapshotting
<1>4. CASE UNCHANGED vars
  <2>1. Truths' = Truths
    BY <1>4 DEF vars, countVars, muVars, ghostVars, Truths, Says, Instead, KeyframeSent, Arrived
  <2>2. UNCHANGED <<out, held, repPc, track, rtpPackets, samples, framesBuilt, wire>>
    BY <1>4 DEF vars, countVars, muVars, repVars
  <2> QED
    BY <2>1, <2>2 DEF SnapshotOK, Snapshotting, PacketReads, NalReads, TrackReads, Read, Text, Otherwise
<1> QED
  BY <1>1, <1>2, <1>3, <1>4

\* CountersOK and SnapshotOK are an invariant of the capture.
THEOREM SnapshotCorrect == Spec => [](CountersOK /\ SnapshotOK)
<1>1. CountsOK /\ CountersOK /\ SnapshotOK /\ [Next]_vars => (CountersOK /\ SnapshotOK)'
  <2> SUFFICES ASSUME CountsOK, CountersOK, SnapshotOK, [Next]_vars PROVE (CountersOK /\ SnapshotOK)'
    OBVIOUS
  <2>1. CountersOK'
    BY CountersStep
  <2>2. \/ Pipeline \/ SnapshotRead
        \/ CaptureBegin \/ CaptureGot \/ CaptureFailed \/ CaptureReturns \/ UNCHANGED vars
    BY DEF Next, Pipeline
  <2>3. SnapshotOK'
    BY <2>1, <2>2, SnapshotGoesOn, SnapshotReads, SnapshotElsewhere
  <2> QED
    BY <2>1, <2>3
<1>2. Spec => []CountsOK
  BY TrackerCorrect, PTL
<1> QED
  BY <1>1, <1>2, CountersInit, PTL DEF Spec

\* What the text of the boundary says was so in full at some instant while the snapshot
\* was taken, or for the four texts that overstate what Instead says, for any stream the
\* device sends and any order of the reads and the steps of the track goroutine.
THEOREM BoundaryTextCorrect == Spec => []BoundaryTextHeld
<1>1. ASSUME CountersOK, SnapshotOK PROVE BoundaryTextHeld
  BY <1>1, RowsHeld DEF BoundaryTextHeld, Text, Otherwise
<1> QED
  BY <1>1, SnapshotCorrect, PTL

-----------------------------------------------------------------------------
(***************************************************************************)
(* The runs of packets of one frame.                                       *)
(***************************************************************************)
RunFields == {"started", "timestamp", "packets", "hasIDR", "marked", "markers", "changes", "unmarked", "max", "maxIDR"}

\* What came of a frame, less the packet on its way to the tracker.
Counts(f) == came[f] - (IF pkt # 0 /\ Stream[pkt].frame = f THEN 1 ELSE 0)

\* Nothing has reached the tracker, or a run is in progress: no run was longer than what
\* came of its frame.
RunsBounded ==
    IF Observed = {}
    THEN ~wire.runs.started /\ wire.runs.packets = 0 /\ wire.runs.max = 0
    ELSE /\ wire.runs.started
         /\ \E j \in Observed : Stream[j].frame = wire.runs.timestamp
         /\ wire.runs.packets <= Counts(wire.runs.timestamp)
         /\ \E f \in Frames : wire.runs.max <= Counts(f)

\* As long as nothing came late or twice, the frames come one after the other, and the
\* run of each is all that came of it.
RunsComplete ==
    /\ pkt # 0 => \A j \in Observed : j < pkt
    /\ Observed # {} =>
         /\ \A j \in Observed : Stream[j].frame <= wire.runs.timestamp
         /\ wire.runs.packets = Counts(wire.runs.timestamp)
         /\ \A f \in Frames : f # wire.runs.timestamp => Counts(f) <= wire.runs.max

RunsOK ==
    /\ came \in [Frames -> Nat] /\ \A f \in Frames : came[f] <= rtpPackets
    /\ Cardinality(Arrived) <= rtpPackets
    /\ wire.runs = [k \in RunFields |-> wire.runs[k]] /\ wire.runs.packets \in Nat /\ wire.runs.max \in Nat
    /\ \A f \in Frames : Counts(f) \in Nat /\ (Counts(f) > 0 => \E j \in Observed : Stream[j].frame = f)
    /\ RunsBounded
    /\ InOrder => RunsComplete

\* The device sends frame after frame.
LEMMA FramesInOrder ==
    ASSUME NEW i \in Ids, NEW j \in Ids
    PROVE  Stream[j].frame \in Int /\ (j <= i => Stream[j].frame <= Stream[i].frame)
<1> DEFINE P == [frame : Nat, payload : Payloads, mark : BOOLEAN]
<1>1. Stream \in Seq(P)
  BY DiagnosticsAssumption
<1>2. Stream[j] \in P
  <2> HIDE DEF P
  <2> QED
    BY <1>1 DEF Ids
<1>3. DOMAIN Stream = Ids
  <2> HIDE DEF P
  <2> QED
    BY <1>1 DEF Ids
<1> QED
  BY <1>2, <1>3, DiagnosticsAssumption

\* What observe does to the run in progress, when it is of another frame and when not
\* (rtpFrameTracker.observe, endRun).
LEMMA RunFieldsAfter ==
    ASSUME NEW r, r = [k \in RunFields |-> r[k]], NEW fr, NEW mark, NEW idr,
           NEW u, u = ObserveRun(r, fr, mark, idr)
    PROVE  /\ u = [k \in RunFields |-> u[k]]
           /\ u.started /\ u.timestamp = fr
           /\ r.started /\ fr # r.timestamp =>
                u.packets = 0 + 1 /\ u.max = IF r.packets > r.max THEN r.packets ELSE r.max
           /\ ~(r.started /\ fr # r.timestamp) => u.packets = r.packets + 1 /\ u.max = r.max
<1> DEFINE e == EndRun(r)
<1>1. /\ e = [k \in RunFields |-> e[k]] /\ e.packets = 0
      /\ e.max = IF r.packets > r.max THEN r.packets ELSE r.max
  BY DEF EndRun, RunFields
<1> HIDE DEF e
<1>2. ASSUME NEW q, q = [k \in RunFields |-> q[k]], NEW v,
             v = [q EXCEPT !.started   = TRUE,
                           !.timestamp = fr,
                           !.packets   = @ + 1,
                           !.hasIDR    = @ \/ idr,
                           !.marked    = @ \/ mark,
                           !.markers   = IF mark THEN @ + 1 ELSE @]
      PROVE  /\ v = [k \in RunFields |-> v[k]] /\ v.started /\ v.timestamp = fr
             /\ v.packets = q.packets + 1 /\ v.max = q.max
  BY <1>2 DEF RunFields
<1>3. CASE r.started /\ fr # r.timestamp
  <2>1. u = [e EXCEPT !.started   = TRUE,
                      !.timestamp = fr,
                      !.packets   = @ + 1,
                      !.hasIDR    = @ \/ idr,
                      !.marked    = @ \/ mark,
                      !.markers   = IF mark THEN @ + 1 ELSE @]
    BY <1>3 DEF ObserveRun, e
  <2>2. /\ u = [k \in RunFields |-> u[k]] /\ u.started /\ u.timestamp = fr
        /\ u.packets = e.packets + 1 /\ u.max = e.max
    BY <1>1, <1>2, <2>1
  <2> QED
    BY <1>1, <1>3, <2>2
<1>4. CASE ~(r.started /\ fr # r.timestamp)
  <2>1. u = [r EXCEPT !.started   = TRUE,
                      !.timestamp = fr,
                      !.packets   = @ + 1,
                      !.hasIDR    = @ \/ idr,
                      !.marked    = @ \/ mark,
                      !.markers   = IF mark THEN @ + 1 ELSE @]
    BY <1>4 DEF ObserveRun
  <2> QED
    BY <1>2, <1>4, <2>1
<1> QED
  BY <1>3, <1>4

\* No packet came.
LEMMA RunsInit == Init => RunsOK
<1> SUFFICES ASSUME Init PROVE RunsOK
  OBVIOUS
<1>1. /\ pkt = 0 /\ copies = [i \in Ids |-> 0] /\ came = [f \in Frames |-> 0] /\ rtpPackets = 0 /\ wire = NewWire
  BY DEF Init
<1>2. Observed = {} /\ Arrived = {} /\ Cardinality({}) = 0
  BY <1>1, FS_EmptySet DEF Observed, Arrived
<1>3. wire.runs = NewRuns
  BY <1>1 DEF NewWire
<1>4. /\ NewRuns = [k \in RunFields |-> NewRuns[k]]
      /\ ~NewRuns.started /\ NewRuns.packets = 0 /\ NewRuns.max = 0
  BY DEF NewRuns, RunFields
<1>5. \A f \in Frames : Counts(f) = 0
  BY <1>1 DEF Counts
<1> QED
  BY <1>1, <1>2, <1>3, <1>4, <1>5 DEF RunsOK, RunsBounded, RunsComplete

\* A packet on its way changes what came, and not what was looked at.
LEMMA ArrivalIs ==
    ASSUME CountsOK, RunsOK, RtpPacket
    PROVE  \E i \in Ids :
             /\ pkt = 0 /\ pkt' = i /\ wire' = wire /\ Observed' = Observed
             /\ came' \in [Frames -> Nat] /\ \A f \in Frames : came'[f] <= rtpPackets' /\ Counts(f)' = Counts(f)
             /\ Cardinality(Arrived') <= rtpPackets'
             /\ InOrder' => InOrder /\ \A j \in Observed : j < i
<1>1. PICK i \in Ids : /\ pkt' = i /\ copies' = [copies EXCEPT ![i] = @ + 1]
                       /\ came' = [came EXCEPT ![Stream[i].frame] = @ + 1]
                       /\ late' = IF copies[i] = 0 /\ i < Max(Arrived \cup {0}) THEN late + 1 ELSE late
  BY DEF RtpPacket, NoteArrival
<1>2. /\ pkt = 0 /\ Arrived = Observed /\ rtpPackets' = rtpPackets + 1 /\ wire' = wire
      /\ \A j \in Ids : j # 0 /\ j \in Int
      /\ copies \in [Ids -> Nat] /\ rtpPackets \in Nat /\ late \in Nat
  <2>1. pkt = 0
    BY DEF CountsOK, RtpPacket
  <2> QED
    BY <2>1, ArrivedBefore DEF CountsOK, RtpPacket, Ids
<1>3. /\ came \in [Frames -> Nat] /\ \A f \in Frames : came[f] <= rtpPackets
      /\ Cardinality(Arrived) <= rtpPackets
  BY DEF RunsOK
<1>4. Observed' = Observed /\ Arrived' = Arrived \cup {i}
  <2>1. \A j \in Ids : copies'[j] = IF j = i THEN copies[j] + 1 ELSE copies[j]
    BY <1>1, <1>2
  <2>2. \A j \in Ids : copies[j] \in Nat
    BY <1>2
  <2>3. \A j \in Ids : copies'[j] > (IF j = i THEN 1 ELSE 0) <=> copies[j] > 0
    BY <2>1, <2>2
  <2>4. \A j \in Ids : copies'[j] > 0 <=> j = i \/ copies[j] > 0
    BY <2>1, <2>2
  <2>5. Observed' = {j \in Ids : copies'[j] > (IF j = i THEN 1 ELSE 0)} /\ Arrived' = {j \in Ids : copies'[j] > 0}
    BY <1>1 DEF Observed, Arrived
  <2>6. Observed = {j \in Ids : copies[j] > 0} /\ Arrived = {j \in Ids : copies[j] > 0}
    BY <1>2 DEF Arrived
  <2> QED
    BY <2>3, <2>4, <2>5, <2>6
<1>5. /\ came' \in [Frames -> Nat] /\ \A f \in Frames : came'[f] <= rtpPackets'
      /\ \A f \in Frames : Counts(f)' = Counts(f)
  <2>1. Stream[i].frame \in Frames
    BY DEF Frames
  <2>2. \A f \in Frames : came'[f] = IF f = Stream[i].frame THEN came[f] + 1 ELSE came[f]
    BY <1>1, <1>3, <2>1
  <2>3. came' \in [Frames -> Nat]
    BY <1>1, <1>3, <2>1
  <2>4. \A f \in Frames : came'[f] <= rtpPackets'
    BY <1>2, <1>3, <2>2
  <2>5. \A f \in Frames : Counts(f)' = Counts(f)
    BY <1>1, <1>2, <1>3, <2>2 DEF Counts
  <2> QED
    BY <2>3, <2>4, <2>5
<1>6. Arrived \subseteq Ids /\ IsFiniteSet(Arrived) /\ Cardinality(Arrived) \in Nat
  BY PacketSet DEF Arrived
<1>7. Cardinality(Arrived') = Cardinality(Arrived) + (IF i \in Arrived THEN 0 ELSE 1)
  BY <1>4, <1>6, OneMore
<1>8. Cardinality(Arrived') <= rtpPackets'
  BY <1>2, <1>3, <1>6, <1>7
<1>9. ASSUME InOrder' PROVE InOrder /\ \A j \in Arrived : j < i
  <2>1. late' = 0 /\ rtpPackets + 1 = Cardinality(Arrived')
    BY <1>2, <1>9 DEF InOrder
  <2>2. i \notin Arrived /\ rtpPackets = Cardinality(Arrived)
    BY <1>2, <1>3, <1>6, <1>7, <2>1
  <2>3. copies[i] = 0
    BY <1>2, <2>2 DEF Arrived
  <2>4. late = 0 /\ ~(i < Max(Arrived \cup {0}))
    BY <1>1, <1>2, <2>1, <2>3
  <2>5. \A j \in Arrived : j <= Max(Arrived \cup {0}) /\ Max(Arrived \cup {0}) \in Int
    <3> DEFINE N == Len(Stream)
               A == Arrived \cup {0}
    <3>1. N \in Nat /\ A \subseteq 0 .. N /\ A # {}
      BY <1>6, DiagnosticsAssumption DEF Ids
    <3> HIDE DEF A, N
    <3>2. Max(A) \in A /\ \A y \in A : y <= Max(A)
      BY <3>1, HighestPacket
    <3>3. Max(A) \in Int
      <4> DEFINE m == Max(A)
      <4>1. m \in A
        BY <3>2
      <4> HIDE DEF m
      <4>2. m \in Int
        BY <3>1, <4>1
      <4> QED
        BY <4>2 DEF m
    <3> QED
      BY <3>2, <3>3 DEF A
  <2>6. ASSUME NEW j \in Arrived PROVE j < i
    <3>1. j \in Int /\ i \in Int /\ j # i
      BY <1>2, <1>6, <2>2
    <3> QED
      BY <2>4, <2>5, <3>1
  <2> QED
    BY <2>2, <2>4, <2>6 DEF InOrder
<1> QED
  BY <1>1, <1>2, <1>4, <1>5, <1>8, <1>9

\* The runs stay what they are while a packet is on its way.
LEMMA RunsArrives ==
    ASSUME CountsOK, RunsOK, RtpPacket
    PROVE  RunsOK'
<1>1. PICK i \in Ids :
             /\ pkt = 0 /\ pkt' = i /\ wire' = wire /\ Observed' = Observed
             /\ came' \in [Frames -> Nat] /\ \A f \in Frames : came'[f] <= rtpPackets' /\ Counts(f)' = Counts(f)
             /\ Cardinality(Arrived') <= rtpPackets'
             /\ InOrder' => InOrder /\ \A j \in Observed : j < i
  BY ArrivalIs
<1>2. (\E j \in Observed : Stream[j].frame = wire.runs.timestamp) => wire.runs.timestamp \in Frames
  BY DEF Observed, Frames
<1>3. RunsBounded'
  BY <1>1, <1>2 DEF RunsOK, RunsBounded
<1>4. InOrder' => RunsComplete'
  BY <1>1, <1>2 DEF RunsOK, RunsBounded, RunsComplete
<1>5. /\ wire'.runs = [k \in RunFields |-> wire'.runs[k]] /\ wire'.runs.packets \in Nat /\ wire'.runs.max \in Nat
      /\ \A f \in Frames : Counts(f)' \in Nat /\ (Counts(f)' > 0 => \E j \in Observed' : Stream[j].frame = f)
  BY <1>1 DEF RunsOK
<1> QED
  BY <1>1, <1>3, <1>4, <1>5 DEF RunsOK

\* The packet on its way reaches the tracker.
LEMMA ReachesTracker ==
    ASSUME CountsOK, RunsOK, WirePacket
    PROVE  \E i \in Ids :
             /\ pkt = i /\ pkt' = 0 /\ UNCHANGED <<rtpPackets, copies, came, late>>
             /\ Observed' = Observed \cup {i}
             /\ Stream[i].frame \in Frames
             /\ wire'.runs = ObserveRun(wire.runs, Stream[i].frame, Stream[i].mark,
                                        "IDR" \in Classify(Stream[i].payload).types)
             /\ \A f \in Frames : /\ Counts(f) \in Nat
                                  /\ Counts(f)' = Counts(f) + (IF f = Stream[i].frame THEN 1 ELSE 0)
<1> DEFINE i == pkt
           p == Stream[pkt]
           idr == "IDR" \in Classify(p.payload).types
           u == ObserveRun(wire.runs, p.frame, p.mark, idr)
<1>1. i \in Ids /\ i # 0 /\ copies[i] > 0 /\ copies \in [Ids -> Nat]
  BY DEF CountsOK, WirePacket
<1>2. pkt' = 0 /\ UNCHANGED <<rtpPackets, copies, came, late>>
  BY DEF WirePacket, ghostVars
<1>3. wire'.runs = u
  <2>1. wire = [k \in WireFields |-> wire[k]]
    BY DEF CountsOK
  <2>2. PICK a, b, c, d, e, g :
           wire' = [wire EXCEPT !.byClass = a, !.types = b, !.malformed = c, !.fuStarts = d, !.fuEnds = e,
                                !.seq = g, !.runs = u]
    BY DEF WirePacket
  <2> HIDE DEF u
  <2> QED
    BY <2>1, <2>2 DEF WireFields
<1>4. Observed' = Observed \cup {i}
  <2>1. Observed' = {j \in Ids : copies[j] > 0}
    <3>1. \A j \in Ids : j # 0
      BY DEF Ids
    <3> QED
      BY <1>1, <1>2, <3>1 DEF Observed
  <2> QED
    BY <1>1, <2>1 DEF Observed
<1>5. p.frame \in Frames
  BY <1>1 DEF Frames
<1>6. ASSUME NEW f \in Frames
      PROVE  Counts(f) \in Nat /\ Counts(f)' = Counts(f) + (IF f = p.frame THEN 1 ELSE 0)
  <2>1. came[f] \in Nat /\ Counts(f) \in Nat
    BY DEF RunsOK
  <2>2. Counts(f) = came[f] - (IF p.frame = f THEN 1 ELSE 0) /\ Counts(f)' = came[f] - 0
    BY <1>1, <1>2 DEF Counts
  <2> HIDE DEF p
  <2> QED
    BY <2>1, <2>2
<1> HIDE DEF u
<1> QED
  BY <1>1, <1>2, <1>3, <1>4, <1>5, <1>6 DEF u

\* The tracker looks at it.
LEMMA RunsCounted ==
    ASSUME CountsOK, RunsOK, WirePacket
    PROVE  RunsOK'
<1>1. PICK i \in Ids :
             /\ pkt = i /\ pkt' = 0 /\ UNCHANGED <<rtpPackets, copies, came, late>>
             /\ Observed' = Observed \cup {i}
             /\ Stream[i].frame \in Frames
             /\ wire'.runs = ObserveRun(wire.runs, Stream[i].frame, Stream[i].mark,
                                        "IDR" \in Classify(Stream[i].payload).types)
             /\ \A f \in Frames : /\ Counts(f) \in Nat
                                  /\ Counts(f)' = Counts(f) + (IF f = Stream[i].frame THEN 1 ELSE 0)
  BY ReachesTracker
<1> DEFINE r == wire.runs
           u == wire'.runs
           fr == Stream[i].frame
           ts == r.timestamp
           S == Observed
<1>2. /\ r = [k \in RunFields |-> r[k]] /\ r.packets \in Nat /\ r.max \in Nat
      /\ came \in [Frames -> Nat] /\ \A f \in Frames : came[f] <= rtpPackets
      /\ Cardinality(Arrived) <= rtpPackets
      /\ \A f \in Frames : Counts(f) > 0 => \E j \in S : Stream[j].frame = f
      /\ RunsBounded /\ (InOrder => RunsComplete)
  BY DEF RunsOK
<1>3. /\ u = [k \in RunFields |-> u[k]] /\ u.started /\ u.timestamp = fr
      /\ r.started /\ fr # ts => u.packets = 0 + 1 /\ u.max = IF r.packets > r.max THEN r.packets ELSE r.max
      /\ ~(r.started /\ fr # ts) => u.packets = r.packets + 1 /\ u.max = r.max
  BY <1>1, <1>2, RunFieldsAfter
<1>4. u.packets \in Nat /\ u.max \in Nat
  <2> HIDE DEF u, r
  <2> QED
    BY <1>2, <1>3
<1>5. \A f \in Frames : Counts(f)' \in Nat /\ (Counts(f)' > 0 => \E j \in S \cup {i} : Stream[j].frame = f)
  BY <1>1, <1>2
<1>6. S # {} => ts \in Frames
  BY <1>2 DEF RunsBounded, Observed, Frames
<1>7. S = {} => ~r.started /\ r.packets = 0 /\ r.max = 0 /\ \A f \in Frames : Counts(f) = 0
  BY <1>1, <1>2 DEF RunsBounded
<1>8. S # {} => /\ r.started /\ r.packets <= Counts(ts) /\ \E f \in Frames : r.max <= Counts(f)
                /\ \E j \in S : Stream[j].frame = ts
  BY <1>2 DEF RunsBounded
<1> DEFINE new(f) == Counts(f)'
<1>9. \A f \in Frames : Counts(f) \in Nat /\ new(f) = Counts(f) + (IF f = fr THEN 1 ELSE 0)
  BY <1>1
<1> HIDE DEF u, r, S, new, fr, ts
<1>10. u.packets <= new(fr) /\ \E f \in Frames : u.max <= new(f)
  <2>0. fr \in Frames
    BY <1>1 DEF fr
  <2>1. CASE S = {}
    BY <1>3, <1>7, <1>9, <2>0, <2>1
  <2>2. CASE S # {} /\ fr = ts
    BY <1>2, <1>3, <1>8, <1>9, <2>0, <2>2
  <2>3. CASE S # {} /\ fr # ts
    BY <1>2, <1>3, <1>6, <1>8, <1>9, <2>0, <2>3
  <2> QED
    BY <2>1, <2>2, <2>3
<1>11. InOrder => /\ \A j \in S \cup {i} : Stream[j].frame <= fr
                  /\ u.packets = new(fr)
                  /\ \A f \in Frames : f # fr => new(f) <= u.max
  <2> SUFFICES ASSUME InOrder
               PROVE  /\ \A j \in S \cup {i} : Stream[j].frame <= fr
                      /\ u.packets = new(fr)
                      /\ \A f \in Frames : f # fr => new(f) <= u.max
    OBVIOUS
  <2>0. fr \in Frames
    BY <1>1 DEF fr
  <2>1. \A j \in S \cup {i} : Stream[j].frame <= fr /\ Stream[j].frame \in Int
    <3>1. \A j \in S : j < i
      BY <1>1, <1>2 DEF RunsComplete, S, Ids
    <3>2. S \cup {i} \subseteq Ids /\ \A j \in Ids : j \in Int
      BY DEF S, Observed, Ids
    <3>3. \A j \in S \cup {i} : j <= i
      BY <3>1, <3>2
    <3>4. \A j \in Ids : Stream[j].frame \in Int /\ (j <= i => Stream[j].frame <= Stream[i].frame)
      BY FramesInOrder
    <3> QED
      BY <3>2, <3>3, <3>4 DEF fr
  <2>2. S # {} => /\ \A j \in S : Stream[j].frame <= ts
                  /\ r.packets = Counts(ts)
                  /\ \A f \in Frames : f # ts => Counts(f) <= r.max
    BY <1>2 DEF RunsComplete, S, r, ts
  <2>3. CASE S = {}
    BY <1>3, <1>7, <1>9, <2>0, <2>1, <2>3
  <2>4. CASE S # {} /\ fr = ts
    BY <1>2, <1>3, <1>8, <1>9, <2>0, <2>1, <2>2, <2>4
  <2>5. CASE S # {} /\ fr # ts
    <3>1. Counts(fr) = 0
      <4> SUFFICES ASSUME Counts(fr) > 0 PROVE FALSE
        BY <1>9, <2>0
      <4>1. PICK j \in S : Stream[j].frame = fr
        BY <1>2, <2>0
      <4>2. PICK k \in S : Stream[k].frame = ts
        BY <1>8, <2>5
      <4>3. fr <= ts /\ ts <= fr /\ fr \in Int /\ ts \in Int
        BY <2>1, <2>2, <2>5, <4>1, <4>2
      <4> QED
        BY <2>5, <4>3
    <3>2. u.packets = new(fr)
      BY <1>3, <1>8, <1>9, <2>0, <2>5, <3>1
    <3>3. ASSUME NEW f \in Frames, f # fr PROVE new(f) <= u.max
      <4>1. new(f) = Counts(f) /\ Counts(f) \in Nat
        BY <1>9, <3>3
      <4>2. u.max = IF r.packets > r.max THEN r.packets ELSE r.max
        BY <1>3, <1>8, <2>5
      <4>3. Counts(f) = r.packets \/ Counts(f) <= r.max
        BY <2>2, <2>5
      <4> QED
        BY <1>2, <4>1, <4>2, <4>3
    <3> QED
      BY <2>1, <3>2, <3>3
  <2> QED
    BY <2>3, <2>4, <2>5
<1>12. RunsBounded'
  BY <1>1, <1>3, <1>10 DEF RunsBounded, new, u, fr, S
<1>13. InOrder' => RunsComplete'
  <2>1. InOrder' <=> InOrder
    BY <1>1 DEF InOrder, Arrived
  <2> QED
    BY <1>1, <1>3, <1>11, <2>1 DEF RunsComplete, new, u, fr, S
<1>14. Arrived' = Arrived
  BY <1>1 DEF Arrived
<1> QED
  BY <1>1, <1>2, <1>3, <1>4, <1>5, <1>12, <1>13, <1>14 DEF RunsOK, u, S

\* What is unchanged stays true.
LEMMA RunsElsewhere ==
    ASSUME RunsOK, Elsewhere, UNCHANGED came
    PROVE  RunsOK'
<1>1. Observed' = Observed /\ Arrived' = Arrived /\ InOrder' = InOrder
  BY DEF Elsewhere, Observed, Arrived, InOrder
<1>2. \A f : Counts(f)' = Counts(f)
  BY DEF Elsewhere, Counts
<1>3. RunsBounded'
  BY <1>1, <1>2 DEF RunsOK, RunsBounded, Elsewhere
<1>4. InOrder => RunsComplete'
  BY <1>1, <1>2 DEF RunsOK, RunsComplete, Elsewhere
<1> QED
  BY <1>1, <1>2, <1>3, <1>4 DEF RunsOK, Elsewhere

\* What came changes as a packet does.
LEMMA CameElsewhere == [Next]_vars => RtpPacket \/ UNCHANGED came
<1> SUFFICES ASSUME [Next]_vars PROVE RtpPacket \/ UNCHANGED came
  OBVIOUS
<1> USE DEF ghostVars
<1>1. CASE TrackStarted \/ TrackRejected \/ TrackAccepted
  BY <1>1 DEF TrackStarted, TrackRejected, TrackAccepted
<1>2. CASE WirePacket \/ SampleAssembled \/ PushDone \/ NaluSeen \/ FrameAssembled \/ EndTrack
  BY <1>2 DEF WirePacket, SampleAssembled, PushDone, NaluSeen, FrameAssembled, EndTrack
<1>3. CASE ConnectionLost \/ AnswerRejected \/ FiveSecondsPass
  BY <1>3 DEF ConnectionLost, AnswerRejected, FiveSecondsPass
<1>4. CASE CaptureBegin \/ CaptureGot \/ CaptureFailed \/ SnapshotRead \/ CaptureReturns
  BY <1>4 DEF CaptureBegin, CaptureGot, CaptureFailed, SnapshotRead, CaptureReturns
<1>5. CASE UNCHANGED vars
  BY <1>5 DEF vars
<1> QED
  BY <1>1, <1>2, <1>3, <1>4, <1>5 DEF Next

\* RunsOK is an invariant of the capture.
THEOREM RunsCorrect == Spec => []RunsOK
<1>1. CountsOK /\ RunsOK /\ [Next]_vars => RunsOK'
  <2> SUFFICES ASSUME CountsOK, RunsOK, [Next]_vars PROVE RunsOK'
    OBVIOUS
  <2>1. RtpPacket \/ WirePacket \/ (Elsewhere /\ UNCHANGED came)
    <3>1. RtpPacket \/ WirePacket \/ Elsewhere
      BY OtherSteps
    <3>2. RtpPacket \/ UNCHANGED came
      BY CameElsewhere
    <3>3. WirePacket => UNCHANGED came
      BY DEF WirePacket, ghostVars
    <3> QED
      BY <3>1, <3>2, <3>3
  <2> QED
    BY <2>1, RunsArrives, RunsCounted, RunsElsewhere
<1>2. Spec => []CountsOK
  BY TrackerCorrect, PTL
<1> QED
  BY <1>1, <1>2, RunsInit, PTL DEF Spec

\* The frames that a packet of a keyframe among ps is of.
Keyframes(ps) == {Stream[i].frame : i \in ps \cap IdrPackets}

\* As long as nothing came late or twice, the keyframes come one after the other.
KeyRunsComplete ==
    LET r == wire.runs IN
    /\ r.timestamp \in Keyframes(Observed) => r.hasIDR
    /\ \A f \in Keyframes(Observed) : f # r.timestamp => Counts(f) <= r.maxIDR
    /\ r.maxIDR = 0 \/ \E f \in Keyframes(Observed) : f # r.timestamp /\ r.maxIDR <= Counts(f)

\* No run of a keyframe was longer than what came of it.
KeyRunsOK ==
    LET r == wire.runs IN
    /\ r.maxIDR \in Nat /\ r.hasIDR \in BOOLEAN
    /\ r.hasIDR => r.timestamp \in Keyframes(Observed)
    /\ r.maxIDR = 0 \/ \E f \in Keyframes(Observed) : r.maxIDR <= Counts(f)
    /\ InOrder => KeyRunsComplete

\* What observe does to what is known of keyframes.
LEMMA KeyFieldsAfter ==
    ASSUME NEW r, r = [k \in RunFields |-> r[k]], NEW fr, NEW mark, NEW idr, r.hasIDR \in BOOLEAN,
           NEW u, u = ObserveRun(r, fr, mark, idr)
    PROVE  /\ u.timestamp = fr
           /\ u.hasIDR \in BOOLEAN
           /\ r.started /\ fr # r.timestamp =>
                /\ u.hasIDR <=> idr
                /\ u.maxIDR = IF r.hasIDR /\ r.packets > r.maxIDR THEN r.packets ELSE r.maxIDR
           /\ ~(r.started /\ fr # r.timestamp) => (u.hasIDR <=> r.hasIDR \/ idr) /\ u.maxIDR = r.maxIDR
<1> DEFINE e == EndRun(r)
<1>1. /\ e = [k \in RunFields |-> e[k]] /\ e.hasIDR = FALSE
      /\ e.maxIDR = IF r.hasIDR /\ r.packets > r.maxIDR THEN r.packets ELSE r.maxIDR
  BY DEF EndRun, RunFields
<1> HIDE DEF e
<1>2. ASSUME NEW q, q = [k \in RunFields |-> q[k]], q.hasIDR \in BOOLEAN, NEW v,
             v = [q EXCEPT !.started   = TRUE,
                           !.timestamp = fr,
                           !.packets   = @ + 1,
                           !.hasIDR    = @ \/ idr,
                           !.marked    = @ \/ mark,
                           !.markers   = IF mark THEN @ + 1 ELSE @]
      PROVE  /\ v.timestamp = fr /\ v.maxIDR = q.maxIDR
             /\ v.hasIDR \in BOOLEAN /\ (v.hasIDR <=> q.hasIDR \/ idr)
  BY <1>2 DEF RunFields
<1>3. CASE r.started /\ fr # r.timestamp
  <2>1. u = [e EXCEPT !.started   = TRUE,
                      !.timestamp = fr,
                      !.packets   = @ + 1,
                      !.hasIDR    = @ \/ idr,
                      !.marked    = @ \/ mark,
                      !.markers   = IF mark THEN @ + 1 ELSE @]
    BY <1>3 DEF ObserveRun, e
  <2>2. /\ u.timestamp = fr /\ u.maxIDR = e.maxIDR
        /\ u.hasIDR \in BOOLEAN /\ (u.hasIDR <=> e.hasIDR \/ idr)
    BY <1>1, <1>2, <2>1
  <2> QED
    BY <1>1, <1>3, <2>2
<1>4. CASE ~(r.started /\ fr # r.timestamp)
  <2>1. u = [r EXCEPT !.started   = TRUE,
                      !.timestamp = fr,
                      !.packets   = @ + 1,
                      !.hasIDR    = @ \/ idr,
                      !.marked    = @ \/ mark,
                      !.markers   = IF mark THEN @ + 1 ELSE @]
    BY <1>4 DEF ObserveRun
  <2> QED
    BY <1>2, <1>4, <2>1
<1> QED
  BY <1>3, <1>4

\* No packet came.
LEMMA KeyRunsInit == Init => KeyRunsOK
<1> SUFFICES ASSUME Init PROVE KeyRunsOK
  OBVIOUS
<1>1. pkt = 0 /\ copies = [i \in Ids |-> 0] /\ wire = NewWire
  BY DEF Init
<1>2. Keyframes(Observed) = {}
  BY <1>1 DEF Observed, Keyframes
<1>3. wire.runs.maxIDR = 0 /\ wire.runs.hasIDR \in BOOLEAN /\ ~wire.runs.hasIDR
  BY <1>1 DEF NewWire, NewRuns
<1>4. KeyRunsComplete
  BY <1>2, <1>3 DEF KeyRunsComplete
<1> QED
  BY <1>2, <1>3, <1>4 DEF KeyRunsOK

\* A packet on its way has not been looked at.
LEMMA KeyRunsArrives ==
    ASSUME CountsOK, RunsOK, KeyRunsOK, RtpPacket
    PROVE  KeyRunsOK'
<1>1. /\ wire' = wire /\ Observed' = Observed
      /\ \A f \in Frames : Counts(f)' = Counts(f)
      /\ InOrder' => InOrder
  BY ArrivalIs
<1>2. Keyframes(Observed) \subseteq Frames /\ Keyframes(Observed)' = Keyframes(Observed)
  BY <1>1 DEF Keyframes, Observed, Frames
<1>3. InOrder' => KeyRunsComplete'
  BY <1>1, <1>2 DEF KeyRunsOK, KeyRunsComplete
<1> QED
  BY <1>1, <1>2, <1>3 DEF KeyRunsOK

\* The tracker looks at a packet: it may be one of a keyframe, and may end the run of one.
LEMMA KeyRunsCounted ==
    ASSUME CountsOK, RunsOK, KeyRunsOK, WirePacket
    PROVE  KeyRunsOK'
<1>1. PICK i \in Ids :
             /\ pkt = i /\ pkt' = 0 /\ UNCHANGED <<rtpPackets, copies, came, late>>
             /\ Observed' = Observed \cup {i}
             /\ Stream[i].frame \in Frames
             /\ wire'.runs = ObserveRun(wire.runs, Stream[i].frame, Stream[i].mark,
                                        "IDR" \in Classify(Stream[i].payload).types)
             /\ \A f \in Frames : /\ Counts(f) \in Nat
                                  /\ Counts(f)' = Counts(f) + (IF f = Stream[i].frame THEN 1 ELSE 0)
  BY ReachesTracker
<1> DEFINE r == wire.runs
           u == wire'.runs
           fr == Stream[i].frame
           ts == r.timestamp
           S == Observed
           K == Keyframes(Observed)
           idr == i \in IdrPackets
<1>2. idr <=> "IDR" \in Classify(Stream[i].payload).types
  BY DEF IdrPackets
<1>3. /\ r = [k \in RunFields |-> r[k]] /\ r.packets \in Nat
      /\ S = {} => ~r.started
      /\ S # {} => r.started /\ r.packets <= Counts(ts) /\ \E j \in S : Stream[j].frame = ts
      /\ S # {} /\ InOrder => (\A j \in S : Stream[j].frame <= ts) /\ r.packets = Counts(ts)
      /\ InOrder => \A j \in S : j < i
  <2>1. /\ r = [k \in RunFields |-> r[k]] /\ r.packets \in Nat
        /\ RunsBounded /\ (InOrder => RunsComplete)
    BY DEF RunsOK
  <2>2. /\ S = {} => ~r.started
        /\ S # {} => r.started /\ r.packets <= Counts(ts) /\ \E j \in S : Stream[j].frame = ts
    BY <2>1 DEF RunsBounded
  <2>3. RunsComplete => /\ S # {} => (\A j \in S : Stream[j].frame <= ts) /\ r.packets = Counts(ts)
                        /\ pkt # 0 => \A j \in S : j < pkt
    BY DEF RunsComplete
  <2>4. pkt = i /\ pkt # 0
    BY <1>1 DEF Ids
  <2> HIDE DEF r, S, ts
  <2> QED
    BY <2>1, <2>2, <2>3, <2>4
<1>4. /\ r.maxIDR \in Nat /\ r.hasIDR \in BOOLEAN
      /\ r.hasIDR => ts \in K
      /\ r.maxIDR = 0 \/ \E f \in K : r.maxIDR <= Counts(f)
      /\ InOrder => /\ ts \in K => r.hasIDR
                    /\ \A f \in K : f # ts => Counts(f) <= r.maxIDR
                    /\ r.maxIDR = 0 \/ \E f \in K : f # ts /\ r.maxIDR <= Counts(f)
  BY DEF KeyRunsOK, KeyRunsComplete
<1>5. /\ u.timestamp = fr /\ u.hasIDR \in BOOLEAN
      /\ r.started /\ fr # ts =>
           /\ u.hasIDR <=> idr
           /\ u.maxIDR = IF r.hasIDR /\ r.packets > r.maxIDR THEN r.packets ELSE r.maxIDR
      /\ ~(r.started /\ fr # ts) => (u.hasIDR <=> r.hasIDR \/ idr) /\ u.maxIDR = r.maxIDR
  <2> DEFINE q == "IDR" \in Classify(Stream[i].payload).types
  <2>1. u = ObserveRun(r, fr, Stream[i].mark, q)
    BY <1>1
  <2> HIDE DEF u, r, fr, idr, q
  <2>2. /\ u.timestamp = fr /\ u.hasIDR \in BOOLEAN
        /\ r.started /\ fr # r.timestamp =>
             /\ u.hasIDR <=> q
             /\ u.maxIDR = IF r.hasIDR /\ r.packets > r.maxIDR THEN r.packets ELSE r.maxIDR
        /\ ~(r.started /\ fr # r.timestamp) => (u.hasIDR <=> r.hasIDR \/ q) /\ u.maxIDR = r.maxIDR
    BY <1>3, <1>4, <2>1, KeyFieldsAfter
  <2> QED
    BY <1>2, <2>2 DEF q
<1>6. K \subseteq Frames /\ (S = {} => K = {}) /\ \A f \in K : \E j \in S : Stream[j].frame = f
  BY DEF Keyframes, Observed, Frames
<1> DEFINE L == Keyframes(Observed)'
           new(f) == Counts(f)'
<1>7. L = IF idr THEN K \cup {fr} ELSE K
  BY <1>1 DEF Keyframes
<1>8. \A f \in Frames : Counts(f) \in Nat /\ new(f) = Counts(f) + (IF f = fr THEN 1 ELSE 0)
  BY <1>1
<1>9. S # {} /\ InOrder /\ fr # ts => \A j \in S : Stream[j].frame # fr
  <2> SUFFICES ASSUME S # {}, InOrder, fr # ts, NEW j \in S, Stream[j].frame = fr PROVE FALSE
    OBVIOUS
  <2>1. PICK k \in S : Stream[k].frame = ts
    BY <1>3
  <2>2. k \in Ids /\ k < i /\ j \in Ids /\ k \in Int /\ i \in Int
    BY <1>3 DEF Observed, Ids
  <2>3. /\ Stream[k].frame \in Int /\ Stream[k].frame <= Stream[i].frame
        /\ Stream[j].frame \in Int /\ Stream[j].frame <= ts
    BY <1>3, <2>2, FramesInOrder
  <2> QED
    BY <2>1, <2>3
<1> HIDE DEF r, u, S, K, L, idr, new, fr, ts
<1>10. u.maxIDR \in Nat /\ u.hasIDR \in BOOLEAN
  BY <1>3, <1>4, <1>5
<1>11. u.hasIDR => fr \in L
  <2>1. CASE r.started /\ fr # ts
    BY <1>5, <1>7, <2>1
  <2>2. CASE ~(r.started /\ fr # ts) /\ S # {}
    BY <1>3, <1>4, <1>5, <1>7, <2>2
  <2>3. CASE S = {}
    BY <1>3, <1>4, <1>5, <1>6, <1>7, <2>3
  <2> QED
    BY <2>1, <2>2, <2>3
<1>12. \A f \in K : f \in L /\ Counts(f) <= new(f) /\ Counts(f) \in Nat /\ new(f) \in Nat
  BY <1>6, <1>7, <1>8
<1>13. u.maxIDR = r.maxIDR \/ (ts \in K /\ u.maxIDR = r.packets /\ fr # ts /\ r.started)
  BY <1>4, <1>5
<1>14. r.packets <= Counts(ts) \/ K = {}
  BY <1>3, <1>6
<1>15. u.maxIDR = 0 \/ \E f \in L : u.maxIDR <= new(f)
  <2>1. ASSUME NEW f \in K, NEW x \in Nat, x <= Counts(f) PROVE f \in L /\ x <= new(f)
    BY <1>12, <2>1
  <2>2. CASE u.maxIDR = r.maxIDR
    BY <1>4, <2>1, <2>2
  <2>3. CASE ts \in K /\ u.maxIDR = r.packets
    BY <1>3, <1>14, <2>1, <2>3
  <2> QED
    BY <1>13, <2>2, <2>3
<1>16. ASSUME InOrder
       PROVE  /\ fr \in L => u.hasIDR
              /\ \A f \in L : f # fr => new(f) <= u.maxIDR
              /\ u.maxIDR = 0 \/ \E f \in L : f # fr /\ u.maxIDR <= new(f)
  <2>1. CASE S = {}
    <3>1. ~r.started /\ K = {} /\ ~r.hasIDR /\ r.maxIDR = 0
      BY <1>3, <1>4, <1>6, <2>1
    <3> QED
      BY <1>5, <1>7, <3>1
  <2>2. CASE S # {} /\ fr = ts
    <3>1. (u.hasIDR <=> r.hasIDR \/ idr) /\ u.maxIDR = r.maxIDR
      BY <1>5, <2>2
    <3>2. fr \in L => u.hasIDR
      BY <1>4, <1>7, <1>16, <2>2, <3>1
    <3>3. \A f \in K : f # fr => new(f) = Counts(f)
      BY <1>6, <1>8
    <3>4. \A f \in L : f # fr => f \in K
      BY <1>7
    <3>5. \A f \in L : f # fr => new(f) <= u.maxIDR
      BY <1>4, <1>16, <2>2, <3>1, <3>3, <3>4
    <3>6. u.maxIDR = 0 \/ \E f \in L : f # fr /\ u.maxIDR <= new(f)
      BY <1>4, <1>12, <1>16, <2>2, <3>1, <3>3
    <3> QED
      BY <3>2, <3>5, <3>6
  <2>3. CASE S # {} /\ fr # ts
    <3>1. r.started /\ r.packets = Counts(ts) /\ fr \notin K
      BY <1>3, <1>6, <1>9, <1>16, <2>3
    <3>2. /\ u.hasIDR <=> idr
          /\ u.maxIDR = IF r.hasIDR /\ r.packets > r.maxIDR THEN r.packets ELSE r.maxIDR
      BY <1>5, <2>3, <3>1
    <3>3. fr \in L => u.hasIDR
      BY <1>7, <3>1, <3>2
    <3>4. \A f \in L : f # fr => f \in K
      BY <1>7
    <3>5. \A f \in K : f # fr /\ new(f) = Counts(f) /\ Counts(f) \in Nat
      BY <1>6, <1>8, <3>1
    <3>6. \A f \in K : Counts(f) <= u.maxIDR
      <4> TAKE f \in K
      <4>1. CASE f = ts
        BY <1>3, <1>4, <1>16, <3>1, <3>2, <4>1
      <4>2. CASE f # ts
        BY <1>3, <1>4, <1>16, <3>2, <3>5, <4>2
      <4> QED
        BY <4>1, <4>2
    <3>7. \A f \in L : f # fr => new(f) <= u.maxIDR
      BY <3>4, <3>5, <3>6
    <3>8. u.maxIDR = 0 \/ \E f \in L : f # fr /\ u.maxIDR <= new(f)
      <4>1. CASE u.maxIDR = r.maxIDR
        BY <1>4, <1>12, <3>5, <4>1
      <4>2. CASE ts \in K /\ u.maxIDR = r.packets
        <5>1. ts \in L /\ ts # fr /\ u.maxIDR <= new(ts)
          BY <1>3, <1>12, <3>1, <3>5, <4>2
        <5> QED
          BY <5>1
      <4> QED
        BY <1>13, <4>1, <4>2
    <3> QED
      BY <3>3, <3>7, <3>8
  <2> QED
    BY <2>1, <2>2, <2>3
<1>17. InOrder' => KeyRunsComplete'
  <2>1. InOrder' <=> InOrder
    BY <1>1 DEF InOrder, Arrived
  <2> QED
    BY <1>5, <1>16, <2>1 DEF KeyRunsComplete, u, L, new
<1> QED
  BY <1>5, <1>10, <1>11, <1>15, <1>17 DEF KeyRunsOK, u, L, new

\* KeyRunsOK is an invariant of the capture.
THEOREM KeyRunsCorrect == Spec => []KeyRunsOK
<1>1. CountsOK /\ RunsOK /\ KeyRunsOK /\ [Next]_vars => KeyRunsOK'
  <2> SUFFICES ASSUME CountsOK, RunsOK, KeyRunsOK, [Next]_vars PROVE KeyRunsOK'
    OBVIOUS
  <2>1. RtpPacket \/ WirePacket \/ (Elsewhere /\ UNCHANGED came)
    <3>1. RtpPacket \/ WirePacket \/ Elsewhere
      BY OtherSteps
    <3>2. RtpPacket \/ UNCHANGED came
      BY CameElsewhere
    <3>3. WirePacket => UNCHANGED came
      BY DEF WirePacket, ghostVars
    <3> QED
      BY <3>1, <3>2, <3>3
  <2>2. ASSUME Elsewhere, UNCHANGED came PROVE KeyRunsOK'
    <3>1. Observed' = Observed /\ InOrder' = InOrder /\ wire' = wire
      BY <2>2 DEF Elsewhere, Observed, Arrived, InOrder
    <3>2. \A f : Counts(f)' = Counts(f)
      BY <2>2 DEF Elsewhere, Counts
    <3>3. Keyframes(Observed)' = Keyframes(Observed)
      BY <3>1 DEF Keyframes
    <3>4. InOrder => KeyRunsComplete'
      BY <3>1, <3>2, <3>3 DEF KeyRunsOK, KeyRunsComplete
    <3> QED
      BY <3>1, <3>2, <3>3, <3>4 DEF KeyRunsOK
  <2> QED
    BY <2>1, <2>2, KeyRunsArrives, KeyRunsCounted
<1>2. Spec => []CountsOK
  BY TrackerCorrect, PTL
<1> QED
  BY <1>1, <1>2, RunsCorrect, KeyRunsInit, PTL DEF Spec

\* The largest of what came of the frames fs.
LEMMA LargestOf ==
    ASSUME NEW fs, fs \subseteq Frames, NEW n \in Nat, \A f \in Frames : came[f] \in Nat /\ came[f] <= n
    PROVE  LET m == Max({0} \cup {came[f] : f \in fs})
           IN  /\ m \in Nat /\ \A f \in fs : came[f] <= m
               /\ m = 0 \/ \E f \in fs : m = came[f]
<1> DEFINE T == {0} \cup {came[f] : f \in fs}
<1>1. T \subseteq 0 .. n /\ T # {}
  OBVIOUS
<1>2. Max(T) \in T /\ \A y \in T : y <= Max(T)
  <2> HIDE DEF T
  <2> QED
    BY <1>1, HighestPacket
<1> DEFINE m == Max(T)
<1>3. m \in T /\ \A y \in T : y <= m
  BY <1>2
<1> SUFFICES /\ m \in Nat /\ \A f \in fs : came[f] <= m
             /\ m = 0 \/ \E f \in fs : m = came[f]
  OBVIOUS
<1> HIDE DEF m
<1> QED
  BY <1>1, <1>3

\* Neither the largest run reported nor the largest of a keyframe is longer than what came
\* of some such frame, and both are exact when nothing came late or twice
\* (rtpFrameTracker), for any stream.
THEOREM RunsMeasured == Spec => []RunsMeasureFrames
<1>1. ASSUME CountsOK, RunsOK, KeyRunsOK PROVE RunsMeasureFrames
  <2> SUFFICES ASSUME Counted PROVE RunsMeasureFrames
    BY DEF RunsMeasureFrames
  <2> DEFINE r == wire.runs
             sizes == {came[f] : f \in Frames}
             m == Max(sizes)
  <2>1. pkt = 0 /\ Observed # {} /\ Observed = Arrived /\ rtpPackets \in Nat
    BY <1>1, ArrivedBefore DEF Counted, CountsOK
  <2>2. \A f \in Frames : Counts(f) = came[f] /\ came[f] \in Nat /\ came[f] <= rtpPackets
    BY <1>1, <2>1 DEF RunsOK, Counts
  <2>3. r.timestamp \in Frames /\ r.packets \in Nat /\ r.max \in Nat
    BY <1>1, <2>1 DEF RunsOK, RunsBounded, Observed, Frames
  <2>4. m \in sizes /\ \A y \in sizes : y <= m
    <3>1. sizes \subseteq 0 .. rtpPackets /\ sizes # {}
      BY <2>2, <2>3
    <3> HIDE DEF sizes
    <3> QED
      BY <2>1, <3>1, HighestPacket
  <2>5. m \in Nat /\ \A f \in Frames : came[f] <= m
    BY <2>2, <2>4
  <2>6. r.packets <= came[r.timestamp] /\ \E f \in Frames : r.max <= came[f]
    BY <1>1, <2>1, <2>2, <2>3 DEF RunsOK, RunsBounded
  <2> HIDE DEF m
  <2>7. LargestRun(r) = (IF r.packets > r.max THEN r.packets ELSE r.max)
    BY DEF LargestRun
  <2>8. LargestRun(r) <= m
    BY <2>2, <2>3, <2>5, <2>6, <2>7
  <2>9. ASSUME InOrder PROVE LargestRun(r) = m
    <3>1. r.packets = came[r.timestamp] /\ \A f \in Frames : f # r.timestamp => came[f] <= r.max
      BY <1>1, <2>1, <2>2, <2>3, <2>9 DEF RunsOK, RunsComplete
    <3>2. PICK f \in Frames : m = came[f]
      BY <2>4 DEF m
    <3>3. CASE f = r.timestamp
      BY <2>3, <2>5, <2>7, <2>8, <3>1, <3>2, <3>3
    <3>4. CASE f # r.timestamp
      BY <2>3, <2>5, <2>7, <2>8, <3>1, <3>2, <3>4
    <3> QED
      BY <3>3, <3>4
  <2> DEFINE keyframes == {Stream[i].frame : i \in Arrived \cap IdrPackets}
             largest(fs) == Max({0} \cup {came[f] : f \in fs})
             a == largest(keyframes)
             b == largest(keyframes \ {r.timestamp})
  <2>10. keyframes = Keyframes(Observed) /\ keyframes \subseteq Frames
    BY <2>1 DEF Keyframes, Observed, Frames
  <2>11. /\ a \in Nat /\ \A f \in keyframes : came[f] <= a
         /\ b \in Nat /\ \A f \in keyframes \ {r.timestamp} : came[f] <= b
         /\ b = 0 \/ \E f \in keyframes \ {r.timestamp} : b = came[f]
    <3> HIDE DEF keyframes
    <3> QED
      BY <2>1, <2>2, <2>10, LargestOf
  <2> HIDE DEF keyframes, a, b
  <2>12. r.maxIDR <= a
    <3>1. r.maxIDR \in Nat /\ (r.maxIDR = 0 \/ \E f \in keyframes : r.maxIDR <= came[f])
      BY <1>1, <2>2, <2>10 DEF KeyRunsOK
    <3> QED
      BY <2>2, <2>10, <2>11, <3>1
  <2>13. ASSUME InOrder PROVE r.maxIDR = b
    <3>1. /\ r.maxIDR \in Nat
          /\ \A f \in keyframes : f # r.timestamp => came[f] <= r.maxIDR
          /\ r.maxIDR = 0 \/ \E f \in keyframes : f # r.timestamp /\ r.maxIDR <= came[f]
      BY <1>1, <2>2, <2>10, <2>13 DEF KeyRunsOK, KeyRunsComplete
    <3>2. r.maxIDR <= b
      BY <2>2, <2>10, <2>11, <3>1
    <3>3. b <= r.maxIDR
      BY <2>11, <3>1
    <3> QED
      BY <2>11, <3>1, <3>2, <3>3
  <2> QED
    BY <2>8, <2>9, <2>12, <2>13 DEF RunsMeasureFrames, m, a, b, keyframes
<1> QED
  BY <1>1, TrackerCorrect, RunsCorrect, KeyRunsCorrect, PTL
=============================================================================
