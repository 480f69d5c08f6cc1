---------------------------- MODULE RtpTrackers ----------------------------
(***************************************************************************)
(* What the client reads off the wire before reassembly (h264.go): the     *)
(* packetization of one payload, the sequence tracker and the frame        *)
(* tracker. Pure operators; VideoDiagnostics drives them.                  *)
(*                                                                         *)
(* A payload is [class, units, short, start, end]: its packetization, the  *)
(* NAL units it declares (whole: all of the unit is there), whether it     *)
(* ends before the FU header, and the FU start and end bits.               *)
(***************************************************************************)
EXTENDS Integers, Sequences

CONSTANTS
    Space,    \* number of RTP sequence numbers, 2^16 in the code
    Window    \* seqWindow: how far back duplicates are recognized

ASSUME RtpAssumption ==
    /\ Space \in Nat /\ Space > 1 /\ Space % 2 = 0
    /\ Window \in 1 .. Space \div 2

-----------------------------------------------------------------------------
\* The units of the payload that are read: the walk over an aggregation (classifySTAPA)
\* stops at the first one that is not all there, a fragment (classifyFUA) has a header.
Walked(p) ==
    CASE p.class = "single" -> {1}
      [] p.class = "STAP-A" -> {i \in DOMAIN p.units : \A b \in 1 .. i : p.units[b].whole}
      [] p.class = "FU-A"   -> IF p.short THEN {} ELSE {1}
      [] OTHER              -> {}

\* classifyRTPPayload
Classify(p) ==
    [class     |-> p.class,
     types     |-> {p.units[i].type : i \in Walked(p)},
     malformed |-> \/ p.class = "STAP-A" /\ \E i \in DOMAIN p.units : ~p.units[i].whole
                   \/ p.class = "FU-A" /\ p.short,
     fuStart   |-> p.class = "FU-A" /\ ~p.short /\ p.start,
     fuEnd     |-> p.class = "FU-A" /\ ~p.short /\ p.end]

-----------------------------------------------------------------------------
(***************************************************************************)
(* rtpSequenceTracker. The bitmap recent is the set of its bits.           *)
(***************************************************************************)
NewSequence ==
    [started |-> FALSE, first |-> 0, highest |-> 0, cycles |-> 0, received |-> 0,
     duplicates |-> 0, reordered |-> 0, maxJump |-> 0, recent |-> {}]

\* Mutant: no sign, every packet is ahead.
Delta_Unsigned(seq, highest) == (seq - highest) % Space

\* int16(seq - highest): the distance on the circle of sequence numbers, signed.
Delta(seq, highest) ==
    LET d == (seq - highest) % Space
    IN  IF d >= Space \div 2 THEN d - Space ELSE d

Ahead(t, seq) ==
    LET d == Delta(seq, t.highest)
    IN  [t EXCEPT !.recent  = {0} \cup {i \in {j + d : j \in t.recent} : i < Window},
                  !.maxJump = IF d > @ THEN d ELSE @,
                  !.cycles  = IF seq < t.highest THEN @ + 1 ELSE @,
                  !.highest = seq]

Behind(t, back) ==
    IF back < Window /\ back \in t.recent
    THEN [t EXCEPT !.duplicates = @ + 1]
    ELSE [t EXCEPT !.reordered = @ + 1,
                   !.recent = IF back < Window THEN @ \cup {back} ELSE @]

\* observe
ObserveSequence(t, seq) ==
    LET r == [t EXCEPT !.received = @ + 1]
        d == Delta(seq, t.highest)
    IN  IF ~t.started THEN [r EXCEPT !.started = TRUE, !.first = seq, !.highest = seq, !.recent = {0}]
        ELSE IF d > 0 THEN Ahead(r, seq)
        ELSE IF d = 0 THEN [r EXCEPT !.duplicates = @ + 1]
        ELSE Behind(r, -d)

\* The sequence number without wrap-around.
Extended(t) == t.cycles * Space + t.highest

\* lost: expected minus unique, never below zero.
Lost(t) ==
    LET missing == Extended(t) - t.first + 1 - (t.received - t.duplicates)
    IN  IF t.started /\ missing > 0 THEN missing ELSE 0

-----------------------------------------------------------------------------
(***************************************************************************)
(* rtpFrameTracker: runs of packets with the same timestamp.               *)
(***************************************************************************)
NewRuns ==
    [started |-> FALSE, timestamp |-> 0, packets |-> 0, hasIDR |-> FALSE, marked |-> FALSE,
     markers |-> 0, changes |-> 0, unmarked |-> 0, max |-> 0, maxIDR |-> 0]

\* Mutant: the length of the run is carried over.
EndRun_KeepsCount(t) ==
    [t EXCEPT !.changes  = @ + 1,
              !.unmarked = IF t.marked THEN @ ELSE @ + 1,
              !.max      = IF t.packets > @ THEN t.packets ELSE @,
              !.maxIDR   = IF t.hasIDR /\ t.packets > @ THEN t.packets ELSE @,
              !.hasIDR = FALSE, !.marked = FALSE]

EndRun(t) ==
    [t EXCEPT !.changes  = @ + 1,
              !.unmarked = IF t.marked THEN @ ELSE @ + 1,
              !.max      = IF t.packets > @ THEN t.packets ELSE @,
              !.maxIDR   = IF t.hasIDR /\ t.packets > @ THEN t.packets ELSE @,
              !.packets = 0, !.hasIDR = FALSE, !.marked = FALSE]

\* observe
ObserveRun(t, timestamp, marker, idr) ==
    LET r == IF t.started /\ timestamp # t.timestamp THEN EndRun(t) ELSE t
    IN  [r EXCEPT !.started   = TRUE,
                  !.timestamp = timestamp,
                  !.packets   = @ + 1,
                  !.hasIDR    = @ \/ idr,
                  !.marked    = @ \/ marker,
                  !.markers   = IF marker THEN @ + 1 ELSE @]

\* largestRun: the run in progress counts.
LargestRun(t) == IF t.packets > t.max THEN t.packets ELSE t.max
=============================================================================
