--------------------------- MODULE MCDiagnostics ---------------------------
(***************************************************************************)
(* Model values for VideoDiagnostics: what the device sends.               *)
(***************************************************************************)
EXTENDS VideoDiagnostics

Whole(type) == [type |-> type, whole |-> TRUE]

Payload(class, units, start, end) ==
    [class |-> class, units |-> units, short |-> FALSE, start |-> start, end |-> end]

Packet(frame, payload, mark) == [frame |-> frame, payload |-> payload, mark |-> mark]

ParameterSets == Payload("STAP-A", <<Whole("SPS"), Whole("PPS")>>, FALSE, FALSE)

IdrStart == Payload("FU-A", <<Whole("IDR")>>, TRUE, FALSE)

IdrEnd == Payload("FU-A", <<Whole("IDR")>>, FALSE, TRUE)

\* The second unit is cut off: the payload ends before the length it declares.
Truncated == Payload("STAP-A", <<Whole("slice"), [type |-> "slice", whole |-> FALSE]>>, FALSE, FALSE)

Idr == Payload("single", <<Whole("IDR")>>, FALSE, FALSE)

\* Parameter sets, a keyframe of one packet, one of two, an aggregate that is not all there.
KeyframeStream ==
    <<Packet(1, ParameterSets, TRUE), Packet(2, Idr, TRUE), Packet(3, IdrStart, FALSE), Packet(3, IdrEnd, TRUE),
      Packet(4, Truncated, TRUE)>>
=============================================================================
