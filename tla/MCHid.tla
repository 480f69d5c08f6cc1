------------------------------- MODULE MCHid -------------------------------
(***************************************************************************)
(* Small instances of HidClient for TLC.                                   *)
(***************************************************************************)
EXTENDS HidInvariant, TLC

CONSTANTS c1, c2, k1, p1, p2

KeyDown == [ifc |-> "keyboard", hold |-> TRUE, pos |-> None]
Pointer(p, h) == [ifc |-> "absolute", hold |-> h, pos |-> p]

KeyReports == {KeyDown}
PointerReports == {Pointer(p1, TRUE), Pointer(p2, FALSE)}

Symmetry == Permutations(Callers)
=============================================================================
