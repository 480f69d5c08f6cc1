--------------------------- MODULE ControlLease ---------------------------
(***************************************************************************)
(* What the control lease promises (owner.go:22-49), without writer,       *)
(* queues, buffers or retries: who may send, what the client believes may  *)
(* be held, and what really is pressed or can no longer be recalled.       *)
(***************************************************************************)
CONSTANTS Callers, None, Ifaces

VARIABLES
    owner,     \* the caller whose lease may send, None for nobody
    residue,   \* interfaces reported as possibly held
    pressed    \* interfaces pressed, or about to be by input beyond recall

vars == <<owner, residue, pressed>>

Init == owner = None /\ residue = {} /\ pressed = {}

\* A lease begins only on a target known, and truly, to be neutral.
Grant(c) ==
    /\ owner = None /\ residue = {} /\ pressed = {}
    /\ owner' = c
    /\ UNCHANGED <<residue, pressed>>

\* Only the owner presses anything, and it is accounted for beforehand.
Input(i) ==
    /\ owner # None
    /\ residue' = residue \cup {i}
    /\ pressed' = pressed \cup {i}
    /\ UNCHANGED owner

\* Reports reach the target, or are lost: things get released.
Settle ==
    /\ pressed' \in SUBSET pressed
    /\ UNCHANGED <<owner, residue>>

\* However the lease ends.
Revoke ==
    /\ owner # None
    /\ owner' = None
    /\ UNCHANGED <<residue, pressed>>

\* Neutralization is confirmed for a set of interfaces that really are neutral.
Confirm ==
    /\ owner = None
    /\ \E S \in SUBSET Ifaces :
        /\ S \cap pressed = {}
        /\ residue' = residue \ S
    /\ UNCHANGED <<owner, pressed>>

Next ==
    \/ \E c \in Callers : Grant(c)
    \/ \E i \in Ifaces : Input(i)
    \/ Settle \/ Revoke \/ Confirm

Spec == Init /\ [][Next]_vars
=============================================================================
