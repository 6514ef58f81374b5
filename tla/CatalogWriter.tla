---------------------------- MODULE CatalogWriter ----------------------------
(***************************************************************************)
(* What the rest of the program may rely on from the refresh coordinator:  *)
(* at any time at most one writer is admitted to the catalog, only the     *)
(* admitted writer changes which configuration the snapshot belongs to and *)
(* only to its own, and after the gate has been shut, which waits for the  *)
(* writer, nobody is admitted again.                                       *)
(***************************************************************************)
CONSTANTS
    Writers,
    Keys,
    None

VARIABLES
    writer,     \* the admitted writer, or None, and its configuration
    snapshot,   \* the configuration of the snapshot, or None
    shut

vars == <<writer, snapshot, shut>>

Nobody == [who |-> None, key |-> None]

Init ==
    /\ writer = Nobody
    /\ snapshot \in Keys \cup {None}
    /\ shut = FALSE

Admit(w, k) ==
    /\ ~shut
    /\ writer = Nobody
    /\ writer' = [who |-> w, key |-> k]
    /\ UNCHANGED <<snapshot, shut>>

Write ==
    /\ writer # Nobody
    /\ snapshot' = writer.key
    /\ UNCHANGED <<writer, shut>>

Dismiss ==
    /\ writer # Nobody
    /\ writer' = Nobody
    /\ UNCHANGED <<snapshot, shut>>

Shut ==
    /\ writer = Nobody
    /\ shut' = TRUE
    /\ UNCHANGED <<writer, snapshot>>

Next ==
    \/ \E w \in Writers, k \in Keys : Admit(w, k)
    \/ Write
    \/ Dismiss
    \/ Shut

Spec == Init /\ [][Next]_vars
=============================================================================
