----------------------------- MODULE Activation -----------------------------
(* What installing promises (crates/ao2-cli/src/install_cmd.rs and its tests): *)
(* the evidence beside a binary vouches for that binary.  It is withdrawn       *)
(* before another binary is put in place, and given for what is in place.       *)
CONSTANTS Versions, None

VARIABLES
    active,     \* the version in place, or None
    trusted     \* the version the evidence beside it vouches for, or None

vars == <<active, trusted>>

Init == active \in Versions \cup {None} /\ trusted \in {None, active}

Withdraw == trusted' = None /\ UNCHANGED active
Activate == trusted = None /\ active' \in Versions \cup {None} /\ UNCHANGED trusted
Vouch == active # None /\ trusted' = active /\ UNCHANGED active

Next == Withdraw \/ Activate \/ Vouch

Spec == Init /\ [][Next]_vars
=============================================================================
