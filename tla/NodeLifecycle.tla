--------------------------- MODULE NodeLifecycle ----------------------------
(***************************************************************************)
(* What the management backend promises about the status of a machine: it  *)
(* is enrolled once, waits for approval, may then work and be drained, and *)
(* once revoked it stays revoked.  The machine-level statuses degraded,    *)
(* offline and quarantined of the README's list are written by no code of  *)
(* the backend.                                                            *)
(***************************************************************************)
CONSTANT Hw          \* machines, by hardware fingerprint

VARIABLE status      \* status[h]: "none" before the enrollment

Lifecycle == {"none", "pending_approval", "online", "degraded", "draining", "revoked"}

Init == status = [h \in Hw |-> "none"]

Move(h, from, to) ==
    /\ status[h] \in from
    /\ status' = [status EXCEPT ![h] = to]

Next ==
    \E h \in Hw :
        \/ Move(h, {"none"}, "pending_approval")
        \/ Move(h, {"pending_approval"}, "online")
        \/ Move(h, {"online", "degraded"}, "draining")
        \/ Move(h, Lifecycle \ {"none"}, "revoked")

Spec == Init /\ [][Next]_status
=============================================================================
