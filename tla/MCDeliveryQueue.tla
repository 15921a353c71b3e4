-------------------------- MODULE MCDeliveryQueue --------------------------
(* Model values and bounds for the runs of DeliveryQueue. *)
EXTENDS DeliveryQueue, TLC

CONSTANTS d1, d2, w1, w2

MCDeliveries == {d1}
MCTwoDeliveries == {d1, d2}
MCOwners == {w1, w2}
MCSignals == {"answer", "retry"}
MCRetryDelays == {1}
MCLeaseMoves == {"checkpointing", "queued"}
MCDirectMoves == {"paused", "cancel_requested", "reconciling"}

Symmetry == Permutations(MCOwners)
=============================================================================
