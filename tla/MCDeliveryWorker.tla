-------------------------- MODULE MCDeliveryWorker --------------------------
(* Model values and bounds for the runs of DeliveryWorker. *)
EXTENDS DeliveryWorker

CONSTANTS d1, d2, w1, w2

MCDelivery == {d1}
MCDeliveries == {d1, d2}
MCWorkers == {w1, w2}
MCOneWorker == {w1}
MCParks == {"waiting_decision", "paused"}
MCOnePark == {"waiting_decision"}
MCNoMoves == {}
MCMoves == {"checkpointing"}
=============================================================================
