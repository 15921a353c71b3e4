--------------------------- MODULE DeliveryStates ---------------------------
(***************************************************************************)
(* The states of a durable delivery and the transition relation every      *)
(* write of the store goes through (internal/execution/delivery_domain.go),*)
(* and the order in which SQLite compares two stored instants.             *)
(***************************************************************************)
EXTENDS Naturals

DeliveryTerminal == {"succeeded", "failed", "cancelled"}

\* States a worker may park a delivery in with a "waiting" outcome.
ParkStates == {"waiting_decision", "waiting_credentials", "waiting_quota", "paused"}

DeliveryState ==
  {"admitted", "queued", "running", "checkpointing", "waiting_retry",
   "reconciling", "replanning", "cancel_requested"}
  \union ParkStates \union DeliveryTerminal

Successors ==
  [from \in DeliveryState |->
    CASE from = "admitted" ->
           {"queued", "paused", "cancel_requested", "failed"}
      [] from = "queued" ->
           {"running", "reconciling", "replanning", "waiting_retry",
            "cancel_requested", "failed"} \union ParkStates
      [] from = "running" ->
           {"queued", "checkpointing", "waiting_retry", "reconciling", "replanning",
            "cancel_requested"} \union ParkStates \union DeliveryTerminal
      [] from = "checkpointing" ->
           {"queued", "reconciling", "cancel_requested", "failed"}
      [] from \in ParkStates \union {"waiting_retry"} ->
           {"queued", "cancel_requested", "failed"}
      [] from = "reconciling" ->
           {"queued", "running", "waiting_retry", "waiting_decision", "replanning",
            "cancel_requested"} \union DeliveryTerminal
      [] from = "replanning" ->
           {"queued", "waiting_decision", "cancel_requested", "failed"}
      [] from = "cancel_requested" ->
           {"reconciling", "cancelled", "failed"}
      [] OTHER -> {}]

ValidTransition(from, to) == to \in Successors[from]

(***************************************************************************)
(* Instants.  The model counts half seconds; the store writes an instant   *)
(* as RFC 3339 text with the zeros of its fraction dropped, and SQL        *)
(* compares the text.  "...:00Z" sorts after "...:00.5Z", so within one    *)
(* second the whole second comes last.                                     *)
(***************************************************************************)
TextRank(t) == IF t % 2 = 0 THEN t + 1 ELSE t - 1

\* The SQL comparison  a <= b  of two stored instants.
NotAfter(a, b) == TextRank(a) <= TextRank(b)
=============================================================================
