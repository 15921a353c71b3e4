---------------------------- MODULE FencedLease ----------------------------
(***************************************************************************)
(* What a lease promises, without a clock, queue rows or epochs.  Every    *)
(* resource has a history of grants and at most one of them is current.    *)
(* Only the current grant's record can be written, a new grant closes all  *)
(* earlier ones, and a closed record is never written again.               *)
(***************************************************************************)
EXTENDS Naturals, Sequences

CONSTANT Resources

VARIABLES
  grants,   \* grants[r]: the records [status, work] of r's grants, oldest first
  current   \* current[r]: the index of r's current grant, 0 when there is none

vars == <<grants, current>>

Fresh == [status |-> "open", work |-> "none"]

Closed(history) ==
  [i \in DOMAIN history |-> [status |-> "closed", work |-> history[i].work]]

Init ==
  /\ grants = [r \in Resources |-> <<>>]
  /\ current = [r \in Resources |-> 0]

\* Someone becomes r's only holder; whoever held it before has lost it.
Grant(r) ==
  /\ grants' = [grants EXCEPT ![r] = Append(Closed(@), Fresh)]
  /\ current' = [current EXCEPT ![r] = Len(grants[r]) + 1]

\* The current holder writes the record of its own grant.
Write(r) ==
  /\ current[r] # 0
  /\ grants' = [grants EXCEPT ![r][current[r]] = [status |-> @.status, work |-> "recorded"]]
  /\ UNCHANGED current

\* The current holder gives the resource up and leaves its record open.
Yield(r) ==
  /\ current[r] # 0
  /\ current' = [current EXCEPT ![r] = 0]
  /\ UNCHANGED grants

\* The current holder ends its grant with a last, optional, write.
Settle(r) ==
  /\ current[r] # 0
  /\ \E work \in {grants[r][current[r]].work, "recorded"} :
       grants' = [grants EXCEPT ![r][current[r]] = [status |-> "closed", work |-> work]]
  /\ current' = [current EXCEPT ![r] = 0]

\* Somebody else takes the resource away for good.
Void(r) ==
  /\ grants' = [grants EXCEPT ![r] = Closed(@)]
  /\ current' = [current EXCEPT ![r] = 0]

Next == \E r \in Resources : Grant(r) \/ Write(r) \/ Yield(r) \/ Settle(r) \/ Void(r)

Spec == Init /\ [][Next]_vars
=============================================================================
