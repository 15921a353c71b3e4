--------------------------- MODULE DeliveryQueue ---------------------------
(***************************************************************************)
(* The durable delivery queue (internal/execution/delivery_queue.go and    *)
(* the admission half of delivery_store.go): the delivery projection, its  *)
(* queue row, the attempts of the workers that leased it, and the wall     *)
(* clock.  Every operation is one SQLite transaction, hence one action; an *)
(* operation that returns an error rolls back and is no step.  A Lease is  *)
(* named by the attempt it was handed out with and is never forgotten: a   *)
(* worker may come back with it long after it lost the delivery.           *)
(***************************************************************************)
EXTENDS Naturals, Sequences, DeliveryStates

CONSTANTS
  Deliveries,      \* delivery ids
  Owners,          \* worker owner ids; a restarted worker keeps its id
  NoOwner,         \* lease_owner_id IS NULL
  Signals,         \* signals an executor may wait for ("retry" is not refused)
  RetryDelays,     \* delays, in half seconds, an executor may ask a retry after
  LeaseMoves,      \* states an executor moves its delivery to while it runs
  DirectMoves,     \* states a client moves a delivery to without a lease
  LeaseDuration,   \* half seconds a lease lasts without a heartbeat
  MaxLag,          \* how stale the clock reading of an operation may be
  MaxClock,        \* bound: last half second of the model
  MaxEpoch         \* bound: largest lease epoch of a row

ASSUME NoOwnerAssumption == NoOwner \notin Owners
ASSUME MovesAssumption == LeaseMoves \subseteq DeliveryState /\ DirectMoves \subseteq DeliveryState
ASSUME TimeAssumption ==
  /\ RetryDelays \subseteq Nat
  /\ LeaseDuration \in Nat \ {0}
  /\ MaxLag \in Nat
  /\ MaxClock \in Nat
  /\ MaxEpoch \in Nat

VARIABLES
  clock,      \* now, in half seconds
  state,      \* state[d]: delivery_deliveries.state, "absent" before admission
  created,    \* created[d]: delivery_deliveries.created_at
  row,        \* row[d]: the delivery_queue record of d
  attempts,   \* attempts[d]: delivery_worker_attempts of d, in order
  moved       \* moved[d]: states TransitionLease moved d to in the current epoch

vars == <<clock, state, created, row, attempts, moved>>

-----------------------------------------------------------------------------
RowStatus == {"none", "ready", "leased", "waiting", "done", "cancelled"}

Outcomes == {"open", "succeeded", "failed", "cancelled", "retry", "waiting", "lease_expired"}

\* The columns of delivery_queue; status "none" is a record that does not exist, and
\* signal "none" an empty waiting_signal.
QueueRow ==
  [status : RowStatus, available : Nat, signal : Signals \union {"none", "retry", "cancel"},
   owner : Owners \union {NoOwner}, epoch : Nat, expires : Nat]

\* Whether an attempt has stored a checkpoint or a result.
Work == {"none", "recorded"}

Attempt == [owner : Owners, epoch : Nat, outcome : Outcomes, work : Work]

NoRow == [status |-> "none", available |-> 0, signal |-> "none",
          owner |-> NoOwner, epoch |-> 0, expires |-> 0]

\* An operation may have read the clock before it got the database.
Readings == {t \in 0..clock : clock - t <= MaxLag}

Init ==
  /\ clock = 0
  /\ state = [d \in Deliveries |-> "absent"]
  /\ created = [d \in Deliveries |-> 0]
  /\ row = [d \in Deliveries |-> NoRow]
  /\ attempts = [d \in Deliveries |-> <<>>]
  /\ moved = [d \in Deliveries |-> {}]

-----------------------------------------------------------------------------
(* Helpers of the store *)

\* transitionInTx: the state machine is checked and the projection moves.
TransitionTo(d, next) ==
  /\ ValidTransition(state[d], next)
  /\ state' = [state EXCEPT ![d] = next]

\* "if delivery.State != next" around it.
TransitionIfRunning(d, next) ==
  \/ state[d] # "running" /\ UNCHANGED state
  \/ state[d] = "running" /\ TransitionTo(d, next)
TransitionUnlessIn(d, next) ==
  \/ state[d] = next /\ UNCHANGED state
  \/ TransitionTo(d, next)

\* A queue row as INSERTed.
ReadyRow(at) ==
  [status |-> "ready", available |-> at, signal |-> "none",
   owner |-> NoOwner, epoch |-> 0, expires |-> 0]

\* INSERT ... ON CONFLICT DO NOTHING
UpsertRow(r, at) == [r EXCEPT !.status = "ready", !.available = at]
EnsureRow(r, at) == IF r.status = "none" THEN ReadyRow(at) ELSE r

\* Claim's UPDATE of the row; available_at stays what it was.
LeasedRowSameEpoch(r, o, at) ==
  [r EXCEPT !.status = "leased", !.signal = "none", !.owner = o, !.expires = at + LeaseDuration]
LeasedRow(r, o, at) ==
  [status |-> "leased", available |-> r.available, signal |-> "none",
   owner |-> o, epoch |-> r.epoch + 1, expires |-> at + LeaseDuration]

\* A row nobody holds any more keeps its epoch: the next claim continues from it.
UnleasedSwapped(r, status, available, signal) ==
  [r EXCEPT !.status = signal, !.available = available, !.signal = status,
            !.owner = NoOwner, !.expires = 0]
Unleased(r, status, available, signal) ==
  [status |-> status, available |-> available, signal |-> signal,
   owner |-> NoOwner, epoch |-> r.epoch, expires |-> 0]

\* Cancel's UPDATE of the row takes an epoch, so that nobody's lease is the row's.
FencedRow(r) ==
  [status |-> "cancelled", available |-> r.available, signal |-> "cancel",
   owner |-> NoOwner, epoch |-> r.epoch + 1, expires |-> 0]

\* Finalize's UPDATE of the attempt; an empty result leaves the published one.
Finished(a, kind, publish) ==
  [owner |-> a.owner, epoch |-> a.epoch, outcome |-> kind,
   work |-> IF publish THEN "recorded" ELSE a.work]

\* UPDATE ... SET outcome WHERE finished_at IS NULL
CloseNone(records, outcome) == records
CloseOpen(records, outcome) ==
  [i \in DOMAIN records |->
     IF records[i].outcome = "open" THEN [records[i] EXCEPT !.outcome = outcome]
                                    ELSE records[i]]

\* The lease handed out with attempt n of d is the one the row records, and has
\* not expired when the clock reads "at".
HoldsLeaseAnyEpoch(d, n, at) ==
  /\ row[d].status = "leased"
  /\ row[d].owner = attempts[d][n].owner
  /\ ~NotAfter(row[d].expires, at)
HoldsLease(d, n, at) ==
  /\ row[d].status = "leased"
  /\ row[d].owner = attempts[d][n].owner
  /\ row[d].epoch = attempts[d][n].epoch
  /\ ~NotAfter(row[d].expires, at)

Due(d, at) ==
  \/ /\ \/ row[d].status = "ready"
        \/ row[d].status = "waiting" /\ row[d].signal = "retry"
     /\ NotAfter(row[d].available, at)
  \/ row[d].status = "leased" /\ NotAfter(row[d].expires, at)

\* ORDER BY available_at, created_at.  A tie, which the id breaks, is left open.
NoLaterThan(d, e) ==
  /\ NotAfter(row[d].available, row[e].available)
  /\ row[d].available = row[e].available => NotAfter(created[d], created[e])

\* The row Claim's SELECT ... LIMIT 1 returns.
FirstDue(d, at) ==
  /\ Due(d, at)
  /\ \A e \in Deliveries : Due(e, at) => NoLaterThan(d, e)

\* States Claim can take a delivery to running from.
Claimable == {"queued", "running", "waiting_retry"}

-----------------------------------------------------------------------------
(* Admission and promotion *)

Admit(d) ==
  /\ state[d] = "absent"
  /\ state' = [state EXCEPT ![d] = "admitted"]
  /\ \E at \in Readings : created' = [created EXCEPT ![d] = at]
  /\ UNCHANGED <<clock, row, attempts, moved>>

AdmitRunnable(d) ==
  /\ state[d] = "absent"
  /\ state' = [state EXCEPT ![d] = "queued"]
  /\ \E at \in Readings :
       /\ created' = [created EXCEPT ![d] = at]
       /\ row' = [row EXCEPT ![d] = ReadyRow(at)]
  /\ UNCHANGED <<clock, attempts, moved>>

\* The same runnable admission once more: a delivery found admitted is queued, and
\* a queue row is inserted ON CONFLICT DO NOTHING whatever the state is.
AdmitRunnableAgain(d) ==
  /\ state[d] # "absent"
  /\ \/ state[d] = "admitted" /\ TransitionTo(d, "queued")
     \/ state[d] # "admitted" /\ UNCHANGED state
  /\ row' = [row EXCEPT ![d] = EnsureRow(@, created[d])]
  /\ UNCHANGED <<clock, created, attempts, moved>>

QueueAdmitted(d) ==
  /\ state[d] = "admitted"
  /\ row[d].status = "none"
  /\ TransitionTo(d, "queued")
  /\ \E at \in Readings : row' = [row EXCEPT ![d] = ReadyRow(at)]
  /\ UNCHANGED <<clock, created, attempts, moved>>

-----------------------------------------------------------------------------
(* The lease protocol *)

Claim(o, d) == \E at \in Readings :
  /\ FirstDue(d, at)
  /\ row[d].epoch < MaxEpoch
  /\ state[d] \in Claimable
  /\ state' = [state EXCEPT ![d] = "running"]
  /\ row' = [row EXCEPT ![d] = LeasedRow(@, o, at)]
  /\ attempts' = [attempts EXCEPT ![d] =
       Append(CloseOpen(@, "lease_expired"),
              [owner |-> o, epoch |-> row[d].epoch + 1, outcome |-> "open", work |-> "none"])]
  /\ moved' = [moved EXCEPT ![d] = {}]
  /\ UNCHANGED <<clock, created>>

Heartbeat(d, n) == \E at \in Readings :
  /\ HoldsLease(d, n, at)
  /\ row' = [row EXCEPT ![d].expires = at + LeaseDuration]
  /\ UNCHANGED <<clock, state, created, attempts, moved>>

\* Checkpoint and PublishResult: the attempt's own row, guarded by the live lease.
UpdateAttempt(d, n) == \E at \in Readings :
  /\ HoldsLease(d, n, at)
  /\ attempts' = [attempts EXCEPT ![d][n].work = "recorded"]
  /\ UNCHANGED <<clock, state, created, row, moved>>

\* The event key names the target state and the epoch, so a second move to the
\* same state under one lease is an event conflict and rolls back.
TransitionLease(d, n, next) == \E at \in Readings :
  /\ HoldsLease(d, n, at)
  /\ next \notin moved[d]
  /\ TransitionTo(d, next)
  /\ moved' = [moved EXCEPT ![d] = @ \union {next}]
  /\ UNCHANGED <<clock, created, row, attempts>>

\* The attempt stays open; the next claim closes it.
Release(d, n) == \E at \in Readings :
  /\ HoldsLease(d, n, at)
  /\ TransitionUnlessIn(d, "queued")
  /\ row' = [row EXCEPT ![d] = Unleased(@, "ready", at, @.signal)]
  /\ UNCHANGED <<clock, created, attempts, moved>>

\* validateOutcome: where an outcome sends the delivery and its row.
Dispositions(at) ==
  {[kind |-> "succeeded", next |-> "succeeded", status |-> "done", available |-> at, signal |-> "none"],
   [kind |-> "failed", next |-> "failed", status |-> "done", available |-> at, signal |-> "none"],
   [kind |-> "cancelled", next |-> "cancelled", status |-> "cancelled", available |-> at, signal |-> "none"]}
  \union {[kind |-> "retry", next |-> "waiting_retry", status |-> "waiting",
           available |-> at + delay, signal |-> "retry"] : delay \in RetryDelays}
  \union {[kind |-> "waiting", next |-> park, status |-> "waiting",
           available |-> at, signal |-> s] : park \in ParkStates, s \in Signals}

Finalize(d, n, kind) == \E at \in Readings :
  /\ HoldsLease(d, n, at)
  /\ \E o \in {x \in Dispositions(at) : x.kind = kind}, publish \in BOOLEAN :
       /\ TransitionUnlessIn(d, o.next)
       /\ row' = [row EXCEPT ![d] = Unleased(@, o.status, o.available, o.signal)]
       /\ attempts' = [attempts EXCEPT ![d][n] = Finished(@, kind, publish)]
  /\ UNCHANGED <<clock, created, moved>>

-----------------------------------------------------------------------------
(* Calls of clients that hold no lease *)

SignalWaiting(d, s) == \E at \in Readings :
  /\ s # "retry"
  /\ row[d].status = "waiting" /\ row[d].signal = s
  /\ TransitionTo(d, "queued")
  /\ row' = [row EXCEPT ![d] = Unleased(@, "ready", at, "none")]
  /\ UNCHANGED <<clock, created, attempts, moved>>

\* An admitted delivery without a queue row cannot be cancelled: the UPDATE of
\* the row changes nothing and the transaction rolls back.
Cancel(d) ==
  /\ state[d] \in DeliveryState \ ({"cancel_requested"} \union DeliveryTerminal)
  /\ row[d].status # "none"
  /\ row[d].epoch < MaxEpoch
  /\ TransitionTo(d, "cancel_requested")
  /\ attempts' = [attempts EXCEPT ![d] = CloseOpen(@, "cancelled")]
  /\ row' = [row EXCEPT ![d] = FencedRow(@)]
  /\ UNCHANGED <<clock, created, moved>>

\* The public Transition: a compare-and-swap on the version, no lease and no row.
Transition(d, next) ==
  /\ state[d] # "absent"
  /\ TransitionTo(d, next)
  /\ UNCHANGED <<clock, created, row, attempts, moved>>

Tick == clock < MaxClock /\ clock' = clock + 1 /\ UNCHANGED <<state, created, row, attempts, moved>>

-----------------------------------------------------------------------------
OutcomeKinds == Outcomes \ {"open", "lease_expired"}

\* A call with the lease handed out with attempt n of d.
HolderCall(d, n) ==
  \/ Heartbeat(d, n)
  \/ UpdateAttempt(d, n)
  \/ Release(d, n)
  \/ \E next \in LeaseMoves : TransitionLease(d, n, next)
  \/ \E kind \in OutcomeKinds : Finalize(d, n, kind)

Next ==
  \/ \E d \in Deliveries :
       \/ Admit(d)
       \/ AdmitRunnable(d)
       \/ AdmitRunnableAgain(d)
       \/ QueueAdmitted(d)
       \/ \E o \in Owners : Claim(o, d)
       \/ \E n \in DOMAIN attempts[d] : HolderCall(d, n)
       \/ \E s \in Signals : SignalWaiting(d, s)
       \/ Cancel(d)
       \/ \E next \in DirectMoves : Transition(d, next)
  \/ Tick

Spec == Init /\ [][Next]_vars
-----------------------------------------------------------------------------
(* Correctness *)

\* The queue never leaves the types of its tables.
TypeOK ==
  /\ clock \in Nat
  /\ state \in [Deliveries -> DeliveryState \union {"absent"}]
  /\ created \in [Deliveries -> Nat]
  /\ row \in [Deliveries -> QueueRow]
  /\ attempts \in [Deliveries -> Seq(Attempt)]
  /\ moved \in [Deliveries -> SUBSET DeliveryState]

\* Only the latest attempt can be unfinished, and while the row is leased that
\* attempt is unfinished and is the one the row's owner and epoch name
\* (Claim, Release, Finalize and Cancel must agree on who closes what).
LeaseNamesOpenAttempt ==
  \A d \in Deliveries :
    /\ \A i \in DOMAIN attempts[d] :
         attempts[d][i].outcome = "open" => i = Len(attempts[d])
    /\ row[d].status = "leased" =>
         /\ attempts[d] # <<>>
         /\ LET last == attempts[d][Len(attempts[d])]
            IN  /\ last.outcome = "open"
                /\ last.owner = row[d].owner
                /\ last.epoch = row[d].epoch

\* Two attempts of a delivery never share a lease epoch, so an old lease is never
\* mistaken for the current one, and the row's epoch is never behind an attempt
\* (UNIQUE (.., lease_epoch), and Cancel's extra epoch).
EpochsFenceAttempts ==
  \A d \in Deliveries :
    /\ \A i, j \in DOMAIN attempts[d] : i < j => attempts[d][i].epoch < attempts[d][j].epoch
    /\ \A i \in DOMAIN attempts[d] : attempts[d][i].epoch <= row[d].epoch

\* Once Cancel has taken the row, no call of anybody, a repeated runnable admission
\* and a late worker included, revives the row or changes an attempt again.
CancelIsFinal ==
  [][\A d \in Deliveries : row[d].status = "cancelled" =>
       row'[d].status = "cancelled" /\ attempts'[d] = attempts[d]]_vars

\* Whether a delivery in state s and its row r say the same: a ready row is queued work,
\* a leased one runs, and so on.
Consistent(s, r) ==
  CASE r.status = "none" -> s \in {"absent", "admitted"}
    [] r.status = "ready" -> s = "queued"
    [] r.status = "leased" -> s = "running"
    [] r.status = "waiting" -> s \in ParkStates \/ (s = "waiting_retry" /\ r.signal = "retry")
    [] r.status = "done" -> s \in {"succeeded", "failed"}
    [] r.status = "cancelled" -> s \in {"cancel_requested", "cancelled"}

\* What a step may do to the row of d: leave it in agreement with the state, or not touch
\* its status and lease, or give it to a delivery that has left admission without one.
KeepsRow(d) ==
  \/ Consistent(state'[d], row'[d])
  \/ /\ row'[d].status = row[d].status /\ row'[d].epoch = row[d].epoch
     /\ row[d].status # "done"
  \/ /\ row[d].status = "none" /\ row'[d].status = "ready"
     /\ state[d] \notin {"absent", "admitted"}

\* Transition and TransitionLease move the state and leave the row as it is, so the two
\* may part; MCPoisonedLease shows what a parted lease leads to.  They are the only ones:
\* every operation that changes the row's status or its epoch leaves both in agreement,
\* whatever had parted them before, and those of a finished delivery never part
\* (delivery_queue.go:147-161, :254, :289, :345, :388).  One exception: a repeated
\* admission gives a ready row to a delivery that Transition moved before it had one
\* (delivery_store.go:183).
RowMatchesState == [][\A d \in Deliveries : KeepsRow(d)]_vars

\* The grants of the abstract lease that a list of attempts stands for, and the one
\* that is current.
GrantOf(a) == [status |-> IF a.outcome = "open" THEN "open" ELSE "closed", work |-> a.work]
GrantsOf(records) == [i \in DOMAIN records |-> GrantOf(records[i])]
CurrentOf(r, records) == IF r.status = "leased" THEN Len(records) ELSE 0

MappedGrants == [d \in Deliveries |-> GrantsOf(attempts[d])]
MappedCurrent == [d \in Deliveries |-> CurrentOf(row[d], attempts[d])]

Lease == INSTANCE FencedLease WITH
  Resources <- Deliveries, grants <- MappedGrants, current <- MappedCurrent

\* The queue implements the abstract lease: what an attempt recorded can only be
\* changed by its holder while it holds, and a finished attempt never changes.
ImplementsLease == Lease!Spec
=============================================================================
