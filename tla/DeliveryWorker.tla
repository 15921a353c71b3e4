--------------------------- MODULE DeliveryWorker ---------------------------
(***************************************************************************)
(* The workers that lease deliveries and run them                          *)
(* (internal/execution/worker.go) over the queue of DeliveryQueue.  Time   *)
(* never ends here: deadlines are countdowns, and the epoch of a lease is  *)
(* reduced to the worker run the row's current lease belongs to, which is  *)
(* what EpochsFenceAttempts says of it.  A worker is one goroutine of      *)
(* Worker.run with its heartbeat goroutine; its process may pause, crash   *)
(* and be restarted, or be stopped, MaxFaults times in all.                *)
(***************************************************************************)
EXTENDS Naturals, FiniteSets, Sequences, SequencesExt, DeliveryStates

CONSTANTS
  Deliveries,
  Workers,
  Nobody,          \* no worker run, or no delivery
  Parks,           \* states an executor parks a delivery in to wait for an answer
  ExecutorMoves,   \* states an executor may move its delivery to while it runs
  LeaseTicks,      \* WorkerConfig.LeaseDuration
  BeatTicks,       \* WorkerConfig.HeartbeatEvery
  RetryTicks,      \* how long an executor puts a retry off
  MaxFaults        \* bound: pauses, crashes, stops and database errors of a behaviour

ASSUME NobodyAssumption == Nobody \notin Workers \union Deliveries
ASSUME StatesAssumption == Parks \subseteq ParkStates /\ ExecutorMoves \subseteq DeliveryState
ASSUME TicksAssumption ==
  /\ LeaseTicks \in Nat /\ BeatTicks \in Nat /\ RetryTicks \in Nat /\ MaxFaults \in Nat
  /\ 0 < BeatTicks /\ BeatTicks < LeaseTicks   \* NewWorker refuses anything else

VARIABLES
  state,     \* state[d]: the delivery projection, "absent" before admission
  status,    \* status[d]: status of the queue row, "none" without one
  signal,    \* signal[d]: what a waiting row waits for, "none" otherwise
  holder,    \* holder[d]: the worker whose present run holds the row's epoch
  left,      \* left[d]: ticks until the recorded lease expires
  delay,     \* delay[d]: ticks until available_at
  line,      \* the rows that may become due, by available_at
  pc,        \* pc[w]: where RunOnce of w is
  job,       \* job[w]: the delivery of w's lease
  outcome,   \* outcome[w]: what the executor returned
  beat,      \* beat[w]: ticks until the heartbeat ticker fires
  lost,      \* lost[w]: a heartbeat failed and cancelled the execution
  stopped,   \* stopped[w]: Stop cancelled the worker's context
  faults

queueVars == <<state, status, signal, holder, left, delay, line>>
workerVars == <<pc, job, outcome, beat, lost, stopped>>
vars == <<queueVars, workerVars, faults>>

Outcomes == {"succeeded", "failed", "cancelled", "retry", "waiting"}

\* The workers and the queue they share never leave the types of their state, and
\* a delivery never has a second place in the line (the queue table's primary key).
TypeOK ==
  /\ state \in [Deliveries -> DeliveryState \union {"absent"}]
  /\ status \in [Deliveries -> {"none", "ready", "leased", "waiting", "done", "cancelled"}]
  /\ signal \in [Deliveries -> {"none", "retry", "answer"}]
  /\ holder \in [Deliveries -> Workers \union {Nobody}]
  /\ left \in [Deliveries -> 0..LeaseTicks]
  /\ delay \in [Deliveries -> 0..RetryTicks]
  /\ \A i \in DOMAIN line : line[i] \in Deliveries
  /\ IsInjective(line)   \* PRIMARY KEY: a delivery has one row
  /\ pc \in [Workers -> {"idle", "claimed", "executing", "returned", "halted"}]
  /\ job \in [Workers -> Deliveries \union {Nobody}]
  /\ outcome \in [Workers -> Outcomes \union {Nobody}]
  /\ beat \in [Workers -> 0..BeatTicks]
  /\ lost \in [Workers -> BOOLEAN] /\ stopped \in [Workers -> BOOLEAN]
  /\ faults \in 0..MaxFaults

Init ==
  /\ state = [d \in Deliveries |-> "absent"]
  /\ status = [d \in Deliveries |-> "none"]
  /\ signal = [d \in Deliveries |-> "none"]
  /\ holder = [d \in Deliveries |-> Nobody]
  /\ left = [d \in Deliveries |-> 0]
  /\ delay = [d \in Deliveries |-> 0]
  /\ line = <<>>
  /\ pc = [w \in Workers |-> "idle"]
  /\ job = [w \in Workers |-> Nobody]
  /\ outcome = [w \in Workers |-> Nobody]
  /\ beat = [w \in Workers |-> 0]
  /\ lost = [w \in Workers |-> FALSE]
  /\ stopped = [w \in Workers |-> FALSE]
  /\ faults = 0

-----------------------------------------------------------------------------
(* The queue *)

\* The line without the row of d.
Unlisted(d) ==
  IF \E i \in DOMAIN line : line[i] = d
  THEN RemoveAt(line, CHOOSE i \in DOMAIN line : line[i] = d)
  ELSE line

\* available_at of d becomes now + ticks: behind every row that is due by then.
Place(d, ticks) == 1 + Cardinality({i \in DOMAIN Unlisted(d) : delay[Unlisted(d)[i]] <= ticks})
EnqueuedTwice(d, ticks) == Append(line, d)
Enqueued(d, ticks) == InsertAt(Unlisted(d), Place(d, ticks), d)

DueWithoutRetry(d) ==
  \/ status[d] = "ready"
  \/ status[d] = "leased" /\ left[d] = 0
DueWithoutExpired(d) ==
  \/ status[d] = "ready"
  \/ status[d] = "waiting" /\ signal[d] = "retry" /\ delay[d] = 0
Due(d) ==
  \/ status[d] = "ready"
  \/ status[d] = "waiting" /\ signal[d] = "retry" /\ delay[d] = 0
  \/ status[d] = "leased" /\ left[d] = 0

\* The row Claim selects: the due one that became available first.
FirstDue(d) ==
  \E i \in DOMAIN line :
    /\ line[i] = d /\ Due(d)
    /\ \A j \in 1..(i - 1) : ~Due(line[j])

\* verifyLease, for the lease of w's run.
Holds(w) ==
  /\ job[w] # Nobody
  /\ status[job[w]] = "leased"
  /\ holder[job[w]] = w
  /\ left[job[w]] > 0

AdmitRunnable(d) ==
  /\ state[d] = "absent"
  /\ state' = [state EXCEPT ![d] = "queued"]
  /\ status' = [status EXCEPT ![d] = "ready"]
  /\ line' = Enqueued(d, 0)
  /\ UNCHANGED <<signal, holder, left, delay, workerVars, faults>>

\* An admission that is not runnable waits for one that is: it has no row.
Admit(d) ==
  /\ state[d] = "absent"
  /\ state' = [state EXCEPT ![d] = "admitted"]
  /\ UNCHANGED <<status, signal, holder, left, delay, line, workerVars, faults>>

Queue(d) ==
  /\ state[d] = "admitted"
  /\ state' = [state EXCEPT ![d] = "queued"]
  /\ status' = [status EXCEPT ![d] = "ready"]
  /\ UNCHANGED <<signal, holder, left, delay, workerVars, faults>>

QueueAdmitted(d) == Queue(d) /\ line' = Enqueued(d, 0)

\* A runnable admission that finds it admitted makes it available as of that admission:
\* anywhere among the rows that are available now.
AdmitRunnableAgain(d) ==
  /\ Queue(d)
  /\ \E i \in 1..Place(d, 0) : line' = InsertAt(Unlisted(d), i, d)

SignalWaiting(d) ==
  /\ status[d] = "waiting" /\ signal[d] = "answer"
  /\ ValidTransition(state[d], "queued")
  /\ state' = [state EXCEPT ![d] = "queued"]
  /\ status' = [status EXCEPT ![d] = "ready"]
  /\ signal' = [signal EXCEPT ![d] = "none"]
  /\ line' = Enqueued(d, 0)
  /\ UNCHANGED <<holder, left, delay, workerVars, faults>>

Cancel(d) ==
  /\ status[d] # "none"
  /\ state[d] # "cancel_requested"
  /\ ValidTransition(state[d], "cancel_requested")
  /\ state' = [state EXCEPT ![d] = "cancel_requested"]
  /\ status' = [status EXCEPT ![d] = "cancelled"]
  /\ signal' = [signal EXCEPT ![d] = "none"]
  /\ holder' = [holder EXCEPT ![d] = Nobody]
  /\ left' = [left EXCEPT ![d] = 0]
  /\ delay' = [delay EXCEPT ![d] = 0]
  /\ line' = Unlisted(d)
  /\ UNCHANGED <<workerVars, faults>>

-----------------------------------------------------------------------------
(* RunOnce *)

\* The next round of Worker.run after this one has ended.
Idle(w) ==
  /\ pc' = [pc EXCEPT ![w] = IF stopped[w] THEN "halted" ELSE "idle"]
  /\ job' = [job EXCEPT ![w] = Nobody]
  /\ outcome' = [outcome EXCEPT ![w] = Nobody]
  /\ beat' = [beat EXCEPT ![w] = 0]
  /\ lost' = [lost EXCEPT ![w] = FALSE]
  /\ UNCHANGED stopped

Fault == faults < MaxFaults /\ faults' = faults + 1

\* A state other than these three makes Claim fail, and with it every claim until
\* another row becomes the first one due.
Claimable == {"queued", "running", "waiting_retry"}

Claim(w) == \E d \in Deliveries :
  /\ pc[w] = "idle" /\ ~stopped[w]
  /\ FirstDue(d)
  /\ state[d] \in Claimable
  /\ state' = [state EXCEPT ![d] = "running"]
  /\ status' = [status EXCEPT ![d] = "leased"]
  /\ signal' = [signal EXCEPT ![d] = "none"]
  /\ holder' = [holder EXCEPT ![d] = w]
  /\ left' = [left EXCEPT ![d] = LeaseTicks]
  /\ pc' = [pc EXCEPT ![w] = "claimed"]
  /\ job' = [job EXCEPT ![w] = d]
  /\ UNCHANGED <<delay, line, outcome, beat, lost, stopped, faults>>

\* Usage is read, the heartbeat goroutine and the executor start.
Start(w) ==
  /\ pc[w] = "claimed" /\ ~stopped[w]
  /\ pc' = [pc EXCEPT ![w] = "executing"]
  /\ beat' = [beat EXCEPT ![w] = BeatTicks]
  /\ UNCHANGED <<queueVars, job, outcome, lost, stopped, faults>>

HeartbeatIgnored(w) ==
  /\ pc[w] = "executing" /\ beat[w] = 0 /\ ~lost[w] /\ ~stopped[w]
  /\ beat' = [beat EXCEPT ![w] = BeatTicks]
  /\ left' = [left EXCEPT ![job[w]] = IF Holds(w) THEN LeaseTicks ELSE @]
  /\ UNCHANGED <<state, status, signal, holder, delay, line, pc, job, outcome, lost, stopped, faults>>

\* The ticker fires: the lease is extended, or the heartbeat fails for good and
\* cancels the execution.
Heartbeat(w) ==
  /\ pc[w] = "executing" /\ beat[w] = 0 /\ ~lost[w] /\ ~stopped[w]
  /\ \/ /\ Holds(w)
        /\ left' = [left EXCEPT ![job[w]] = LeaseTicks]
        /\ beat' = [beat EXCEPT ![w] = BeatTicks]
        /\ UNCHANGED lost
     \/ /\ ~Holds(w)
        /\ lost' = [lost EXCEPT ![w] = TRUE]
        /\ UNCHANGED <<left, beat>>
  /\ UNCHANGED <<state, status, signal, holder, delay, line, pc, job, outcome, stopped, faults>>

\* The executor returns, whatever happened to its context.
Return(w) == \E o \in Outcomes :
  /\ pc[w] = "executing"
  /\ pc' = [pc EXCEPT ![w] = "returned"]
  /\ outcome' = [outcome EXCEPT ![w] = o]
  /\ UNCHANGED <<queueVars, job, beat, lost, stopped, faults>>

\* The outcome is dropped and the lease left to expire: a heartbeat failed, or the
\* worker was stopped, before the lease was given up.
Abandon(w) ==
  /\ \/ pc[w] = "claimed" /\ stopped[w]
     \/ pc[w] = "returned" /\ (lost[w] \/ stopped[w])
  /\ Idle(w)
  /\ UNCHANGED <<queueVars, faults>>

\* Where each outcome takes the delivery and its row.
NextState == [o \in Outcomes |->
  CASE o \in {"succeeded", "failed", "cancelled"} -> {o}
    [] o = "retry" -> {"waiting_retry"}
    [] o = "waiting" -> Parks]

NextStatus == [o \in Outcomes |->
  CASE o \in {"succeeded", "failed"} -> "done"
    [] o = "cancelled" -> "cancelled"
    [] o \in {"retry", "waiting"} -> "waiting"]

NextSignal == [o \in Outcomes |->
  CASE o = "retry" -> "retry" [] o = "waiting" -> "answer" [] OTHER -> "none"]

Accepts(w, next) ==
  /\ Holds(w)
  /\ next = state[job[w]] \/ ValidTransition(state[job[w]], next)

Finalize(w) ==
  /\ pc[w] = "returned" /\ ~lost[w] /\ ~stopped[w]
  /\ LET d == job[w]
         o == outcome[w]
     IN  \E next \in NextState[o] :
           \/ /\ Accepts(w, next)
              /\ state' = [state EXCEPT ![d] = next]
              /\ status' = [status EXCEPT ![d] = NextStatus[o]]
              /\ signal' = [signal EXCEPT ![d] = NextSignal[o]]
              /\ holder' = [holder EXCEPT ![d] = Nobody]
              /\ left' = [left EXCEPT ![d] = 0]
              /\ delay' = [delay EXCEPT ![d] = IF o = "retry" THEN RetryTicks ELSE 0]
              /\ line' = IF o = "retry" THEN Enqueued(d, RetryTicks) ELSE Unlisted(d)
           \/ ~Accepts(w, next) /\ UNCHANGED queueVars
  /\ Idle(w)
  /\ UNCHANGED faults

\* Execution.Transition: the row stays leased.
ExecutorTransition(w, next) ==
  /\ pc[w] = "executing" /\ Holds(w)
  /\ ValidTransition(state[job[w]], next)
  /\ state' = [state EXCEPT ![job[w]] = next]
  /\ UNCHANGED <<status, signal, holder, left, delay, line, workerVars, faults>>

-----------------------------------------------------------------------------
(* Faults and time *)

\* A database error: Usage or Finalize fails and RunOnce returns.
StoreFails(w) ==
  /\ Fault
  /\ pc[w] \in {"claimed", "returned"}
  /\ Idle(w)
  /\ UNCHANGED queueVars

\* A transient error of one heartbeat ends the execution as well.
HeartbeatFails(w) ==
  /\ Fault
  /\ pc[w] = "executing" /\ beat[w] = 0 /\ ~lost[w] /\ ~stopped[w]
  /\ lost' = [lost EXCEPT ![w] = TRUE]
  /\ UNCHANGED <<queueVars, pc, job, outcome, beat, stopped>>

\* The process dies and is started again: nobody remembers the lease.
Crash(w) ==
  /\ Fault
  /\ pc[w] \in {"claimed", "executing", "returned"}
  /\ pc' = [pc EXCEPT ![w] = "idle"]
  /\ job' = [job EXCEPT ![w] = Nobody]
  /\ outcome' = [outcome EXCEPT ![w] = Nobody]
  /\ beat' = [beat EXCEPT ![w] = 0]
  /\ lost' = [lost EXCEPT ![w] = FALSE]
  /\ stopped' = [stopped EXCEPT ![w] = FALSE]
  /\ holder' = [d \in Deliveries |-> IF holder[d] = w THEN Nobody ELSE holder[d]]
  /\ UNCHANGED <<state, status, signal, left, delay, line>>

\* Stop cancels the context; an idle worker's loop ends at once.
Stop(w) ==
  /\ Fault
  /\ ~stopped[w]
  /\ stopped' = [stopped EXCEPT ![w] = TRUE]
  /\ pc' = [pc EXCEPT ![w] = IF @ = "idle" THEN "halted" ELSE @]
  /\ UNCHANGED <<queueVars, job, outcome, beat, lost>>

\* Start after Stop has returned.
Restart(w) ==
  /\ pc[w] = "halted"
  /\ pc' = [pc EXCEPT ![w] = "idle"]
  /\ stopped' = [stopped EXCEPT ![w] = FALSE]
  /\ UNCHANGED <<queueVars, job, outcome, beat, lost, faults>>

\* A live worker that has something to do within this tick.
Urgent(w) ==
  \/ pc[w] \in {"claimed", "returned"}
  \/ pc[w] = "executing" /\ beat[w] = 0 /\ ~lost[w] /\ ~stopped[w]

Down(ticks) == IF ticks = 0 THEN 0 ELSE ticks - 1

Passes ==
  /\ \/ \E d \in Deliveries : left[d] > 0 \/ delay[d] > 0
     \/ \E w \in Workers : beat[w] > 0
  /\ left' = [d \in Deliveries |-> Down(left[d])]
  /\ delay' = [d \in Deliveries |-> Down(delay[d])]
  /\ beat' = [w \in Workers |-> Down(beat[w])]
  /\ UNCHANGED <<state, status, signal, holder, line, pc, job, outcome, lost, stopped>>

\* Time passes while every live worker is on time ...
Tick == (\A w \in Workers : ~Urgent(w)) /\ Passes /\ UNCHANGED faults

\* ... or one of them is overdue: its process is paused or starved.
Pause == (\E w \in Workers : Urgent(w)) /\ Passes /\ Fault

-----------------------------------------------------------------------------
Next ==
  \/ \E d \in Deliveries :
       \/ AdmitRunnable(d) \/ Admit(d) \/ QueueAdmitted(d) \/ AdmitRunnableAgain(d)
       \/ SignalWaiting(d) \/ Cancel(d)
  \/ \E w \in Workers :
       \/ Claim(w) \/ Start(w) \/ Heartbeat(w) \/ Return(w) \/ Abandon(w) \/ Finalize(w)
       \/ StoreFails(w) \/ HeartbeatFails(w) \/ Crash(w) \/ Stop(w) \/ Restart(w)
  \/ Tick
  \/ Pause

\* The worker loop polls, time passes, a stopped worker is started again, and an
\* executor whose context is cancelled returns.  That an executor returns by itself
\* is not promised by anything.
Fairness ==
  /\ \A w \in Workers :
       /\ WF_vars(Claim(w)) /\ WF_vars(Start(w)) /\ WF_vars(Heartbeat(w))
       /\ WF_vars(Abandon(w)) /\ WF_vars(Finalize(w)) /\ WF_vars(Restart(w))
       /\ WF_vars(Return(w) /\ (lost[w] \/ stopped[w]))
  /\ SF_vars(Tick)

Spec == Init /\ [][Next]_vars /\ Fairness

\* With an executor that moves its delivery through Execution.Transition, which leaves
\* the row as it is; no executor of the repository does.
MovingNext == Next \/ \E w \in Workers, next \in ExecutorMoves : ExecutorTransition(w, next)
MovingSpec == Init /\ [][MovingNext]_vars /\ Fairness

-----------------------------------------------------------------------------
(* Correctness *)

ExecutorsReturn == \A w \in Workers : []<>(pc[w] # "executing")

\* Interrupted leases can be reclaimed: if executors return, a delivery that may run
\* is sooner or later finished, cancelled, parked for an answer or put off for
\* a retry, whatever crashed, paused or was stopped in between (Claim, worker.go).
InterruptedWorkIsReclaimed ==
  ExecutorsReturn =>
    \A d \in Deliveries :
      status[d] \in {"ready", "leased"} ~> ~(status[d] \in {"ready", "leased"})

\* A delivery whose run was stopped is run again, by the restarted worker or another
\* one, or is given up (the comment on Worker.Start, and Claim).
StoppedWorkIsReclaimed ==
  ExecutorsReturn =>
    \A w \in Workers, d \in Deliveries :
      (stopped[w] /\ job[w] = d /\ status[d] = "leased") ~>
        (status[d] # "leased" \/ \E v \in Workers : job[v] = d /\ ~stopped[v])

\* A retry that was put off is claimed again once it is due, and not overtaken for ever
\* by deliveries that become available later (Claim's SELECT and its ORDER BY).
RetryIsClaimed ==
  ExecutorsReturn =>
    \A d \in Deliveries :
      (status[d] = "waiting" /\ signal[d] = "retry") ~> ~(status[d] = "waiting" /\ signal[d] = "retry")

\* A run that lost its delivery, to another worker or to Cancel, is stopped: its
\* executor does not go on forever beside the new owner's (the heartbeat goroutine).
StaleRunIsStopped ==
  \A w \in Workers :
    (pc[w] = "executing" /\ holder[job[w]] # w) ~> pc[w] # "executing"
=============================================================================
