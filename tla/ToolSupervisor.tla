--------------------------- MODULE ToolSupervisor ---------------------------
(***************************************************************************)
(* The supervisor of background tools (orchestrator/tool_supervisor.go) in *)
(* one session: start admits a call under a capacity, journals its intent, *)
(* launches the handler and records its receipt; await_tool collects and   *)
(* repairs, cancel_tool asks for cancellation.  Every PutFile is a step    *)
(* that may fail, with or without having written, and the host may crash   *)
(* at any point and be started again.  One host runs at a time.            *)
(*                                                                         *)
(* Two locks matter.  s.mu is held by start from its look at the active    *)
(* table to the end of the intent's journaling (mu).  run.receiptMu is     *)
(* held while a receipt of the run is composed and written (writer).       *)
(***************************************************************************)
EXTENDS Naturals, FiniteSets

CONSTANTS
  Calls,        \* call ids the model issues
  Fingerprints, \* tool and arguments, in this session
  Fp,           \* Fp[c]: the fingerprint of call c
  Cancellable,  \* calls that somebody may cancel
  Waiters,      \* concurrent await_tool and cancel_tool calls
  Capacity,     \* MaxBackgroundTools
  MaxRuns,      \* bound: admissions
  MaxHosts,     \* bound: host processes, one after another
  MaxFaults     \* bound: failing PutFile calls

ASSUME SupervisorAssumption ==
  /\ Fp \in [Calls -> Fingerprints]
  /\ Cancellable \subseteq Calls
  /\ Waiters \intersect {"nobody", "start", "handler"} = {}
  /\ Capacity \in Nat \ {0}
  /\ MaxRuns \in Nat /\ MaxHosts \in Nat /\ MaxFaults \in Nat

Runs == 1..MaxRuns

VARIABLES
  host,      \* the host process, counted
  closed,    \* toolSupervisor.closed
  mu,        \* the run for whose admission start holds s.mu, 0 when it is free
  gate,      \* slots taken
  active,    \* active[f]: the run of fingerprint f, 0 for none
  stage,     \* stage[r]: where the goroutine of run r stands
  callOf,    \* callOf[r]: the call run r was admitted for
  cancelled, \* runs whose cancelAsked is set
  failed,    \* runs whose receiptErr is set
  writer,    \* writer[r]: who holds receiptMu of r, what it writes and how far it is
  waiter,    \* waiter[w]: an await_tool or cancel_tool call
  issued,    \* runs admitted so far
  faults,
  runFile,   \* harness/runs/<id>: the status in the receipt of run r
  activeFile,\* harness/active/<fingerprint>: the receipt written last
  launched,  \* the outside world: runs whose handler was called
  returned   \*   and whose handler returned

memory == <<closed, mu, gate, active, stage, callOf, cancelled, failed, issued>>
files  == <<runFile, activeFile>>
world  == <<launched, returned>>
vars   == <<host, memory, writer, waiter, faults, files, world>>

Stages == {"none", "intent", "handler", "finished", "committed", "uncommitted",
           "leaving", "kept", "gone", "lost"}

Statuses == {"running", "cancel_requested", "completed", "reconciliation_required"}

Nobody == [by |-> "nobody", status |-> "running", step |-> "run"]
Idle   == [stage |-> "idle", run |-> 0]
NoFile == [run |-> 0, status |-> "running"]

Init ==
  /\ host = 1
  /\ closed = FALSE
  /\ mu = 0
  /\ gate = 0
  /\ active = [f \in Fingerprints |-> 0]
  /\ stage = [r \in Runs |-> "none"]
  /\ callOf \in [Runs -> Calls] /\ \A r, q \in Runs : callOf[r] = callOf[q]
  /\ cancelled = {}
  /\ failed = {}
  /\ writer = [r \in Runs |-> Nobody]
  /\ waiter = [w \in Waiters |-> Idle]
  /\ issued = 0
  /\ faults = 0
  /\ runFile = [r \in Runs |-> "none"]
  /\ activeFile = [f \in Fingerprints |-> NoFile]
  /\ launched = {}
  /\ returned = {}

-----------------------------------------------------------------------------
FpOf(r)  == Fp[callOf[r]]
InMap(r) == stage[r] \notin {"none", "gone", "lost"}       \* s.runs[run.id] == run
Done(r)  == stage[r] \in {"kept", "gone"}          \* run.done is closed
Free(r)  == writer[r] = Nobody                     \* receiptMu

\* supervisedReceipt
Status(r) ==
  LET working == stage[r] \in {"intent", "handler"}
  IN  CASE working /\ r \in cancelled -> "cancel_requested"
        [] working /\ r \notin cancelled -> "running"
        [] ~working /\ r \in failed -> "reconciliation_required"
        [] ~working /\ r \notin failed -> "completed"

Compose(r, who, status) == writer' = [writer EXCEPT ![r] = [by |-> who, status |-> status, step |-> "run"]]
Unlock(r) == writer' = [writer EXCEPT ![r] = Nobody]
Wrote(r, who, step) == writer[r].by = who /\ writer[r].step = step
GoTo(r, st) == stage' = [stage EXCEPT ![r] = st]

-----------------------------------------------------------------------------
(* start *)

\* The receipt the host finds for the fingerprint allows the call to be launched.
MayLaunchAgain(c) ==
  LET prior == activeFile[Fp[c]]
  IN  prior.run # 0 => callOf[prior.run] # c
MayLaunch(c) ==
  LET prior == activeFile[Fp[c]]
  IN  prior = NoFile \/ (prior.status = "completed" /\ callOf[prior.run] # c)

NotActiveIgnored(c) == TRUE
NotActive(c) == active[Fp[c]] = 0

Admit(c) ==
  /\ ~closed /\ mu = 0
  /\ NotActive(c) /\ MayLaunch(c)
  /\ gate < Capacity
  /\ issued < MaxRuns
  /\ LET r == issued + 1
     IN  /\ issued' = r
         /\ mu' = r
         /\ gate' = gate + 1
         /\ active' = [active EXCEPT ![Fp[c]] = r]
         /\ callOf' = [callOf EXCEPT ![r] = c]
         /\ GoTo(r, "intent")
         /\ Compose(r, "start", "running")
  /\ UNCHANGED <<host, closed, cancelled, failed, waiter, faults, files, world>>

Launch(r) ==
  /\ Wrote(r, "start", "ok")
  /\ mu' = 0
  /\ GoTo(r, "handler")
  /\ launched' = launched \union {r}
  /\ Unlock(r)
  /\ UNCHANGED <<host, closed, gate, active, callOf, cancelled, failed, issued, waiter, faults, files, returned>>

\* "journal background tool" failed: no handler is called.
Withdraw(r) ==
  /\ Wrote(r, "start", "error")
  /\ mu' = 0
  /\ gate' = gate - 1
  /\ active' = [active EXCEPT ![FpOf(r)] = 0]
  /\ GoTo(r, "gone")
  /\ Unlock(r)
  /\ UNCHANGED <<host, closed, callOf, cancelled, failed, issued, waiter, faults, files, world>>

-----------------------------------------------------------------------------
(* writeReceipt: the two files of a receipt *)

\* PutFile of value into a file: after it the writer is at next, or at "error" whether
\* the file was written or not.
Put(r, step, next) ==
  /\ writer[r].by # "nobody"
  /\ writer[r].step = step
  /\ \/ writer' = [writer EXCEPT ![r].step = next] /\ UNCHANGED faults
     \/ /\ faults < MaxFaults
        /\ faults' = faults + 1
        /\ writer' = [writer EXCEPT ![r].step = "error"]

PutRun(r) ==
  /\ Put(r, "run", "active")
  /\ \/ runFile' = [runFile EXCEPT ![r] = writer[r].status]
     \/ writer'[r].step = "error" /\ UNCHANGED runFile
  /\ UNCHANGED <<host, memory, waiter, activeFile, world>>

PutActive(r) ==
  /\ Put(r, "active", "ok")
  /\ \/ activeFile' = [activeFile EXCEPT ![FpOf(r)] = [run |-> r, status |-> writer[r].status]]
     \/ writer'[r].step = "error" /\ UNCHANGED activeFile
  /\ UNCHANGED <<host, memory, waiter, runFile, world>>

-----------------------------------------------------------------------------
(* The goroutine of a run *)

\* The handler returns or panics, cancelled or not.
Return(r) ==
  /\ stage[r] = "handler"
  /\ GoTo(r, "finished")
  /\ returned' = returned \union {r}
  /\ UNCHANGED <<host, closed, mu, gate, active, callOf, cancelled, failed, issued, writer, waiter, faults, files, launched>>

Persist(r) ==
  /\ stage[r] = "finished"
  /\ Free(r)
  /\ Compose(r, "handler", Status(r))
  /\ UNCHANGED <<host, memory, waiter, faults, files, world>>

Persisted(r) ==
  /\ writer[r].by = "handler"
  /\ \/ writer[r].step = "ok" /\ GoTo(r, "committed")
     \/ writer[r].step = "error" /\ GoTo(r, "uncommitted")
  /\ Unlock(r)
  /\ UNCHANGED <<host, closed, mu, gate, active, callOf, cancelled, failed, issued, waiter, faults, files, world>>

\* A receipt that was not committed keeps the slot and the run.
SettleAnyway(r) ==
  /\ stage[r] \in {"committed", "uncommitted"}
  /\ gate' = gate - 1
  /\ GoTo(r, "leaving")
  /\ UNCHANGED failed
  /\ UNCHANGED <<host, closed, mu, active, callOf, cancelled, issued, writer, waiter, faults, files, world>>
SettleReleasing(r) ==
  /\ gate' = gate - 1
  /\ \/ stage[r] = "committed" /\ GoTo(r, "leaving") /\ UNCHANGED failed
     \/ stage[r] = "uncommitted" /\ failed' = failed \union {r} /\ GoTo(r, "kept")
  /\ UNCHANGED <<host, closed, mu, active, callOf, cancelled, issued, writer, waiter, faults, files, world>>
Settle(r) ==
  /\ \/ stage[r] = "committed" /\ gate' = gate - 1 /\ GoTo(r, "leaving") /\ UNCHANGED failed
     \/ stage[r] = "uncommitted" /\ failed' = failed \union {r} /\ GoTo(r, "kept") /\ UNCHANGED gate
  /\ UNCHANGED <<host, closed, mu, active, callOf, cancelled, issued, writer, waiter, faults, files, world>>

Remove(r) ==
  /\ stage[r] = "leaving"
  /\ mu = 0
  /\ active' = [active EXCEPT ![FpOf(r)] = 0]
  /\ GoTo(r, "gone")
  /\ UNCHANGED <<host, closed, mu, gate, callOf, cancelled, failed, issued, writer, waiter, faults, files, world>>

-----------------------------------------------------------------------------
(* await_tool and cancel_tool *)

At(w, st) == waiter[w].stage = st
Move(w, st) == waiter' = [waiter EXCEPT ![w].stage = st]
Leave(w) == waiter' = [waiter EXCEPT ![w] = Idle]

\* The run is looked up under s.mu; from then on the call works on the run it found.
Look(w, r) ==
  /\ At(w, "idle")
  /\ mu = 0
  /\ InMap(r)
  /\ \/ waiter' = [waiter EXCEPT ![w] = [stage |-> "wait", run |-> r]] /\ UNCHANGED cancelled
     \/ /\ callOf[r] \in Cancellable
        /\ cancelled' = cancelled \union {r}
        /\ waiter' = [waiter EXCEPT ![w] = [stage |-> "cancel", run |-> r]]
  /\ UNCHANGED <<host, closed, mu, gate, active, stage, callOf, failed, issued, writer, faults, files, world>>

\* The status is read once receiptMu is held.
CancelRequested(r) == "cancel_requested"
CancelStatus(r) == Status(r)

Cancel(w) ==
  LET r == waiter[w].run
  IN  /\ At(w, "cancel")
      /\ Free(r)
      /\ Compose(r, w, CancelStatus(r))
      /\ Move(w, "cancelling")
      /\ UNCHANGED <<host, memory, faults, files, world>>

CancelDone(w) ==
  LET r == waiter[w].run
  IN  /\ At(w, "cancelling")
      /\ \/ Wrote(r, w, "ok") /\ Move(w, "wait")
         \/ Wrote(r, w, "error") /\ Leave(w)
      /\ Unlock(r)
      /\ UNCHANGED <<host, memory, faults, files, world>>

\* The wait is over without a receipt to repair.
GiveUp(w) ==
  /\ At(w, "wait")
  /\ ~(Done(waiter[w].run) /\ waiter[w].run \in failed)
  /\ Leave(w)
  /\ UNCHANGED <<host, memory, writer, faults, files, world>>

\* repairReceipt
Repair(w) ==
  LET r == waiter[w].run
  IN  /\ At(w, "wait")
      /\ Done(r)
      /\ Free(r)
      /\ r \in failed
      /\ failed' = failed \ {r}
      /\ Compose(r, w, "completed")
      /\ Move(w, "repairing")
      /\ UNCHANGED <<host, closed, mu, gate, active, stage, callOf, cancelled, issued, faults, files, world>>

RepairFailed(w) ==
  LET r == waiter[w].run
  IN  /\ At(w, "repairing")
      /\ Wrote(r, w, "error")
      /\ failed' = failed \union {r}
      /\ Unlock(r)
      /\ Leave(w)
      /\ UNCHANGED <<host, closed, mu, gate, active, stage, callOf, cancelled, issued, faults, files, world>>

Repaired(w) ==
  LET r == waiter[w].run
  IN  /\ At(w, "repairing")
      /\ Wrote(r, w, "ok")
      /\ mu = 0
      /\ IF InMap(r)
         THEN /\ GoTo(r, "gone")
              /\ active' = [active EXCEPT ![FpOf(r)] = 0]
              /\ gate' = gate - 1
         ELSE UNCHANGED <<stage, active, gate>>
      /\ Unlock(r)
      /\ Leave(w)
      /\ UNCHANGED <<host, closed, mu, callOf, cancelled, failed, issued, faults, files, world>>

-----------------------------------------------------------------------------
(* The host *)

Close ==
  /\ ~closed /\ mu = 0
  /\ closed' = TRUE
  /\ cancelled' = cancelled \union {r \in Runs : InMap(r)}
  /\ UNCHANGED <<host, mu, gate, active, stage, callOf, failed, issued, writer, waiter, faults, files, world>>

\* The process ends, with whatever it was doing, and another one is started.
Restart ==
  /\ host < MaxHosts
  /\ host' = host + 1
  /\ closed' = FALSE
  /\ mu' = 0
  /\ gate' = 0
  /\ active' = [f \in Fingerprints |-> 0]
  /\ stage' = [r \in Runs |-> IF InMap(r) THEN "lost" ELSE stage[r]]
  /\ cancelled' = {}
  /\ failed' = {}
  /\ writer' = [r \in Runs |-> Nobody]
  /\ waiter' = [w \in Waiters |-> Idle]
  /\ UNCHANGED <<callOf, issued, faults, files, world>>

Goroutine(r) == Persist(r) \/ Persisted(r) \/ Settle(r) \/ Remove(r)
Starter(r)   == Launch(r) \/ Withdraw(r)
Writing(r)   == PutRun(r) \/ PutActive(r)
Waiting(w)   == Cancel(w) \/ CancelDone(w) \/ Repair(w) \/ RepairFailed(w) \/ Repaired(w)

Next ==
  \/ \E c \in Calls : Admit(c)
  \/ \E r \in Runs : Starter(r) \/ Writing(r) \/ Return(r) \/ Goroutine(r)
  \/ \E w \in Waiters : (\E r \in Runs : Look(w, r)) \/ Waiting(w) \/ GiveUp(w)
  \/ Close \/ Restart

Spec == Init /\ [][Next]_vars

-----------------------------------------------------------------------------
(* Properties *)

\* The supervisor's tables and files keep their types.
TypeOK ==
  /\ host \in Nat /\ closed \in BOOLEAN /\ mu \in 0..issued
  /\ gate \in 0..Capacity
  /\ active \in [Fingerprints -> 0..issued]
  /\ stage \in [Runs -> Stages]
  /\ callOf \in [Runs -> Calls]
  /\ cancelled \subseteq Runs /\ failed \subseteq Runs
  /\ writer \in [Runs -> [by : {"nobody", "start", "handler"} \union Waiters,
                          status : Statuses, step : {"run", "active", "ok", "error"}]]
  /\ waiter \in [Waiters -> [stage : {"idle", "wait", "cancel", "cancelling", "repairing"}, run : 0..issued]]
  /\ issued \in 0..MaxRuns /\ faults \in 0..MaxFaults
  /\ runFile \in [Runs -> Statuses \union {"none"}]
  /\ activeFile \in [Fingerprints -> [run : 0..issued, status : Statuses]]
  /\ returned \subseteq launched /\ launched \subseteq Runs

\* "Concurrent duplicates invoke once": a call repeated while its effect is under way, or
\* while the receipt of its effect is not committed, is not launched a second time.
DuplicatesInvokeOnce ==
  \A r, q \in launched : InMap(r) /\ InMap(q) /\ FpOf(r) = FpOf(q) => r = q

\* The slots taken are those of the handlers at work and of the results whose receipt is
\* not committed: capacity is neither exceeded by a hung handler nor lost for good.
SlotsMatchRuns ==
  gate = Cardinality({r \in Runs : stage[r] \in {"intent", "handler", "finished", "committed", "uncommitted", "kept"}})

\* "Preserve this result": what a handler returned can be collected, from memory or from
\* its committed receipt, as long as the host lives (await's two sources).
ResultsCanBeCollected ==
  \A r \in returned : stage[r] = "gone" => runFile[r] = "completed"

\* "cancellation cannot overwrite a terminal receipt": a receipt that says the handler
\* returned never says again that it is running.
TerminalReceiptStands ==
  [][\A r \in Runs : runFile[r] \in {"completed", "reconciliation_required"}
                       => runFile'[r] \in {"completed", "reconciliation_required"}]_vars

\* "interrupted effects must be reconciled, never blindly repeated": once the host that ran
\* an effect died with it, no host launches the same tool with the same arguments.
InterruptedNotRepeated ==
  \A q, r \in launched : q < r /\ FpOf(q) = FpOf(r) => q \in returned
=============================================================================
