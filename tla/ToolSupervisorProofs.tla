------------------------ MODULE ToolSupervisorProofs ------------------------
(***************************************************************************)
(* Theorems about ToolSupervisor, for any calls, fingerprints, waiters,    *)
(* capacity and number of hosts and failing writes.  A run in s.runs is    *)
(* the one its fingerprint's entry of s.active names, and the stage of a   *)
(* run is known to whoever holds its receiptMu; so an entry is cleared, a  *)
(* slot given back and a receipt written by whoever may do so.  A second   *)
(* invariant, at the end, follows the file of a fingerprint across hosts.  *)
(***************************************************************************)
EXTENDS ToolSupervisor, FiniteSetTheorems, TLAPS

Holding == {"intent", "handler", "finished", "committed", "uncommitted", "kept"}

\* Runs that hold a slot.
Busy == {r \in Runs : stage[r] \in Holding}

Working  == {"intent", "handler"}
WriterTypes ==
  [by : {"nobody", "start", "handler"} \union Waiters,
   status : Statuses, step : {"run", "active", "ok", "error"}]
WaiterTypes == [stage : {"idle", "wait", "cancel", "cancelling", "repairing"}, run : 0..issued]

OpenStatuses == {"running", "cancel_requested"}
Terminal == {"completed", "reconciliation_required"}

Writes(r) == writer[r].by # "nobody"

\* What was not admitted has no stage, nobody to write its receipt and nobody who waits.
Issued ==
  /\ \A r \in Runs : stage[r] = "none" <=> r > issued
  /\ \A r \in Runs : Writes(r) => stage[r] # "none"
  /\ \A w \in Waiters : waiter[w].stage # "idle" => waiter[w].run \in 1..issued

\* What the holder of receiptMu knows about the run.
WritersKnow ==
  /\ \A r \in Runs : writer[r].by = "start" => stage[r] = "intent"
  /\ \A r \in Runs : writer[r].by = "handler" => stage[r] = "finished" /\ writer[r].status = "completed"
  /\ \A w \in Waiters : waiter[w].stage = "repairing" =>
       /\ stage[waiter[w].run] = "kept" /\ waiter[w].run \notin failed
       /\ writer[waiter[w].run].by = w /\ writer[waiter[w].run].status = "completed"

HandlersRan ==
  /\ \A r \in Runs : stage[r] = "handler" => r \in launched
  /\ \A r \in returned : stage[r] \notin {"none", "intent", "handler"}

FailedIsKept == \A r \in failed : stage[r] = "kept"

\* A run in s.runs is the one its fingerprint's entry names.
ActiveNamesRun == \A r \in Runs : InMap(r) => active[FpOf(r)] = r

\* No receipt is terminal before the handler returned, and who holds receiptMu since then
\* writes nothing over a terminal one.
ReceiptsOpen ==
  \A r \in Runs :
    /\ stage[r] \in Working \union {"none"} => runFile[r] \notin Terminal
    /\ Writes(r) /\ stage[r] \in Working => writer[r].status \in OpenStatuses
    /\ Writes(r) /\ writer[r].status \in OpenStatuses => runFile[r] \notin Terminal

\* A run that is over has its receipt, and nobody is about to write another.
ReceiptsStay ==
  /\ \A r \in Runs :
       stage[r] \in {"committed", "leaving"} \/ (stage[r] = "gone" /\ r \in returned) =>
         runFile[r] = "completed" /\ (Writes(r) => writer[r].status = "completed")
  /\ \A r \in Runs :
       writer[r].step \in {"active", "ok"} /\ writer[r].status = "completed" /\ Writes(r)
         => runFile[r] = "completed"

IInv ==
  /\ TypeOK /\ Issued /\ WritersKnow /\ HandlersRan /\ FailedIsKept
  /\ ActiveNamesRun /\ SlotsMatchRuns /\ ReceiptsOpen /\ ReceiptsStay

-----------------------------------------------------------------------------
(* Slots and entries *)

LEMMA BusyFinite ==
  /\ \A S \in SUBSET Runs : IsFiniteSet(S) /\ Cardinality(S) \in Nat
  /\ Cardinality({}) = 0
<1>1. IsFiniteSet(Runs)
  BY FS_Interval, SupervisorAssumption DEF Runs, SupervisorAssumption
<1> QED
  BY <1>1, FS_Subset, FS_CardinalityType, FS_EmptySet

LEMMA OneMore ==
  ASSUME NEW S \in SUBSET Runs, NEW r \in Runs, r \notin S
  PROVE  Cardinality(S \union {r}) = Cardinality(S) + 1
BY BusyFinite, FS_AddElement

LEMMA OneLess ==
  ASSUME NEW S \in SUBSET Runs, NEW r \in S
  PROVE  Cardinality(S \ {r}) = Cardinality(S) - 1 /\ Cardinality(S) > 0
<1>1. Cardinality(S \ {r}) \in Nat /\ Cardinality(S) \in Nat
  BY BusyFinite
<1>2. (S \ {r}) \union {r} = S
  OBVIOUS
<1>3. Cardinality((S \ {r}) \union {r}) = Cardinality(S \ {r}) + 1
  BY OneMore
<1>4. Cardinality(S) = Cardinality(S \ {r}) + 1
  BY <1>2, <1>3, Zenon
<1> QED
  BY <1>1, <1>4

LEMMA SlotsAreBusy == SlotsMatchRuns <=> gate = Cardinality(Busy)
BY DEF SlotsMatchRuns, Busy, Holding

\* A run that goes on and keeps its slot and its place in s.runs.
LEMMA GoesOn ==
  ASSUME TypeOK, ActiveNamesRun, SlotsMatchRuns, NEW r \in Runs, NEW st \in Holding,
         GoTo(r, st), stage[r] \in Holding, UNCHANGED <<gate, active, callOf>>
  PROVE  ActiveNamesRun' /\ SlotsMatchRuns'
<1>1. stage' \in [Runs -> Stages] /\ stage'[r] = st /\ \A q \in Runs : q # r => stage'[q] = stage[q]
  BY DEF TypeOK, GoTo, Stages, Holding
<1>2. Busy' = Busy
  BY <1>1 DEF Busy
<1>3. SlotsMatchRuns'
  BY <1>2 DEF SlotsMatchRuns, Busy, Holding
<1>4. ActiveNamesRun'
  BY <1>1 DEF ActiveNamesRun, InMap, FpOf, Holding
<1> QED
  BY <1>3, <1>4

\* A run that gives its slot back.
LEMMA GivesBack ==
  ASSUME TypeOK, SlotsMatchRuns, NEW r \in Runs, NEW st \in Stages \ Holding,
         GoTo(r, st), stage[r] \in Holding, gate' = gate - 1
  PROVE  SlotsMatchRuns' /\ gate' \in 0..Capacity
<1>1. stage' \in [Runs -> Stages] /\ stage'[r] = st /\ \A q \in Runs : q # r => stage'[q] = stage[q]
  BY DEF TypeOK, GoTo
<1>2. Busy' = Busy \ {r} /\ r \in Busy /\ Busy \in SUBSET Runs
  BY <1>1 DEF Busy
<1>3. gate = Cardinality(Busy)
  BY DEF SlotsMatchRuns, Busy, Holding
<1>4. Cardinality(Busy \ {r}) = Cardinality(Busy) - 1 /\ Cardinality(Busy) > 0
  BY <1>2, OneLess
<1>5. gate' = Cardinality(Busy')
  BY <1>2, <1>3, <1>4
<1>6. SlotsMatchRuns'
  BY <1>5 DEF SlotsMatchRuns, Busy, Holding
<1>7. gate \in 0..Capacity /\ Capacity \in Nat
  BY SupervisorAssumption DEF TypeOK, SupervisorAssumption
<1> QED
  BY <1>3, <1>4, <1>6, <1>7

\* A run that leaves s.runs and takes its fingerprint's entry of s.active with it.
LEMMA EntryCleared ==
  ASSUME TypeOK, ActiveNamesRun, NEW r \in Runs, InMap(r), GoTo(r, "gone"),
         active' = [active EXCEPT ![FpOf(r)] = 0], UNCHANGED callOf
  PROVE  ActiveNamesRun' /\ active' \in [Fingerprints -> 0..issued]
<1>1. \A q \in Runs : FpOf(q) \in Fingerprints /\ FpOf(q)' = FpOf(q)
  BY SupervisorAssumption DEF TypeOK, FpOf, SupervisorAssumption
<1>2. stage'[r] = "gone" /\ \A q \in Runs : q # r => stage'[q] = stage[q]
  BY DEF TypeOK, GoTo
<1>3. /\ active'[FpOf(r)] = 0
      /\ \A f \in Fingerprints : f # FpOf(r) => active'[f] = active[f]
  BY <1>1 DEF TypeOK
<1>4. \A q \in Runs : InMap(q)' => q # r /\ InMap(q)
  BY <1>2 DEF InMap
<1>5. \A q \in Runs : InMap(q)' => FpOf(q) # FpOf(r)
  BY <1>4 DEF ActiveNamesRun
<1>6. ActiveNamesRun'
  <2> SUFFICES ASSUME NEW q \in Runs, InMap(q)' PROVE active'[FpOf(q)'] = q
    BY DEF ActiveNamesRun
  <2>1. active'[FpOf(q)] = active[FpOf(q)] /\ active[FpOf(q)] = q
    BY <1>1, <1>3, <1>4, <1>5 DEF ActiveNamesRun
  <2> QED
    BY <2>1, <1>1
<1>7. active' \in [Fingerprints -> 0..issued]
  <2>1. 0 \in 0..issued
    BY SupervisorAssumption DEF TypeOK, SupervisorAssumption
  <2> QED
    BY <2>1 DEF TypeOK
<1> QED
  BY <1>6, <1>7

\* Nothing happened to the tables.
LEMMA TablesKept ==
  ASSUME IInv, UNCHANGED <<gate, active, stage, callOf, launched, returned>>
  PROVE  HandlersRan' /\ ActiveNamesRun' /\ SlotsMatchRuns'
BY DEF IInv, HandlersRan, ActiveNamesRun, SlotsMatchRuns, InMap, FpOf

-----------------------------------------------------------------------------
\* What a status says (supervisedReceipt).
LEMMA StatusSays ==
  ASSUME NEW r \in Runs
  PROVE  /\ Status(r) \in Statuses
         /\ stage[r] \in Working => Status(r) \in OpenStatuses
         /\ stage[r] \notin Working => Status(r) \in Terminal
         /\ stage[r] \notin Working /\ r \notin failed => Status(r) = "completed"
<1>1. stage[r] \in Working => Status(r) = IF r \in cancelled THEN "cancel_requested" ELSE "running"
  BY DEF Status, Working
<1>2. stage[r] \notin Working => Status(r) = IF r \in failed THEN "reconciliation_required" ELSE "completed"
  BY DEF Status, Working
<1> QED
  BY <1>1, <1>2 DEF Statuses, OpenStatuses, Terminal

LEMMA InitHolds == Init => IInv
<1> SUFFICES ASSUME Init PROVE IInv
  OBVIOUS
<1>1. TypeOK
  <2>1. 0 \in 0..issued /\ 0 \in 0..Capacity /\ 0 \in 0..MaxRuns /\ 0 \in 0..MaxFaults
    BY SupervisorAssumption DEF Init, SupervisorAssumption
  <2>2. writer \in [Runs -> [by : {"nobody", "start", "handler"} \union Waiters,
                             status : Statuses, step : {"run", "active", "ok", "error"}]]
    BY DEF Init, Nobody, Statuses
  <2>3. waiter \in [Waiters -> [stage : {"idle", "wait", "cancel", "cancelling", "repairing"}, run : 0..issued]]
    BY <2>1 DEF Init, Idle
  <2>4. activeFile \in [Fingerprints -> [run : 0..issued, status : Statuses]]
    BY <2>1 DEF Init, NoFile, Statuses
  <2> QED
    BY <2>1, <2>2, <2>3, <2>4 DEF Init, TypeOK, Stages
<1>2. SlotsMatchRuns
  <2>1. {r \in Runs : stage[r] \in {"intent", "handler", "finished", "committed", "uncommitted", "kept"}} = {}
    BY DEF Init
  <2> QED
    BY <2>1, BusyFinite DEF Init, SlotsMatchRuns
<1>3. Issued
  BY SupervisorAssumption DEF Init, Issued, Runs, Writes, Nobody, Idle, SupervisorAssumption
<1>4. WritersKnow /\ HandlersRan /\ FailedIsKept
  BY DEF Init, WritersKnow, HandlersRan, FailedIsKept, Nobody, Idle
<1>5. ActiveNamesRun
  BY DEF Init, ActiveNamesRun, InMap
<1>6. ReceiptsOpen /\ ReceiptsStay
  BY DEF Init, ReceiptsOpen, ReceiptsStay, Writes, Nobody, Working, Terminal
<1> QED
  BY <1>1, <1>2, <1>3, <1>4, <1>5, <1>6 DEF IInv

-----------------------------------------------------------------------------
(* Receipts *)

LEMMA PutMoves ==
  ASSUME TypeOK, NEW r \in Runs, NEW step, NEW next \in {"active", "ok"}, Put(r, step, next)
  PROVE  /\ writer' \in [Runs -> WriterTypes] /\ faults' \in 0..MaxFaults
         /\ \A q \in Runs : writer'[q].by = writer[q].by /\ writer'[q].status = writer[q].status
         /\ \A q \in Runs : q # r => writer'[q] = writer[q]
         /\ writer'[r].step \in {next, "error"} /\ Writes(r) /\ writer[r].step = step
<1>1. PICK to \in {next, "error"} : writer' = [writer EXCEPT ![r].step = to]
  BY DEF Put
<1>2. writer' \in [Runs -> WriterTypes]
  BY <1>1 DEF TypeOK, WriterTypes
<1>3. writer'[r].step = to /\ \A q \in Runs : q # r => writer'[q] = writer[q]
  BY <1>1 DEF TypeOK
<1>4. writer'[r].by = writer[r].by /\ writer'[r].status = writer[r].status
  BY <1>1 DEF TypeOK
<1>5. faults' \in 0..MaxFaults
  BY SupervisorAssumption DEF Put, TypeOK, SupervisorAssumption
<1> QED
  BY <1>2, <1>3, <1>4, <1>5 DEF Put, Writes

LEMMA WaiterRuns ==
  ASSUME TypeOK, Issued, NEW w \in Waiters, waiter[w].stage # "idle"
  PROVE  /\ waiter[w].run \in Runs /\ waiter[w].run \in 1..issued
         /\ stage[waiter[w].run] # "none"
<1>1. waiter[w].run \in 1..issued /\ issued \in 0..MaxRuns /\ MaxRuns \in Nat
  BY SupervisorAssumption DEF TypeOK, Issued, SupervisorAssumption
<1> QED
  BY <1>1 DEF Issued, Runs

\* What the holder of receiptMu knows survives steps that change neither stages nor waiters
\* nor who holds it for which status.
LEMMA KnowledgeKept ==
  ASSUME TypeOK, Issued, WritersKnow, UNCHANGED <<stage, waiter, failed>>,
         \A q \in Runs : writer'[q].by = writer[q].by /\ writer'[q].status = writer[q].status
  PROVE  WritersKnow'
<1>1. \A w \in Waiters : waiter[w].stage = "repairing" => waiter[w].run \in Runs
  BY WaiterRuns
<1> QED
  BY <1>1 DEF WritersKnow

LEMMA PutRunStep ==
  ASSUME IInv, NEW r \in Runs, PutRun(r)
  PROVE  IInv'
<1>i. TypeOK /\ Issued /\ WritersKnow /\ ReceiptsOpen /\ ReceiptsStay /\ FailedIsKept
  BY DEF IInv
<1>u. /\ UNCHANGED <<host, closed, mu, gate, active, stage, callOf, cancelled, failed, issued>>
      /\ UNCHANGED <<waiter, activeFile, launched, returned>>
  BY DEF PutRun, memory, world
<1>w. /\ writer' \in [Runs -> WriterTypes] /\ faults' \in 0..MaxFaults
      /\ \A q \in Runs : writer'[q].by = writer[q].by /\ writer'[q].status = writer[q].status
      /\ \A q \in Runs : q # r => writer'[q] = writer[q]
      /\ writer'[r].step \in {"active", "error"} /\ Writes(r)
  BY <1>i, PutMoves DEF PutRun
<1>f. /\ runFile' \in [Runs -> Statuses \union {"none"}]
      /\ \A q \in Runs : q # r => runFile'[q] = runFile[q]
      /\ \/ runFile'[r] = writer[r].status
         \/ runFile'[r] = runFile[r] /\ writer'[r].step = "error"
  BY <1>i DEF PutRun, TypeOK
<1>1. TypeOK'
  BY <1>i, <1>u, <1>w, <1>f DEF TypeOK, WriterTypes
<1>2. Issued' /\ FailedIsKept'
  BY <1>i, <1>u, <1>w DEF Issued, Writes, FailedIsKept
<1>3. WritersKnow'
  BY <1>i, <1>u, <1>w, KnowledgeKept
<1>4. ReceiptsOpen'
  BY <1>i, <1>u, <1>w, <1>f DEF ReceiptsOpen, Writes, Working, OpenStatuses, Terminal, Issued
<1>5. ReceiptsStay'
  BY <1>i, <1>u, <1>w, <1>f DEF ReceiptsStay, Writes
<1>6. HandlersRan' /\ ActiveNamesRun' /\ SlotsMatchRuns'
  BY <1>u, TablesKept
<1> QED
  BY <1>1, <1>2, <1>3, <1>4, <1>5, <1>6 DEF IInv

LEMMA PutActiveStep ==
  ASSUME IInv, NEW r \in Runs, PutActive(r)
  PROVE  IInv'
<1>i. TypeOK /\ Issued /\ WritersKnow /\ ReceiptsOpen /\ ReceiptsStay /\ FailedIsKept
  BY DEF IInv
<1>u. /\ UNCHANGED <<host, closed, mu, gate, active, stage, callOf, cancelled, failed, issued>>
      /\ UNCHANGED <<waiter, runFile, launched, returned>>
  BY DEF PutActive, memory, world
<1>w. /\ writer' \in [Runs -> WriterTypes] /\ faults' \in 0..MaxFaults
      /\ \A q \in Runs : writer'[q].by = writer[q].by /\ writer'[q].status = writer[q].status
      /\ \A q \in Runs : q # r => writer'[q] = writer[q]
      /\ writer'[r].step \in {"ok", "error"} /\ Writes(r) /\ writer[r].step = "active"
  BY <1>i, PutMoves DEF PutActive
<1>f. activeFile' \in [Fingerprints -> [run : 0..issued, status : Statuses]]
  <2>1. r \in 0..issued /\ writer[r].status \in Statuses /\ FpOf(r) \in Fingerprints
    BY <1>i, <1>w, SupervisorAssumption DEF Issued, TypeOK, Runs, SupervisorAssumption, FpOf
  <2> QED
    BY <2>1, <1>i DEF PutActive, TypeOK
<1>1. TypeOK'
  BY <1>i, <1>u, <1>w, <1>f DEF TypeOK, WriterTypes
<1>2. Issued' /\ FailedIsKept'
  BY <1>i, <1>u, <1>w DEF Issued, Writes, FailedIsKept
<1>3. WritersKnow'
  BY <1>i, <1>u, <1>w, KnowledgeKept
<1>4. ReceiptsOpen'
  BY <1>i, <1>u, <1>w DEF ReceiptsOpen, Writes
<1>5. ReceiptsStay'
  BY <1>i, <1>u, <1>w DEF ReceiptsStay, Writes
<1>6. HandlersRan' /\ ActiveNamesRun' /\ SlotsMatchRuns'
  BY <1>u, TablesKept
<1> QED
  BY <1>1, <1>2, <1>3, <1>4, <1>5, <1>6 DEF IInv

\* receiptMu is taken to write a status that is open only while the handler is at work, and
\* terminal only when it is not.
LEMMA Composes ==
  ASSUME TypeOK, Issued, ReceiptsOpen, ReceiptsStay, NEW r \in Runs, stage[r] # "none",
         NEW who \in {"start", "handler"} \union Waiters, NEW status \in Statuses,
         Compose(r, who, status), UNCHANGED <<stage, runFile, returned, issued>>,
         stage[r] \in Working => status \in OpenStatuses,
         stage[r] \notin Working => status \in Terminal,
         stage[r] \in {"committed", "leaving", "gone"} => status = "completed"
  PROVE  /\ writer' \in [Runs -> WriterTypes]
         /\ writer'[r].by = who /\ writer'[r].status = status
         /\ \A q \in Runs : q # r => writer'[q] = writer[q]
         /\ ReceiptsOpen' /\ ReceiptsStay'
<1>1. /\ writer' \in [Runs -> WriterTypes]
      /\ writer'[r] = [by |-> who, status |-> status, step |-> "run"]
      /\ \A q \in Runs : q # r => writer'[q] = writer[q]
  BY DEF Compose, TypeOK, WriterTypes
<1>2. /\ writer'[r].by = who /\ writer'[r].status = status /\ writer'[r].step = "run"
      /\ who # "nobody"
  BY <1>1, SupervisorAssumption DEF SupervisorAssumption
<1>3. ReceiptsOpen'
  BY <1>1, <1>2 DEF ReceiptsOpen, Writes, Working, OpenStatuses, Terminal
<1>4. ReceiptsStay'
  BY <1>1, <1>2 DEF ReceiptsStay, Writes
<1> QED
  BY <1>1, <1>2, <1>3, <1>4

\* receiptMu is given up.
LEMMA Unlocks ==
  ASSUME TypeOK, NEW r \in Runs, Unlock(r)
  PROVE  /\ writer' \in [Runs -> WriterTypes] /\ writer'[r].by = "nobody" /\ ~Writes(r)'
         /\ \A q \in Runs : q # r => writer'[q] = writer[q] /\ Writes(q)' = Writes(q)
BY DEF Unlock, TypeOK, WriterTypes, Nobody, Statuses, Writes

\* A run under repair: its receiptMu is the waiter's.
LEMMA UnderRepair ==
  ASSUME TypeOK, Issued, WritersKnow, NEW d \in Waiters, waiter[d].stage = "repairing"
  PROVE  /\ waiter[d].run \in Runs /\ stage[waiter[d].run] = "kept" /\ waiter[d].run \notin failed
         /\ writer[waiter[d].run].by = d /\ writer[waiter[d].run].status = "completed"
         /\ d \notin {"nobody", "start", "handler"}
BY WaiterRuns, SupervisorAssumption DEF WritersKnow, SupervisorAssumption

LEMMA Moves ==
  ASSUME TypeOK, NEW w \in Waiters,
         NEW st \in {"wait", "cancel", "cancelling", "repairing"}, Move(w, st)
  PROVE  /\ waiter' \in [Waiters -> WaiterTypes]
         /\ waiter'[w].stage = st /\ waiter'[w].run = waiter[w].run
         /\ \A d \in Waiters : d # w => waiter'[d] = waiter[d]
BY DEF TypeOK, Move, WaiterTypes

LEMMA Leaves ==
  ASSUME TypeOK, NEW w \in Waiters, Leave(w)
  PROVE  /\ waiter' \in [Waiters -> WaiterTypes] /\ waiter'[w].stage = "idle"
         /\ \A d \in Waiters : d # w => waiter'[d] = waiter[d]
<1>1. 0 \in 0..issued
  BY SupervisorAssumption DEF TypeOK, SupervisorAssumption
<1> QED
  BY <1>1 DEF TypeOK, Leave, Idle, WaiterTypes

-----------------------------------------------------------------------------
LEMMA PersistStep ==
  ASSUME IInv, NEW r \in Runs, Persist(r)
  PROVE  IInv'
<1>i. TypeOK /\ Issued /\ WritersKnow /\ ReceiptsOpen /\ ReceiptsStay /\ FailedIsKept
  BY DEF IInv
<1>u. /\ UNCHANGED <<host, closed, mu, gate, active, stage, callOf, cancelled, failed, issued>>
      /\ UNCHANGED <<waiter, faults, runFile, activeFile, launched, returned>>
  BY DEF Persist, memory, files, world
<1>g. stage[r] = "finished" /\ writer[r].by = "nobody" /\ r \notin failed
  BY <1>i DEF Persist, Free, Nobody, FailedIsKept
<1>s. Status(r) = "completed"
  BY <1>g, StatusSays DEF Working
<1>w. /\ writer' \in [Runs -> WriterTypes]
      /\ writer'[r].by = "handler" /\ writer'[r].status = "completed"
      /\ \A q \in Runs : q # r => writer'[q] = writer[q]
      /\ ReceiptsOpen' /\ ReceiptsStay'
  <2>1. Compose(r, "handler", "completed")
    BY <1>s DEF Persist
  <2> QED
    BY <2>1, <1>i, <1>u, <1>g, Composes DEF Working, Statuses, Terminal
<1>1. TypeOK'
  BY <1>i, <1>u, <1>w DEF TypeOK, WriterTypes
<1>2. Issued' /\ FailedIsKept'
  BY <1>i, <1>u, <1>w, <1>g DEF Issued, Writes, FailedIsKept
<1>3. WritersKnow'
  <2>1. \A d \in Waiters : waiter[d].stage = "repairing" => waiter[d].run \in Runs /\ waiter[d].run # r
    BY <1>i, <1>g, UnderRepair
  <2> QED
    BY <2>1, <1>i, <1>u, <1>w, <1>g DEF WritersKnow
<1>4. HandlersRan' /\ ActiveNamesRun' /\ SlotsMatchRuns'
  BY <1>u, TablesKept
<1> QED
  BY <1>1, <1>2, <1>3, <1>w, <1>4 DEF IInv

LEMMA CancelStep ==
  ASSUME IInv, NEW w \in Waiters, Cancel(w)
  PROVE  IInv'
<1> DEFINE r == waiter[w].run
<1>i. TypeOK /\ Issued /\ WritersKnow /\ ReceiptsOpen /\ ReceiptsStay /\ FailedIsKept
  BY DEF IInv
<1>u. /\ UNCHANGED <<host, closed, mu, gate, active, stage, callOf, cancelled, failed, issued>>
      /\ UNCHANGED <<faults, runFile, activeFile, launched, returned>>
  BY DEF Cancel, memory, files, world
<1>g. /\ waiter[w].stage = "cancel" /\ writer[r].by = "nobody"
      /\ r \in Runs /\ r \in 1..issued /\ stage[r] # "none"
  BY <1>i, WaiterRuns DEF Cancel, At, Free, Nobody
<1>m. /\ waiter' \in [Waiters -> WaiterTypes]
      /\ waiter'[w].stage = "cancelling" /\ waiter'[w].run = r
      /\ \A d \in Waiters : d # w => waiter'[d] = waiter[d]
  BY <1>i, Moves DEF Cancel
<1>w. /\ writer' \in [Runs -> WriterTypes] /\ writer'[r].by = w
      /\ \A q \in Runs : q # r => writer'[q] = writer[q]
      /\ ReceiptsOpen' /\ ReceiptsStay'
  <2> DEFINE status == Status(r)
  <2>1. /\ status \in Statuses
        /\ stage[r] \in Working => status \in OpenStatuses
        /\ stage[r] \notin Working => status \in Terminal
        /\ stage[r] \notin Working /\ r \notin failed => status = "completed"
    BY <1>g, StatusSays
  <2>2. Compose(r, w, status)
    BY DEF Cancel, CancelStatus
  <2>3. stage[r] \in {"committed", "leaving", "gone"} => r \notin failed /\ stage[r] \notin Working
    BY <1>i, <1>g DEF FailedIsKept, Working
  <2> HIDE DEF status, r
  <2> QED
    BY <2>1, <2>2, <2>3, <1>i, <1>u, <1>g, Composes
<1>k. w \notin {"nobody", "start", "handler"}
  BY SupervisorAssumption DEF SupervisorAssumption
<1> HIDE DEF r
<1>1. TypeOK'
  BY <1>i, <1>u, <1>w, <1>m DEF TypeOK, WriterTypes, WaiterTypes
<1>2. Issued' /\ FailedIsKept'
  BY <1>i, <1>u, <1>w, <1>g, <1>m DEF Issued, Writes, FailedIsKept
<1>3. WritersKnow'
  <2>1. \A d \in Waiters : waiter[d].stage = "repairing" => waiter[d].run \in Runs /\ waiter[d].run # r
    BY <1>i, <1>g, UnderRepair
  <2>2. \A d \in Waiters : waiter'[d].stage = "repairing" => d # w /\ waiter'[d] = waiter[d]
    BY <1>m
  <2>3. \A d \in Waiters : waiter'[d].stage = "repairing" =>
          /\ stage'[waiter'[d].run] = "kept" /\ waiter'[d].run \notin failed'
          /\ writer'[waiter'[d].run].by = d /\ writer'[waiter'[d].run].status = "completed"
    BY <2>1, <2>2, <1>i, <1>u, <1>w DEF WritersKnow
  <2>4. ASSUME NEW q \in Runs
        PROVE  /\ writer'[q].by = "start" => stage'[q] = "intent"
               /\ writer'[q].by = "handler" => stage'[q] = "finished" /\ writer'[q].status = "completed"
    <3>1. CASE q = r
      <4>1. writer'[q].by \notin {"start", "handler"}
        BY <3>1, <1>w, <1>k
      <4> QED
        BY <4>1
    <3>2. CASE q # r
      BY <3>2, <1>i, <1>u, <1>w DEF WritersKnow
    <3> QED
      BY <3>1, <3>2
  <2> QED
    BY <2>3, <2>4 DEF WritersKnow
<1>4. HandlersRan' /\ ActiveNamesRun' /\ SlotsMatchRuns'
  BY <1>u, TablesKept
<1> QED
  BY <1>1, <1>2, <1>3, <1>w, <1>4 DEF IInv

\* The steps that only give receiptMu up, or only move a waiter that repairs nothing.
LEMMA WaiterStep ==
  ASSUME IInv, NEW w \in Waiters, CancelDone(w) \/ GiveUp(w)
  PROVE  IInv'
<1>i. TypeOK /\ Issued /\ WritersKnow /\ ReceiptsOpen /\ ReceiptsStay /\ FailedIsKept
  BY DEF IInv
<1>u. /\ UNCHANGED <<host, closed, mu, gate, active, stage, callOf, cancelled, failed, issued>>
      /\ UNCHANGED <<faults, runFile, activeFile, launched, returned>>
  BY DEF CancelDone, GiveUp, memory, files, world
<1>g. waiter[w].stage \in {"cancelling", "wait"} /\ waiter[w].run \in 1..issued
  BY <1>i, WaiterRuns DEF CancelDone, GiveUp, At
<1>m. /\ waiter' \in [Waiters -> WaiterTypes] /\ waiter'[w].stage \in {"idle", "wait"}
      /\ waiter'[w].stage = "wait" => waiter'[w].run = waiter[w].run
      /\ \A d \in Waiters : d # w => waiter'[d] = waiter[d]
  <2>1. Move(w, "wait") \/ Leave(w)
    BY DEF CancelDone, GiveUp
  <2> QED
    BY <2>1, <1>i, Moves, Leaves
<1>w. /\ writer' \in [Runs -> WriterTypes]
      /\ \A q \in Runs : \/ writer'[q] = writer[q]
                         \/ writer[q].by = w /\ writer'[q].by = "nobody"
  <2>1. CASE CancelDone(w)
    <3> DEFINE r == waiter[w].run
    <3>1. r \in Runs /\ Unlock(r) /\ writer[r].by = w
      BY <2>1, <1>i, <1>g, WaiterRuns DEF CancelDone, Wrote
    <3> HIDE DEF r
    <3> QED
      BY <3>1, <1>i, Unlocks
  <2>2. CASE GiveUp(w)
    BY <2>2, <1>i DEF GiveUp, TypeOK, WriterTypes
  <2> QED
    BY <2>1, <2>2
<1>1. TypeOK'
  BY <1>i, <1>u, <1>w, <1>m DEF TypeOK, WriterTypes, WaiterTypes
<1>2. Issued' /\ FailedIsKept'
  BY <1>i, <1>u, <1>w, <1>g, <1>m DEF Issued, Writes, FailedIsKept
<1>3. WritersKnow'
  <2>1. \A d \in Waiters : waiter[d].stage = "repairing" =>
          waiter[d].run \in Runs /\ writer[waiter[d].run].by = d
    BY <1>i, <1>g, UnderRepair
  <2> QED
    BY <2>1, <1>i, <1>u, <1>w, <1>g, <1>m DEF WritersKnow
<1>4. ReceiptsOpen' /\ ReceiptsStay'
  BY <1>i, <1>u, <1>w DEF ReceiptsOpen, ReceiptsStay, Writes
<1>5. HandlersRan' /\ ActiveNamesRun' /\ SlotsMatchRuns'
  BY <1>u, TablesKept
<1> QED
  BY <1>1, <1>2, <1>3, <1>4, <1>5 DEF IInv

LEMMA LookStep ==
  ASSUME IInv, NEW w \in Waiters, NEW r \in Runs, Look(w, r)
  PROVE  IInv'
<1>i. TypeOK /\ Issued /\ WritersKnow /\ ReceiptsOpen /\ ReceiptsStay /\ FailedIsKept
  BY DEF IInv
<1>u. /\ UNCHANGED <<host, closed, mu, gate, active, stage, callOf, failed, issued>>
      /\ UNCHANGED <<writer, faults, runFile, activeFile, launched, returned>>
  BY DEF Look, memory, files, world
<1>g. waiter[w].stage = "idle" /\ r \in 1..issued
  BY <1>i, SupervisorAssumption DEF Look, At, InMap, Issued, Runs, TypeOK, SupervisorAssumption
<1>m. /\ waiter' \in [Waiters -> WaiterTypes]
      /\ waiter'[w].stage \in {"wait", "cancel"} /\ waiter'[w].run = r
      /\ \A d \in Waiters : d # w => waiter'[d] = waiter[d]
  <2>1. PICK st \in {"wait", "cancel"} : waiter' = [waiter EXCEPT ![w] = [stage |-> st, run |-> r]]
    BY DEF Look
  <2>2. r \in 0..issued
    BY <1>g, <1>i DEF TypeOK
  <2> QED
    BY <2>1, <2>2, <1>i, <1>g DEF TypeOK, WaiterTypes
<1>c. cancelled' \subseteq Runs
  BY <1>i DEF Look, TypeOK
<1>1. TypeOK'
  BY <1>i, <1>u, <1>c, <1>m DEF TypeOK, WaiterTypes
<1>2. Issued' /\ FailedIsKept'
  BY <1>i, <1>u, <1>g, <1>m DEF Issued, Writes, FailedIsKept
<1>3. WritersKnow'
  BY <1>i, <1>u, <1>g, <1>m DEF WritersKnow
<1>4. ReceiptsOpen' /\ ReceiptsStay'
  BY <1>i, <1>u DEF ReceiptsOpen, ReceiptsStay, Writes
<1>5. HandlersRan' /\ ActiveNamesRun' /\ SlotsMatchRuns'
  BY <1>u, TablesKept
<1> QED
  BY <1>1, <1>2, <1>3, <1>4, <1>5 DEF IInv

LEMMA CloseStep ==
  ASSUME IInv, Close
  PROVE  IInv'
<1>i. TypeOK /\ Issued /\ WritersKnow /\ ReceiptsOpen /\ ReceiptsStay /\ FailedIsKept
  BY DEF IInv
<1>u. /\ UNCHANGED <<host, mu, gate, active, stage, callOf, failed, issued, writer, waiter>>
      /\ UNCHANGED <<faults, runFile, activeFile, launched, returned>>
  BY DEF Close, files, world
<1>1. TypeOK'
  BY <1>i, <1>u DEF Close, TypeOK
<1>2. Issued' /\ FailedIsKept' /\ WritersKnow'
  BY <1>i, <1>u DEF Issued, Writes, FailedIsKept, WritersKnow
<1>3. ReceiptsOpen' /\ ReceiptsStay'
  BY <1>i, <1>u DEF ReceiptsOpen, ReceiptsStay, Writes
<1>4. HandlersRan' /\ ActiveNamesRun' /\ SlotsMatchRuns'
  BY <1>u, TablesKept
<1> QED
  BY <1>1, <1>2, <1>3, <1>4 DEF IInv

-----------------------------------------------------------------------------
(* Repairs *)

\* The repairs of other waiters go on.
LEMMA OthersRepair ==
  ASSUME TypeOK, Issued, WritersKnow, NEW w \in Waiters, NEW r \in Runs,
         writer[r].by \in {"nobody", w},
         \A d \in Waiters : d # w => waiter'[d] = waiter[d],
         \A q \in Runs : q # r => writer'[q] = writer[q] /\ stage'[q] = stage[q]
                                /\ (q \in failed' <=> q \in failed),
         NEW d \in Waiters, d # w, waiter'[d].stage = "repairing"
  PROVE  /\ stage'[waiter'[d].run] = "kept" /\ waiter'[d].run \notin failed'
         /\ writer'[waiter'[d].run].by = d /\ writer'[waiter'[d].run].status = "completed"
<1>1. waiter'[d] = waiter[d]
  OBVIOUS
<1>2. /\ waiter[d].run \in Runs /\ stage[waiter[d].run] = "kept" /\ waiter[d].run \notin failed
      /\ writer[waiter[d].run].by = d /\ writer[waiter[d].run].status = "completed"
      /\ d \notin {"nobody", "start", "handler"}
  BY <1>1, UnderRepair
<1>3. waiter[d].run # r
  BY <1>2
<1> QED
  BY <1>1, <1>2, <1>3

LEMMA RepairStep ==
  ASSUME IInv, NEW w \in Waiters, Repair(w)
  PROVE  IInv'
<1> DEFINE r == waiter[w].run
<1>i. TypeOK /\ Issued /\ WritersKnow /\ ReceiptsOpen /\ ReceiptsStay /\ FailedIsKept
  BY DEF IInv
<1>u. /\ UNCHANGED <<host, closed, mu, gate, active, stage, callOf, cancelled, issued>>
      /\ UNCHANGED <<faults, runFile, activeFile, launched, returned>>
      /\ failed' = failed \ {r}
  BY DEF Repair, files, world
<1>g. /\ waiter[w].stage = "wait" /\ writer[r].by = "nobody"
      /\ r \in Runs /\ r \in 1..issued /\ stage[r] = "kept"
  BY <1>i, WaiterRuns DEF Repair, At, Free, Nobody, FailedIsKept
<1>m. /\ waiter' \in [Waiters -> WaiterTypes]
      /\ waiter'[w].stage = "repairing" /\ waiter'[w].run = r
      /\ \A d \in Waiters : d # w => waiter'[d] = waiter[d]
  BY <1>i, Moves DEF Repair
<1>c. Compose(r, w, "completed")
  BY DEF Repair
<1>k. w \notin {"nobody", "start", "handler"}
  BY SupervisorAssumption DEF SupervisorAssumption
<1> HIDE DEF r
<1>w. /\ writer' \in [Runs -> WriterTypes]
      /\ writer'[r].by = w /\ writer'[r].status = "completed"
      /\ \A q \in Runs : q # r => writer'[q] = writer[q]
      /\ ReceiptsOpen' /\ ReceiptsStay'
  BY <1>c, <1>i, <1>u, <1>g, Composes DEF Working, Statuses, Terminal
<1>1. TypeOK'
  BY <1>i, <1>u, <1>w, <1>m DEF TypeOK, WriterTypes, WaiterTypes
<1>2. Issued' /\ FailedIsKept'
  BY <1>i, <1>u, <1>w, <1>g, <1>m DEF Issued, Writes, FailedIsKept
<1>3. WritersKnow'
  <2>1. ASSUME NEW d \in Waiters, d # w, waiter'[d].stage = "repairing"
        PROVE  /\ stage'[waiter'[d].run] = "kept" /\ waiter'[d].run \notin failed'
               /\ writer'[waiter'[d].run].by = d /\ writer'[waiter'[d].run].status = "completed"
    BY <2>1, <1>i, <1>u, <1>g, <1>w, <1>m, OthersRepair
  <2>2. /\ stage'[waiter'[w].run] = "kept" /\ waiter'[w].run \notin failed'
        /\ writer'[waiter'[w].run].by = w /\ writer'[waiter'[w].run].status = "completed"
    BY <1>u, <1>g, <1>w, <1>m
  <2>3. ASSUME NEW q \in Runs, writer'[q].by \in {"start", "handler"}
        PROVE  q # r
    BY <2>3, <1>w, <1>k
  <2> QED
    BY <2>1, <2>2, <2>3, <1>i, <1>u, <1>w DEF WritersKnow
<1>4. HandlersRan' /\ ActiveNamesRun' /\ SlotsMatchRuns'
  BY <1>u, TablesKept
<1> QED
  BY <1>1, <1>2, <1>3, <1>w, <1>4 DEF IInv

LEMMA RepairFailedStep ==
  ASSUME IInv, NEW w \in Waiters, RepairFailed(w)
  PROVE  IInv'
<1> DEFINE r == waiter[w].run
<1>i. TypeOK /\ Issued /\ WritersKnow /\ ReceiptsOpen /\ ReceiptsStay /\ FailedIsKept
  BY DEF IInv
<1>u. /\ UNCHANGED <<host, closed, mu, gate, active, stage, callOf, cancelled, issued>>
      /\ UNCHANGED <<faults, runFile, activeFile, launched, returned>>
      /\ failed' = failed \union {r}
  BY DEF RepairFailed, files, world
<1>g. /\ waiter[w].stage = "repairing" /\ writer[r].by = w
      /\ r \in Runs /\ stage[r] = "kept"
  BY <1>i, UnderRepair DEF RepairFailed, At
<1>m. /\ waiter' \in [Waiters -> WaiterTypes] /\ waiter'[w].stage = "idle"
      /\ \A d \in Waiters : d # w => waiter'[d] = waiter[d]
  BY <1>i, Leaves DEF RepairFailed
<1>c. Unlock(r)
  BY DEF RepairFailed
<1> HIDE DEF r
<1>w. /\ writer' \in [Runs -> WriterTypes] /\ writer'[r].by = "nobody" /\ (\A q \in Runs : Writes(q)' => q # r)
      /\ \A q \in Runs : q # r => writer'[q] = writer[q] /\ Writes(q)' = Writes(q)
  BY <1>c, <1>i, <1>g, Unlocks
<1>1. TypeOK'
  BY <1>i, <1>u, <1>w, <1>m, <1>g DEF TypeOK, WriterTypes, WaiterTypes
<1>2. Issued' /\ FailedIsKept'
  BY <1>i, <1>u, <1>w, <1>g, <1>m DEF Issued, FailedIsKept
<1>3. WritersKnow'
  <2>1. ASSUME NEW d \in Waiters, waiter'[d].stage = "repairing"
        PROVE  /\ stage'[waiter'[d].run] = "kept" /\ waiter'[d].run \notin failed'
               /\ writer'[waiter'[d].run].by = d /\ writer'[waiter'[d].run].status = "completed"
    <3>1. d # w
      BY <2>1, <1>m
    <3> QED
      BY <2>1, <3>1, <1>i, <1>u, <1>g, <1>w, <1>m, OthersRepair
  <2> QED
    BY <2>1, <1>i, <1>u, <1>w DEF WritersKnow
<1>4. ReceiptsOpen' /\ ReceiptsStay'
  BY <1>i, <1>u, <1>w DEF ReceiptsOpen, ReceiptsStay, Writes
<1>5. HandlersRan' /\ ActiveNamesRun' /\ SlotsMatchRuns'
  BY <1>u, TablesKept
<1> QED
  BY <1>1, <1>2, <1>3, <1>4, <1>5 DEF IInv

LEMMA RepairedStep ==
  ASSUME IInv, NEW w \in Waiters, Repaired(w)
  PROVE  IInv'
<1> DEFINE r == waiter[w].run
<1>i. /\ TypeOK /\ Issued /\ WritersKnow /\ ReceiptsOpen /\ ReceiptsStay /\ FailedIsKept
      /\ HandlersRan /\ ActiveNamesRun /\ SlotsMatchRuns
  BY DEF IInv
<1>g. /\ waiter[w].stage = "repairing" /\ writer[r].by = w /\ writer[r].status = "completed"
      /\ writer[r].step = "ok" /\ r \notin failed
      /\ r \in Runs /\ stage[r] = "kept" /\ w # "nobody"
  BY <1>i, UnderRepair DEF Repaired, At, Wrote
<1>u. /\ UNCHANGED <<host, closed, mu, callOf, cancelled, failed, issued>>
      /\ UNCHANGED <<faults, runFile, activeFile, launched, returned>>
      /\ GoTo(r, "gone") /\ gate' = gate - 1
      /\ active' = [active EXCEPT ![FpOf(r)] = 0]
      /\ InMap(r)
  BY <1>g DEF Repaired, files, world, InMap
<1>m. /\ waiter' \in [Waiters -> WaiterTypes] /\ waiter'[w].stage = "idle"
      /\ \A d \in Waiters : d # w => waiter'[d] = waiter[d]
  BY <1>i, Leaves DEF Repaired
<1>c. Unlock(r)
  BY DEF Repaired
<1> HIDE DEF r
<1>w. /\ writer' \in [Runs -> WriterTypes] /\ writer'[r].by = "nobody" /\ (\A q \in Runs : Writes(q)' => q # r)
      /\ \A q \in Runs : q # r => writer'[q] = writer[q] /\ Writes(q)' = Writes(q)
  BY <1>c, <1>i, <1>g, Unlocks
<1>s. /\ stage' \in [Runs -> Stages] /\ stage'[r] = "gone"
      /\ \A q \in Runs : q # r => stage'[q] = stage[q]
  BY <1>i, <1>u, <1>g DEF TypeOK, GoTo, Stages
<1>a. ActiveNamesRun' /\ active' \in [Fingerprints -> 0..issued]
  BY <1>i, <1>u, <1>g, EntryCleared
<1>b. SlotsMatchRuns' /\ gate' \in 0..Capacity
  BY <1>i, <1>u, <1>g, GivesBack DEF Stages, Holding
<1>f. runFile[r] = "completed"
  BY <1>i, <1>g DEF ReceiptsStay, Writes
<1>1. TypeOK'
  BY <1>i, <1>u, <1>w, <1>m, <1>s, <1>a, <1>b DEF TypeOK, WriterTypes, WaiterTypes
<1>2. Issued' /\ FailedIsKept'
  <2>1. \A q \in Runs : stage'[q] = "none" <=> q > issued'
    BY <1>i, <1>u, <1>g, <1>s DEF Issued
  <2>2. \A d \in Waiters : waiter'[d].stage # "idle" => waiter'[d].run \in 1..issued'
    BY <1>i, <1>u, <1>m DEF Issued
  <2>3. \A q \in Runs : Writes(q)' => stage'[q] # "none"
    BY <1>i, <1>w, <1>s DEF Issued
  <2>4. FailedIsKept'
    BY <1>i, <1>u, <1>g, <1>s DEF FailedIsKept, TypeOK
  <2> QED
    BY <2>1, <2>2, <2>3, <2>4 DEF Issued
<1>3. WritersKnow'
  <2>1. ASSUME NEW d \in Waiters, waiter'[d].stage = "repairing"
        PROVE  /\ stage'[waiter'[d].run] = "kept" /\ waiter'[d].run \notin failed'
               /\ writer'[waiter'[d].run].by = d /\ writer'[waiter'[d].run].status = "completed"
    <3>1. d # w
      BY <2>1, <1>m
    <3> QED
      BY <2>1, <3>1, <1>i, <1>u, <1>g, <1>w, <1>m, <1>s, OthersRepair
  <2> QED
    BY <2>1, <1>i, <1>u, <1>w, <1>s DEF WritersKnow
<1>4. ReceiptsOpen'
  BY <1>i, <1>u, <1>w, <1>s DEF ReceiptsOpen, Working
<1>5. ReceiptsStay'
  BY <1>i, <1>u, <1>w, <1>s, <1>f DEF ReceiptsStay
<1>6. HandlersRan'
  BY <1>i, <1>u, <1>s DEF HandlersRan, TypeOK
<1> QED
  BY <1>1, <1>2, <1>3, <1>4, <1>5, <1>6, <1>a, <1>b DEF IInv

-----------------------------------------------------------------------------
(* The goroutine of a run *)

\* The repairs go on when a run that is not under repair moves.
LEMMA RepairsGoOn ==
  ASSUME TypeOK, Issued, WritersKnow, NEW r \in Runs, stage[r] # "kept", waiter' = waiter,
         \A q \in Runs : q # r => writer'[q] = writer[q] /\ stage'[q] = stage[q]
                                /\ (q \in failed' <=> q \in failed)
  PROVE  \A d \in Waiters : waiter'[d].stage = "repairing" =>
           /\ stage'[waiter'[d].run] = "kept" /\ waiter'[d].run \notin failed'
           /\ writer'[waiter'[d].run].by = d /\ writer'[waiter'[d].run].status = "completed"
<1> SUFFICES ASSUME NEW d \in Waiters, waiter[d].stage = "repairing"
             PROVE  /\ stage'[waiter[d].run] = "kept" /\ waiter[d].run \notin failed'
                    /\ writer'[waiter[d].run].by = d /\ writer'[waiter[d].run].status = "completed"
  OBVIOUS
<1>1. /\ waiter[d].run \in Runs /\ stage[waiter[d].run] = "kept" /\ waiter[d].run \notin failed
      /\ writer[waiter[d].run].by = d /\ writer[waiter[d].run].status = "completed"
  BY UnderRepair
<1>2. waiter[d].run # r
  BY <1>1
<1> QED
  BY <1>1, <1>2

LEMMA ReturnStep ==
  ASSUME IInv, NEW r \in Runs, Return(r)
  PROVE  IInv'
<1>i. /\ TypeOK /\ Issued /\ WritersKnow /\ ReceiptsOpen /\ ReceiptsStay /\ FailedIsKept
      /\ HandlersRan /\ ActiveNamesRun /\ SlotsMatchRuns
  BY DEF IInv
<1>u. /\ UNCHANGED <<host, closed, mu, gate, active, callOf, cancelled, failed, issued>>
      /\ UNCHANGED <<writer, waiter, faults, runFile, activeFile, launched>>
      /\ returned' = returned \union {r} /\ GoTo(r, "finished") /\ stage[r] = "handler"
  BY DEF Return, files
<1>s. /\ stage' \in [Runs -> Stages] /\ stage'[r] = "finished"
      /\ \A q \in Runs : q # r => stage'[q] = stage[q]
  BY <1>i, <1>u DEF TypeOK, GoTo, Stages
<1>1. TypeOK'
  BY <1>i, <1>u, <1>s DEF TypeOK, HandlersRan
<1>2. Issued' /\ FailedIsKept'
  BY <1>i, <1>u, <1>s DEF Issued, FailedIsKept, TypeOK, Writes
<1>3. WritersKnow'
  <2>1. \A q \in Runs : writer[q].by \in {"start", "handler"} => q # r
    BY <1>i, <1>u DEF WritersKnow
  <2> QED
    BY <2>1, <1>i, <1>u, <1>s, RepairsGoOn DEF WritersKnow
<1>4. ReceiptsOpen'
  BY <1>i, <1>u, <1>s DEF ReceiptsOpen, Working, Writes
<1>5. ReceiptsStay'
  BY <1>i, <1>u, <1>s DEF ReceiptsStay, Writes
<1>6. HandlersRan'
  BY <1>i, <1>u, <1>s DEF HandlersRan, TypeOK
<1>7. ActiveNamesRun' /\ SlotsMatchRuns'
  BY <1>i, <1>u, GoesOn DEF Holding
<1> QED
  BY <1>1, <1>2, <1>3, <1>4, <1>5, <1>6, <1>7 DEF IInv

LEMMA PersistedStep ==
  ASSUME IInv, NEW r \in Runs, Persisted(r)
  PROVE  IInv'
<1>i. /\ TypeOK /\ Issued /\ WritersKnow /\ ReceiptsOpen /\ ReceiptsStay /\ FailedIsKept
      /\ HandlersRan /\ ActiveNamesRun /\ SlotsMatchRuns
  BY DEF IInv
<1>p. PICK st \in {"committed", "uncommitted"} :
        GoTo(r, st) /\ (st = "committed" => writer[r].step = "ok")
  BY DEF Persisted
<1>u. /\ UNCHANGED <<host, closed, mu, gate, active, callOf, cancelled, failed, issued>>
      /\ UNCHANGED <<waiter, faults, runFile, activeFile, launched, returned>>
      /\ writer[r].by = "handler" /\ stage[r] = "finished" /\ writer[r].status = "completed"
  BY <1>i DEF Persisted, files, world, WritersKnow
<1>w. /\ writer' \in [Runs -> WriterTypes] /\ writer'[r].by = "nobody"
      /\ \A q \in Runs : Writes(q)' => q # r
      /\ \A q \in Runs : q # r => writer'[q] = writer[q] /\ Writes(q)' = Writes(q)
  BY <1>i, Unlocks DEF Persisted
<1>s. /\ stage' \in [Runs -> Stages] /\ stage'[r] = st
      /\ \A q \in Runs : q # r => stage'[q] = stage[q]
  BY <1>i, <1>p DEF TypeOK, GoTo, Stages
<1>f. st = "committed" => runFile[r] = "completed"
  BY <1>i, <1>u, <1>p DEF ReceiptsStay, Writes
<1>1. TypeOK'
  BY <1>i, <1>u, <1>s, <1>w DEF TypeOK, WriterTypes
<1>2. Issued' /\ FailedIsKept'
  BY <1>i, <1>u, <1>s, <1>w DEF Issued, FailedIsKept, TypeOK, Writes
<1>3. WritersKnow'
  <2>1. \A q \in Runs : writer'[q].by \in {"start", "handler"} => q # r
    BY <1>w
  <2> QED
    BY <2>1, <1>i, <1>u, <1>s, <1>w, RepairsGoOn DEF WritersKnow
<1>4. ReceiptsOpen'
  BY <1>i, <1>u, <1>s, <1>w DEF ReceiptsOpen, Working
<1>5. ReceiptsStay'
  BY <1>i, <1>u, <1>s, <1>w, <1>f DEF ReceiptsStay
<1>6. HandlersRan'
  BY <1>i, <1>u, <1>s DEF HandlersRan, TypeOK
<1>7. ActiveNamesRun' /\ SlotsMatchRuns'
  BY <1>i, <1>u, <1>p, GoesOn DEF Holding
<1> QED
  BY <1>1, <1>2, <1>3, <1>4, <1>5, <1>6, <1>7 DEF IInv

LEMMA SettleStep ==
  ASSUME IInv, NEW r \in Runs, Settle(r)
  PROVE  IInv'
<1>i. /\ TypeOK /\ Issued /\ WritersKnow /\ ReceiptsOpen /\ ReceiptsStay /\ FailedIsKept
      /\ HandlersRan /\ ActiveNamesRun /\ SlotsMatchRuns
  BY DEF IInv
<1>p. PICK st \in {"leaving", "kept"} :
        /\ GoTo(r, st)
        /\ \/ st = "leaving" /\ stage[r] = "committed" /\ gate' = gate - 1 /\ failed' = failed
           \/ st = "kept" /\ stage[r] = "uncommitted" /\ gate' = gate /\ failed' = failed \union {r}
  BY DEF Settle
<1>u. /\ UNCHANGED <<host, closed, mu, active, callOf, cancelled, issued>>
      /\ UNCHANGED <<writer, waiter, faults, runFile, activeFile, launched, returned>>
  BY DEF Settle, files, world
<1>s. /\ stage' \in [Runs -> Stages] /\ stage'[r] = st
      /\ \A q \in Runs : q # r => stage'[q] = stage[q]
  BY <1>i, <1>p DEF TypeOK, GoTo, Stages
<1>a. ActiveNamesRun' /\ SlotsMatchRuns' /\ gate' \in 0..Capacity
  <2>1. CASE st = "kept"
    BY <2>1, <1>i, <1>u, <1>p, GoesOn DEF Holding, TypeOK
  <2>2. CASE st = "leaving"
    <3>1. SlotsMatchRuns' /\ gate' \in 0..Capacity
      BY <2>2, <1>i, <1>u, <1>p, GivesBack DEF Holding, Stages
    <3>2. ActiveNamesRun'
      BY <2>2, <1>i, <1>u, <1>p, <1>s DEF ActiveNamesRun, InMap, FpOf
    <3> QED
      BY <3>1, <3>2
  <2> QED
    BY <2>1, <2>2
<1>1. TypeOK'
  BY <1>i, <1>u, <1>s, <1>p, <1>a DEF TypeOK
<1>2. Issued' /\ FailedIsKept'
  BY <1>i, <1>u, <1>s, <1>p DEF Issued, FailedIsKept, TypeOK, Writes
<1>3. WritersKnow'
  <2>1. \A q \in Runs : writer[q].by \in {"start", "handler"} => q # r
    BY <1>i, <1>p DEF WritersKnow
  <2> QED
    BY <2>1, <1>i, <1>u, <1>s, <1>p, RepairsGoOn DEF WritersKnow
<1>4. ReceiptsOpen'
  BY <1>i, <1>u, <1>s, <1>p DEF ReceiptsOpen, Working, Writes
<1>5. ReceiptsStay'
  BY <1>i, <1>u, <1>s, <1>p DEF ReceiptsStay, Writes
<1>6. HandlersRan'
  BY <1>i, <1>u, <1>s, <1>p DEF HandlersRan, TypeOK
<1> QED
  BY <1>1, <1>2, <1>3, <1>4, <1>5, <1>6, <1>a DEF IInv

LEMMA RemoveStep ==
  ASSUME IInv, NEW r \in Runs, Remove(r)
  PROVE  IInv'
<1>i. /\ TypeOK /\ Issued /\ WritersKnow /\ ReceiptsOpen /\ ReceiptsStay /\ FailedIsKept
      /\ HandlersRan /\ ActiveNamesRun /\ SlotsMatchRuns
  BY DEF IInv
<1>u. /\ UNCHANGED <<host, closed, mu, gate, callOf, cancelled, failed, issued>>
      /\ UNCHANGED <<writer, waiter, faults, runFile, activeFile, launched, returned>>
      /\ GoTo(r, "gone") /\ stage[r] = "leaving" /\ InMap(r)
      /\ active' = [active EXCEPT ![FpOf(r)] = 0]
  BY DEF Remove, files, world, InMap
<1>s. /\ stage' \in [Runs -> Stages] /\ stage'[r] = "gone"
      /\ \A q \in Runs : q # r => stage'[q] = stage[q]
  BY <1>i, <1>u DEF TypeOK, GoTo, Stages
<1>a. ActiveNamesRun' /\ active' \in [Fingerprints -> 0..issued]
  BY <1>i, <1>u, EntryCleared
<1>b. SlotsMatchRuns'
  <2>1. Busy' = Busy
    BY <1>u, <1>s DEF Busy, Holding
  <2> QED
    BY <2>1, <1>i, <1>u DEF SlotsMatchRuns, Busy, Holding
<1>1. TypeOK'
  BY <1>i, <1>u, <1>s, <1>a DEF TypeOK
<1>2. Issued' /\ FailedIsKept'
  BY <1>i, <1>u, <1>s DEF Issued, FailedIsKept, TypeOK, Writes
<1>3. WritersKnow'
  <2>1. \A q \in Runs : writer[q].by \in {"start", "handler"} => q # r
    BY <1>i, <1>u DEF WritersKnow
  <2> QED
    BY <2>1, <1>i, <1>u, <1>s, RepairsGoOn DEF WritersKnow
<1>4. ReceiptsOpen'
  BY <1>i, <1>u, <1>s DEF ReceiptsOpen, Working, Writes
<1>5. ReceiptsStay'
  BY <1>i, <1>u, <1>s DEF ReceiptsStay, Writes
<1>6. HandlersRan'
  BY <1>i, <1>u, <1>s DEF HandlersRan, TypeOK
<1> QED
  BY <1>1, <1>2, <1>3, <1>4, <1>5, <1>6, <1>a, <1>b DEF IInv

-----------------------------------------------------------------------------
(* start *)

LEMMA AdmitStep ==
  ASSUME IInv, NEW c \in Calls, Admit(c)
  PROVE  IInv'
<1> DEFINE r == issued + 1
<1>i. /\ TypeOK /\ Issued /\ WritersKnow /\ ReceiptsOpen /\ ReceiptsStay /\ FailedIsKept
      /\ HandlersRan /\ ActiveNamesRun /\ SlotsMatchRuns
  BY DEF IInv
<1>u. /\ UNCHANGED <<host, closed, cancelled, failed>>
      /\ UNCHANGED <<waiter, faults, runFile, activeFile, launched, returned>>
      /\ issued' = r /\ mu' = r /\ gate' = gate + 1 /\ gate < Capacity
      /\ active[Fp[c]] = 0 /\ active' = [active EXCEPT ![Fp[c]] = r]
      /\ callOf' = [callOf EXCEPT ![r] = c]
      /\ stage' = [stage EXCEPT ![r] = "intent"]
      /\ writer' = [writer EXCEPT ![r] = [by |-> "start", status |-> "running", step |-> "run"]]
  BY DEF Admit, NotActive, files, world, Compose, GoTo
<1>n. /\ issued \in Nat /\ r \in Runs /\ r > issued /\ Capacity \in Nat /\ gate \in 0..Capacity
      /\ r \in 1..MaxRuns /\ Fp[c] \in Fingerprints
  BY <1>i, SupervisorAssumption DEF Admit, TypeOK, Runs, SupervisorAssumption
<1>g. /\ stage[r] = "none" /\ ~Writes(r) /\ writer[r].by = "nobody"
      /\ runFile[r] \notin Terminal /\ r \notin returned /\ r \notin failed
  BY <1>i, <1>n DEF Issued, Writes, ReceiptsOpen, HandlersRan, FailedIsKept
<1>w. /\ writer' \in [Runs -> WriterTypes]
      /\ writer'[r].by = "start" /\ writer'[r].status = "running" /\ writer'[r].step = "run"
      /\ \A q \in Runs : q # r => writer'[q] = writer[q]
  <2>1. [by |-> "start", status |-> "running", step |-> "run"] \in WriterTypes
    BY DEF WriterTypes, Statuses
  <2> QED
    BY <2>1, <1>i, <1>u, <1>n DEF TypeOK, WriterTypes
<1>s. /\ stage' \in [Runs -> Stages] /\ stage'[r] = "intent"
      /\ \A q \in Runs : q # r => stage'[q] = stage[q]
  BY <1>i, <1>u, <1>n DEF TypeOK, Stages
<1>c. /\ callOf' \in [Runs -> Calls] /\ callOf'[r] = c
      /\ \A q \in Runs : q # r => callOf'[q] = callOf[q]
  BY <1>i, <1>u, <1>n DEF TypeOK
<1>a. /\ active' \in [Fingerprints -> 0..r] /\ active'[Fp[c]] = r
      /\ \A f \in Fingerprints : f # Fp[c] => active'[f] = active[f]
  BY <1>i, <1>u, <1>n DEF TypeOK
<1>o. \A q \in Runs : q > r <=> q > issued /\ q # r
  BY <1>n DEF Runs
<1>x. issued' \in 0..MaxRuns /\ mu' \in 0..issued' /\ gate' \in 0..Capacity /\ r \in 1..issued'
  BY <1>u, <1>n
<1>y. 0..issued \subseteq 0..issued' /\ 1..issued \subseteq 1..issued'
  BY <1>u, <1>n
<1> HIDE DEF r
<1>1. TypeOK'
  <2>1. waiter' \in [Waiters -> WaiterTypes']
    BY <1>i, <1>u, <1>y DEF TypeOK, WaiterTypes
  <2>2. activeFile' \in [Fingerprints -> [run : 0..issued', status : Statuses]]
    BY <1>i, <1>u, <1>y DEF TypeOK
  <2>3. active' \in [Fingerprints -> 0..issued']
    BY <1>a, <1>u
  <2> QED
    BY <1>i, <1>u, <1>w, <1>s, <1>c, <1>x, <2>1, <2>2, <2>3 DEF TypeOK, WriterTypes, WaiterTypes
<1>2. Issued'
  <2>1. \A q \in Runs : stage'[q] = "none" <=> q > issued'
    BY <1>i, <1>u, <1>s, <1>o DEF Issued
  <2>2. \A d \in Waiters : waiter'[d].stage # "idle" => waiter'[d].run \in 1..issued'
    BY <1>i, <1>u, <1>y DEF Issued
  <2>3. \A q \in Runs : Writes(q)' => stage'[q] # "none"
    BY <1>i, <1>w, <1>s DEF Issued, Writes
  <2> QED
    BY <2>1, <2>2, <2>3 DEF Issued
<1>3. FailedIsKept'
  BY <1>i, <1>u, <1>s, <1>g DEF FailedIsKept, TypeOK
<1>4. WritersKnow'
  <2>1. \A q \in Runs : writer'[q].by = "handler" => q # r
    BY <1>w
  <2> QED
    BY <2>1, <1>i, <1>n, <1>u, <1>s, <1>w, <1>g, RepairsGoOn DEF WritersKnow
<1>5. ReceiptsOpen'
  BY <1>i, <1>u, <1>s, <1>w, <1>g DEF ReceiptsOpen, Writes, Working, OpenStatuses
<1>6. ReceiptsStay'
  BY <1>i, <1>u, <1>s, <1>w DEF ReceiptsStay, Writes
<1>7. HandlersRan'
  BY <1>i, <1>u, <1>s, <1>g DEF HandlersRan, TypeOK
<1>8. ActiveNamesRun'
  <2> SUFFICES ASSUME NEW q \in Runs, InMap(q)' PROVE active'[Fp[callOf'[q]]] = q
    BY DEF ActiveNamesRun, FpOf
  <2>1. CASE q = r
    BY <2>1, <1>c, <1>a
  <2>2. CASE q # r
    <3>1. InMap(q) /\ active[Fp[callOf[q]]] = q /\ Fp[callOf[q]] \in Fingerprints /\ q # 0
      BY <2>2, <1>s, <1>i, SupervisorAssumption
      DEF InMap, ActiveNamesRun, FpOf, TypeOK, SupervisorAssumption, Runs
    <3>2. Fp[callOf[q]] # Fp[c]
      BY <3>1, <1>u
    <3> QED
      BY <2>2, <3>1, <3>2, <1>a, <1>c
  <2> QED
    BY <2>1, <2>2
<1>9. SlotsMatchRuns'
  <2>1. Busy' = Busy \union {r} /\ r \notin Busy /\ Busy \in SUBSET Runs
    BY <1>s, <1>g, <1>n DEF Busy, Holding
  <2>2. Cardinality(Busy \union {r}) = Cardinality(Busy) + 1
    BY <2>1, <1>n, OneMore
  <2>3. gate = Cardinality(Busy)
    BY <1>i DEF SlotsMatchRuns, Busy, Holding
  <2>4. gate' = Cardinality(Busy')
    BY <2>1, <2>2, <2>3, <1>u
  <2> QED
    BY <2>4 DEF SlotsMatchRuns, Busy, Holding
<1> QED
  BY <1>1, <1>2, <1>3, <1>4, <1>5, <1>6, <1>7, <1>8, <1>9 DEF IInv

LEMMA LaunchStep ==
  ASSUME IInv, NEW r \in Runs, Launch(r)
  PROVE  IInv'
<1>i. /\ TypeOK /\ Issued /\ WritersKnow /\ ReceiptsOpen /\ ReceiptsStay /\ FailedIsKept
      /\ HandlersRan /\ ActiveNamesRun /\ SlotsMatchRuns
  BY DEF IInv
<1>u. /\ UNCHANGED <<host, closed, gate, active, callOf, cancelled, failed, issued>>
      /\ UNCHANGED <<waiter, faults, runFile, activeFile, returned>>
      /\ GoTo(r, "handler") /\ stage[r] = "intent" /\ launched' = launched \union {r} /\ mu' = 0
  BY <1>i DEF Launch, Wrote, files, WritersKnow
<1>w. /\ writer' \in [Runs -> WriterTypes] /\ writer'[r].by = "nobody"
      /\ \A q \in Runs : Writes(q)' => q # r
      /\ \A q \in Runs : q # r => writer'[q] = writer[q] /\ Writes(q)' = Writes(q)
  BY <1>i, Unlocks DEF Launch
<1>s. /\ stage' \in [Runs -> Stages] /\ stage'[r] = "handler"
      /\ \A q \in Runs : q # r => stage'[q] = stage[q]
  BY <1>i, <1>u DEF TypeOK, GoTo, Stages
<1>1. TypeOK'
  <2>1. mu' \in 0..issued'
    BY <1>i, <1>u, SupervisorAssumption DEF TypeOK, SupervisorAssumption
  <2> QED
    BY <2>1, <1>i, <1>u, <1>s, <1>w DEF TypeOK, WriterTypes
<1>2. Issued' /\ FailedIsKept'
  BY <1>i, <1>u, <1>s, <1>w DEF Issued, FailedIsKept, TypeOK, Writes
<1>3. WritersKnow'
  <2>1. \A q \in Runs : writer'[q].by \in {"start", "handler"} => q # r
    BY <1>w
  <2> QED
    BY <2>1, <1>i, <1>u, <1>s, <1>w, RepairsGoOn DEF WritersKnow
<1>4. ReceiptsOpen'
  BY <1>i, <1>u, <1>s, <1>w DEF ReceiptsOpen, Working
<1>5. ReceiptsStay'
  BY <1>i, <1>u, <1>s, <1>w DEF ReceiptsStay
<1>6. HandlersRan'
  BY <1>i, <1>u, <1>s DEF HandlersRan, TypeOK
<1>7. ActiveNamesRun' /\ SlotsMatchRuns'
  BY <1>i, <1>u, GoesOn DEF Holding
<1> QED
  BY <1>1, <1>2, <1>3, <1>4, <1>5, <1>6, <1>7 DEF IInv

LEMMA WithdrawStep ==
  ASSUME IInv, NEW r \in Runs, Withdraw(r)
  PROVE  IInv'
<1>i. /\ TypeOK /\ Issued /\ WritersKnow /\ ReceiptsOpen /\ ReceiptsStay /\ FailedIsKept
      /\ HandlersRan /\ ActiveNamesRun /\ SlotsMatchRuns
  BY DEF IInv
<1>u. /\ UNCHANGED <<host, closed, callOf, cancelled, failed, issued>>
      /\ UNCHANGED <<waiter, faults, runFile, activeFile, launched, returned>>
      /\ GoTo(r, "gone") /\ stage[r] = "intent" /\ InMap(r) /\ mu' = 0
      /\ gate' = gate - 1 /\ active' = [active EXCEPT ![FpOf(r)] = 0]
  BY <1>i DEF Withdraw, Wrote, files, world, WritersKnow, InMap
<1>w. /\ writer' \in [Runs -> WriterTypes] /\ writer'[r].by = "nobody"
      /\ \A q \in Runs : Writes(q)' => q # r
      /\ \A q \in Runs : q # r => writer'[q] = writer[q] /\ Writes(q)' = Writes(q)
  BY <1>i, Unlocks DEF Withdraw
<1>s. /\ stage' \in [Runs -> Stages] /\ stage'[r] = "gone"
      /\ \A q \in Runs : q # r => stage'[q] = stage[q]
  BY <1>i, <1>u DEF TypeOK, GoTo, Stages
<1>a. ActiveNamesRun' /\ active' \in [Fingerprints -> 0..issued]
  BY <1>i, <1>u, EntryCleared
<1>b. SlotsMatchRuns' /\ gate' \in 0..Capacity
  BY <1>i, <1>u, GivesBack DEF Stages, Holding
<1>1. TypeOK'
  <2>1. mu' \in 0..issued'
    BY <1>i, <1>u, SupervisorAssumption DEF TypeOK, SupervisorAssumption
  <2> QED
    BY <2>1, <1>i, <1>u, <1>s, <1>w, <1>a, <1>b DEF TypeOK, WriterTypes
<1>2. Issued' /\ FailedIsKept'
  BY <1>i, <1>u, <1>s, <1>w DEF Issued, FailedIsKept, TypeOK, Writes
<1>3. WritersKnow'
  <2>1. \A q \in Runs : writer'[q].by \in {"start", "handler"} => q # r
    BY <1>w
  <2> QED
    BY <2>1, <1>i, <1>u, <1>s, <1>w, RepairsGoOn DEF WritersKnow
<1>4. ReceiptsOpen'
  BY <1>i, <1>u, <1>s, <1>w DEF ReceiptsOpen, Working
<1>n. r \notin returned
  BY <1>i, <1>u DEF HandlersRan
<1>5. ReceiptsStay'
  BY <1>i, <1>u, <1>s, <1>w, <1>n DEF ReceiptsStay
<1>6. HandlersRan'
  BY <1>i, <1>u, <1>s DEF HandlersRan, TypeOK
<1> QED
  BY <1>1, <1>2, <1>3, <1>4, <1>5, <1>6, <1>a, <1>b DEF IInv

-----------------------------------------------------------------------------
(* The host *)

LEMMA RestartStep ==
  ASSUME IInv, Restart
  PROVE  IInv'
<1>i. /\ TypeOK /\ Issued /\ ReceiptsOpen /\ ReceiptsStay /\ HandlersRan
  BY DEF IInv
<1>u. /\ UNCHANGED <<callOf, issued, faults, runFile, activeFile, launched, returned>>
      /\ host' = host + 1 /\ closed' = FALSE /\ mu' = 0 /\ gate' = 0
      /\ active' = [f \in Fingerprints |-> 0] /\ cancelled' = {} /\ failed' = {}
  BY DEF Restart, files, world
<1>n. 0 \in 0..issued /\ 0 \in 0..Capacity
  BY <1>i, SupervisorAssumption DEF TypeOK, SupervisorAssumption
<1>s. /\ stage' \in [Runs -> Stages]
      /\ \A q \in Runs : \/ stage'[q] = stage[q] /\ stage[q] \in {"none", "gone", "lost"}
                         \/ stage'[q] = "lost" /\ stage[q] # "none"
  BY <1>i DEF Restart, TypeOK, Stages, InMap
<1>w. writer' \in [Runs -> WriterTypes] /\ \A q \in Runs : writer'[q].by = "nobody"
  BY DEF Restart, Nobody, WriterTypes, Statuses
<1>m. waiter' \in [Waiters -> WaiterTypes] /\ \A d \in Waiters : waiter'[d].stage = "idle"
  BY <1>n DEF Restart, Idle, WaiterTypes
<1>1. TypeOK'
  <2>1. host' \in Nat /\ mu' \in 0..issued' /\ gate' \in 0..Capacity /\ issued' \in 0..MaxRuns
    BY <1>i, <1>u, <1>n DEF TypeOK
  <2>4. closed' \in BOOLEAN
    BY <1>u, Zenon
  <2>2. active' \in [Fingerprints -> 0..issued'] /\ cancelled' \subseteq Runs /\ failed' \subseteq Runs
    BY <1>u, <1>n
  <2>3. waiter' \in [Waiters -> WaiterTypes']
    BY <1>u, <1>m DEF WaiterTypes
  <2> QED
    BY <2>1, <2>2, <2>3, <2>4, <1>i, <1>u, <1>s, <1>w DEF TypeOK, WriterTypes, WaiterTypes
<1>2. Issued' /\ FailedIsKept' /\ WritersKnow'
  BY <1>i, <1>u, <1>s, <1>w, <1>m DEF Issued, FailedIsKept, WritersKnow, Writes
<1>3. ReceiptsOpen' /\ ReceiptsStay'
  BY <1>i, <1>u, <1>s, <1>w DEF ReceiptsOpen, ReceiptsStay, Writes, Working
<1>4. HandlersRan' /\ ActiveNamesRun'
  BY <1>i, <1>u, <1>s DEF HandlersRan, ActiveNamesRun, InMap, TypeOK
<1>5. SlotsMatchRuns'
  <2>1. {r \in Runs : stage'[r] \in {"intent", "handler", "finished", "committed", "uncommitted", "kept"}} = {}
    BY <1>s
  <2> QED
    BY <2>1, <1>u, BusyFinite DEF SlotsMatchRuns
<1> QED
  BY <1>1, <1>2, <1>3, <1>4, <1>5 DEF IInv

-----------------------------------------------------------------------------
LEMMA NextPreserves == IInv /\ [Next]_vars => IInv'
<1> SUFFICES ASSUME IInv, [Next]_vars PROVE IInv'
  OBVIOUS
<1>1. CASE UNCHANGED vars
  <2>1. /\ UNCHANGED <<host, closed, mu, gate, active, stage, callOf, cancelled, failed, issued>>
        /\ UNCHANGED <<writer, waiter, faults, runFile, activeFile, launched, returned>>
    BY <1>1 DEF vars, memory, files, world
  <2>2. TypeOK'
    BY <2>1 DEF IInv, TypeOK
  <2>3. Issued' /\ WritersKnow' /\ FailedIsKept' /\ ReceiptsOpen' /\ ReceiptsStay'
    BY <2>1 DEF IInv, Issued, WritersKnow, FailedIsKept, ReceiptsOpen, ReceiptsStay, Writes
  <2> QED
    BY <2>1, <2>2, <2>3, TablesKept DEF IInv
<1>2. ASSUME NEW c \in Calls, Admit(c)
      PROVE  IInv'
  BY <1>2, AdmitStep
<1>3. ASSUME NEW r \in Runs, Starter(r) \/ Writing(r)
      PROVE  IInv'
  BY <1>3, LaunchStep, WithdrawStep, PutRunStep, PutActiveStep DEF Starter, Writing
<1>4. ASSUME NEW r \in Runs, Return(r) \/ Goroutine(r)
      PROVE  IInv'
  BY <1>4, ReturnStep, PersistStep, PersistedStep, SettleStep, RemoveStep DEF Goroutine
<1>5. ASSUME NEW w \in Waiters, (\E r \in Runs : Look(w, r)) \/ GiveUp(w)
      PROVE  IInv'
  BY <1>5, LookStep, WaiterStep
<1>6. ASSUME NEW w \in Waiters, Waiting(w)
      PROVE  IInv'
  BY <1>6, CancelStep, WaiterStep, RepairStep, RepairFailedStep, RepairedStep DEF Waiting
<1>7. CASE Close \/ Restart
  BY <1>7, CloseStep, RestartStep
<1> QED
  BY <1>1, <1>2, <1>3, <1>4, <1>5, <1>6, <1>7 DEF Next

LEMMA Invariance == Spec => []IInv
BY InitHolds, NextPreserves, PTL DEF Spec

\* The supervisor's tables and files keep their types (tool_supervisor.go).
THEOREM TypeCorrectness == Spec => []TypeOK
<1>1. IInv => TypeOK
  BY DEF IInv
<1> QED
  BY <1>1, Invariance, PTL

\* A call repeated while its effect is under way, or while the receipt of its effect is not
\* committed, is not launched a second time (start and the active table).
THEOREM DuplicatesCorrectness == Spec => []DuplicatesInvokeOnce
<1>1. IInv => DuplicatesInvokeOnce
  BY DEF IInv, TypeOK, ActiveNamesRun, DuplicatesInvokeOnce
<1> QED
  BY <1>1, Invariance, PTL

\* Every slot taken belongs to one run that may still hold it: settle, the withdrawal of start
\* and repairReceipt give each slot back once.
THEOREM SlotCorrectness == Spec => []SlotsMatchRuns
<1>1. IInv => SlotsMatchRuns
  BY DEF IInv
<1> QED
  BY <1>1, Invariance, PTL

\* A result leaves the memory only after its receipt was committed (settle and repairReceipt).
THEOREM ResultCorrectness == Spec => []ResultsCanBeCollected
<1>1. IInv => ResultsCanBeCollected
  BY DEF IInv, TypeOK, HandlersRan, ReceiptsStay, ResultsCanBeCollected
<1> QED
  BY <1>1, Invariance, PTL

\* A cancellation, late or not, and a repair write nothing over a terminal receipt
\* (cancel_tool and writeReceipt under receiptMu).
THEOREM ReceiptCorrectness == Spec => TerminalReceiptStands
<1>1. ASSUME IInv, [Next]_vars, NEW r \in Runs, runFile[r] \in Terminal
      PROVE  runFile'[r] \in Terminal
  <2>1. runFile' = runFile \/ \E q \in Runs : PutRun(q)
    BY <1>1 DEF Next, vars, files, Starter, Writing, Goroutine, Waiting, Admit, Launch, Withdraw, PutActive,
       Return, Persist, Persisted, Settle, Remove, Look, Cancel, CancelDone, GiveUp, Repair,
       RepairFailed, Repaired, Close, Restart
  <2>2. ASSUME NEW q \in Runs, PutRun(q)
        PROVE  runFile'[r] \in Terminal
    <3>1. CASE q # r \/ runFile' = runFile
      BY <3>1, <2>2, <1>1 DEF PutRun, IInv, TypeOK
    <3>2. CASE q = r /\ runFile' # runFile
      <4>1. runFile'[r] = writer[r].status /\ Writes(r) /\ writer[r].status \in Statuses
        BY <3>2, <2>2, <1>1 DEF PutRun, Put, Writes, IInv, TypeOK
      <4>2. writer[r].status \notin OpenStatuses
        BY <4>1, <1>1 DEF IInv, ReceiptsOpen
      <4> QED
        BY <4>1, <4>2 DEF Statuses, OpenStatuses, Terminal
    <3> QED
      BY <3>1, <3>2
  <2> QED
    BY <2>1, <2>2, <1>1
<1>2. IInv /\ [Next]_vars =>
        [\A r \in Runs : runFile[r] \in {"completed", "reconciliation_required"}
                          => runFile'[r] \in {"completed", "reconciliation_required"}]_vars
  BY <1>1 DEF Terminal
<1> QED
  BY <1>2, Invariance, PTL DEF Spec, TerminalReceiptStands

-----------------------------------------------------------------------------
(* Repetitions *)

\* A run is launched from its intent, while s.mu is held for it, and is the last one admitted.
IntentsHoldMu == \A r \in Runs : stage[r] = "intent" => mu = r /\ r = issued
LaunchedFrom ==
  \A r \in Runs : /\ r \in launched => stage[r] \notin {"none", "intent"}
                  /\ InMap(r) /\ stage[r] # "intent" => r \in launched

\* The intent is in the fingerprint's file before the handler is called.
IntentIsWritten ==
  \A r \in Runs : writer[r].by = "start" =>
    /\ writer[r].status = "running"
    /\ writer[r].step = "ok" => activeFile[FpOf(r)] = [run |-> r, status |-> "running"]

\* A fingerprint's file names a run of it, at the latest once one was launched.
FilesNameRuns ==
  /\ \A fp \in Fingerprints : activeFile[fp].run # 0 =>
       activeFile[fp].run \in 1..issued /\ FpOf(activeFile[fp].run) = fp
  /\ \A r \in launched : activeFile[FpOf(r)].run # 0

\* Who waits found a launched run of this host, who cancels one that may be cancelled, and
\* a waiter writes the receipt of the run it found.
WaitersFound ==
  /\ \A w \in Waiters : waiter[w].stage # "idle" =>
       /\ waiter[w].run \in launched /\ stage[waiter[w].run] # "lost"
       /\ waiter[w].stage \in {"cancel", "cancelling"} => callOf[waiter[w].run] \in Cancellable
  /\ \A r \in Runs : writer[r].by \in Waiters =>
       waiter[writer[r].by].run = r /\ waiter[writer[r].by].stage \in {"cancelling", "repairing"}

\* A host that starts has no runs of earlier ones.
LostLeaveTheMap == \A q, r \in Runs : stage[q] = "lost" /\ r <= q => ~InMap(r)

\* A fingerprint admits no other run after one that somebody may cancel, and none after one
\* that was launched and did not return; the latter's intent stands in the file.
LastOfItsCalls(q) == \A r \in 1..issued : FpOf(r) = FpOf(q) => r <= q
CancelledIsLast == \A q \in launched : callOf[q] \in Cancellable => LastOfItsCalls(q)
PendingIsLast ==
  \A q \in launched \ returned :
    /\ stage[q] \in {"handler", "lost"}
    /\ LastOfItsCalls(q)
    /\ activeFile[FpOf(q)].run = q /\ activeFile[FpOf(q)].status \in OpenStatuses

LInv ==
  /\ IntentsHoldMu /\ LaunchedFrom /\ IntentIsWritten /\ FilesNameRuns /\ WaitersFound
  /\ LostLeaveTheMap /\ CancelledIsLast /\ PendingIsLast

Ran == {"handler", "finished", "committed", "uncommitted", "leaving", "kept"}

\* What was admitted has a number and a fingerprint.
LEMMA RunNumbers ==
  ASSUME TypeOK
  PROVE  /\ issued \in Nat /\ 1..issued \subseteq Runs /\ launched \subseteq Runs
         /\ \A r \in Runs : r \in Nat /\ r # 0 /\ FpOf(r) \in Fingerprints /\ callOf[r] \in Calls
BY SupervisorAssumption DEF TypeOK, Runs, FpOf, SupervisorAssumption

LEMMA LInvParts ==
  ASSUME LInv
  PROVE  /\ IntentsHoldMu /\ LaunchedFrom /\ IntentIsWritten /\ FilesNameRuns /\ WaitersFound
         /\ LostLeaveTheMap /\ CancelledIsLast /\ PendingIsLast
BY DEF LInv

\* A step that admits nothing, launches nothing and writes no file of a fingerprint, while
\* runs that were launched go on.
LEMMA CalmStep ==
  ASSUME IInv, LInv, UNCHANGED <<mu, issued, callOf, launched, activeFile>>,
         returned \subseteq returned',
         \A q \in Runs : \/ stage'[q] = stage[q]
                         \/ /\ stage[q] \in Ran /\ stage'[q] \in Ran \union {"gone"}
                            /\ stage'[q] # "handler" /\ (stage[q] = "handler" => q \in returned'),
         \A q \in Runs : writer'[q].by = "start" =>
           /\ writer[q].by = "start" /\ writer'[q].status = writer[q].status
           /\ writer'[q].step = "ok" => writer[q].step = "ok",
         WaitersFound'
  PROVE  LInv'
<1>i. /\ IntentsHoldMu /\ LaunchedFrom /\ IntentIsWritten /\ FilesNameRuns
      /\ LostLeaveTheMap /\ CancelledIsLast /\ PendingIsLast
  BY LInvParts
<1>t. TypeOK /\ HandlersRan
  BY DEF IInv
<1>n. /\ issued \in Nat /\ 1..issued \subseteq Runs /\ launched \subseteq Runs
      /\ \A r \in Runs : r \in Nat /\ r # 0
  BY <1>t, RunNumbers
<1>1. IntentsHoldMu'
  BY <1>i DEF IntentsHoldMu, Ran
<1>2. LaunchedFrom'
  BY <1>i DEF LaunchedFrom, Ran, InMap
<1>3. IntentIsWritten'
  BY <1>i DEF IntentIsWritten, FpOf
<1>4. FilesNameRuns'
  BY <1>i DEF FilesNameRuns, FpOf
<1>5. LostLeaveTheMap'
  BY <1>i DEF LostLeaveTheMap, InMap, Ran
<1>6. CancelledIsLast'
  BY <1>i DEF CancelledIsLast, LastOfItsCalls, FpOf
<1>7. PendingIsLast'
  <2> SUFFICES ASSUME NEW q \in launched, q \notin returned'
               PROVE  /\ stage'[q] \in {"handler", "lost"} /\ LastOfItsCalls(q)'
                      /\ activeFile'[FpOf(q)'].run = q /\ activeFile'[FpOf(q)'].status \in OpenStatuses
    BY DEF PendingIsLast
  <2>1. q \notin returned /\ q \in Runs
    BY <1>n
  <2>2. /\ stage[q] \in {"handler", "lost"} /\ LastOfItsCalls(q)
        /\ activeFile[FpOf(q)].run = q /\ activeFile[FpOf(q)].status \in OpenStatuses
    BY <1>i, <2>1 DEF PendingIsLast
  <2>3. stage'[q] = stage[q]
    BY <2>1, <2>2 DEF Ran
  <2> QED
    BY <2>2, <2>3 DEF LastOfItsCalls, FpOf
<1> QED
  BY <1>1, <1>2, <1>3, <1>4, <1>5, <1>6, <1>7 DEF LInv

\* Waiters that go on with their runs, or leave.
LEMMA WaitersGoOn ==
  ASSUME IInv, WaitersFound, UNCHANGED <<callOf, launched>>,
         \A q \in Runs : stage'[q] = "lost" => stage[q] = "lost",
         \A w \in Waiters : waiter'[w].stage # "idle" =>
           /\ waiter[w].stage # "idle" /\ waiter'[w].run = waiter[w].run
           /\ waiter'[w].stage \in {"cancel", "cancelling"} => waiter[w].stage \in {"cancel", "cancelling"},
         \A q \in Runs : writer'[q].by \in Waiters =>
           waiter'[writer'[q].by].run = q /\ waiter'[writer'[q].by].stage \in {"cancelling", "repairing"}
  PROVE  WaitersFound'
<1>1. TypeOK /\ Issued
  BY DEF IInv
<1>2. ASSUME NEW w \in Waiters, waiter'[w].stage # "idle"
      PROVE  /\ waiter'[w].run \in launched' /\ stage'[waiter'[w].run] # "lost"
             /\ waiter'[w].stage \in {"cancel", "cancelling"} => callOf'[waiter'[w].run] \in Cancellable
  <2>1. waiter[w].stage # "idle" /\ waiter'[w].run = waiter[w].run /\ waiter[w].run \in Runs
    BY <1>1, <1>2, WaiterRuns
  <2> QED
    BY <1>2, <2>1 DEF WaitersFound
<1> QED
  BY <1>2 DEF WaitersFound

\* Steps of the goroutine of a run and of Close.
LEMMA GoroutineKeepsLInv ==
  ASSUME IInv, LInv, NEW r \in Runs, Return(r) \/ Goroutine(r) \/ PutRun(r)
  PROVE  LInv'
<1>i. TypeOK /\ WritersKnow /\ WaitersFound
  BY DEF IInv, LInv
<1>k. Waiters \intersect {"nobody", "start", "handler"} = {}
  BY SupervisorAssumption DEF SupervisorAssumption
<1>u. UNCHANGED <<mu, issued, callOf, launched, activeFile, waiter>> /\ returned \subseteq returned'
  BY DEF Return, Goroutine, Persist, Persisted, Settle, Remove, PutRun, memory, files, world
<1>s. \A q \in Runs : \/ stage'[q] = stage[q]
                      \/ /\ stage[q] \in Ran /\ stage'[q] \in Ran \union {"gone"}
                         /\ stage'[q] # "handler" /\ (stage[q] = "handler" => q \in returned')
  <2>1. CASE Return(r)
    BY <2>1, <1>i DEF Return, GoTo, TypeOK, Ran
  <2>2. CASE Persist(r) \/ PutRun(r)
    BY <2>2 DEF Persist, PutRun, memory
  <2>3. CASE Persisted(r)
    <3>1. stage[r] = "finished" /\ (GoTo(r, "committed") \/ GoTo(r, "uncommitted"))
      BY <2>3, <1>i DEF Persisted, WritersKnow
    <3> QED
      BY <3>1, <1>i DEF GoTo, TypeOK, Ran
  <2>4. CASE Settle(r)
    BY <2>4, <1>i DEF Settle, GoTo, TypeOK, Ran
  <2>5. CASE Remove(r)
    BY <2>5, <1>i DEF Remove, GoTo, TypeOK, Ran
  <2> QED
    BY <2>1, <2>2, <2>3, <2>4, <2>5 DEF Goroutine
<1>w. \A q \in Runs :
        \/ writer'[q].by \in {"nobody", "handler"}
        \/ /\ writer'[q].by = writer[q].by /\ writer'[q].status = writer[q].status
           /\ writer'[q].step = "ok" => writer[q].step = "ok"
  <2>1. CASE Return(r) \/ Settle(r) \/ Remove(r)
    BY <2>1 DEF Return, Settle, Remove
  <2>2. CASE Persist(r)
    BY <2>2, <1>i DEF Persist, Compose, TypeOK
  <2>3. CASE Persisted(r)
    BY <2>3, <1>i, Unlocks DEF Persisted
  <2>4. CASE PutRun(r)
    <3>1. /\ \A q \in Runs : writer'[q].by = writer[q].by /\ writer'[q].status = writer[q].status
          /\ \A q \in Runs : q # r => writer'[q] = writer[q]
          /\ writer'[r].step \in {"active", "error"}
      BY <2>4, <1>i, PutMoves DEF PutRun
    <3> QED BY <3>1
  <2> QED
    BY <2>1, <2>2, <2>3, <2>4 DEF Goroutine
<1>1. WaitersFound'
  <2>1. \A q \in Runs : writer'[q].by \in Waiters => writer[q].by = writer'[q].by
    BY <1>w, <1>k
  <2>2. \A q \in Runs : writer'[q].by \in Waiters =>
          waiter'[writer'[q].by].run = q /\ waiter'[writer'[q].by].stage \in {"cancelling", "repairing"}
    BY <2>1, <1>i, <1>u DEF WaitersFound
  <2>3. \A q \in Runs : stage'[q] = "lost" => stage[q] = "lost"
    BY <1>s DEF Ran
  <2> QED
    BY <2>2, <2>3, <1>i, <1>u, WaitersGoOn
<1>2. \A q \in Runs : writer'[q].by = "start" =>
           /\ writer[q].by = "start" /\ writer'[q].status = writer[q].status
           /\ writer'[q].step = "ok" => writer[q].step = "ok"
  BY <1>w
<1> QED
  BY <1>u, <1>s, <1>1, <1>2, CalmStep

LEMMA CloseKeepsLInv ==
  ASSUME IInv, LInv, Close
  PROVE  LInv'
<1>u. /\ UNCHANGED <<mu, issued, callOf, launched, activeFile, waiter, stage, writer, returned>>
  BY DEF Close, files, world
<1>1. WaitersFound'
  BY <1>u DEF LInv, WaitersFound
<1> QED
  BY <1>u, <1>1, CalmStep

\* Steps of await_tool and cancel_tool.
LEMMA LookKeepsLInv ==
  ASSUME IInv, LInv, NEW w \in Waiters, NEW r \in Runs, Look(w, r)
  PROVE  LInv'
<1>i. TypeOK /\ WritersKnow /\ WaitersFound /\ LaunchedFrom /\ IntentsHoldMu /\ Issued
  BY DEF IInv, LInv
<1>u. UNCHANGED <<mu, issued, callOf, launched, activeFile, stage, writer, returned>>
  BY DEF Look, files, world
<1>r. r \in launched /\ stage[r] # "lost" /\ r # 0
  <2>1. stage[r] # "intent"
    BY <1>i, RunNumbers DEF Look, IntentsHoldMu
  <2> QED
    BY <2>1, <1>i, RunNumbers DEF Look, LaunchedFrom, InMap
<1>m. /\ waiter[w].stage = "idle" /\ waiter'[w].run = r
      /\ waiter'[w].stage \in {"wait", "cancel"}
      /\ waiter'[w].stage = "cancel" => callOf[r] \in Cancellable
      /\ \A d \in Waiters : d # w => waiter'[d] = waiter[d]
  BY <1>i DEF Look, At, TypeOK
<1>1. WaitersFound'
  BY <1>i, <1>u, <1>r, <1>m DEF WaitersFound
<1> QED
  BY <1>u, <1>1, CalmStep

LEMMA WaitingKeepsLInv ==
  ASSUME IInv, LInv, NEW w \in Waiters, Waiting(w) \/ GiveUp(w)
  PROVE  LInv'
<1> DEFINE r == waiter[w].run
<1>i. TypeOK /\ WritersKnow /\ WaitersFound /\ Issued
  BY DEF IInv, LInv
<1>k. Waiters \intersect {"nobody", "start", "handler"} = {}
  BY SupervisorAssumption DEF SupervisorAssumption
<1>g. waiter[w].stage # "idle" /\ r \in Runs
  BY <1>i, WaiterRuns DEF Waiting, GiveUp, Cancel, CancelDone, Repair, RepairFailed, Repaired, At
<1>u. UNCHANGED <<mu, issued, callOf, launched, activeFile, returned>>
  BY DEF Waiting, GiveUp, Cancel, CancelDone, Repair, RepairFailed, Repaired, memory, files, world
<1>s. \A q \in Runs : stage'[q] = stage[q] \/ (stage[q] = "kept" /\ stage'[q] = "gone")
  <2>1. CASE Repaired(w)
    <3>1. stage[r] = "kept"
      BY <2>1, <1>i, UnderRepair DEF Repaired, At
    <3>2. stage' = stage \/ GoTo(r, "gone")
      BY <2>1 DEF Repaired
    <3> QED
      BY <3>1, <3>2, <1>i, <1>g DEF GoTo, TypeOK
  <2>2. CASE ~Repaired(w)
    BY <2>2 DEF Waiting, GiveUp, Cancel, CancelDone, Repair, RepairFailed, memory
  <2> QED
    BY <2>1, <2>2
<1>w. \/ /\ waiter[w].stage = "cancel" \/ waiter[w].stage = "wait"
         /\ writer[r].by = "nobody" /\ writer'[r].by = w
         /\ waiter'[w].stage = IF waiter[w].stage = "cancel" THEN "cancelling" ELSE "repairing"
         /\ waiter'[w].run = r
      \/ /\ waiter[w].stage \in {"cancelling", "repairing"} /\ writer'[r].by = "nobody"
         /\ waiter'[w].stage \in {"idle", "wait"} /\ (waiter'[w].stage # "idle" => waiter'[w].run = r)
      \/ /\ waiter[w].stage = "wait" /\ writer' = writer
         /\ waiter'[w].stage = "idle"
  <2>1. CASE Cancel(w) \/ Repair(w)
    <3>1. /\ (At(w, "cancel") /\ Move(w, "cancelling")) \/ (At(w, "wait") /\ Move(w, "repairing"))
          /\ Free(r) /\ \E status : Compose(r, w, status)
      BY <2>1 DEF Cancel, Repair
    <3>2. writer'[r].by = w /\ writer[r].by = "nobody"
      BY <3>1, <1>i, <1>g DEF Compose, TypeOK, Free, Nobody
    <3>3. CASE At(w, "cancel") /\ Move(w, "cancelling")
      BY <3>2, <3>3, <1>i, Moves DEF At
    <3>4. CASE At(w, "wait") /\ Move(w, "repairing")
      BY <3>2, <3>4, <1>i, Moves DEF At
    <3> QED
      BY <3>1, <3>3, <3>4
  <2>2. CASE CancelDone(w) \/ RepairFailed(w) \/ Repaired(w)
    <3>1. /\ waiter[w].stage \in {"cancelling", "repairing"} /\ Unlock(r)
          /\ (Move(w, "wait") \/ Leave(w))
      BY <2>2 DEF CancelDone, RepairFailed, Repaired, At
    <3>2. writer'[r].by = "nobody"
      BY <3>1, <1>i, <1>g, Unlocks
    <3> QED
      BY <3>1, <3>2, <1>i, Moves, Leaves
  <2>3. CASE GiveUp(w)
    BY <2>3, <1>i, Leaves DEF GiveUp, At
  <2> QED
    BY <2>1, <2>2, <2>3 DEF Waiting
<1>o. /\ \A d \in Waiters : d # w => waiter'[d] = waiter[d]
      /\ \A q \in Runs : q # r => writer'[q] = writer[q]
  <2>1. \A d \in Waiters : d # w => waiter'[d] = waiter[d]
    BY <1>i DEF Waiting, GiveUp, Cancel, CancelDone, Repair, RepairFailed, Repaired, Move, Leave, TypeOK
  <2>2. \A q \in Runs : q # r => writer'[q] = writer[q]
    <3>1. writer' = writer \/ Unlock(r) \/ \E status : Compose(r, w, status)
      BY DEF Waiting, GiveUp, Cancel, CancelDone, Repair, RepairFailed, Repaired
    <3> HIDE DEF r
    <3> QED
      BY <3>1, <1>i, <1>g DEF Compose, Unlock, TypeOK
  <2> QED
    BY <2>1, <2>2
<1> HIDE DEF r
<1>r. waiter[w].run = r
  BY DEF r
<1>1. WaitersFound'
  <2>1. \A d \in Waiters : waiter'[d].stage # "idle" =>
          /\ waiter[d].stage # "idle" /\ waiter'[d].run = waiter[d].run
          /\ waiter'[d].stage \in {"cancel", "cancelling"} => waiter[d].stage \in {"cancel", "cancelling"}
    BY <1>g, <1>w, <1>o, <1>r
  <2>2. ASSUME NEW q \in Runs, writer'[q].by \in Waiters
        PROVE  waiter'[writer'[q].by].run = q /\ waiter'[writer'[q].by].stage \in {"cancelling", "repairing"}
    <3>1. CASE q = r /\ writer' # writer
      BY <3>1, <2>2, <1>w, <1>k
    <3>2. CASE q # r \/ writer' = writer
      <4>1. /\ writer'[q].by = writer[q].by
            /\ waiter[writer[q].by].run = q /\ waiter[writer[q].by].stage \in {"cancelling", "repairing"}
        BY <2>2, <3>2, <1>o, <1>i DEF WaitersFound
      <4>2. writer[q].by # w
        BY <4>1, <2>2, <3>2, <1>w, <1>r, <1>k
      <4> QED
        BY <4>1, <4>2, <2>2, <1>o
    <3> QED
      BY <3>1, <3>2
  <2>3. \A q \in Runs : stage'[q] = "lost" => stage[q] = "lost"
    BY <1>s
  <2> QED
    BY <2>1, <2>2, <2>3, <1>i, <1>u, WaitersGoOn
<1>2. \A q \in Runs : writer'[q].by = "start" =>
           /\ writer[q].by = "start" /\ writer'[q].status = writer[q].status
           /\ writer'[q].step = "ok" => writer[q].step = "ok"
  BY <1>w, <1>o, <1>k
<1>3. \A q \in Runs : \/ stage'[q] = stage[q]
                      \/ /\ stage[q] \in Ran /\ stage'[q] \in Ran \union {"gone"}
                         /\ stage'[q] # "handler" /\ (stage[q] = "handler" => q \in returned')
  BY <1>s DEF Ran
<1> QED
  BY <1>u, <1>1, <1>2, <1>3, CalmStep

\* PutFile of the fingerprint's file.
LEMMA PutActiveKeepsLInv ==
  ASSUME IInv, LInv, NEW r \in Runs, PutActive(r)
  PROVE  LInv'
<1>i. /\ IntentsHoldMu /\ LaunchedFrom /\ IntentIsWritten /\ FilesNameRuns /\ WaitersFound
      /\ LostLeaveTheMap /\ CancelledIsLast /\ PendingIsLast
  BY LInvParts
<1>t. TypeOK /\ HandlersRan /\ Issued /\ WritersKnow /\ ActiveNamesRun /\ ReceiptsOpen
  BY DEF IInv
<1>n. /\ issued \in Nat /\ 1..issued \subseteq Runs /\ launched \subseteq Runs
      /\ \A q \in Runs : q \in Nat /\ q # 0 /\ FpOf(q) \in Fingerprints
  BY <1>t, RunNumbers
<1>k. Waiters \intersect {"nobody", "start", "handler"} = {}
  BY SupervisorAssumption DEF SupervisorAssumption
<1>u. UNCHANGED <<mu, issued, callOf, launched, returned, stage, waiter>>
  BY DEF PutActive, memory, world
<1>w. /\ \A q \in Runs : writer'[q].by = writer[q].by /\ writer'[q].status = writer[q].status
      /\ \A q \in Runs : q # r => writer'[q] = writer[q]
      /\ writer'[r].step \in {"ok", "error"} /\ Writes(r)
  BY <1>t, PutMoves DEF PutActive
<1>f. /\ \A fp \in Fingerprints : fp # FpOf(r) => activeFile'[fp] = activeFile[fp]
      /\ \/ activeFile'[FpOf(r)] = [run |-> r, status |-> writer[r].status]
         \/ activeFile'[FpOf(r)] = activeFile[FpOf(r)] /\ writer'[r].step = "error"
  BY <1>t, <1>n DEF PutActive, TypeOK
<1>r. r \in 1..issued
  BY <1>t, <1>w, <1>n DEF Issued, Runs
<1>p. FpOf(r)' = FpOf(r) /\ \A q \in Runs : FpOf(q)' = FpOf(q)
  BY <1>u DEF FpOf
\* Who writes a receipt has a run of this host, or one that may be cancelled.
<1>m. ASSUME ~InMap(r)
      PROVE  r \in launched /\ callOf[r] \in Cancellable
  <2>1. writer[r].by \in Waiters
    BY <1>m, <1>t, <1>w DEF WritersKnow, InMap, TypeOK, Writes
  <2>2. PICK w \in Waiters : writer[r].by = w
    BY <2>1
  <2>3. waiter[w].run = r /\ waiter[w].stage \in {"cancelling", "repairing"}
    BY <2>2, <1>i DEF WaitersFound
  <2>4. waiter[w].stage # "repairing"
    BY <2>3, <1>m, <1>t DEF WritersKnow, InMap
  <2> QED
    BY <2>3, <2>4, <1>i DEF WaitersFound
\* So it is the run itself that is pending, or of which the intent is under way.
<1>q. ASSUME NEW q \in launched, q \notin returned, FpOf(q) = FpOf(r)
      PROVE  q = r
  <2>1. /\ stage[q] \in {"handler", "lost"} /\ r <= q /\ q \in Runs /\ q \in 1..issued
    BY <1>q, <1>i, <1>r, <1>n, <1>t DEF PendingIsLast, LastOfItsCalls, LaunchedFrom, Issued, Runs
  <2>2. CASE InMap(r)
    <3>1. stage[q] # "lost"
      BY <2>1, <2>2, <1>i DEF LostLeaveTheMap
    <3> QED
      BY <2>1, <2>2, <3>1, <1>q, <1>t DEF ActiveNamesRun, InMap
  <2>3. CASE ~InMap(r)
    BY <2>1, <2>3, <1>m, <1>q, <1>i, <1>n DEF CancelledIsLast, LastOfItsCalls
  <2> QED
    BY <2>2, <2>3
<1>h. ASSUME NEW q \in Runs, writer[q].by = "start", FpOf(q) = FpOf(r)
      PROVE  q = r
  <2>1. stage[q] = "intent" /\ q = issued
    BY <1>h, <1>t, <1>i DEF WritersKnow, IntentsHoldMu
  <2>2. CASE InMap(r)
    BY <2>1, <2>2, <1>h, <1>t DEF ActiveNamesRun, InMap
  <2>3. CASE ~InMap(r)
    BY <2>1, <2>3, <1>m, <1>h, <1>i, <1>n, <1>r DEF CancelledIsLast, LastOfItsCalls
  <2> QED
    BY <2>2, <2>3
<1>1. IntentsHoldMu' /\ LaunchedFrom' /\ LostLeaveTheMap'
  BY <1>i, <1>u DEF IntentsHoldMu, LaunchedFrom, LostLeaveTheMap, InMap
<1>2. IntentIsWritten'
  <2> SUFFICES ASSUME NEW q \in Runs, writer'[q].by = "start"
               PROVE  /\ writer'[q].status = "running"
                      /\ writer'[q].step = "ok" => activeFile'[FpOf(q)] = [run |-> q, status |-> "running"]
    BY <1>p DEF IntentIsWritten
  <2>1. writer[q].by = "start" /\ writer[q].status = "running"
    BY <1>w, <1>i DEF IntentIsWritten
  <2>2. CASE q = r
    BY <2>1, <2>2, <1>w, <1>f
  <2>3. CASE q # r
    BY <2>1, <2>3, <1>h, <1>w, <1>f, <1>i, <1>n DEF IntentIsWritten
  <2> QED
    BY <2>1, <2>2, <2>3, <1>w
<1>3. FilesNameRuns'
  <2>1. ASSUME NEW fp \in Fingerprints, activeFile'[fp].run # 0
        PROVE  activeFile'[fp].run \in 1..issued /\ Fp[callOf[activeFile'[fp].run]] = fp
    BY <2>1, <1>f, <1>i, <1>r, <1>n DEF FilesNameRuns, FpOf
  <2>2. ASSUME NEW q \in launched
        PROVE  activeFile'[FpOf(q)].run # 0
    BY <1>f, <1>i, <1>n DEF FilesNameRuns
  <2> QED
    BY <2>1, <2>2, <1>u, <1>p, <1>n DEF FilesNameRuns, FpOf
<1>4. WaitersFound'
  BY <1>i, <1>u, <1>w DEF WaitersFound
<1>5. CancelledIsLast'
  BY <1>i, <1>u DEF CancelledIsLast, LastOfItsCalls, FpOf
<1>6. PendingIsLast'
  <2> SUFFICES ASSUME NEW q \in launched, q \notin returned
               PROVE  /\ stage[q] \in {"handler", "lost"} /\ LastOfItsCalls(q)
                      /\ activeFile'[FpOf(q)].run = q /\ activeFile'[FpOf(q)].status \in OpenStatuses
    BY <1>u, <1>p DEF PendingIsLast, LastOfItsCalls, FpOf
  <2>1. /\ stage[q] \in {"handler", "lost"} /\ LastOfItsCalls(q) /\ FpOf(q) \in Fingerprints
        /\ activeFile[FpOf(q)].run = q /\ activeFile[FpOf(q)].status \in OpenStatuses
    BY <1>i, <1>n DEF PendingIsLast
  <2>2. CASE FpOf(q) # FpOf(r)
    BY <2>1, <2>2, <1>f
  <2>3. CASE FpOf(q) = FpOf(r)
    <3>1. q = r
      BY <2>3, <1>q
    <3>2. stage[q] # "lost"
      <4>1. CASE InMap(r)
        BY <3>1, <4>1 DEF InMap
      <4>2. CASE ~InMap(r)
        <5>1. writer[r].by \in Waiters
          BY <4>2, <1>t, <1>w DEF WritersKnow, InMap, TypeOK, Writes
        <5> QED
          BY <5>1, <3>1, <1>i DEF WaitersFound
      <4> QED
        BY <4>1, <4>2
    <3>3. writer[r].status \in OpenStatuses
      BY <2>1, <3>1, <3>2, <1>t, <1>w DEF ReceiptsOpen, Working
    <3> QED
      BY <2>1, <3>1, <3>3, <1>f
  <2> QED
    BY <2>1, <2>2, <2>3
<1> QED
  BY <1>1, <1>2, <1>3, <1>4, <1>5, <1>6 DEF LInv

\* The handler is called: its run is the last one admitted, and its intent is written.
LEMMA LaunchKeepsLInv ==
  ASSUME IInv, LInv, NEW r \in Runs, Launch(r)
  PROVE  LInv'
<1>i. /\ IntentsHoldMu /\ LaunchedFrom /\ IntentIsWritten /\ FilesNameRuns /\ WaitersFound
      /\ LostLeaveTheMap /\ CancelledIsLast /\ PendingIsLast
  BY LInvParts
<1>t. TypeOK /\ HandlersRan /\ WritersKnow
  BY DEF IInv
<1>n. /\ issued \in Nat /\ 1..issued \subseteq Runs /\ launched \subseteq Runs
      /\ \A q \in Runs : q \in Nat /\ q # 0 /\ FpOf(q) \in Fingerprints
  BY <1>t, RunNumbers
<1>k. Waiters \intersect {"nobody", "start", "handler"} = {}
  BY SupervisorAssumption DEF SupervisorAssumption
<1>u. /\ UNCHANGED <<issued, callOf, activeFile, returned, waiter>>
      /\ launched' = launched \union {r} /\ mu' = 0 /\ GoTo(r, "handler")
  BY DEF Launch, files
<1>g. /\ stage[r] = "intent" /\ r = issued
      /\ activeFile[FpOf(r)] = [run |-> r, status |-> "running"]
  BY <1>t, <1>i DEF Launch, Wrote, WritersKnow, IntentsHoldMu, IntentIsWritten
<1>s. /\ stage'[r] = "handler"
      /\ \A q \in Runs : q # r => stage'[q] = stage[q]
  BY <1>t, <1>u DEF TypeOK, GoTo
<1>w. /\ writer'[r].by = "nobody"
      /\ \A q \in Runs : q # r => writer'[q] = writer[q]
  BY <1>t, Unlocks DEF Launch
<1>p. \A q \in Runs : FpOf(q)' = FpOf(q)
  BY <1>u DEF FpOf
<1>l. LastOfItsCalls(r)
  BY <1>g, <1>n DEF LastOfItsCalls
<1>1. IntentsHoldMu'
  BY <1>i, <1>g, <1>s DEF IntentsHoldMu
<1>2. LaunchedFrom'
  BY <1>i, <1>u, <1>s DEF LaunchedFrom, InMap
<1>3. IntentIsWritten'
  BY <1>i, <1>u, <1>w DEF IntentIsWritten, FpOf
<1>4. FilesNameRuns'
  <2>1. activeFile[FpOf(r)].run # 0
    BY <1>g, <1>n
  <2> QED
    BY <2>1, <1>i, <1>u DEF FilesNameRuns, FpOf
<1>5. WaitersFound'
  <2>1. \A w \in Waiters : waiter[w].stage # "idle" => waiter[w].run \in launched /\ waiter[w].run \in Runs
    BY <1>i, <1>n DEF WaitersFound
  <2>2. \A w \in Waiters : waiter'[w].stage # "idle" =>
          /\ waiter'[w].run \in launched' /\ stage'[waiter'[w].run] # "lost"
          /\ waiter'[w].stage \in {"cancel", "cancelling"} => callOf'[waiter'[w].run] \in Cancellable
    BY <2>1, <1>i, <1>u, <1>s DEF WaitersFound
  <2>3. \A q \in Runs : writer'[q].by \in Waiters =>
          waiter'[writer'[q].by].run = q /\ waiter'[writer'[q].by].stage \in {"cancelling", "repairing"}
    BY <1>i, <1>u, <1>w, <1>k DEF WaitersFound
  <2> QED
    BY <2>2, <2>3 DEF WaitersFound
<1>6. LostLeaveTheMap'
  BY <1>i, <1>s, <1>g DEF LostLeaveTheMap, InMap
<1>7. CancelledIsLast'
  BY <1>i, <1>u, <1>l DEF CancelledIsLast, LastOfItsCalls, FpOf
<1>8. PendingIsLast'
  <2> SUFFICES ASSUME NEW q \in launched \union {r}, q \notin returned
               PROVE  /\ stage'[q] \in {"handler", "lost"} /\ LastOfItsCalls(q)
                      /\ activeFile[FpOf(q)].run = q /\ activeFile[FpOf(q)].status \in OpenStatuses
    BY <1>u DEF PendingIsLast, LastOfItsCalls, FpOf
  <2>1. CASE q = r
    BY <2>1, <1>s, <1>l, <1>g DEF OpenStatuses
  <2>2. CASE q # r
    BY <2>2, <1>s, <1>i, <1>n DEF PendingIsLast
  <2> QED
    BY <2>1, <2>2
<1> QED
  BY <1>1, <1>2, <1>3, <1>4, <1>5, <1>6, <1>7, <1>8 DEF LInv

LEMMA WithdrawKeepsLInv ==
  ASSUME IInv, LInv, NEW r \in Runs, Withdraw(r)
  PROVE  LInv'
<1>i. /\ IntentsHoldMu /\ LaunchedFrom /\ IntentIsWritten /\ FilesNameRuns /\ WaitersFound
      /\ LostLeaveTheMap /\ CancelledIsLast /\ PendingIsLast
  BY LInvParts
<1>t. TypeOK /\ WritersKnow
  BY DEF IInv
<1>n. launched \subseteq Runs /\ \A q \in Runs : q \in Nat /\ q # 0
  BY <1>t, RunNumbers
<1>k. Waiters \intersect {"nobody", "start", "handler"} = {}
  BY SupervisorAssumption DEF SupervisorAssumption
<1>u. /\ UNCHANGED <<issued, callOf, activeFile, launched, returned, waiter>>
      /\ mu' = 0 /\ GoTo(r, "gone")
  BY DEF Withdraw, files, world
<1>g. stage[r] = "intent" /\ r = mu /\ r \notin launched
  BY <1>t, <1>i DEF Withdraw, Wrote, WritersKnow, IntentsHoldMu, LaunchedFrom
<1>s. /\ stage'[r] = "gone"
      /\ \A q \in Runs : q # r => stage'[q] = stage[q]
  BY <1>t, <1>u DEF TypeOK, GoTo
<1>w. /\ writer'[r].by = "nobody"
      /\ \A q \in Runs : q # r => writer'[q] = writer[q]
  BY <1>t, Unlocks DEF Withdraw
<1>1. IntentsHoldMu'
  BY <1>i, <1>g, <1>s DEF IntentsHoldMu
<1>2. LaunchedFrom'
  BY <1>i, <1>u, <1>g, <1>s DEF LaunchedFrom, InMap
<1>3. IntentIsWritten'
  BY <1>i, <1>u, <1>w DEF IntentIsWritten, FpOf
<1>4. FilesNameRuns' /\ CancelledIsLast'
  BY <1>i, <1>u DEF FilesNameRuns, CancelledIsLast, LastOfItsCalls, FpOf
<1>5. WaitersFound'
  <2>1. \A w \in Waiters : waiter[w].stage # "idle" => waiter[w].run \in Runs /\ waiter[w].run # r
    BY <1>i, <1>g, <1>n DEF WaitersFound
  <2> QED
    BY <2>1, <1>i, <1>u, <1>s, <1>w, <1>k DEF WaitersFound
<1>6. LostLeaveTheMap'
  BY <1>i, <1>s DEF LostLeaveTheMap, InMap
<1>7. PendingIsLast'
  <2>1. \A q \in launched : stage'[q] = stage[q]
    BY <1>g, <1>n, <1>s
  <2> QED
    BY <2>1, <1>i, <1>u DEF PendingIsLast, LastOfItsCalls, FpOf
<1> QED
  BY <1>1, <1>2, <1>3, <1>4, <1>5, <1>6, <1>7 DEF LInv

\* The next host has no runs, no waiters and no receipts under way.
LEMMA RestartKeepsLInv ==
  ASSUME IInv, LInv, Restart
  PROVE  LInv'
<1>i. /\ LaunchedFrom /\ FilesNameRuns /\ LostLeaveTheMap /\ CancelledIsLast /\ PendingIsLast
  BY LInvParts
<1>t. TypeOK
  BY DEF IInv
<1>n. launched \subseteq Runs
  BY <1>t, RunNumbers
<1>k. Waiters \intersect {"nobody", "start", "handler"} = {}
  BY SupervisorAssumption DEF SupervisorAssumption
<1>u. UNCHANGED <<issued, callOf, activeFile, launched, returned>>
  BY DEF Restart, files, world
<1>s. \A q \in Runs : /\ ~InMap(q)'
                      /\ stage'[q] = IF InMap(q) THEN "lost" ELSE stage[q]
  BY <1>t DEF Restart, TypeOK, InMap
<1>w. /\ \A q \in Runs : writer'[q].by = "nobody"
      /\ \A w \in Waiters : waiter'[w].stage = "idle"
  BY DEF Restart, Nobody, Idle
<1>1. IntentsHoldMu' /\ LaunchedFrom' /\ LostLeaveTheMap'
  BY <1>i, <1>u, <1>s DEF IntentsHoldMu, LaunchedFrom, LostLeaveTheMap, InMap
<1>2. IntentIsWritten' /\ WaitersFound'
  BY <1>w, <1>k DEF IntentIsWritten, WaitersFound
<1>3. FilesNameRuns' /\ CancelledIsLast'
  BY <1>i, <1>u DEF FilesNameRuns, CancelledIsLast, LastOfItsCalls, FpOf
<1>4. PendingIsLast'
  <2>1. \A q \in launched : stage[q] \in {"handler", "lost"} => stage'[q] = "lost"
    BY <1>n, <1>s DEF InMap
  <2> QED
    BY <2>1, <1>i, <1>u DEF PendingIsLast, LastOfItsCalls, FpOf
<1> QED
  BY <1>1, <1>2, <1>3, <1>4 DEF LInv

\* Nobody cancels a call of which another one has the same tool and arguments.
CancelledAlone == \A c \in Cancellable, d \in Calls : Fp[c] = Fp[d] => c = d

\* A call is admitted when the file of its fingerprint names no run, or a completed one of
\* another call: so none of its fingerprint is pending, or was launched and may be cancelled.
LEMMA AdmitKeepsLInv ==
  ASSUME CancelledAlone, IInv, LInv, NEW c \in Calls, Admit(c)
  PROVE  LInv'
<1>r. PICK r : r = issued + 1
  OBVIOUS
<1>i. /\ IntentsHoldMu /\ LaunchedFrom /\ IntentIsWritten /\ FilesNameRuns /\ WaitersFound
      /\ LostLeaveTheMap /\ CancelledIsLast /\ PendingIsLast
  BY LInvParts
<1>t. TypeOK /\ HandlersRan /\ WritersKnow /\ Issued
  BY DEF IInv
<1>k. Waiters \intersect {"nobody", "start", "handler"} = {}
  BY SupervisorAssumption DEF SupervisorAssumption
<1>n. /\ issued \in Nat /\ 1..issued \subseteq Runs /\ launched \subseteq Runs
      /\ \A q \in Runs : q \in Nat /\ q # 0 /\ FpOf(q) \in Fingerprints
  BY <1>t, RunNumbers
<1>m. /\ r \in Runs /\ r \in Nat /\ r # 0 /\ r > issued
      /\ \A q \in 1..issued : q # r
      /\ \A q \in 1..r : q = r \/ q \in 1..issued
      /\ \A q \in 1..issued : q \in 1..r
  <2>1. issued < MaxRuns /\ MaxRuns \in Nat
    BY SupervisorAssumption DEF Admit, SupervisorAssumption
  <2> QED
    BY <1>r, <2>1, <1>n DEF Runs
<1>u. /\ UNCHANGED <<activeFile, launched, returned, waiter>>
      /\ mu = 0 /\ mu' = r /\ issued' = r
      /\ callOf' = [callOf EXCEPT ![r] = c]
      /\ stage' = [stage EXCEPT ![r] = "intent"]
      /\ writer' = [writer EXCEPT ![r] = [by |-> "start", status |-> "running", step |-> "run"]]
      /\ MayLaunch(c)
  BY <1>r DEF Admit, files, world, Compose, GoTo
<1>s. stage'[r] = "intent" /\ \A q \in Runs : q # r => stage'[q] = stage[q]
  BY <1>t, <1>u, <1>m DEF TypeOK
<1>c. callOf'[r] = c /\ \A q \in Runs : q # r => callOf'[q] = callOf[q]
  BY <1>t, <1>u, <1>m DEF TypeOK
<1>w. /\ writer'[r].by = "start" /\ writer'[r].status = "running" /\ writer'[r].step = "run"
      /\ \A q \in Runs : q # r => writer'[q] = writer[q]
  BY <1>t, <1>u, <1>m DEF TypeOK
<1>p. FpOf(r)' = Fp[c] /\ \A q \in 1..issued : q \in Runs /\ q # r /\ FpOf(q)' = FpOf(q)
  BY <1>c, <1>m, <1>n DEF FpOf
<1>z. stage[r] = "none"
  BY <1>m, <1>t DEF Issued
<1>l. launched \subseteq 1..issued /\ r \notin launched
  <2>1. \A q \in launched : q \in Runs /\ q \in Nat /\ q # 0 /\ ~(q > issued)
    BY <1>n, <1>t, <1>i DEF LaunchedFrom, Issued
  <2> QED
    BY <2>1, <1>n, <1>m
<1>f. activeFile[Fp[c]].run = 0 \/ (activeFile[Fp[c]].status = "completed" /\ callOf[activeFile[Fp[c]].run] # c)
  BY <1>u DEF MayLaunch, NoFile
\* What the fingerprint's file excludes.
<1>x. ASSUME NEW q \in launched, FpOf(q) = Fp[c]
      PROVE  callOf[q] \notin Cancellable /\ q \in returned
  <2> DEFINE p == activeFile[Fp[c]].run
  <2>1. p # 0 /\ p \in 1..issued /\ FpOf(p) = Fp[c] /\ q \in Runs
    BY <1>x, <1>i, <1>n, SupervisorAssumption DEF FilesNameRuns, SupervisorAssumption
  <2>2. activeFile[Fp[c]].status = "completed" /\ callOf[p] # c
    BY <1>f, <2>1
  <2> HIDE DEF p
  <2>3. callOf[q] \notin Cancellable
    <3> SUFFICES ASSUME callOf[q] \in Cancellable PROVE FALSE
      OBVIOUS
    <3>1. callOf[p] \in Calls /\ callOf[q] \in Calls
      BY <2>1, <1>n, <1>t DEF TypeOK
    <3>2. callOf[q] = c /\ callOf[q] = callOf[p]
      BY <3>1, <2>1, <1>x DEF CancelledAlone, FpOf
    <3> QED
      BY <3>2, <2>2
  <2>4. q \in returned
    BY <2>2, <1>x, <1>i DEF PendingIsLast, OpenStatuses
  <2> QED
    BY <2>3, <2>4
<1>1. IntentsHoldMu'
  BY <1>i, <1>s, <1>u, <1>n DEF IntentsHoldMu
<1>2. LaunchedFrom'
  BY <1>i, <1>s, <1>u, <1>l DEF LaunchedFrom, InMap
<1>3. IntentIsWritten'
  <2> SUFFICES ASSUME NEW q \in Runs, writer'[q].by = "start"
               PROVE  /\ writer'[q].status = "running"
                      /\ writer'[q].step = "ok" =>
                           activeFile[FpOf(q)'] = [run |-> q, status |-> "running"]
    BY <1>u DEF IntentIsWritten
  <2>1. CASE q = r
    BY <2>1, <1>w
  <2>2. CASE q # r
    BY <2>2, <1>w, <1>c, <1>i DEF IntentIsWritten, FpOf
  <2> QED
    BY <2>1, <2>2
<1>4. FilesNameRuns'
  <2>1. ASSUME NEW fp \in Fingerprints, NEW p, p = activeFile[fp].run, p # 0
        PROVE  p \in 1..r /\ FpOf(p)' = fp
    <3>1. p \in 1..issued /\ FpOf(p) = fp
      BY <2>1, <1>i DEF FilesNameRuns
    <3> QED
      BY <3>1, <1>m, <1>p
  <2>2. ASSUME NEW q \in launched
        PROVE  activeFile[FpOf(q)'].run # 0
    BY <1>l, <1>p, <1>i DEF FilesNameRuns
  <2> QED
    BY <2>1, <2>2, <1>u DEF FilesNameRuns, FpOf
<1>5. WaitersFound'
  <2>1. \A w \in Waiters : waiter[w].stage # "idle" => waiter[w].run # r /\ waiter[w].run \in Runs
    BY <1>i, <1>l, <1>n DEF WaitersFound
  <2>2. \A w \in Waiters : waiter'[w].stage # "idle" =>
          /\ waiter'[w].run \in launched' /\ stage'[waiter'[w].run] # "lost"
          /\ waiter'[w].stage \in {"cancel", "cancelling"} => callOf'[waiter'[w].run] \in Cancellable
    BY <2>1, <1>i, <1>u, <1>s, <1>c DEF WaitersFound
  <2>3. \A q \in Runs : writer'[q].by \in Waiters =>
          waiter'[writer'[q].by].run = q /\ waiter'[writer'[q].by].stage \in {"cancelling", "repairing"}
    BY <1>i, <1>u, <1>w, <1>k DEF WaitersFound
  <2> QED
    BY <2>2, <2>3 DEF WaitersFound
<1>6. LostLeaveTheMap'
  <2> SUFFICES ASSUME NEW q \in Runs, NEW p \in Runs, stage'[q] = "lost", p <= q
               PROVE  ~InMap(p)'
    BY DEF LostLeaveTheMap
  <2>1. q # r /\ stage[q] = "lost"
    BY <1>s
  <2>2. ~(q > issued)
    BY <2>1, <1>t DEF Issued
  <2>3. p # r
    BY <2>2, <1>m, <1>n
  <2> QED
    BY <2>1, <2>3, <1>s, <1>i DEF LostLeaveTheMap, InMap
<1>7. CancelledIsLast'
  <2> SUFFICES ASSUME NEW q \in launched, callOf'[q] \in Cancellable, NEW p \in 1..r, FpOf(p)' = FpOf(q)'
               PROVE  p <= q
    BY <1>u DEF CancelledIsLast, LastOfItsCalls
  <2>1. q \in 1..issued /\ callOf[q] \in Cancellable /\ FpOf(q)' = FpOf(q)
    BY <1>l, <1>p, <1>c
  <2>2. p # r
    BY <2>1, <1>p, <1>x
  <2>3. p \in 1..issued /\ FpOf(p)' = FpOf(p)
    BY <2>2, <1>m, <1>p
  <2> QED
    BY <2>1, <2>3, <1>i DEF CancelledIsLast, LastOfItsCalls
<1>8. PendingIsLast'
  <2> SUFFICES ASSUME NEW q \in launched, q \notin returned
               PROVE  /\ stage'[q] \in {"handler", "lost"}
                      /\ \A p \in 1..r : FpOf(p)' = FpOf(q)' => p <= q
                      /\ activeFile[FpOf(q)'].run = q /\ activeFile[FpOf(q)'].status \in OpenStatuses
    BY <1>u DEF PendingIsLast, LastOfItsCalls
  <2>1. q \in 1..issued /\ stage'[q] = stage[q] /\ FpOf(q)' = FpOf(q)
    BY <1>l, <1>p, <1>s
  <2>2. /\ stage[q] \in {"handler", "lost"} /\ LastOfItsCalls(q)
        /\ activeFile[FpOf(q)].run = q /\ activeFile[FpOf(q)].status \in OpenStatuses
    BY <1>i DEF PendingIsLast
  <2>3. ASSUME NEW p \in 1..r, FpOf(p)' = FpOf(q)'
        PROVE  p <= q
    <3>1. p # r
      BY <2>3, <2>1, <1>p, <1>x
    <3>2. p \in 1..issued /\ FpOf(p)' = FpOf(p)
      BY <3>1, <1>m, <1>p
    <3> QED
      BY <2>3, <3>2, <2>1, <2>2 DEF LastOfItsCalls
  <2> QED
    BY <2>1, <2>2, <2>3
<1> QED
  BY <1>1, <1>2, <1>3, <1>4, <1>5, <1>6, <1>7, <1>8 DEF LInv

LEMMA InitLInv == Init => LInv
<1> SUFFICES ASSUME Init PROVE LInv
  OBVIOUS
<1>k. Waiters \intersect {"nobody", "start", "handler"} = {}
  BY SupervisorAssumption DEF SupervisorAssumption
<1>1. \A r \in Runs : stage[r] = "none" /\ writer[r].by = "nobody"
  BY DEF Init, Nobody
<1>2. \A w \in Waiters : waiter[w].stage = "idle"
  BY DEF Init, Idle
<1>3. \A fp \in Fingerprints : activeFile[fp].run = 0
  BY DEF Init, NoFile
<1>4. launched = {}
  BY DEF Init
<1>5. IntentsHoldMu /\ LaunchedFrom /\ IntentIsWritten /\ LostLeaveTheMap
  BY <1>1, <1>4 DEF IntentsHoldMu, LaunchedFrom, IntentIsWritten, LostLeaveTheMap, InMap
<1>6. FilesNameRuns /\ WaitersFound /\ CancelledIsLast /\ PendingIsLast
  BY <1>1, <1>2, <1>3, <1>4, <1>k DEF FilesNameRuns, WaitersFound, CancelledIsLast, PendingIsLast
<1> QED
  BY <1>5, <1>6 DEF LInv

LEMMA NextKeepsLInv == CancelledAlone /\ IInv /\ LInv /\ [Next]_vars => LInv'
<1> SUFFICES ASSUME CancelledAlone, IInv, LInv, [Next]_vars PROVE LInv'
  OBVIOUS
<1>1. CASE UNCHANGED vars
  <2>1. UNCHANGED <<mu, issued, callOf, launched, activeFile, waiter, stage, writer, returned>>
    BY <1>1 DEF vars, memory, files, world
  <2>2. WaitersFound'
    BY <2>1 DEF LInv, WaitersFound
  <2> QED
    BY <2>1, <2>2, CalmStep
<1>2. ASSUME NEW c \in Calls, Admit(c)
      PROVE  LInv'
  BY <1>2, AdmitKeepsLInv
<1>3. ASSUME NEW r \in Runs, Starter(r) \/ Writing(r) \/ Return(r) \/ Goroutine(r)
      PROVE  LInv'
  BY <1>3, LaunchKeepsLInv, WithdrawKeepsLInv, PutActiveKeepsLInv, GoroutineKeepsLInv DEF Starter, Writing
<1>4. ASSUME NEW w \in Waiters, (\E r \in Runs : Look(w, r)) \/ Waiting(w) \/ GiveUp(w)
      PROVE  LInv'
  BY <1>4, LookKeepsLInv, WaitingKeepsLInv
<1>5. CASE Close \/ Restart
  BY <1>5, CloseKeepsLInv, RestartKeepsLInv
<1> QED
  BY <1>1, <1>2, <1>3, <1>4, <1>5 DEF Next

\* If nobody cancels a call of which another one has the same tool and arguments, an effect
\* that a host left interrupted is launched by no later one ("interrupted effects must be
\* reconciled, never blindly repeated": start and the file of the fingerprint).
THEOREM RepeatCorrectness == CancelledAlone => (Spec => []InterruptedNotRepeated)
<1> SUFFICES ASSUME CancelledAlone PROVE Spec => []InterruptedNotRepeated
  OBVIOUS
<1>1. Init => LInv
  BY InitLInv
<1>2. IInv /\ LInv /\ [Next]_vars => LInv'
  BY NextKeepsLInv
<1>3. IInv /\ LInv => InterruptedNotRepeated
  <2> SUFFICES ASSUME IInv, LInv, NEW q \in launched, NEW r \in launched,
                      q < r, FpOf(q) = FpOf(r), q \notin returned
               PROVE  FALSE
    BY DEF InterruptedNotRepeated
  <2>1. TypeOK /\ Issued /\ LaunchedFrom /\ PendingIsLast
    BY DEF IInv, LInv
  <2>2. r \in Runs /\ r \in Nat /\ r # 0 /\ q \in Nat /\ issued \in Nat
    BY <2>1, RunNumbers
  <2>3. r \in 1..issued
    BY <2>1, <2>2 DEF LaunchedFrom, Issued
  <2>4. r <= q
    BY <2>1, <2>3 DEF PendingIsLast, LastOfItsCalls
  <2> QED
    BY <2>2, <2>4
<1> QED
  BY <1>1, <1>2, <1>3, Invariance, PTL DEF Spec
=============================================================================
