------------------------ MODULE DeliveryWorkerProofs -------------------------
(***************************************************************************)
(* Theorems about DeliveryWorker, for any deliveries, workers and periods. *)
(* The types are inductive once it is known that a run that has work has   *)
(* its delivery and a run that returned its outcome, and that taking a row *)
(* out of the line and putting it in anywhere leaves every row in it once. *)
(***************************************************************************)
EXTENDS DeliveryWorker, SequenceTheorems, FiniteSetTheorems, TLAPS

Statuses == {"none", "ready", "leased", "waiting", "done", "cancelled"}
Signals  == {"none", "retry", "answer"}

\* The types of everything but the line of rows.
RowTypes ==
  /\ state \in [Deliveries -> DeliveryState \union {"absent"}]
  /\ status \in [Deliveries -> Statuses]
  /\ signal \in [Deliveries -> Signals]
  /\ holder \in [Deliveries -> Workers \union {Nobody}]
  /\ left \in [Deliveries -> 0..LeaseTicks]
  /\ delay \in [Deliveries -> 0..RetryTicks]
RunTypes ==
  /\ pc \in [Workers -> {"idle", "claimed", "executing", "returned", "halted"}]
  /\ job \in [Workers -> Deliveries \union {Nobody}]
  /\ outcome \in [Workers -> Outcomes \union {Nobody}]
  /\ beat \in [Workers -> 0..BeatTicks]
  /\ lost \in [Workers -> BOOLEAN] /\ stopped \in [Workers -> BOOLEAN]
  /\ faults \in 0..MaxFaults
OnceEach(s) == s \in Seq(Deliveries) /\ \A i, j \in 1..Len(s) : s[i] = s[j] => i = j
LineType == OnceEach(line)

\* A run that has work has its delivery, and one that returned has its outcome.
RunsHaveWork ==
  \A w \in Workers :
    /\ pc[w] \in {"claimed", "executing", "returned"} => job[w] \in Deliveries
    /\ pc[w] = "returned" => outcome[w] \in Outcomes

IInv == RowTypes /\ RunTypes /\ LineType /\ RunsHaveWork

-----------------------------------------------------------------------------
\* The periods are numbers.
LEMMA Periods ==
  /\ LeaseTicks \in Nat /\ BeatTicks \in Nat /\ RetryTicks \in Nat /\ MaxFaults \in Nat
  /\ Nobody \notin Workers /\ Nobody \notin Deliveries
BY TicksAssumption, NobodyAssumption DEF TicksAssumption, NobodyAssumption

\* Two sequences with nothing in common, joined.
LEMMA Joining ==
  ASSUME NEW s, NEW t, OnceEach(s), OnceEach(t),
         \A i \in 1..Len(s), j \in 1..Len(t) : s[i] # t[j]
  PROVE  /\ OnceEach(s \o t)
         /\ \A e : (\A i \in 1..Len(s) : s[i] # e) /\ (\A i \in 1..Len(t) : t[i] # e)
                   => \A i \in 1..Len(s \o t) : (s \o t)[i] # e
<1>1. s \in Seq(Deliveries) /\ t \in Seq(Deliveries) /\ Len(s) \in Nat /\ Len(t) \in Nat
  BY DEF OnceEach
<1>2. /\ s \o t \in Seq(Deliveries) /\ Len(s \o t) = Len(s) + Len(t)
      /\ \A i \in 1..(Len(s) + Len(t)) : (s \o t)[i] = IF i <= Len(s) THEN s[i] ELSE t[i - Len(s)]
  BY <1>1, ConcatProperties
<1>3. ASSUME NEW i \in 1..(Len(s) + Len(t))
      PROVE  \/ i \in 1..Len(s) /\ (s \o t)[i] = s[i]
             \/ i - Len(s) \in 1..Len(t) /\ (s \o t)[i] = t[i - Len(s)] /\ ~(i <= Len(s))
  BY <1>1, <1>2
<1>4. ASSUME NEW i \in 1..(Len(s) + Len(t)), NEW j \in 1..(Len(s) + Len(t)), (s \o t)[i] = (s \o t)[j]
      PROVE  i = j
  <2>1. CASE i \in 1..Len(s) /\ (s \o t)[i] = s[i]
    BY <1>3, <1>4, <2>1 DEF OnceEach
  <2>2. CASE i - Len(s) \in 1..Len(t) /\ (s \o t)[i] = t[i - Len(s)] /\ ~(i <= Len(s))
    <3>1. j - Len(s) \in 1..Len(t) /\ t[i - Len(s)] = t[j - Len(s)]
      BY <1>3, <1>4, <2>2
    <3>2. i - Len(s) = j - Len(s)
      BY <2>2, <3>1 DEF OnceEach
    <3>. QED BY <1>1, <3>2
  <2>. QED BY <1>3, <2>1, <2>2
<1>5. OnceEach(s \o t)
  BY <1>2, <1>4 DEF OnceEach
<1>. QED BY <1>2, <1>3, <1>5

\* A part of a sequence.
LEMMA Part ==
  ASSUME NEW s, OnceEach(s), NEW a \in Int, NEW b \in Int, 1 <= a, b <= Len(s)
  PROVE  /\ OnceEach(SubSeq(s, a, b))
         /\ \A i \in 1..Len(SubSeq(s, a, b)) :
              a + i - 1 \in a..b /\ a + i - 1 \in 1..Len(s) /\ SubSeq(s, a, b)[i] = s[a + i - 1]
<1>1. s \in Seq(Deliveries) /\ Len(s) \in Nat
  BY DEF OnceEach
<1>2. \A i \in a..b : s[i] \in Deliveries
  BY <1>1
<1>3. /\ SubSeq(s, a, b) \in Seq(Deliveries)
      /\ Len(SubSeq(s, a, b)) = IF a <= b THEN b - a + 1 ELSE 0
      /\ \A i \in 1..(b - a + 1) : SubSeq(s, a, b)[i] = s[a + i - 1]
  BY <1>2, SubSeqProperties
<1>4. ASSUME NEW i \in 1..Len(SubSeq(s, a, b))
      PROVE  a + i - 1 \in a..b /\ a + i - 1 \in 1..Len(s) /\ SubSeq(s, a, b)[i] = s[a + i - 1]
  BY <1>1, <1>3
<1>5. ASSUME NEW i \in 1..Len(SubSeq(s, a, b)), NEW j \in 1..Len(SubSeq(s, a, b)),
             SubSeq(s, a, b)[i] = SubSeq(s, a, b)[j]
      PROVE  i = j
  <2>1. a + i - 1 = a + j - 1
    BY <1>4, <1>5 DEF OnceEach
  <2>. QED BY <2>1, <1>3
<1>. QED BY <1>3, <1>4, <1>5 DEF OnceEach

\* Taking a row out of the line leaves the others, each once.
LEMMA Unlisting ==
  ASSUME LineType, NEW d \in Deliveries
  PROVE  OnceEach(Unlisted(d)) /\ \A i \in 1..Len(Unlisted(d)) : Unlisted(d)[i] # d
<1>1. line \in Seq(Deliveries) /\ DOMAIN line = 1..Len(line) /\ Len(line) \in Nat
  BY DEF LineType, OnceEach
<1>2. CASE \A i \in DOMAIN line : line[i] # d
  BY <1>1, <1>2 DEF Unlisted, LineType
<1>3. ASSUME NEW k \in DOMAIN line, line[k] = d
      PROVE  OnceEach(Unlisted(d)) /\ \A i \in 1..Len(Unlisted(d)) : Unlisted(d)[i] # d
  <2>. DEFINE s == SubSeq(line, 1, k - 1)
              t == SubSeq(line, k + 1, Len(line))
  <2>1. k \in 1..Len(line) /\ k \in Int
    BY <1>1
  <2>2. \A i \in 1..Len(line) : i # k => line[i] # d
    BY <1>1, <1>3 DEF LineType, OnceEach
  <2>3. Unlisted(d) = s \o t
    <3>1. (CHOOSE i \in DOMAIN line : line[i] = d) = k
      BY <1>1, <1>3, <2>2
    <3>. QED BY <1>3, <3>1 DEF Unlisted, RemoveAt
  <2>4. OnceEach(s) /\ \A i \in 1..Len(s) : \E a \in 1..Len(line) : a < k /\ s[i] = line[a]
    <3>1. OnceEach(s) /\ \A i \in 1..Len(s) :
            1 + i - 1 \in 1..(k - 1) /\ 1 + i - 1 \in 1..Len(line) /\ s[i] = line[1 + i - 1]
      BY <1>1, <2>1, Part DEF LineType
    <3>. HIDE DEF s
    <3>. QED BY <2>1, <3>1
  <2>5. OnceEach(t) /\ \A i \in 1..Len(t) : \E b \in 1..Len(line) : k < b /\ t[i] = line[b]
    <3>1. OnceEach(t) /\ \A i \in 1..Len(t) :
            k + 1 + i - 1 \in (k + 1)..Len(line) /\ k + 1 + i - 1 \in 1..Len(line) /\ t[i] = line[k + 1 + i - 1]
      BY <1>1, <2>1, Part DEF LineType
    <3>. HIDE DEF t
    <3>. QED BY <2>1, <3>1
  <2>. HIDE DEF s, t
  <2>6. \A a, b \in 1..Len(line) : a < k /\ k < b => line[a] # line[b]
    BY <1>1, <2>1 DEF LineType, OnceEach
  <2>7. \A i \in 1..Len(s), j \in 1..Len(t) : s[i] # t[j]
    BY <2>4, <2>5, <2>6
  <2>8. (\A i \in 1..Len(s) : s[i] # d) /\ (\A i \in 1..Len(t) : t[i] # d)
    BY <2>1, <2>2, <2>4, <2>5
  <2>. QED BY <2>3, <2>4, <2>5, <2>7, <2>8, Joining
<1>. QED BY <1>2, <1>3

\* Putting a row into the line, wherever, leaves every row in it once.
LEMMA Inserting ==
  ASSUME LineType, NEW d \in Deliveries, NEW k \in 1..(Len(Unlisted(d)) + 1)
  PROVE  OnceEach(InsertAt(Unlisted(d), k, d))
<1>. DEFINE rest == Unlisted(d)
            p == k - 1
            s == SubSeq(rest, 1, p)
            t == SubSeq(rest, p + 1, Len(rest))
<1>1. /\ OnceEach(rest) /\ DOMAIN rest = 1..Len(rest) /\ Len(rest) \in Nat
      /\ \A i \in 1..Len(rest) : rest[i] # d
  BY Unlisting DEF OnceEach
<1>2. p \in 0..Len(rest) /\ p + 1 = k
  BY <1>1
<1>3. InsertAt(rest, k, d) = s \o <<d>> \o t
  BY <1>2 DEF InsertAt
<1>. HIDE DEF p
<1>. HIDE DEF rest
<1>4. OnceEach(s) /\ \A i \in 1..Len(s) : 1 + i - 1 \in 1..p /\ 1 + i - 1 \in 1..Len(rest) /\ s[i] = rest[1 + i - 1]
  BY <1>1, <1>2, Part
<1>5. OnceEach(t) /\ \A i \in 1..Len(t) : p + 1 + i - 1 \in (p + 1)..Len(rest) /\ p + 1 + i - 1 \in 1..Len(rest) /\ t[i] = rest[p + 1 + i - 1]
  BY <1>1, <1>2, Part
<1>. HIDE DEF s, t
<1>6. OnceEach(<<d>>) /\ Len(<<d>>) = 1 /\ <<d>>[1] = d
  BY DEF OnceEach
<1>7. \A i \in 1..Len(s), j \in 1..Len(t) : s[i] # t[j]
  BY <1>1, <1>2, <1>4, <1>5 DEF OnceEach
<1>8. (\A i \in 1..Len(s) : s[i] # d) /\ (\A i \in 1..Len(t) : t[i] # d)
  BY <1>1, <1>4, <1>5
<1>9. OnceEach(s \o <<d>>) /\ \A e : (\A i \in 1..Len(s) : s[i] # e) /\ d # e
                                     => \A i \in 1..Len(s \o <<d>>) : (s \o <<d>>)[i] # e
  BY <1>4, <1>6, <1>8, Joining
<1>10. \A i \in 1..Len(s \o <<d>>), j \in 1..Len(t) : (s \o <<d>>)[i] # t[j]
  BY <1>7, <1>8, <1>9
<1>11. OnceEach((s \o <<d>>) \o t)
  BY <1>5, <1>9, <1>10, Joining
<1>. QED BY <1>3, <1>11 DEF rest

\* The place of a row that becomes available is one of the line, or behind it.
LEMMA Places ==
  ASSUME LineType, NEW d \in Deliveries, NEW ticks
  PROVE  Place(d, ticks) \in 1..(Len(Unlisted(d)) + 1)
<1>. DEFINE rest == Unlisted(d)
            sooner == {i \in DOMAIN rest : delay[rest[i]] <= ticks}
            p == Cardinality(sooner)
<1>1. DOMAIN rest = 1..Len(rest) /\ Len(rest) \in Nat
  BY Unlisting DEF OnceEach
<1>2. p \in 0..Len(rest)
  <2>2. IsFiniteSet(1..Len(rest)) /\ Cardinality(1..Len(rest)) = Len(rest)
    <3>1. \A n \in Nat : IsFiniteSet(1..n) /\ Cardinality(1..n) = n
      <4> TAKE n \in Nat
      <4>1. IsFiniteSet(1..n) /\ Cardinality(1..n) = IF 1 > n THEN 0 ELSE n - 1 + 1
        BY FS_Interval
      <4>. QED BY <4>1
    <3>. QED BY <1>1, <3>1
  <2>3. sooner \subseteq 1..Len(rest)
    BY <1>1
  <2>4. IsFiniteSet(sooner) /\ p <= Len(rest)
    BY <2>2, <2>3, FS_Subset
  <2>5. p \in Nat
    BY <2>4, FS_CardinalityType
  <2>. QED BY <1>1, <2>4, <2>5
<1>3. Place(d, ticks) = 1 + p
  BY DEF Place
<1>. HIDE DEF p, rest
<1>4. Place(d, ticks) \in 1..(Len(rest) + 1)
  BY <1>1, <1>2, <1>3
<1>. QED BY <1>4 DEF rest

\* A row that becomes available is in the line once.
LEMMA Enqueuing ==
  ASSUME LineType, NEW d \in Deliveries, NEW ticks
  PROVE  OnceEach(Enqueued(d, ticks))
BY Places, Inserting DEF Enqueued

-----------------------------------------------------------------------------
\* Nothing is admitted at first, and every worker is idle.
LEMMA InitIInv == Init => IInv
<1> SUFFICES ASSUME Init PROVE IInv
  OBVIOUS
<1>1. RowTypes /\ RunTypes
  BY Periods DEF Init, RowTypes, RunTypes, Statuses, Signals, Outcomes
<1>2. LineType
  BY DEF Init, LineType, OnceEach
<1>3. RunsHaveWork
  BY DEF Init, RunsHaveWork
<1>. QED BY <1>1, <1>2, <1>3 DEF IInv

\* A round of Worker.run ends: nothing of the run remains.
LEMMA Ending ==
  ASSUME RunTypes, RunsHaveWork, NEW w \in Workers, Idle(w), faults' \in 0..MaxFaults
  PROVE  RunTypes' /\ RunsHaveWork'
<1>1. RunTypes'
  BY Periods DEF RunTypes, Idle
<1>2. \A v \in Workers : v # w => pc'[v] = pc[v] /\ job'[v] = job[v] /\ outcome'[v] = outcome[v]
  BY DEF RunTypes, Idle
<1>3. pc'[w] \in {"idle", "halted"}
  BY DEF RunTypes, Idle
<1>. QED BY <1>1, <1>2, <1>3 DEF RunsHaveWork

\* A fault uses up one of them.
LEMMA OneFault ==
  ASSUME RunTypes, Fault
  PROVE  faults' \in 0..MaxFaults
BY Periods DEF RunTypes, Fault

-----------------------------------------------------------------------------
\* A delivery is admitted, with a row that is ready or without one, or gets one later.
LEMMA Admitting ==
  ASSUME IInv, NEW d \in Deliveries,
         AdmitRunnable(d) \/ Admit(d) \/ QueueAdmitted(d) \/ AdmitRunnableAgain(d)
  PROVE  IInv'
<1>. USE DEF IInv
<1>1. UNCHANGED <<workerVars, faults>>
  BY DEF AdmitRunnable, Admit, QueueAdmitted, AdmitRunnableAgain, Queue
<1>2. RunTypes' /\ RunsHaveWork'
  BY <1>1 DEF RunTypes, RunsHaveWork, workerVars
<1>3. RowTypes'
  BY DEF AdmitRunnable, Admit, QueueAdmitted, AdmitRunnableAgain, Queue, RowTypes, DeliveryState, Statuses
<1>4. CASE AdmitRunnable(d) \/ QueueAdmitted(d)
  BY <1>2, <1>3, <1>4, Enqueuing DEF AdmitRunnable, QueueAdmitted, LineType
<1>5. CASE Admit(d)
  BY <1>2, <1>3, <1>5 DEF Admit, LineType
<1>6. CASE AdmitRunnableAgain(d)
  <2>1. PICK i \in 1..Place(d, 0) : line' = InsertAt(Unlisted(d), i, d)
    BY <1>6 DEF AdmitRunnableAgain
  <2>2. Place(d, 0) \in 1..(Len(Unlisted(d)) + 1)
    BY Places
  <2>3. Len(Unlisted(d)) \in Nat
    BY Unlisting DEF OnceEach
  <2>4. i \in 1..(Len(Unlisted(d)) + 1)
    BY <2>2, <2>3
  <2>5. LineType'
    BY <2>1, <2>4, Inserting DEF LineType
  <2>. QED BY <1>2, <1>3, <2>5
<1>. QED BY <1>4, <1>5, <1>6

\* A parked delivery is woken: it is queued and its row is ready.
LEMMA Signalling ==
  ASSUME IInv, NEW d \in Deliveries, SignalWaiting(d)
  PROVE  IInv'
<1>. USE DEF IInv
<1>1. UNCHANGED <<workerVars, faults>>
  BY DEF SignalWaiting
<1>2. RunTypes' /\ RunsHaveWork'
  BY <1>1 DEF RunTypes, RunsHaveWork, workerVars
<1>3. RowTypes'
  BY DEF SignalWaiting, RowTypes, DeliveryState, Statuses, Signals
<1>4. LineType'
  BY Enqueuing DEF SignalWaiting, LineType
<1>. QED BY <1>2, <1>3, <1>4

\* A delivery is cancelled: no worker holds its row any more, and it is not in the line.
LEMMA Cancelling ==
  ASSUME IInv, NEW d \in Deliveries, Cancel(d)
  PROVE  IInv'
<1>. USE Periods DEF IInv
<1>1. UNCHANGED <<workerVars, faults>>
  BY DEF Cancel
<1>2. RunTypes' /\ RunsHaveWork'
  BY <1>1 DEF RunTypes, RunsHaveWork, workerVars
<1>3. RowTypes'
  BY DEF Cancel, RowTypes, DeliveryState, Statuses, Signals
<1>4. LineType'
  BY Unlisting DEF Cancel, LineType
<1>. QED BY <1>2, <1>3, <1>4

\* A delivery is claimed: it runs, its row is leased, and the worker has its delivery.
LEMMA Claiming ==
  ASSUME IInv, NEW w \in Workers, Claim(w)
  PROVE  IInv'
<1>. USE Periods DEF IInv
<1>1. PICK d \in Deliveries :
        /\ state' = [state EXCEPT ![d] = "running"]
        /\ status' = [status EXCEPT ![d] = "leased"]
        /\ signal' = [signal EXCEPT ![d] = "none"]
        /\ holder' = [holder EXCEPT ![d] = w]
        /\ left' = [left EXCEPT ![d] = LeaseTicks]
        /\ pc' = [pc EXCEPT ![w] = "claimed"]
        /\ job' = [job EXCEPT ![w] = d]
        /\ UNCHANGED <<delay, line, outcome, beat, lost, stopped, faults>>
  BY DEF Claim
<1>2. RunTypes'
  BY <1>1 DEF RunTypes
<1>3. RunsHaveWork'
  <2>1. pc'[w] = "claimed" /\ job'[w] = d
    BY <1>1 DEF RunTypes
  <2>2. \A v \in Workers : v # w => pc'[v] = pc[v] /\ job'[v] = job[v] /\ outcome'[v] = outcome[v]
    BY <1>1 DEF RunTypes
  <2>. QED BY <2>1, <2>2 DEF RunsHaveWork
<1>4. RowTypes'
  BY <1>1 DEF RowTypes, DeliveryState, Statuses, Signals
<1>5. LineType'
  BY <1>1 DEF LineType
<1>. QED BY <1>2, <1>3, <1>4, <1>5

\* What an outcome writes are columns of the tables: validateOutcome's table.
LEMMA OutcomeTypes ==
  ASSUME NEW o \in Outcomes, NEW next \in NextState[o]
  PROVE  next \in DeliveryState /\ NextStatus[o] \in Statuses /\ NextSignal[o] \in Signals
<1>1. CASE o \in {"succeeded", "failed", "cancelled"}
  <2>1. next = o /\ NextSignal[o] = "none" /\ NextStatus[o] \in {"cancelled", "done"}
    BY <1>1 DEF NextState, NextSignal, NextStatus, Outcomes
  <2>. QED
    BY <1>1, <2>1 DEF DeliveryState, DeliveryTerminal, Statuses, Signals
<1>2. CASE o = "retry"
  <2>1. next = "waiting_retry" /\ NextSignal[o] = "retry" /\ NextStatus[o] = "waiting"
    BY <1>2 DEF NextState, NextSignal, NextStatus, Outcomes
  <2>. QED BY <2>1 DEF DeliveryState, Statuses, Signals
<1>3. CASE o = "waiting"
  <2>1. next \in Parks /\ NextSignal[o] = "answer" /\ NextStatus[o] = "waiting"
    BY <1>3 DEF NextState, NextSignal, NextStatus, Outcomes
  <2>2. next \in ParkStates
    BY <2>1, StatesAssumption DEF StatesAssumption
  <2>. QED BY <2>1, <2>2 DEF DeliveryState, Statuses, Signals
<1>. QED BY <1>1, <1>2, <1>3 DEF Outcomes

\* The lease is given up with an outcome, or the store refuses it and nothing changes.
LEMMA Finalizing ==
  ASSUME IInv, NEW w \in Workers, Finalize(w)
  PROVE  IInv'
<1>. USE Periods DEF IInv
<1>. DEFINE d == job[w]
            o == outcome[w]
<1>1. d \in Deliveries /\ o \in Outcomes
  BY DEF Finalize, RunsHaveWork
<1>2. RunTypes' /\ RunsHaveWork'
  BY Ending DEF Finalize, RunTypes
<1>3. PICK next \in NextState[o] :
        \/ /\ state' = [state EXCEPT ![d] = next]
           /\ status' = [status EXCEPT ![d] = NextStatus[o]]
           /\ signal' = [signal EXCEPT ![d] = NextSignal[o]]
           /\ holder' = [holder EXCEPT ![d] = Nobody]
           /\ left' = [left EXCEPT ![d] = 0]
           /\ delay' = [delay EXCEPT ![d] = IF o = "retry" THEN RetryTicks ELSE 0]
           /\ line' = IF o = "retry" THEN Enqueued(d, RetryTicks) ELSE Unlisted(d)
        \/ UNCHANGED queueVars
  BY DEF Finalize
<1>. HIDE DEF d, o
<1>4. CASE UNCHANGED queueVars
  BY <1>2, <1>4 DEF queueVars, RowTypes, LineType
<1>5. CASE /\ state' = [state EXCEPT ![d] = next]
           /\ status' = [status EXCEPT ![d] = NextStatus[o]]
           /\ signal' = [signal EXCEPT ![d] = NextSignal[o]]
           /\ holder' = [holder EXCEPT ![d] = Nobody]
           /\ left' = [left EXCEPT ![d] = 0]
           /\ delay' = [delay EXCEPT ![d] = IF o = "retry" THEN RetryTicks ELSE 0]
           /\ line' = IF o = "retry" THEN Enqueued(d, RetryTicks) ELSE Unlisted(d)
  <2>1. next \in DeliveryState /\ NextStatus[o] \in Statuses /\ NextSignal[o] \in Signals
    BY <1>1, OutcomeTypes
  <2>2. RowTypes'
    BY <1>1, <1>5, <2>1 DEF RowTypes
  <2>3. LineType'
    BY <1>1, <1>5, Enqueuing, Unlisting DEF LineType
  <2>. QED BY <1>2, <2>2, <2>3
<1>. QED BY <1>3, <1>4, <1>5

\* A step of a run that leaves the queue alone, or writes the lease's expiry only.
LEMMA Running ==
  ASSUME IInv, UNCHANGED <<state, status, signal, delay, line>>,
         holder' \in [Deliveries -> Workers \union {Nobody}],
         left' \in [Deliveries -> 0..LeaseTicks],
         RunTypes', RunsHaveWork'
  PROVE  IInv'
BY DEF IInv, RowTypes, LineType

\* Every step keeps the inductive invariant.
LEMMA NextIInv ==
  ASSUME IInv, [Next]_vars
  PROVE  IInv'
<1>. USE Periods DEF IInv
<1>0. RunTypes /\ RunsHaveWork /\ holder \in [Deliveries -> Workers \union {Nobody}]
      /\ left \in [Deliveries -> 0..LeaseTicks] /\ delay \in [Deliveries -> 0..RetryTicks]
  BY DEF RowTypes
<1>1. CASE UNCHANGED vars
  BY <1>1 DEF vars, queueVars, workerVars, RowTypes, RunTypes, LineType, RunsHaveWork
<1>2. ASSUME NEW d \in Deliveries,
             \/ AdmitRunnable(d) \/ Admit(d) \/ QueueAdmitted(d) \/ AdmitRunnableAgain(d)
             \/ SignalWaiting(d) \/ Cancel(d)
      PROVE  IInv'
  BY <1>2, Admitting, Signalling, Cancelling
<1>3. ASSUME NEW w \in Workers, Claim(w) \/ Finalize(w)
      PROVE  IInv'
  BY <1>3, Claiming, Finalizing
<1>4. ASSUME NEW w \in Workers, Start(w)
      PROVE  IInv'
  <2>1. RunTypes'
    BY <1>0, <1>4 DEF Start, RunTypes
  <2>2. RunsHaveWork'
    BY <1>0, <1>4 DEF Start, RunTypes, RunsHaveWork
  <2>. QED BY <1>0, <1>4, <2>1, <2>2, Running DEF Start, queueVars
<1>5. ASSUME NEW w \in Workers, Heartbeat(w)
      PROVE  IInv'
  <2>0. beat' \in [Workers -> 0..BeatTicks] /\ lost' \in [Workers -> BOOLEAN]
    <3>1. BeatTicks \in 0..BeatTicks
      OBVIOUS
    <3>2. CASE Holds(w)
      BY <1>0, <1>5, <3>1, <3>2 DEF Heartbeat, RunTypes
    <3>3. CASE ~Holds(w)
      BY <1>0, <1>5, <3>3 DEF Heartbeat, RunTypes
    <3>. QED BY <3>2, <3>3
  <2>1. RunTypes'
    BY <1>0, <1>5, <2>0 DEF Heartbeat, RunTypes
  <2>2. RunsHaveWork'
    BY <1>0, <1>5 DEF Heartbeat, RunsHaveWork
  <2>3. left' \in [Deliveries -> 0..LeaseTicks]
    BY <1>0, <1>5 DEF Heartbeat, RunsHaveWork
  <2>. QED BY <1>0, <1>5, <2>1, <2>2, <2>3, Running DEF Heartbeat
<1>6. ASSUME NEW w \in Workers, Return(w)
      PROVE  IInv'
  <2>1. RunTypes'
    BY <1>0, <1>6 DEF Return, RunTypes
  <2>2. RunsHaveWork'
    BY <1>0, <1>6 DEF Return, RunTypes, RunsHaveWork
  <2>. QED BY <1>0, <1>6, <2>1, <2>2, Running DEF Return, queueVars
<1>7. ASSUME NEW w \in Workers, Abandon(w) \/ StoreFails(w)
      PROVE  IInv'
  <2>1. Idle(w) /\ UNCHANGED queueVars
    BY <1>7 DEF Abandon, StoreFails
  <2>2. faults' \in 0..MaxFaults
    BY <1>0, <1>7, OneFault DEF Abandon, StoreFails, RunTypes
  <2>. QED BY <1>0, <2>1, <2>2, Ending, Running DEF queueVars
<1>8. ASSUME NEW w \in Workers, HeartbeatFails(w)
      PROVE  IInv'
  <2>1. RunTypes'
    BY <1>0, <1>8, OneFault DEF HeartbeatFails, RunTypes
  <2>2. RunsHaveWork'
    BY <1>0, <1>8 DEF HeartbeatFails, RunsHaveWork
  <2>. QED BY <1>0, <1>8, <2>1, <2>2, Running DEF HeartbeatFails, queueVars
<1>9. ASSUME NEW w \in Workers, Crash(w)
      PROVE  IInv'
  <2>1. RunTypes'
    BY <1>0, <1>9, OneFault DEF Crash, RunTypes
  <2>2. RunsHaveWork'
    BY <1>0, <1>9 DEF Crash, RunTypes, RunsHaveWork
  <2>3. holder' \in [Deliveries -> Workers \union {Nobody}]
    BY <1>0, <1>9 DEF Crash
  <2>. QED BY <1>0, <1>9, <2>1, <2>2, <2>3, Running DEF Crash
<1>10. ASSUME NEW w \in Workers, Stop(w) \/ Restart(w)
       PROVE  IInv'
  <2>1. faults' \in 0..MaxFaults
    BY <1>0, <1>10, OneFault DEF Stop, Restart, RunTypes
  <2>2. RunTypes'
    BY <1>0, <1>10, <2>1 DEF Stop, Restart, RunTypes
  <2>3. RunsHaveWork'
    BY <1>0, <1>10 DEF Stop, Restart, RunTypes, RunsHaveWork
  <2>. QED BY <1>0, <1>10, <2>2, <2>3, Running DEF Stop, Restart, queueVars
<1>11. CASE Tick \/ Pause
  <2>1. \A t \in Nat : Down(t) \in 0..t
    BY DEF Down
  <2>2. faults' \in 0..MaxFaults
    BY <1>0, <1>11, OneFault DEF Tick, Pause, RunTypes
  <2>3. Passes
    BY <1>11 DEF Tick, Pause
  <2>4. left' \in [Deliveries -> 0..LeaseTicks] /\ delay' \in [Deliveries -> 0..RetryTicks]
    BY <1>0, <2>1, <2>3 DEF Passes
  <2>5. beat' \in [Workers -> 0..BeatTicks]
    BY <1>0, <2>1, <2>3 DEF Passes, RunTypes
  <2>6. UNCHANGED <<state, status, signal, holder, line, pc, job, outcome, lost, stopped>>
    BY <2>3 DEF Passes
  <2>. QED BY <1>0, <2>2, <2>4, <2>5, <2>6 DEF RowTypes, RunTypes, LineType, RunsHaveWork
<1>. QED
  BY <1>1, <1>2, <1>3, <1>4, <1>5, <1>6, <1>7, <1>8, <1>9, <1>10, <1>11 DEF Next

\* The inductive invariant holds in every reachable state.
THEOREM Invariance == Spec => []IInv
<1>1. Init => IInv
  BY InitIInv
<1>2. IInv /\ [Next]_vars => IInv'
  BY NextIInv
<1>. QED BY <1>1, <1>2, PTL DEF Spec

\* The workers and the queue keep their types, and a delivery has one place in the line.
THEOREM TypeCorrectness == Spec => []TypeOK
<1>1. IInv => TypeOK
  <2> HAVE IInv
  <2>1. line \in Seq(Deliveries) /\ \A i, j \in 1..Len(line) : line[i] = line[j] => i = j
    BY DEF IInv, LineType, OnceEach
  <2>2. DOMAIN line = 1..Len(line) /\ \A i \in 1..Len(line) : line[i] \in Deliveries
    BY <2>1
  <2>3. IsInjective(line) /\ \A i \in DOMAIN line : line[i] \in Deliveries
    BY <2>1, <2>2 DEF IsInjective
  <2>. QED BY <2>3 DEF IInv, RowTypes, RunTypes, TypeOK, Statuses, Signals
<1>. QED BY <1>1, Invariance, PTL
=============================================================================
