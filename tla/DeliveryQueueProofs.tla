------------------------ MODULE DeliveryQueueProofs ------------------------
(***************************************************************************)
(* Type correctness and fencing of the delivery queue, for any deliveries, *)
(* owners, durations and bounds.  The clock plays no part in the argument: *)
(* what fences a lost lease is the epoch, not the expiry.                  *)
(***************************************************************************)
EXTENDS DeliveryQueue, SequenceTheorems, TLAPS

-----------------------------------------------------------------------------
(* The inductive invariant, one delivery at a time *)

\* What the queue row r of a delivery and the list s of its attempts agree on.
Agree(r, s) ==
  /\ \A i \in DOMAIN s : s[i].outcome = "open" => i = Len(s)
  /\ r.status = "leased" =>
       /\ s # <<>>
       /\ s[Len(s)].outcome = "open"
       /\ s[Len(s)].owner = r.owner
       /\ s[Len(s)].epoch = r.epoch
  /\ \A i, j \in DOMAIN s : i < j => s[i].epoch < s[j].epoch
  /\ \A i \in DOMAIN s : s[i].epoch <= r.epoch
  /\ r.status = "none" => s = <<>>
  /\ r.status = "cancelled" => \A i \in DOMAIN s : s[i].outcome # "open"

RowsAgree == \A d \in Deliveries : Agree(row[d], attempts[d])

\* Nothing is queued before it is admitted.
AbsentIsUnqueued == \A d \in Deliveries : state[d] = "absent" => row[d].status = "none"

IInv == TypeOK /\ RowsAgree /\ AbsentIsUnqueued

-----------------------------------------------------------------------------
(* Lemmas about the operators *)

\* A clock reading is a natural number.
LEMMA ReadingsAreNat == clock \in Nat => Readings \subseteq Nat
  BY DEF Readings

\* A row that is inserted, leased or given up is a queue row.
LEMMA EnsureRowType ==
  ASSUME NEW r \in QueueRow, NEW at \in Nat
  PROVE  EnsureRow(r, at) \in QueueRow
  BY DEF EnsureRow, ReadyRow, QueueRow, RowStatus

LEMMA LeasedRowType ==
  ASSUME NEW r \in QueueRow, NEW o \in Owners, NEW at \in Nat
  PROVE  LeasedRow(r, o, at) \in QueueRow
  <1>1. LeaseDuration \in Nat
    BY TimeAssumption DEF TimeAssumption
  <1>2. r.epoch + 1 \in Nat /\ at + LeaseDuration \in Nat /\ r.available \in Nat
    BY <1>1 DEF QueueRow
  <1> QED
    BY <1>2 DEF LeasedRow, QueueRow, RowStatus

LEMMA UnleasedType ==
  ASSUME NEW r \in QueueRow, NEW at \in Nat,
         NEW st \in RowStatus, NEW sig \in Signals \union {"none", "retry", "cancel"}
  PROVE  /\ Unleased(r, st, at, sig) \in QueueRow
         /\ Unleased(r, st, at, sig).status = st
         /\ Unleased(r, st, at, sig).epoch = r.epoch
  BY DEF Unleased, QueueRow

\* What the attempts of a delivery are.
LEMMA AttemptTypes ==
  ASSUME NEW s \in Seq(Attempt)
  PROVE  /\ DOMAIN s = 1..Len(s)
         /\ Len(s) \in Nat
         /\ \A i \in DOMAIN s : s[i] \in Attempt /\ s[i].epoch \in Nat
  <1>1. DOMAIN s = 1..Len(s) /\ Len(s) \in Nat
    BY LenProperties
  <1>2. \A i \in DOMAIN s : s[i] \in Attempt
    BY <1>1, ElementOfSeq
  <1>3. \A a \in Attempt : a.epoch \in Nat
    BY DEF Attempt
  <1> QED
    BY <1>1, <1>2, <1>3

\* Closing the unfinished attempts keeps their number, owners, epochs and results.
LEMMA CloseOpenKeeps ==
  ASSUME NEW s \in Seq(Attempt), NEW o \in Outcomes \ {"open"}
  PROVE  /\ CloseOpen(s, o) \in Seq(Attempt)
         /\ Len(CloseOpen(s, o)) = Len(s)
         /\ DOMAIN CloseOpen(s, o) = DOMAIN s
         /\ \A i \in DOMAIN s :
              /\ CloseOpen(s, o)[i].outcome # "open"
              /\ CloseOpen(s, o)[i].epoch = s[i].epoch
              /\ CloseOpen(s, o)[i].owner = s[i].owner
              /\ CloseOpen(s, o)[i].work = s[i].work
  <1> DEFINE c == CloseOpen(s, o)
  <1>1. DOMAIN s = 1..Len(s) /\ Len(s) \in Nat
    BY LenProperties
  <1>2. \A i \in 1..Len(s) : s[i] \in Attempt
    BY ElementOfSeq
  <1>3. c = [i \in 1..Len(s) |->
               IF s[i].outcome = "open" THEN [s[i] EXCEPT !.outcome = o] ELSE s[i]]
    BY <1>1 DEF CloseOpen
  <1>4. \A i \in 1..Len(s) : c[i] \in Attempt
    BY <1>2, <1>3 DEF Attempt
  <1>5. c \in [1..Len(s) -> Attempt]
    BY <1>3, <1>4
  <1>6. c \in Seq(Attempt)
    BY <1>1, <1>5, SeqDef
  <1>7. Len(c) = Len(s) /\ DOMAIN c = DOMAIN s
    BY <1>1, <1>3, <1>6, LenProperties
  <1>8. \A i \in DOMAIN s :
          /\ c[i].outcome # "open" /\ c[i].epoch = s[i].epoch
          /\ c[i].owner = s[i].owner /\ c[i].work = s[i].work
    BY <1>1, <1>2, <1>3 DEF Attempt, Outcomes, Work
  <1> QED
    BY <1>6, <1>7, <1>8

\* The attempts after a claim: the old ones closed, one new open one.
LEMMA ClaimedAttempts ==
  ASSUME NEW s \in Seq(Attempt), NEW rec \in Attempt
  PROVE  LET t == Append(CloseOpen(s, "lease_expired"), rec)
         IN  /\ t \in Seq(Attempt)
             /\ Len(t) = Len(s) + 1
             /\ DOMAIN t = 1..(Len(s) + 1)
             /\ DOMAIN s = 1..Len(s)
             /\ Len(s) \in Nat
             /\ t[Len(s) + 1] = rec
             /\ \A i \in 1..Len(s) : t[i] = CloseOpen(s, "lease_expired")[i]
  <1>1. CloseOpen(s, "lease_expired") \in Seq(Attempt)
        /\ Len(CloseOpen(s, "lease_expired")) = Len(s)
    BY CloseOpenKeeps DEF Outcomes
  <1>2. DOMAIN s = 1..Len(s) /\ Len(s) \in Nat
    BY LenProperties
  <1> QED
    BY <1>1, <1>2

\* Rewriting one attempt of a delivery.
LEMMA RewrittenAttempt ==
  ASSUME NEW s \in Seq(Attempt), NEW n \in DOMAIN s, NEW rec \in Attempt
  PROVE  LET t == [s EXCEPT ![n] = rec]
         IN  /\ t \in Seq(Attempt)
             /\ Len(t) = Len(s)
             /\ DOMAIN t = DOMAIN s
             /\ DOMAIN s = 1..Len(s)
             /\ Len(s) \in Nat
             /\ s[n] \in Attempt
             /\ t[n] = rec
             /\ \A i \in DOMAIN s : i # n => t[i] = s[i]
  <1>1. DOMAIN s = 1..Len(s) /\ Len(s) \in Nat
    BY LenProperties
  <1> QED
    BY <1>1, ExceptSeq, ElementOfSeq

-----------------------------------------------------------------------------
(* What each kind of write does to Agree *)

\* The attempt whose epoch a leased row records is the latest one: of two attempts
\* with increasing epochs only one can have the row's.
LEMMA HolderIsLast ==
  ASSUME NEW r \in QueueRow, NEW s \in Seq(Attempt), Agree(r, s), r.status = "leased",
         NEW n \in DOMAIN s, s[n].epoch = r.epoch
  PROVE  n = Len(s)
  <1>1. DOMAIN s = 1..Len(s) /\ Len(s) \in Nat
    BY LenProperties
  <1>2. s[Len(s)].epoch = r.epoch /\ Len(s) \in DOMAIN s
    BY <1>1, EmptySeq DEF Agree
  <1>3. s[n].epoch \in Nat
    BY AttemptTypes
  <1>4. n < Len(s) => s[n].epoch < s[Len(s)].epoch
    BY <1>2 DEF Agree
  <1> QED
    BY <1>1, <1>2, <1>3, <1>4

\* A row nobody holds agrees with the attempts it had, if its epoch did not fall.
LEMMA IdleAgrees ==
  ASSUME NEW r \in QueueRow, NEW s \in Seq(Attempt), Agree(r, s),
         NEW q \in QueueRow, q.status \in {"ready", "waiting", "done"}, q.epoch = r.epoch
  PROVE  Agree(q, s)
  BY DEF Agree

LEMMA EnsuredAgrees ==
  ASSUME NEW r \in QueueRow, NEW s \in Seq(Attempt), Agree(r, s), NEW at \in Nat
  PROVE  Agree(EnsureRow(r, at), s)
  <1>1. CASE r.status = "none"
    <2>1. s = <<>> /\ EnsureRow(r, at) = ReadyRow(at)
      BY <1>1 DEF Agree, EnsureRow
    <2> QED
      BY <2>1 DEF Agree, ReadyRow
  <1>2. CASE r.status # "none"
    BY <1>2 DEF EnsureRow
  <1> QED
    BY <1>1, <1>2

\* A claim: everything before it is closed and has a smaller epoch.
LEMMA ClaimAgrees ==
  ASSUME NEW r \in QueueRow, NEW s \in Seq(Attempt), Agree(r, s),
         NEW o \in Owners, NEW at \in Nat,
         NEW rec \in Attempt, rec.owner = o, rec.epoch = r.epoch + 1, rec.outcome = "open"
  PROVE  Agree(LeasedRow(r, o, at), Append(CloseOpen(s, "lease_expired"), rec))
  <1> DEFINE c == CloseOpen(s, "lease_expired")
             t == Append(c, rec)
             q == LeasedRow(r, o, at)
  <1>1. /\ t \in Seq(Attempt) /\ Len(t) = Len(s) + 1 /\ DOMAIN t = 1..(Len(s) + 1)
        /\ DOMAIN s = 1..Len(s) /\ Len(s) \in Nat /\ t[Len(s) + 1] = rec
        /\ \A i \in 1..Len(s) : t[i] = c[i]
    BY ClaimedAttempts
  <1>2. \A i \in 1..Len(s) : t[i].outcome # "open" /\ t[i].epoch = s[i].epoch
    BY <1>1, CloseOpenKeeps DEF Outcomes
  <1>3. q.status = "leased" /\ q.owner = o /\ q.epoch = r.epoch + 1 /\ r.epoch \in Nat
    BY DEF LeasedRow, QueueRow
  <1>4. \A i \in 1..Len(s) : s[i].epoch \in Nat /\ s[i].epoch <= r.epoch
    BY <1>1, AttemptTypes DEF Agree
  <1> HIDE DEF t, c, q
  <1>5. \A i \in DOMAIN t : t[i].outcome = "open" => i = Len(t)
    BY <1>1, <1>2
  <1>6. t # <<>> /\ t[Len(t)].outcome = "open" /\ t[Len(t)].owner = q.owner
        /\ t[Len(t)].epoch = q.epoch
    BY <1>1, <1>3
  <1>7. ASSUME NEW i \in DOMAIN t, NEW j \in DOMAIN t, i < j
        PROVE  t[i].epoch < t[j].epoch
    <2>1. i \in 1..Len(s)
      BY <1>1, <1>7
    <2>2. CASE j = Len(s) + 1
      BY <1>1, <1>2, <1>4, <2>1, <2>2, <1>3
    <2>3. CASE j # Len(s) + 1
      <3>1. j \in 1..Len(s)
        BY <1>1, <2>3
      <3>2. s[i].epoch < s[j].epoch
        BY <1>1, <1>7, <2>1, <3>1 DEF Agree
      <3> QED
        BY <1>2, <2>1, <3>1, <3>2
    <2> QED
      BY <2>2, <2>3
  <1>8. \A i \in DOMAIN t : t[i].epoch <= q.epoch
    <2> SUFFICES ASSUME NEW i \in DOMAIN t PROVE t[i].epoch <= q.epoch
      OBVIOUS
    <2>1. CASE i = Len(s) + 1
      BY <1>1, <1>3, <2>1
    <2>2. CASE i # Len(s) + 1
      <3>1. i \in 1..Len(s)
        BY <1>1, <2>2
      <3> QED
        BY <1>2, <1>3, <1>4, <3>1
    <2> QED
      BY <2>1, <2>2
  <1>9. Agree(q, t)
    BY <1>3, <1>5, <1>6, <1>7, <1>8 DEF Agree
  <1> QED
    BY <1>9 DEF q, t, c

\* A cancellation closes every attempt and takes the next epoch.
LEMMA CancelAgrees ==
  ASSUME NEW r \in QueueRow, NEW s \in Seq(Attempt), Agree(r, s),
         NEW q \in QueueRow, q.status = "cancelled", q.epoch = r.epoch + 1
  PROVE  Agree(q, CloseOpen(s, "cancelled"))
  <1> DEFINE c == CloseOpen(s, "cancelled")
  <1>1. /\ Len(c) = Len(s) /\ DOMAIN c = DOMAIN s
        /\ \A i \in DOMAIN s : c[i].outcome # "open" /\ c[i].epoch = s[i].epoch
    BY CloseOpenKeeps DEF Outcomes
  <1>2. \A i \in DOMAIN s : s[i].epoch \in Nat /\ s[i].epoch <= r.epoch
    BY AttemptTypes DEF Agree
  <1>3. r.epoch \in Nat
    BY DEF QueueRow
  <1> HIDE DEF c
  <1>4. \A i \in DOMAIN c : c[i].epoch <= q.epoch
    BY <1>1, <1>2, <1>3
  <1>5. \A i, j \in DOMAIN c : i < j => c[i].epoch < c[j].epoch
    BY <1>1 DEF Agree
  <1>6. Agree(q, c)
    BY <1>1, <1>4, <1>5 DEF Agree
  <1> QED
    BY <1>6 DEF c

\* The holder writes a result or a checkpoint into its own attempt.
LEMMA WriteAgrees ==
  ASSUME NEW r \in QueueRow, NEW s \in Seq(Attempt), Agree(r, s),
         NEW n \in DOMAIN s, NEW rec \in Attempt,
         rec.owner = s[n].owner, rec.epoch = s[n].epoch, rec.outcome = s[n].outcome
  PROVE  Agree(r, [s EXCEPT ![n] = rec])
  <1> DEFINE t == [s EXCEPT ![n] = rec]
  <1>1. /\ t \in Seq(Attempt) /\ Len(t) = Len(s) /\ DOMAIN t = DOMAIN s
        /\ DOMAIN s = 1..Len(s) /\ Len(s) \in Nat /\ t[n] = rec
        /\ \A i \in DOMAIN s : i # n => t[i] = s[i]
    BY RewrittenAttempt
  <1>2. \A i \in DOMAIN s : /\ t[i].outcome = s[i].outcome /\ t[i].epoch = s[i].epoch
                            /\ t[i].owner = s[i].owner
    BY <1>1
  <1>3. s # <<>> /\ t # <<>> /\ Len(s) \in DOMAIN s
    BY <1>1
  <1> HIDE DEF t
  <1>4. Agree(r, t)
    BY <1>1, <1>2, <1>3 DEF Agree
  <1> QED
    BY <1>4 DEF t

\* The holder, whose attempt is the latest, ends it and gives the row up.
LEMMA FinishAgrees ==
  ASSUME NEW r \in QueueRow, NEW s \in Seq(Attempt), Agree(r, s),
         NEW n \in DOMAIN s, n = Len(s),
         NEW rec \in Attempt, rec.epoch = s[n].epoch, rec.outcome # "open",
         NEW q \in QueueRow, q.status \in {"done", "waiting", "cancelled"}, q.epoch = r.epoch
  PROVE  Agree(q, [s EXCEPT ![n] = rec])
  <1> DEFINE t == [s EXCEPT ![n] = rec]
  <1>1. /\ t \in Seq(Attempt) /\ Len(t) = Len(s) /\ DOMAIN t = DOMAIN s
        /\ DOMAIN s = 1..Len(s) /\ Len(s) \in Nat /\ t[n] = rec
        /\ \A i \in DOMAIN s : i # n => t[i] = s[i]
    BY RewrittenAttempt
  <1>2. \A i \in DOMAIN s : t[i].epoch = s[i].epoch
    BY <1>1
  <1>3. \A i \in DOMAIN s : t[i].outcome # "open"
    BY <1>1 DEF Agree
  <1> HIDE DEF t
  <1>4. Agree(q, t)
    BY <1>1, <1>2, <1>3 DEF Agree
  <1> QED
    BY <1>4 DEF t

-----------------------------------------------------------------------------
(* The invariant is inductive *)

LEMMA InitIInv == Init => IInv
  <1> SUFFICES ASSUME Init PROVE IInv
    OBVIOUS
  <1>1. NoRow \in QueueRow
    BY DEF NoRow, QueueRow, RowStatus
  <1>2. <<>> \in Seq(Attempt)
    BY EmptySeq
  <1>3. TypeOK
    BY <1>1, <1>2 DEF Init, TypeOK
  <1>4. Agree(NoRow, <<>>)
    BY DEF Agree, NoRow
  <1>5. RowsAgree
    BY <1>4 DEF Init, RowsAgree
  <1>6. AbsentIsUnqueued
    BY DEF Init, AbsentIsUnqueued, NoRow
  <1> QED
    BY <1>3, <1>5, <1>6 DEF IInv

\* A step that moves one admitted delivery keeps the invariant if what it writes
\* is well typed and agrees.
LEMMA StepOfOne ==
  ASSUME IInv, NEW d \in Deliveries,
         NEW st \in DeliveryState, NEW r \in QueueRow, NEW s \in Seq(Attempt), Agree(r, s),
         state' = [state EXCEPT ![d] = st],
         row' = [row EXCEPT ![d] = r],
         attempts' = [attempts EXCEPT ![d] = s],
         clock' \in Nat,
         created' \in [Deliveries -> Nat],
         moved' \in [Deliveries -> SUBSET DeliveryState]
  PROVE  IInv'
  <1>1. st # "absent"
    BY DEF DeliveryState, ParkStates, DeliveryTerminal
  <1>2. TypeOK'
    BY DEF IInv, TypeOK
  <1>3. RowsAgree'
    <2> SUFFICES ASSUME NEW e \in Deliveries PROVE Agree(row'[e], attempts'[e])
      BY DEF RowsAgree
    <2>1. CASE e = d
      BY <2>1 DEF IInv, TypeOK
    <2>2. CASE e # d
      <3>1. row'[e] = row[e] /\ attempts'[e] = attempts[e]
        BY <2>2 DEF IInv, TypeOK
      <3> QED
        BY <3>1 DEF IInv, RowsAgree
    <2> QED
      BY <2>1, <2>2
  <1>4. AbsentIsUnqueued'
    BY <1>1 DEF IInv, TypeOK, AbsentIsUnqueued
  <1> QED
    BY <1>2, <1>3, <1>4 DEF IInv

\* What the invariant says of one delivery.
LEMMA OneDelivery ==
  ASSUME IInv, NEW d \in Deliveries
  PROVE  /\ state[d] \in DeliveryState \union {"absent"}
         /\ row[d] \in QueueRow
         /\ row[d].epoch \in Nat
         /\ attempts[d] \in Seq(Attempt)
         /\ Agree(row[d], attempts[d])
         /\ row = [row EXCEPT ![d] = row[d]]
         /\ attempts = [attempts EXCEPT ![d] = attempts[d]]
         /\ state = [state EXCEPT ![d] = state[d]]
         /\ clock \in Nat
         /\ created \in [Deliveries -> Nat]
         /\ moved \in [Deliveries -> SUBSET DeliveryState]
  <1>1. \A q \in QueueRow : q.epoch \in Nat
    BY DEF QueueRow
  <1> QED
    BY <1>1 DEF IInv, TypeOK, RowsAgree

\* The state machine only leads to states of the delivery.
LEMMA TransitionTypes ==
  ASSUME IInv, NEW d \in Deliveries, NEW next, state[d] # "absent",
         TransitionUnlessIn(d, next) \/ TransitionTo(d, next)
  PROVE  /\ next \in DeliveryState
         /\ state' = [state EXCEPT ![d] = next]
  <1>1. state[d] \in DeliveryState /\ state = [state EXCEPT ![d] = state[d]]
    BY OneDelivery
  <1>2. \A from \in DeliveryState : Successors[from] \subseteq DeliveryState
    BY DEF Successors, DeliveryState, ParkStates, DeliveryTerminal
  <1> QED
    BY <1>1, <1>2 DEF TransitionUnlessIn, TransitionTo, ValidTransition

\* A delivery with a lease or an attempt has been admitted.
LEMMA QueuedIsAdmitted ==
  ASSUME IInv, NEW d \in Deliveries, row[d].status # "none"
  PROVE  state[d] # "absent"
  BY DEF IInv, AbsentIsUnqueued

LEMMA AdmissionKeepsIInv ==
  ASSUME IInv, NEW d \in Deliveries,
         Admit(d) \/ AdmitRunnable(d) \/ AdmitRunnableAgain(d) \/ QueueAdmitted(d)
  PROVE  IInv'
  <1>1. Readings \subseteq Nat
    BY ReadingsAreNat, OneDelivery
  <1>2. "admitted" \in DeliveryState /\ "queued" \in DeliveryState
    BY DEF DeliveryState
  <1>3. CASE Admit(d)
    <2>1. PICK at \in Readings : created' = [created EXCEPT ![d] = at]
      BY <1>3 DEF Admit
    <2>2. created' \in [Deliveries -> Nat]
      BY <1>1, <2>1, OneDelivery
    <2>3. UNCHANGED <<clock, row, attempts, moved>> /\ state' = [state EXCEPT ![d] = "admitted"]
      BY <1>3 DEF Admit
    <2> QED
      BY <1>2, <2>2, <2>3, OneDelivery, StepOfOne
  <1>4. CASE AdmitRunnable(d)
    <2>1. PICK at \in Readings : /\ created' = [created EXCEPT ![d] = at]
                               /\ row' = [row EXCEPT ![d] = ReadyRow(at)]
      BY <1>4 DEF AdmitRunnable
    <2>2. created' \in [Deliveries -> Nat] /\ at \in Nat
      BY <1>1, <2>1, OneDelivery
    <2>3. UNCHANGED <<clock, attempts, moved>> /\ state' = [state EXCEPT ![d] = "queued"]
          /\ row[d].status = "none"
      BY <1>4 DEF AdmitRunnable, IInv, AbsentIsUnqueued
    <2>4. EnsureRow(row[d], at) = ReadyRow(at)
      BY <2>3 DEF EnsureRow
    <2>5. EnsureRow(row[d], at) \in QueueRow
      BY <2>2, OneDelivery, EnsureRowType
    <2>6. Agree(ReadyRow(at), attempts[d]) /\ ReadyRow(at) \in QueueRow
      BY <2>2, <2>4, <2>5, OneDelivery, EnsuredAgrees
    <2> QED
      BY <1>2, <2>1, <2>2, <2>3, <2>6, OneDelivery, StepOfOne
  <1>5. CASE AdmitRunnableAgain(d)
    <2> DEFINE q == EnsureRow(row[d], created[d])
    <2>1. UNCHANGED <<clock, created, attempts, moved>> /\ row' = [row EXCEPT ![d] = q]
          /\ state[d] # "absent"
      BY <1>5 DEF AdmitRunnableAgain
    <2>2. created[d] \in Nat /\ state[d] \in DeliveryState
      BY <2>1, OneDelivery
    <2>3. q \in QueueRow /\ Agree(q, attempts[d])
      BY <2>2, OneDelivery, EnsureRowType, EnsuredAgrees
    <2>4. PICK st \in DeliveryState : state' = [state EXCEPT ![d] = st]
      BY <1>2, <1>5, <2>2, OneDelivery DEF AdmitRunnableAgain, TransitionTo
    <2> HIDE DEF q
    <2> QED
      BY <2>1, <2>3, <2>4, OneDelivery, StepOfOne
  <1>6. CASE QueueAdmitted(d)
    <2>1. PICK at \in Readings : row' = [row EXCEPT ![d] = ReadyRow(at)]
      BY <1>6 DEF QueueAdmitted
    <2>2. UNCHANGED <<clock, created, attempts, moved>> /\ state' = [state EXCEPT ![d] = "queued"]
          /\ row[d].status = "none" /\ at \in Nat
      BY <1>1, <1>6, <2>1 DEF QueueAdmitted, TransitionTo
    <2>3. EnsureRow(row[d], at) = ReadyRow(at)
      BY <2>2 DEF EnsureRow
    <2>4. EnsureRow(row[d], at) \in QueueRow
      BY <2>2, OneDelivery, EnsureRowType
    <2>5. Agree(ReadyRow(at), attempts[d]) /\ ReadyRow(at) \in QueueRow
      BY <2>2, <2>3, <2>4, OneDelivery, EnsuredAgrees
    <2> QED
      BY <1>2, <2>1, <2>2, <2>5, OneDelivery, StepOfOne
  <1> QED
    BY <1>3, <1>4, <1>5, <1>6

LEMMA ClaimKeepsIInv ==
  ASSUME IInv, NEW d \in Deliveries, NEW o \in Owners, Claim(o, d)
  PROVE  IInv'
  <1>1. PICK at \in Readings :
          /\ row' = [row EXCEPT ![d] = LeasedRow(row[d], o, at)]
          /\ attempts' = [attempts EXCEPT ![d] =
               Append(CloseOpen(attempts[d], "lease_expired"),
                      [owner |-> o, epoch |-> row[d].epoch + 1,
                       outcome |-> "open", work |-> "none"])]
    BY DEF Claim
  <1> DEFINE rec == [owner |-> o, epoch |-> row[d].epoch + 1,
                     outcome |-> "open", work |-> "none"]
             t == Append(CloseOpen(attempts[d], "lease_expired"), rec)
             q == LeasedRow(row[d], o, at)
  <1>2. at \in Nat
    BY ReadingsAreNat, OneDelivery
  <1>3. rec \in Attempt /\ rec.owner = o /\ rec.epoch = row[d].epoch + 1 /\ rec.outcome = "open"
    BY OneDelivery DEF Attempt, Outcomes, Work
  <1>4. UNCHANGED <<clock, created>> /\ state' = [state EXCEPT ![d] = "running"]
        /\ moved' = [moved EXCEPT ![d] = {}] /\ "running" \in DeliveryState
    BY DEF Claim, DeliveryState
  <1>5. moved' \in [Deliveries -> SUBSET DeliveryState]
    BY <1>4, OneDelivery
  <1> HIDE DEF rec
  <1>6. t \in Seq(Attempt)
    BY <1>3, OneDelivery, ClaimedAttempts
  <1>7. q \in QueueRow
    BY <1>2, OneDelivery, LeasedRowType
  <1>8. Agree(q, t)
    BY <1>2, <1>3, OneDelivery, ClaimAgrees
  <1>9. row' = [row EXCEPT ![d] = q] /\ attempts' = [attempts EXCEPT ![d] = t]
    BY <1>1 DEF rec
  <1> HIDE DEF q, t
  <1> QED
    BY <1>4, <1>5, <1>6, <1>7, <1>8, <1>9, OneDelivery, StepOfOne

\* Whoever holds the lease holds it with the latest attempt, which is unfinished.
LEMMA HolderFacts ==
  ASSUME IInv, NEW d \in Deliveries, NEW n \in DOMAIN attempts[d],
         NEW at \in Readings, HoldsLease(d, n, at)
  PROVE  /\ at \in Nat
         /\ n = Len(attempts[d])
         /\ attempts[d][n] \in Attempt
         /\ attempts[d][n].outcome = "open"
         /\ row[d].status = "leased"
         /\ state[d] \in DeliveryState
  <1>1. row[d].status = "leased" /\ attempts[d][n].epoch = row[d].epoch
    BY DEF HoldsLease
  <1>2. n = Len(attempts[d])
    BY <1>1, OneDelivery, HolderIsLast
  <1>3. attempts[d][n] \in Attempt
    BY OneDelivery, AttemptTypes
  <1>4. attempts[d][n].outcome = "open"
    BY <1>1, <1>2, OneDelivery DEF Agree
  <1> QED
    BY <1>1, <1>2, <1>3, <1>4, ReadingsAreNat, OneDelivery, QueuedIsAdmitted

LEMMA HeartbeatKeepsIInv ==
  ASSUME IInv, NEW d \in Deliveries, NEW n \in DOMAIN attempts[d], Heartbeat(d, n)
  PROVE  IInv'
  <1>1. PICK at \in Readings : /\ HoldsLease(d, n, at)
                             /\ row' = [row EXCEPT ![d].expires = at + LeaseDuration]
    BY DEF Heartbeat
  <1> DEFINE q == [row[d] EXCEPT !.expires = at + LeaseDuration]
  <1>2. row' = [row EXCEPT ![d] = q]
    BY <1>1
  <1>3. at + LeaseDuration \in Nat /\ row[d].status = "leased" /\ state[d] \in DeliveryState
    BY <1>1, HolderFacts, TimeAssumption DEF TimeAssumption
  <1>4. /\ q \in QueueRow /\ q.status = row[d].status
        /\ q.owner = row[d].owner /\ q.epoch = row[d].epoch
    BY <1>3, OneDelivery DEF QueueRow
  <1> HIDE DEF q
  <1>5. Agree(q, attempts[d])
    BY <1>3, <1>4, OneDelivery DEF Agree
  <1>6. UNCHANGED <<clock, state, created, attempts, moved>>
    BY DEF Heartbeat
  <1> QED
    BY <1>2, <1>3, <1>4, <1>5, <1>6, OneDelivery, StepOfOne

LEMMA UpdateAttemptKeepsIInv ==
  ASSUME IInv, NEW d \in Deliveries, NEW n \in DOMAIN attempts[d], UpdateAttempt(d, n)
  PROVE  IInv'
  <1>1. PICK at \in Readings : /\ HoldsLease(d, n, at)
                             /\ attempts' = [attempts EXCEPT ![d][n].work = "recorded"]
    BY DEF UpdateAttempt
  <1> DEFINE rec == [attempts[d][n] EXCEPT !.work = "recorded"]
             t == [attempts[d] EXCEPT ![n] = rec]
  <1>2. attempts' = [attempts EXCEPT ![d] = t]
    BY <1>1
  <1>3. attempts[d][n] \in Attempt /\ state[d] \in DeliveryState
    BY <1>1, HolderFacts
  <1>4. /\ rec \in Attempt /\ rec.owner = attempts[d][n].owner
        /\ rec.epoch = attempts[d][n].epoch /\ rec.outcome = attempts[d][n].outcome
    BY <1>3 DEF Attempt, Work
  <1> HIDE DEF rec
  <1>5. t \in Seq(Attempt)
    BY <1>4, OneDelivery, RewrittenAttempt
  <1>6. Agree(row[d], t)
    BY <1>4, OneDelivery, WriteAgrees
  <1>7. UNCHANGED <<clock, state, created, row, moved>>
    BY DEF UpdateAttempt
  <1> HIDE DEF t
  <1> QED
    BY <1>2, <1>3, <1>5, <1>6, <1>7, OneDelivery, StepOfOne

LEMMA TransitionLeaseKeepsIInv ==
  ASSUME IInv, NEW d \in Deliveries, NEW n \in DOMAIN attempts[d], NEW next,
         TransitionLease(d, n, next)
  PROVE  IInv'
  <1>1. PICK at \in Readings : HoldsLease(d, n, at)
    BY DEF TransitionLease
  <1>2. state[d] # "absent" /\ TransitionTo(d, next)
    BY <1>1, HolderFacts DEF TransitionLease, DeliveryState, ParkStates, DeliveryTerminal
  <1>3. next \in DeliveryState /\ state' = [state EXCEPT ![d] = next]
    BY <1>2, TransitionTypes
  <1>4. UNCHANGED <<clock, created, row, attempts>>
        /\ moved' = [moved EXCEPT ![d] = @ \union {next}]
    BY DEF TransitionLease
  <1>5. moved' \in [Deliveries -> SUBSET DeliveryState]
    BY <1>3, <1>4, OneDelivery
  <1> QED
    BY <1>3, <1>4, <1>5, OneDelivery, StepOfOne

LEMMA ReleaseKeepsIInv ==
  ASSUME IInv, NEW d \in Deliveries, NEW n \in DOMAIN attempts[d], Release(d, n)
  PROVE  IInv'
  <1>1. PICK at \in Readings :
          /\ HoldsLease(d, n, at)
          /\ TransitionUnlessIn(d, "queued")
          /\ row' = [row EXCEPT ![d] = Unleased(row[d], "ready", at, row[d].signal)]
    BY DEF Release
  <1> DEFINE q == Unleased(row[d], "ready", at, row[d].signal)
  <1>2. at \in Nat /\ row[d].status = "leased" /\ row[d].signal \in Signals \union {"none", "retry", "cancel"}
    BY <1>1, HolderFacts, OneDelivery DEF QueueRow
  <1>r. "ready" \in RowStatus /\ row[d] \in QueueRow
    BY OneDelivery DEF RowStatus
  <1>3. q \in QueueRow /\ q.status = "ready" /\ q.epoch = row[d].epoch
    BY <1>2, <1>r, UnleasedType
  <1> HIDE DEF q
  <1>4. Agree(q, attempts[d])
    BY <1>3, OneDelivery, IdleAgrees
  <1>5. "queued" \in DeliveryState /\ state' = [state EXCEPT ![d] = "queued"]
    BY <1>1, <1>2, TransitionTypes, QueuedIsAdmitted
  <1>6. UNCHANGED <<clock, created, attempts, moved>> /\ row' = [row EXCEPT ![d] = q]
    BY <1>1 DEF Release, q
  <1> QED
    BY <1>3, <1>4, <1>5, <1>6, OneDelivery, StepOfOne

LEMMA FinalizeKeepsIInv ==
  ASSUME IInv, NEW d \in Deliveries, NEW n \in DOMAIN attempts[d],
         NEW kind \in OutcomeKinds, Finalize(d, n, kind)
  PROVE  IInv'
  <1>1. PICK at \in Readings :
          /\ HoldsLease(d, n, at)
          /\ \E o \in {x \in Dispositions(at) : x.kind = kind}, publish \in BOOLEAN :
               /\ TransitionUnlessIn(d, o.next)
               /\ row' = [row EXCEPT ![d] = Unleased(row[d], o.status, o.available, o.signal)]
               /\ attempts' = [attempts EXCEPT ![d][n] = Finished(@, kind, publish)]
    BY DEF Finalize
  <1>2. PICK o \in Dispositions(at), publish \in BOOLEAN :
          /\ TransitionUnlessIn(d, o.next)
          /\ row' = [row EXCEPT ![d] = Unleased(row[d], o.status, o.available, o.signal)]
          /\ attempts' = [attempts EXCEPT ![d][n] = Finished(@, kind, publish)]
    BY <1>1
  <1>3. /\ at \in Nat /\ row[d].status = "leased" /\ n = Len(attempts[d])
        /\ attempts[d][n] \in Attempt
    BY <1>1, HolderFacts
  <1>4. /\ o.status \in {"done", "waiting", "cancelled"}
        /\ o.available \in Nat
        /\ o.signal \in Signals \union {"none", "retry", "cancel"}
    BY <1>3, TimeAssumption DEF Dispositions, TimeAssumption
  <1> DEFINE q == Unleased(row[d], o.status, o.available, o.signal)
             rec == Finished(attempts[d][n], kind, publish)
             t == [attempts[d] EXCEPT ![n] = rec]
  <1>5. o.status \in RowStatus /\ row[d] \in QueueRow
    BY <1>4, OneDelivery DEF RowStatus
  <1>6. q \in QueueRow /\ q.status = o.status /\ q.epoch = row[d].epoch
    BY <1>4, <1>5, UnleasedType
  <1>7. /\ rec \in Attempt /\ rec.epoch = attempts[d][n].epoch /\ rec.outcome # "open"
    BY <1>3 DEF Attempt, OutcomeKinds, Finished, Work
  <1>8. attempts' = [attempts EXCEPT ![d] = t]
    BY <1>2
  <1> HIDE DEF q, rec
  <1>9. t \in Seq(Attempt)
    BY <1>7, OneDelivery, RewrittenAttempt
  <1>10. Agree(q, t)
    BY <1>3, <1>4, <1>6, <1>7, OneDelivery, FinishAgrees
  <1>11. o.next \in DeliveryState /\ state' = [state EXCEPT ![d] = o.next]
    BY <1>2, <1>3, TransitionTypes, QueuedIsAdmitted
  <1>12. UNCHANGED <<clock, created, moved>> /\ row' = [row EXCEPT ![d] = q]
    BY <1>2 DEF Finalize, q
  <1> HIDE DEF t
  <1> QED
    BY <1>6, <1>8, <1>9, <1>10, <1>11, <1>12, OneDelivery, StepOfOne

LEMMA ClientKeepsIInv ==
  ASSUME IInv, NEW d \in Deliveries,
         \/ \E s \in Signals : SignalWaiting(d, s)
         \/ Cancel(d)
         \/ \E next \in DirectMoves : Transition(d, next)
  PROVE  IInv'
  <1>1. ASSUME NEW s \in Signals, SignalWaiting(d, s) PROVE IInv'
    <2> DEFINE q(at) == Unleased(row[d], "ready", at, "none")
    <2>1. PICK at \in Readings : row' = [row EXCEPT ![d] = q(at)]
      BY <1>1 DEF SignalWaiting
    <2>2. at \in Nat /\ "ready" \in RowStatus /\ row[d] \in QueueRow
      BY ReadingsAreNat, OneDelivery DEF RowStatus
    <2>3. q(at) \in QueueRow /\ q(at).status = "ready" /\ q(at).epoch = row[d].epoch
      BY <2>2, UnleasedType
    <2> HIDE DEF q
    <2>4. Agree(q(at), attempts[d])
      BY <2>3, OneDelivery, IdleAgrees
    <2>5. row[d].status # "none" /\ TransitionTo(d, "queued")
          /\ UNCHANGED <<clock, created, attempts, moved>>
      BY <1>1 DEF SignalWaiting
    <2>6. "queued" \in DeliveryState /\ state' = [state EXCEPT ![d] = "queued"]
      BY <2>5, TransitionTypes, QueuedIsAdmitted
    <2> QED
      BY <2>1, <2>3, <2>4, <2>5, <2>6, OneDelivery, StepOfOne
  <1>2. CASE Cancel(d)
    <2> DEFINE q == FencedRow(row[d])
               c == CloseOpen(attempts[d], "cancelled")
    <2>1. /\ row' = [row EXCEPT ![d] = q] /\ attempts' = [attempts EXCEPT ![d] = c]
          /\ UNCHANGED <<clock, created, moved>>
          /\ row[d].status # "none" /\ TransitionTo(d, "cancel_requested")
      BY <1>2 DEF Cancel
    <2>4. q \in QueueRow /\ q.status = "cancelled" /\ q.epoch = row[d].epoch + 1
      BY OneDelivery DEF QueueRow, FencedRow, RowStatus
    <2> HIDE DEF q
    <2>5. Agree(q, c)
      BY <2>4, OneDelivery, CancelAgrees
    <2>6. c \in Seq(Attempt)
      BY OneDelivery, CloseOpenKeeps DEF Outcomes
    <2>7. "cancel_requested" \in DeliveryState
          /\ state' = [state EXCEPT ![d] = "cancel_requested"]
      BY <2>1, TransitionTypes, QueuedIsAdmitted
    <2> HIDE DEF c
    <2> QED
      BY <2>1, <2>4, <2>5, <2>6, <2>7, OneDelivery, StepOfOne
  <1>3. ASSUME NEW next \in DirectMoves, Transition(d, next) PROVE IInv'
    <2>1. /\ state[d] # "absent" /\ TransitionTo(d, next)
          /\ UNCHANGED <<clock, created, row, attempts, moved>>
      BY <1>3 DEF Transition
    <2>2. next \in DeliveryState /\ state' = [state EXCEPT ![d] = next]
      BY <2>1, TransitionTypes
    <2> QED
      BY <2>1, <2>2, OneDelivery, StepOfOne
  <1> QED
    BY <1>1, <1>2, <1>3

LEMMA TickKeepsIInv ==
  ASSUME IInv, Tick \/ UNCHANGED vars
  PROVE  IInv'
  BY DEF IInv, TypeOK, RowsAgree, AbsentIsUnqueued, Tick, vars

LEMMA HolderKeepsIInv ==
  ASSUME IInv, NEW d \in Deliveries, NEW n \in DOMAIN attempts[d], HolderCall(d, n)
  PROVE  IInv'
  BY HeartbeatKeepsIInv, UpdateAttemptKeepsIInv, ReleaseKeepsIInv, TransitionLeaseKeepsIInv,
     FinalizeKeepsIInv DEF HolderCall

LEMMA NextKeepsIInv == IInv /\ [Next]_vars => IInv'
  <1> SUFFICES ASSUME IInv, [Next]_vars PROVE IInv'
    OBVIOUS
  <1>1. CASE Tick \/ UNCHANGED vars
    BY <1>1, TickKeepsIInv
  <1>2. ASSUME NEW d \in Deliveries,
               Admit(d) \/ AdmitRunnable(d) \/ AdmitRunnableAgain(d) \/ QueueAdmitted(d)
        PROVE  IInv'
    BY <1>2, AdmissionKeepsIInv
  <1>3. ASSUME NEW d \in Deliveries, NEW o \in Owners, Claim(o, d) PROVE IInv'
    BY <1>3, ClaimKeepsIInv
  <1>4. ASSUME NEW d \in Deliveries, NEW n \in DOMAIN attempts[d], HolderCall(d, n) PROVE IInv'
    BY <1>4, HolderKeepsIInv
  <1>5. ASSUME NEW d \in Deliveries,
               \/ \E s \in Signals : SignalWaiting(d, s)
               \/ Cancel(d)
               \/ \E next \in DirectMoves : Transition(d, next)
        PROVE  IInv'
    BY <1>5, ClientKeepsIInv
  <1> QED
    BY <1>1, <1>2, <1>3, <1>4, <1>5 DEF Next

-----------------------------------------------------------------------------
(* The theorems *)

\* The inductive invariant holds in every reachable state of the queue.
THEOREM Invariance == Spec => []IInv
  BY InitIInv, NextKeepsIInv, PTL DEF Spec

\* The tables keep their types, whatever the deliveries, workers, signals and bounds.
THEOREM TypeCorrectness == Spec => []TypeOK
  <1>1. IInv => TypeOK
    BY DEF IInv
  <1> QED
    BY <1>1, Invariance, PTL

\* In every reachable state only the latest attempt of a delivery is unfinished, and a
\* leased row names that attempt.
THEOREM LeaseCorrectness == Spec => []LeaseNamesOpenAttempt
  <1>1. IInv => LeaseNamesOpenAttempt
    BY DEF IInv, RowsAgree, Agree, LeaseNamesOpenAttempt
  <1> QED
    BY <1>1, Invariance, PTL

\* No two attempts ever share an epoch, and the row's epoch is never behind one.
THEOREM EpochCorrectness == Spec => []EpochsFenceAttempts
  <1>1. IInv => EpochsFenceAttempts
    BY DEF IInv, RowsAgree, Agree, EpochsFenceAttempts
  <1> QED
    BY <1>1, Invariance, PTL

-----------------------------------------------------------------------------
(* Cancellation is final *)

\* A cancelled row is not due, not leased and not waiting, so only a repeated runnable
\* admission and a second Cancel write it, and neither changes what is cancelled.
LEMMA StepKeepsCancelled ==
  ASSUME IInv, [Next]_vars, NEW e \in Deliveries, row[e].status = "cancelled"
  PROVE  row'[e].status = "cancelled" /\ attempts'[e] = attempts[e]
  <1>1. CASE Tick \/ UNCHANGED vars
    BY <1>1 DEF Tick, vars
  <1>2. ASSUME NEW d \in Deliveries, Admit(d) \/ AdmitRunnable(d) \/ QueueAdmitted(d)
        PROVE  row'[e].status = "cancelled" /\ attempts'[e] = attempts[e]
    <2>1. d # e => row'[e] = row[e]
      BY <1>2 DEF Admit, AdmitRunnable, QueueAdmitted, IInv, TypeOK
    <2>2. d = e => row'[e] = row[e]
      BY <1>2 DEF Admit, AdmitRunnable, QueueAdmitted, IInv, AbsentIsUnqueued
    <2> QED
      BY <1>2, <2>1, <2>2 DEF Admit, AdmitRunnable, QueueAdmitted
  <1>3. ASSUME NEW d \in Deliveries, AdmitRunnableAgain(d)
        PROVE  row'[e].status = "cancelled" /\ attempts'[e] = attempts[e]
    BY <1>3 DEF AdmitRunnableAgain, EnsureRow, IInv, TypeOK
  <1>4. ASSUME NEW d \in Deliveries, NEW o \in Owners, Claim(o, d)
        PROVE  row'[e].status = "cancelled" /\ attempts'[e] = attempts[e]
    <2>1. d # e
      BY <1>4 DEF Claim, FirstDue, Due
    <2> QED
      BY <1>4, <2>1 DEF Claim, IInv, TypeOK
  <1>5. ASSUME NEW d \in Deliveries, NEW n \in DOMAIN attempts[d], HolderCall(d, n)
        PROVE  row'[e].status = "cancelled" /\ attempts'[e] = attempts[e]
    <2>1. row[d].status = "leased"
      BY <1>5 DEF HolderCall, Heartbeat, UpdateAttempt, Release, TransitionLease, Finalize, HoldsLease
    <2>2. d # e
      BY <2>1
    <2>3. row'[e] = row[e]
      BY <1>5, <2>2 DEF HolderCall, Heartbeat, UpdateAttempt, Release, TransitionLease, Finalize, IInv, TypeOK
    <2>4. attempts'[e] = attempts[e]
      BY <1>5, <2>2 DEF HolderCall, Heartbeat, UpdateAttempt, Release, TransitionLease, Finalize, IInv, TypeOK
    <2> QED
      BY <2>3, <2>4
  <1>6. ASSUME NEW d \in Deliveries, NEW s \in Signals, SignalWaiting(d, s)
        PROVE  row'[e].status = "cancelled" /\ attempts'[e] = attempts[e]
    BY <1>6 DEF SignalWaiting, IInv, TypeOK
  <1>7. ASSUME NEW d \in Deliveries, Cancel(d)
        PROVE  row'[e].status = "cancelled" /\ attempts'[e] = attempts[e]
    <2>1. CASE d # e
      BY <1>7, <2>1 DEF Cancel, IInv, TypeOK
    <2>2. CASE d = e
      <3>1. attempts[e] \in Seq(Attempt) /\ \A i \in DOMAIN attempts[e] : attempts[e][i].outcome # "open"
        BY OneDelivery DEF Agree
      <3>2. CloseOpen(attempts[e], "cancelled") = [i \in DOMAIN attempts[e] |-> attempts[e][i]]
        BY <3>1 DEF CloseOpen
      <3>3. CloseOpen(attempts[e], "cancelled") = attempts[e]
        BY <3>1, <3>2, CloseOpenKeeps, SeqEqual, AttemptTypes DEF Outcomes
      <3>4. attempts'[e] = CloseOpen(attempts[e], "cancelled") /\ row'[e] = FencedRow(row[e])
        BY <1>7, <2>2 DEF Cancel, IInv, TypeOK
      <3> QED
        BY <3>3, <3>4 DEF FencedRow
    <2> QED
      BY <2>1, <2>2
  <1>8. ASSUME NEW d \in Deliveries, NEW next \in DirectMoves, Transition(d, next)
        PROVE  row'[e].status = "cancelled" /\ attempts'[e] = attempts[e]
    BY <1>8 DEF Transition
  <1> QED
    BY <1>1, <1>2, <1>3, <1>4, <1>5, <1>6, <1>7, <1>8 DEF Next

\* Once Cancel has taken a row no step of anyone revives the row or changes an attempt.
THEOREM CancellationIsFinal == Spec => CancelIsFinal
  <1>1. IInv /\ [Next]_vars =>
          [\A d \in Deliveries : row[d].status = "cancelled" =>
             row'[d].status = "cancelled" /\ attempts'[d] = attempts[d]]_vars
    BY StepKeepsCancelled
  <1> QED
    BY <1>1, Invariance, PTL DEF Spec, CancelIsFinal

-----------------------------------------------------------------------------
(* The row and the state *)

\* A finished row stays with a finished delivery.
DoneConsistent == \A d \in Deliveries : row[d].status = "done" => Consistent(state[d], row[d])

\* A delivery whose row and state a step leaves alone.
LEMMA UntouchedRow ==
  ASSUME DoneConsistent, NEW d \in Deliveries, state'[d] = state[d], row'[d] = row[d]
  PROVE  KeepsRow(d)
  BY DEF DoneConsistent, KeepsRow

\* A step of one delivery leaves the rows and states of the others alone.
LEMMA OneRow ==
  ASSUME IInv, DoneConsistent, NEW d \in Deliveries, NEW st, NEW r,
         state' = [state EXCEPT ![d] = st], row' = [row EXCEPT ![d] = r],
         \/ Consistent(st, r)
         \/ r.status = row[d].status /\ r.epoch = row[d].epoch /\ row[d].status # "done"
         \/ row[d].status = "none" /\ r.status = "ready" /\ state[d] \notin {"absent", "admitted"}
  PROVE  \A e \in Deliveries : KeepsRow(e)
  <1> SUFFICES ASSUME NEW e \in Deliveries PROVE KeepsRow(e)
    OBVIOUS
  <1>1. CASE e = d
    <2>1. state'[d] = st /\ row'[d] = r
      BY DEF IInv, TypeOK
    <2> QED
      BY <1>1, <2>1 DEF KeepsRow
  <1>2. CASE e # d
    <2>1. state'[e] = state[e] /\ row'[e] = row[e]
      BY <1>2 DEF IInv, TypeOK
    <2> QED
      BY <2>1, UntouchedRow
  <1> QED
    BY <1>1, <1>2

\* Admission makes a ready row of queued work, or finds that there is a row.
LEMMA AdmissionKeepsRow ==
  ASSUME IInv, DoneConsistent, NEW d \in Deliveries,
         Admit(d) \/ AdmitRunnable(d) \/ AdmitRunnableAgain(d) \/ QueueAdmitted(d)
  PROVE  \A e \in Deliveries : KeepsRow(e)
  <1>0. row = [row EXCEPT ![d] = row[d]] /\ state = [state EXCEPT ![d] = state[d]]
    BY OneDelivery
  <1>1. \A at : ReadyRow(at).status = "ready" /\ Consistent("queued", ReadyRow(at))
    BY DEF ReadyRow, Consistent
  <1>2. CASE Admit(d)
    <2>1. row[d].status = "none" /\ row' = [row EXCEPT ![d] = row[d]]
          /\ state' = [state EXCEPT ![d] = "admitted"]
      BY <1>0, <1>2 DEF Admit, IInv, AbsentIsUnqueued
    <2> QED
      BY <2>1, OneRow
  <1>3. CASE AdmitRunnable(d) \/ QueueAdmitted(d)
    <2>1. \E at : row' = [row EXCEPT ![d] = ReadyRow(at)] /\ state' = [state EXCEPT ![d] = "queued"]
      BY <1>3 DEF AdmitRunnable, QueueAdmitted, TransitionTo
    <2> QED
      BY <1>1, <2>1, OneRow
  <1>4. CASE AdmitRunnableAgain(d)
    <2> DEFINE q == EnsureRow(row[d], created[d])
    <2>1. row' = [row EXCEPT ![d] = q] /\ state[d] # "absent"
      BY <1>4 DEF AdmitRunnableAgain
    <2>2. \/ state[d] = "admitted" /\ state' = [state EXCEPT ![d] = "queued"]
          \/ state[d] # "admitted" /\ state' = [state EXCEPT ![d] = state[d]]
      BY <1>0, <1>4 DEF AdmitRunnableAgain, TransitionTo
    <2>3. row[d].status = "done" => Consistent(state[d], row[d]) /\ state[d] # "admitted"
      BY DEF DoneConsistent, Consistent
    <2>4. \/ row[d].status = "none" /\ q.status = "ready" /\ Consistent("queued", q)
          \/ row[d].status # "none" /\ q = row[d]
      BY <1>1 DEF EnsureRow
    <2> HIDE DEF q
    <2> QED
      BY <2>1, <2>2, <2>3, <2>4, OneRow
  <1> QED
    BY <1>2, <1>3, <1>4

\* What an outcome writes is consistent: validateOutcome's table.
LEMMA OutcomesConsistent ==
  ASSUME NEW at, NEW o \in Dispositions(at), NEW r
  PROVE  Consistent(o.next, Unleased(r, o.status, o.available, o.signal))
  <1>1. /\ Unleased(r, o.status, o.available, o.signal).status = o.status
        /\ Unleased(r, o.status, o.available, o.signal).signal = o.signal
    BY DEF Unleased
  <1>2. \/ o.status = "done" /\ o.next \in {"succeeded", "failed"}
        \/ o.status = "cancelled" /\ o.next = "cancelled"
        \/ o.status = "waiting" /\ (o.next \in ParkStates \/ (o.next = "waiting_retry" /\ o.signal = "retry"))
    BY DEF Dispositions
  <1> QED
    BY <1>1, <1>2 DEF Consistent

\* What the holder of a lease writes: the row it gives up goes with the state it sets.
LEMMA HolderKeepsRow ==
  ASSUME IInv, DoneConsistent, NEW d \in Deliveries, NEW n \in DOMAIN attempts[d], HolderCall(d, n)
  PROVE  \A e \in Deliveries : KeepsRow(e)
  <1>0. row = [row EXCEPT ![d] = row[d]] /\ state = [state EXCEPT ![d] = state[d]] /\ row[d] \in QueueRow
    BY OneDelivery
  <1>1. CASE Heartbeat(d, n) \/ UpdateAttempt(d, n) \/ \E next \in LeaseMoves : TransitionLease(d, n, next)
    <2>1. row[d].status = "leased"
      BY <1>1 DEF Heartbeat, UpdateAttempt, TransitionLease, HoldsLease
    <2>2. \E st : state' = [state EXCEPT ![d] = st]
      BY <1>0, <1>1 DEF Heartbeat, UpdateAttempt, TransitionLease, TransitionTo
    <2>3. \E r : row' = [row EXCEPT ![d] = r] /\ r.status = row[d].status /\ r.epoch = row[d].epoch
      <3>1. CASE Heartbeat(d, n)
        <4>1. PICK at \in Readings : row' = [row EXCEPT ![d].expires = at + LeaseDuration]
          BY <3>1 DEF Heartbeat
        <4>2. row' = [row EXCEPT ![d] = [row[d] EXCEPT !.expires = at + LeaseDuration]]
          BY <4>1
        <4>3. /\ [row[d] EXCEPT !.expires = at + LeaseDuration].status = row[d].status
              /\ [row[d] EXCEPT !.expires = at + LeaseDuration].epoch = row[d].epoch
          BY <1>0 DEF QueueRow
        <4> QED
          BY <4>2, <4>3
      <3>2. CASE ~Heartbeat(d, n)
        BY <1>0, <1>1, <3>2 DEF UpdateAttempt, TransitionLease
      <3> QED
        BY <3>1, <3>2
    <2> QED
      BY <2>1, <2>2, <2>3, OneRow
  <1>2. CASE Release(d, n)
    <2>1. PICK at \in Readings : HoldsLease(d, n, at) /\ TransitionUnlessIn(d, "queued")
                                /\ row' = [row EXCEPT ![d] = Unleased(row[d], "ready", at, row[d].signal)]
      BY <1>2 DEF Release
    <2>2. state[d] # "absent"
      BY <2>1, QueuedIsAdmitted DEF HoldsLease
    <2>3. state' = [state EXCEPT ![d] = "queued"]
      BY <2>1, <2>2, TransitionTypes
    <2>4. Consistent("queued", Unleased(row[d], "ready", at, row[d].signal))
      BY DEF Consistent, Unleased
    <2> QED
      BY <2>1, <2>3, <2>4, OneRow
  <1>3. ASSUME NEW kind \in OutcomeKinds, Finalize(d, n, kind)
        PROVE  \A e \in Deliveries : KeepsRow(e)
    <2>0. PICK at \in Readings : /\ HoldsLease(d, n, at)
                                /\ \E o \in Dispositions(at) :
                                     /\ TransitionUnlessIn(d, o.next)
                                     /\ row' = [row EXCEPT ![d] =
                                          Unleased(row[d], o.status, o.available, o.signal)]
      BY <1>3 DEF Finalize
    <2>1. PICK o \in Dispositions(at) :
            /\ HoldsLease(d, n, at) /\ TransitionUnlessIn(d, o.next)
            /\ row' = [row EXCEPT ![d] = Unleased(row[d], o.status, o.available, o.signal)]
      BY <2>0
    <2>2. state[d] # "absent"
      BY <2>1, QueuedIsAdmitted DEF HoldsLease
    <2>3. state' = [state EXCEPT ![d] = o.next]
      BY <2>1, <2>2, TransitionTypes
    <2>4. Consistent(o.next, Unleased(row[d], o.status, o.available, o.signal))
      BY OutcomesConsistent
    <2> QED
      BY <2>1, <2>3, <2>4, OneRow
  <1> QED
    BY <1>1, <1>2, <1>3 DEF HolderCall

\* What a claim and the clients' calls write.
LEMMA ClientKeepsRow ==
  ASSUME IInv, DoneConsistent, NEW d \in Deliveries,
         \/ \E o \in Owners : Claim(o, d)
         \/ \E s \in Signals : SignalWaiting(d, s)
         \/ Cancel(d)
         \/ \E next \in DirectMoves : Transition(d, next)
  PROVE  \A e \in Deliveries : KeepsRow(e)
  <1>1. ASSUME NEW o \in Owners, Claim(o, d)
        PROVE  \A e \in Deliveries : KeepsRow(e)
    <2>1. PICK at \in Readings : /\ state' = [state EXCEPT ![d] = "running"]
                                /\ row' = [row EXCEPT ![d] = LeasedRow(row[d], o, at)]
      BY <1>1 DEF Claim
    <2>2. Consistent("running", LeasedRow(row[d], o, at))
      BY DEF Consistent, LeasedRow
    <2> QED
      BY <2>1, <2>2, OneRow
  <1>2. ASSUME NEW s \in Signals, SignalWaiting(d, s)
        PROVE  \A e \in Deliveries : KeepsRow(e)
    <2>1. PICK at \in Readings : /\ state' = [state EXCEPT ![d] = "queued"]
                                /\ row' = [row EXCEPT ![d] = Unleased(row[d], "ready", at, "none")]
      BY <1>2 DEF SignalWaiting, TransitionTo
    <2>2. Consistent("queued", Unleased(row[d], "ready", at, "none"))
      BY DEF Consistent, Unleased
    <2> QED
      BY <2>1, <2>2, OneRow
  <1>3. CASE Cancel(d)
    <2>1. state' = [state EXCEPT ![d] = "cancel_requested"] /\ row' = [row EXCEPT ![d] = FencedRow(row[d])]
      BY <1>3 DEF Cancel, TransitionTo
    <2>2. Consistent("cancel_requested", FencedRow(row[d]))
      BY DEF Consistent, FencedRow
    <2> QED
      BY <2>1, <2>2, OneRow
  <1>4. ASSUME NEW next \in DirectMoves, Transition(d, next)
        PROVE  \A e \in Deliveries : KeepsRow(e)
    <2>1. /\ state' = [state EXCEPT ![d] = next] /\ row' = [row EXCEPT ![d] = row[d]]
          /\ next \in Successors[state[d]]
      BY <1>4, OneDelivery DEF Transition, TransitionTo, ValidTransition
    <2>2. row[d].status # "done"
      <3>1. row[d].status = "done" => state[d] \in {"succeeded", "failed"}
        BY DEF DoneConsistent, Consistent
      <3>2. Successors["succeeded"] = {} /\ Successors["failed"] = {}
        BY DEF Successors, DeliveryState, DeliveryTerminal, ParkStates
      <3> QED
        BY <2>1, <3>1, <3>2
    <2> QED
      BY <2>1, <2>2, OneRow
  <1> QED
    BY <1>1, <1>2, <1>3, <1>4

\* A step keeps every row with its state, or leaves the row alone.
LEMMA StepKeepsRows ==
  ASSUME IInv, DoneConsistent, [Next]_vars
  PROVE  \A d \in Deliveries : KeepsRow(d)
  <1>1. CASE Next /\ ~Tick
    BY <1>1, AdmissionKeepsRow, HolderKeepsRow, ClientKeepsRow DEF Next
  <1>2. CASE Tick \/ UNCHANGED vars
    BY <1>2, UntouchedRow DEF Tick, vars
  <1> QED
    BY <1>1, <1>2

\* And with that a finished row stays with a finished delivery.
LEMMA StepKeepsDone ==
  ASSUME DoneConsistent, \A d \in Deliveries : KeepsRow(d)
  PROVE  DoneConsistent'
  <1> SUFFICES ASSUME NEW d \in Deliveries, row'[d].status = "done" PROVE Consistent(state'[d], row'[d])
    BY DEF DoneConsistent, Consistent
  <1> QED
    BY DEF KeepsRow

\* Of all the operations, only those that leave the row alone part a delivery's state and
\* its row; the others bring them together again (Claim, Release, Finalize, SignalWaiting,
\* Cancel and admission), but for the admission that comes too late.
THEOREM RowCorrectness == Spec => RowMatchesState
  <1>1. Init => DoneConsistent
    BY DEF Init, DoneConsistent, NoRow
  <1>2. IInv /\ DoneConsistent /\ [Next]_vars => (\A d \in Deliveries : KeepsRow(d)) /\ DoneConsistent'
    BY StepKeepsRows, StepKeepsDone
  <1>3. IInv /\ DoneConsistent /\ [Next]_vars => [\A d \in Deliveries : KeepsRow(d)]_vars
    BY <1>2
  <1> QED
    BY <1>1, <1>2, <1>3, Invariance, PTL DEF Spec, RowMatchesState

-----------------------------------------------------------------------------
(* The queue implements the abstract lease *)

Record == [status : {"open", "closed"}, work : Work]

\* The grants a list of attempts stands for.
LEMMA GrantTypes ==
  ASSUME NEW s \in Seq(Attempt)
  PROVE  /\ GrantsOf(s) \in Seq(Record)
         /\ Len(GrantsOf(s)) = Len(s)
         /\ DOMAIN GrantsOf(s) = 1..Len(s)
         /\ \A i \in 1..Len(s) : GrantsOf(s)[i] = GrantOf(s[i])
  <1>1. DOMAIN s = 1..Len(s) /\ Len(s) \in Nat /\ \A i \in 1..Len(s) : s[i] \in Attempt
    BY AttemptTypes
  <1>2. \A a \in Attempt : GrantOf(a) \in Record
    BY DEF Attempt, Record, Work, GrantOf
  <1>3. GrantsOf(s) \in [1..Len(s) -> Record]
    BY <1>1, <1>2 DEF GrantsOf
  <1>4. GrantsOf(s) \in Seq(Record)
    BY <1>1, <1>3, SeqDef
  <1> QED
    BY <1>1, <1>3, <1>4, LenProperties DEF GrantsOf

LEMMA NoGrants == GrantsOf(<<>>) = <<>>
  <1>1. GrantsOf(<<>>) \in Seq(Record) /\ Len(GrantsOf(<<>>)) = 0
    BY GrantTypes, EmptySeq
  <1> QED
    BY <1>1, EmptySeq

LEMMA ClosedGrants ==
  ASSUME NEW s \in Seq(Attempt), NEW o \in Outcomes \ {"open"}
  PROVE  GrantsOf(CloseOpen(s, o)) = Lease!Closed(GrantsOf(s))
  <1> DEFINE c == CloseOpen(s, o)
  <1>1. /\ c \in Seq(Attempt) /\ Len(c) = Len(s)
        /\ \A i \in 1..Len(s) : c[i].outcome # "open" /\ c[i].work = s[i].work
    BY CloseOpenKeeps, AttemptTypes
  <1> HIDE DEF c
  <1>2. DOMAIN c = 1..Len(s)
    BY <1>1, AttemptTypes
  <1>3. GrantsOf(c) = [i \in 1..Len(s) |-> [status |-> "closed", work |-> s[i].work]]
    BY <1>1, <1>2 DEF GrantsOf, GrantOf
  <1>4. Lease!Closed(GrantsOf(s)) = [i \in 1..Len(s) |-> [status |-> "closed", work |-> s[i].work]]
    <2>1. DOMAIN GrantsOf(s) = 1..Len(s) /\ \A i \in 1..Len(s) : GrantsOf(s)[i] = GrantOf(s[i])
      BY GrantTypes
    <2>2. \A i \in 1..Len(s) : GrantsOf(s)[i].work = s[i].work
      BY <2>1 DEF GrantOf
    <2> QED
      BY <2>1, <2>2 DEF Lease!Closed
  <1> QED
    BY <1>3, <1>4 DEF c

LEMMA AppendedGrant ==
  ASSUME NEW s \in Seq(Attempt), NEW rec \in Attempt, rec.outcome = "open", rec.work = "none"
  PROVE  GrantsOf(Append(s, rec)) = Append(GrantsOf(s), Lease!Fresh)
  <1> DEFINE t == Append(s, rec)
             g == Append(GrantsOf(s), Lease!Fresh)
  <1>1. t \in Seq(Attempt) /\ Len(t) = Len(s) + 1 /\ t[Len(s) + 1] = rec
        /\ \A i \in 1..Len(s) : t[i] = s[i]
    OBVIOUS
  <1>2. Lease!Fresh \in Record
    BY DEF Lease!Fresh, Record, Work
  <1>3. /\ g \in Seq(Record) /\ Len(g) = Len(s) + 1 /\ g[Len(s) + 1] = Lease!Fresh
        /\ \A i \in 1..Len(s) : g[i] = GrantsOf(s)[i]
    <2>1. GrantsOf(s) \in Seq(Record) /\ Len(GrantsOf(s)) = Len(s)
      BY GrantTypes
    <2> QED
      BY <1>2, <2>1
  <1>4. Len(s) \in Nat
    BY AttemptTypes
  <1> HIDE DEF t, g
  <1>5. GrantsOf(t) \in Seq(Record) /\ Len(GrantsOf(t)) = Len(g)
    BY <1>1, <1>3, GrantTypes
  <1>6. ASSUME NEW i \in 1..(Len(s) + 1) PROVE GrantsOf(t)[i] = g[i]
    <2>1. GrantsOf(t)[i] = GrantOf(t[i])
      BY <1>1, GrantTypes
    <2>2. CASE i = Len(s) + 1
      BY <1>1, <1>3, <2>1, <2>2 DEF Lease!Fresh, GrantOf
    <2>3. CASE i # Len(s) + 1
      <3>1. i \in 1..Len(s)
        BY <1>4, <2>3
      <3> QED
        BY <1>1, <1>3, <2>1, <3>1, GrantTypes
    <2> QED
      BY <2>2, <2>3
  <1>7. GrantsOf(t) = g
    BY <1>1, <1>3, <1>5, <1>6, GrantTypes, SeqEqual
  <1> QED
    BY <1>7 DEF t, g

LEMMA RewrittenGrant ==
  ASSUME NEW s \in Seq(Attempt), NEW n \in DOMAIN s, NEW rec \in Attempt
  PROVE  GrantsOf([s EXCEPT ![n] = rec]) = [GrantsOf(s) EXCEPT ![n] = GrantOf(rec)]
  <1> DEFINE t == [s EXCEPT ![n] = rec]
  <1>1. /\ t \in Seq(Attempt) /\ Len(t) = Len(s) /\ DOMAIN t = DOMAIN s /\ DOMAIN s = 1..Len(s)
        /\ t[n] = rec /\ \A i \in DOMAIN s : i # n => t[i] = s[i]
    BY RewrittenAttempt
  <1> HIDE DEF t
  <1>2. GrantsOf(t) = [GrantsOf(s) EXCEPT ![n] = GrantOf(rec)]
    BY <1>1 DEF GrantsOf
  <1> QED
    BY <1>2 DEF t

\* A step that touches neither an attempt nor whether a row is leased is a stutter.
LEMMA SameStatusIsStutter ==
  ASSUME IInv, UNCHANGED attempts,
         \A e \in Deliveries : row'[e].status = "leased" <=> row[e].status = "leased"
  PROVE  UNCHANGED Lease!vars
  <1>1. MappedGrants' = MappedGrants
    BY DEF MappedGrants
  <1>2. MappedCurrent' = MappedCurrent
    BY DEF MappedCurrent, CurrentOf
  <1> QED
    BY <1>1, <1>2 DEF Lease!vars

LEMMA ClaimIsGrant ==
  ASSUME IInv, NEW d \in Deliveries, NEW o \in Owners, Claim(o, d)
  PROVE  Lease!Grant(d)
  <1> DEFINE rec == [owner |-> o, epoch |-> row[d].epoch + 1,
                     outcome |-> "open", work |-> "none"]
             c == CloseOpen(attempts[d], "lease_expired")
  <1>1. PICK at \in Readings :
          /\ row' = [row EXCEPT ![d] = LeasedRow(row[d], o, at)]
          /\ attempts' = [attempts EXCEPT ![d] = Append(c, rec)]
    BY DEF Claim
  <1>2. rec \in Attempt /\ rec.outcome = "open" /\ rec.work = "none"
    BY OneDelivery DEF Attempt, Outcomes, Work
  <1>3. /\ c \in Seq(Attempt) /\ Len(c) = Len(attempts[d])
        /\ GrantsOf(c) = Lease!Closed(GrantsOf(attempts[d]))
    BY OneDelivery, CloseOpenKeeps, ClosedGrants DEF Outcomes
  <1> HIDE DEF c, rec
  <1>4. /\ GrantsOf(Append(c, rec)) = Append(Lease!Closed(GrantsOf(attempts[d])), Lease!Fresh)
        /\ Len(Append(c, rec)) = Len(attempts[d]) + 1
    BY <1>2, <1>3, AppendedGrant
  <1>5. LeasedRow(row[d], o, at).status = "leased"
    BY DEF LeasedRow
  <1> DEFINE q == LeasedRow(row[d], o, at)
             t == Append(c, rec)
  <1>6. CurrentOf(q, t) = Len(attempts[d]) + 1
    BY <1>4, <1>5 DEF CurrentOf
  <1>7. Len(GrantsOf(attempts[d])) = Len(attempts[d])
    BY OneDelivery, GrantTypes
  <1>7a. row' = [row EXCEPT ![d] = q] /\ attempts' = [attempts EXCEPT ![d] = t]
    BY <1>1
  <1> HIDE DEF q, t
  <1>8. /\ MappedGrants' = [MappedGrants EXCEPT ![d] = GrantsOf(t)]
        /\ MappedCurrent' = [MappedCurrent EXCEPT ![d] = CurrentOf(q, t)]
        /\ MappedGrants[d] = GrantsOf(attempts[d])
    BY <1>7a DEF IInv, TypeOK, MappedGrants, MappedCurrent
  <1>9. GrantsOf(t) = Append(Lease!Closed(GrantsOf(attempts[d])), Lease!Fresh)
    BY <1>4 DEF t
  <1> QED
    BY <1>6, <1>7, <1>8, <1>9 DEF Lease!Grant

LEMMA HolderIsCurrent ==
  ASSUME IInv, NEW d \in Deliveries, NEW n \in DOMAIN attempts[d],
         NEW at \in Readings, HoldsLease(d, n, at)
  PROVE  CurrentOf(row[d], attempts[d]) = n /\ n # 0
  BY HolderFacts, OneDelivery, AttemptTypes DEF CurrentOf

LEMMA UpdateAttemptIsWrite ==
  ASSUME IInv, NEW d \in Deliveries, NEW n \in DOMAIN attempts[d], UpdateAttempt(d, n)
  PROVE  Lease!Write(d)
  <1> DEFINE rec == [attempts[d][n] EXCEPT !.work = "recorded"]
             t == [attempts[d] EXCEPT ![n] = rec]
  <1>1. PICK at \in Readings : /\ HoldsLease(d, n, at)
                             /\ attempts' = [attempts EXCEPT ![d][n].work = "recorded"]
    BY DEF UpdateAttempt
  <1>2. attempts' = [attempts EXCEPT ![d] = t] /\ row' = [row EXCEPT ![d] = row[d]]
    BY <1>1, OneDelivery DEF UpdateAttempt
  <1>3. attempts[d][n] \in Attempt /\ attempts[d][n].outcome = "open" /\ row[d].status = "leased"
        /\ n = Len(attempts[d]) /\ CurrentOf(row[d], attempts[d]) = n /\ n # 0
    BY <1>1, HolderFacts, HolderIsCurrent
  <1>4. rec \in Attempt /\ rec.outcome = "open" /\ rec.work = "recorded"
    BY <1>3 DEF Attempt, Work
  <1> HIDE DEF rec
  <1>a. GrantsOf(t) = [GrantsOf(attempts[d]) EXCEPT ![n] = GrantOf(rec)]
    BY <1>4, OneDelivery, RewrittenGrant
  <1>5. GrantOf(rec) = [status |-> "open", work |-> "recorded"]
    BY <1>4 DEF GrantOf
  <1>b. GrantsOf(attempts[d])[n] = GrantOf(attempts[d][n])
    BY OneDelivery, GrantTypes, AttemptTypes
  <1>6. GrantsOf(attempts[d])[n].status = "open"
    BY <1>3, <1>b DEF GrantOf
  <1>7. Len(t) = Len(attempts[d]) /\ t \in Seq(Attempt)
    BY <1>4, OneDelivery, RewrittenAttempt
  <1> HIDE DEF t
  <1>8. CurrentOf(row[d], t) = n
    BY <1>3, <1>7 DEF CurrentOf
  <1>9. /\ MappedGrants' = [MappedGrants EXCEPT ![d] = GrantsOf(t)]
        /\ MappedCurrent' = [MappedCurrent EXCEPT ![d] = n]
        /\ MappedGrants[d] = GrantsOf(attempts[d])
        /\ MappedCurrent[d] = n
    <2>1. /\ MappedGrants' = [MappedGrants EXCEPT ![d] = GrantsOf(t)]
          /\ MappedCurrent' = [MappedCurrent EXCEPT ![d] = CurrentOf(row[d], t)]
          /\ MappedGrants[d] = GrantsOf(attempts[d])
          /\ MappedCurrent[d] = CurrentOf(row[d], attempts[d])
      BY <1>2, <1>7, OneDelivery DEF IInv, TypeOK, MappedGrants, MappedCurrent
    <2> QED
      BY <1>3, <1>8, <2>1
  <1>10. MappedCurrent' = MappedCurrent
    BY <1>9 DEF MappedCurrent
  <1>11. MappedGrants' = [MappedGrants EXCEPT ![d][MappedCurrent[d]] = [status |-> @.status, work |-> "recorded"]]
    <2>1. MappedGrants' = [MappedGrants EXCEPT ![d] =
                            [MappedGrants[d] EXCEPT ![n] = [status |-> "open", work |-> "recorded"]]]
      BY <1>a, <1>5, <1>9
    <2>2. MappedGrants[d][n].status = "open" /\ MappedCurrent[d] = n
      BY <1>6, <1>9
    <2> QED
      BY <2>1, <2>2
  <1> QED
    BY <1>3, <1>9, <1>10, <1>11 DEF Lease!Write

LEMMA ReleaseIsYield ==
  ASSUME IInv, NEW d \in Deliveries, NEW n \in DOMAIN attempts[d], Release(d, n)
  PROVE  Lease!Yield(d)
  <1>1. PICK at \in Readings :
          /\ HoldsLease(d, n, at)
          /\ row' = [row EXCEPT ![d] = Unleased(row[d], "ready", at, row[d].signal)]
    BY DEF Release
  <1>2. attempts' = [attempts EXCEPT ![d] = attempts[d]] /\ UNCHANGED attempts
    BY OneDelivery DEF Release
  <1>3. CurrentOf(row[d], attempts[d]) = n /\ n # 0
    BY <1>1, HolderIsCurrent
  <1> DEFINE q == Unleased(row[d], "ready", at, row[d].signal)
  <1>4. CurrentOf(q, attempts[d]) = 0
    BY DEF CurrentOf, Unleased
  <1>5. UNCHANGED MappedGrants
    BY <1>2 DEF MappedGrants
  <1>5a. row' = [row EXCEPT ![d] = q]
    BY <1>1
  <1> HIDE DEF q
  <1>6. /\ MappedCurrent' = [MappedCurrent EXCEPT ![d] = CurrentOf(q, attempts[d])]
        /\ MappedCurrent[d] = CurrentOf(row[d], attempts[d])
    BY <1>2, <1>5a DEF IInv, TypeOK, MappedGrants, MappedCurrent
  <1> QED
    BY <1>3, <1>4, <1>5, <1>6 DEF Lease!Yield

LEMMA CancelIsVoid ==
  ASSUME IInv, NEW d \in Deliveries, Cancel(d)
  PROVE  Lease!Void(d)
  <1> DEFINE c == CloseOpen(attempts[d], "cancelled")
             q == FencedRow(row[d])
  <1>1. row' = [row EXCEPT ![d] = q] /\ attempts' = [attempts EXCEPT ![d] = c]
    BY DEF Cancel
  <1>2. GrantsOf(c) = Lease!Closed(GrantsOf(attempts[d]))
    BY OneDelivery, ClosedGrants DEF Outcomes
  <1>3. CurrentOf(q, c) = 0
    BY DEF CurrentOf, FencedRow
  <1> HIDE DEF c, q
  <1>4. /\ MappedGrants' = [MappedGrants EXCEPT ![d] = GrantsOf(c)]
        /\ MappedCurrent' = [MappedCurrent EXCEPT ![d] = CurrentOf(q, c)]
        /\ MappedGrants[d] = GrantsOf(attempts[d])
    BY <1>1 DEF IInv, TypeOK, MappedGrants, MappedCurrent
  <1> QED
    BY <1>2, <1>3, <1>4 DEF Lease!Void

LEMMA FinalizeIsSettle ==
  ASSUME IInv, NEW d \in Deliveries, NEW n \in DOMAIN attempts[d],
         NEW kind \in OutcomeKinds, Finalize(d, n, kind)
  PROVE  Lease!Settle(d)
  <1>0. PICK at \in Readings :
          /\ HoldsLease(d, n, at)
          /\ \E o \in Dispositions(at), publish \in BOOLEAN :
               /\ row' = [row EXCEPT ![d] = Unleased(row[d], o.status, o.available, o.signal)]
               /\ attempts' = [attempts EXCEPT ![d][n] = Finished(@, kind, publish)]
    BY DEF Finalize
  <1>1. PICK o \in Dispositions(at), publish \in BOOLEAN :
          /\ row' = [row EXCEPT ![d] = Unleased(row[d], o.status, o.available, o.signal)]
          /\ attempts' = [attempts EXCEPT ![d][n] = Finished(@, kind, publish)]
    BY <1>0
  <1> DEFINE rec == Finished(attempts[d][n], kind, publish)
             t == [attempts[d] EXCEPT ![n] = rec]
             q == Unleased(row[d], o.status, o.available, o.signal)
  <1>2. /\ attempts[d][n] \in Attempt /\ CurrentOf(row[d], attempts[d]) = n /\ n # 0
    BY <1>0, HolderFacts, HolderIsCurrent
  <1>3. o.status # "leased"
    BY DEF Dispositions
  <1>4. /\ rec \in Attempt
        /\ rec.outcome # "open" /\ rec.work \in {attempts[d][n].work, "recorded"}
    BY <1>2 DEF Attempt, OutcomeKinds, Finished, Work
  <1>5. GrantOf(rec) = [status |-> "closed", work |-> rec.work]
    BY <1>4 DEF GrantOf
  <1>6. row' = [row EXCEPT ![d] = q] /\ attempts' = [attempts EXCEPT ![d] = t]
    BY <1>1
  <1>7. CurrentOf(q, t) = 0
    BY <1>3 DEF CurrentOf, Unleased
  <1> HIDE DEF rec
  <1>8. GrantsOf(t) = [GrantsOf(attempts[d]) EXCEPT ![n] = GrantOf(rec)]
    BY <1>4, OneDelivery, RewrittenGrant
  <1>9. GrantsOf(attempts[d])[n] = GrantOf(attempts[d][n])
    BY OneDelivery, GrantTypes, AttemptTypes
  <1>10. GrantsOf(attempts[d])[n].work = attempts[d][n].work
    BY <1>9 DEF GrantOf
  <1> HIDE DEF q, t
  <1>11. /\ MappedGrants' = [MappedGrants EXCEPT ![d] = GrantsOf(t)]
         /\ MappedCurrent' = [MappedCurrent EXCEPT ![d] = 0]
         /\ MappedGrants[d] = GrantsOf(attempts[d])
         /\ MappedCurrent[d] = n
    BY <1>2, <1>6, <1>7 DEF IInv, TypeOK, MappedGrants, MappedCurrent
  <1>12. rec.work \in {MappedGrants[d][MappedCurrent[d]].work, "recorded"}
    BY <1>4, <1>10, <1>11
  <1>13. MappedGrants' = [MappedGrants EXCEPT ![d][MappedCurrent[d]] =
                            [status |-> "closed", work |-> rec.work]]
    BY <1>5, <1>8, <1>11
  <1> QED
    BY <1>2, <1>11, <1>12, <1>13 DEF Lease!Settle

LEMMA HeartbeatIsStutter ==
  ASSUME IInv, NEW d \in Deliveries, NEW n \in DOMAIN attempts[d], Heartbeat(d, n)
  PROVE  UNCHANGED Lease!vars
  <1>1. PICK at \in Readings : row' = [row EXCEPT ![d].expires = at + LeaseDuration]
    BY DEF Heartbeat
  <1>2. \A e \in Deliveries : row'[e].status = row[e].status
    BY <1>1, OneDelivery DEF IInv, TypeOK, QueueRow
  <1>3. UNCHANGED attempts
    BY DEF Heartbeat
  <1> QED
    BY <1>2, <1>3, SameStatusIsStutter

LEMMA InitIsLeaseInit == Init => Lease!Init
  BY NoGrants DEF Init, Lease!Init, MappedGrants, MappedCurrent, CurrentOf, NoRow

LEMMA StepIsLeaseStep == IInv /\ [Next]_vars => [Lease!Next]_(Lease!vars)
  <1> SUFFICES ASSUME IInv, [Next]_vars PROVE Lease!Next \/ UNCHANGED Lease!vars
    OBVIOUS
  <1>2. CASE Tick \/ UNCHANGED vars
    BY <1>2, SameStatusIsStutter DEF Tick, vars
  <1>3. ASSUME NEW d \in Deliveries, Admit(d) \/ \E next \in DirectMoves : Transition(d, next)
        PROVE  UNCHANGED Lease!vars
    BY <1>3, SameStatusIsStutter DEF Admit, Transition
  <1>4. ASSUME NEW d \in Deliveries, AdmitRunnable(d) \/ AdmitRunnableAgain(d) \/ QueueAdmitted(d)
        PROVE  UNCHANGED Lease!vars
    <2>1. UNCHANGED attempts
      BY <1>4 DEF AdmitRunnable, AdmitRunnableAgain, QueueAdmitted
    <2>2. ASSUME NEW e \in Deliveries PROVE row'[e].status = "leased" <=> row[e].status = "leased"
      <3>1. CASE AdmitRunnable(d)
        BY <3>1 DEF AdmitRunnable, IInv, TypeOK, AbsentIsUnqueued, ReadyRow
      <3>2. CASE AdmitRunnableAgain(d)
        BY <3>2 DEF AdmitRunnableAgain, IInv, TypeOK, EnsureRow, ReadyRow
      <3>3. CASE QueueAdmitted(d)
        BY <3>3 DEF QueueAdmitted, IInv, TypeOK, ReadyRow
      <3> QED
        BY <1>4, <3>1, <3>2, <3>3
    <2> QED
      BY <2>1, <2>2, SameStatusIsStutter
  <1>5. ASSUME NEW d \in Deliveries, NEW s \in Signals, SignalWaiting(d, s)
        PROVE  UNCHANGED Lease!vars
    <2>1. \A e \in Deliveries : row'[e].status = "leased" <=> row[e].status = "leased"
      BY <1>5 DEF SignalWaiting, IInv, TypeOK, Unleased
    <2> QED
      BY <1>5, <2>1, SameStatusIsStutter DEF SignalWaiting
  <1>6. ASSUME NEW d \in Deliveries, NEW o \in Owners, Claim(o, d) PROVE Lease!Next
    BY <1>6, ClaimIsGrant DEF Lease!Next
  <1>7. ASSUME NEW d \in Deliveries, Cancel(d) PROVE Lease!Next
    BY <1>7, CancelIsVoid DEF Lease!Next
  <1>8. ASSUME NEW d \in Deliveries, NEW n \in DOMAIN attempts[d], HolderCall(d, n)
        PROVE  Lease!Next \/ UNCHANGED Lease!vars
    <2>1. CASE Heartbeat(d, n)
      BY <2>1, HeartbeatIsStutter
    <2>2. CASE UpdateAttempt(d, n)
      BY <2>2, UpdateAttemptIsWrite DEF Lease!Next
    <2>3. CASE Release(d, n)
      BY <2>3, ReleaseIsYield DEF Lease!Next
    <2>4. CASE \E next \in LeaseMoves : TransitionLease(d, n, next)
      BY <2>4, SameStatusIsStutter DEF TransitionLease
    <2>5. CASE \E kind \in OutcomeKinds : Finalize(d, n, kind)
      BY <2>5, FinalizeIsSettle DEF Lease!Next
    <2> QED
      BY <1>8, <2>1, <2>2, <2>3, <2>4, <2>5 DEF HolderCall
  <1> QED
    BY <1>2, <1>3, <1>4, <1>5, <1>6, <1>7, <1>8 DEF Next

\* The queue is a fenced lease: only the current attempt can be written, a claim closes
\* every earlier one, and a finished attempt is never written again, however late its
\* worker comes back and however wrong its clock is.
THEOREM LeaseRefinement == Spec => ImplementsLease
  BY InitIsLeaseInit, StepIsLeaseStep, Invariance, PTL DEF Spec, ImplementsLease, Lease!Spec
=============================================================================
