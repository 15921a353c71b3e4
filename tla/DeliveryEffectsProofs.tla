----------------------- MODULE DeliveryEffectsProofs ------------------------
(***************************************************************************)
(* Theorems about DeliveryEffects, for any number of attempts, rounds and  *)
(* calls.  The argument of EffectCorrectness: an attempt gets past the     *)
(* executor's checks only when every operation of the earlier ones has a   *)
(* receipt in a checkpointed round; it resumes after the last such round;  *)
(* and the earlier attempts, having lost the lease, add neither operations *)
(* nor rounds afterwards.  So its operations lie in later rounds.          *)
(*                                                                         *)
(* The second half is about the provider calls.  Every checkpoint is of a  *)
(* billed reply and no two are of the same one, so where CheckCount counts *)
(* as many checkpoints as reconciled bills, each bill has its checkpoint:  *)
(* the reply is in the conversation the attempt resumes, or it ended it.   *)
(***************************************************************************)
EXTENDS DeliveryEffects, TLAPS, FiniteSetTheorems

Past    == {"usage", "counts", "resume", "reserve", "send", "account", "act", "answer", "publish"}
Talking == {"reserve", "send", "account", "act", "answer"}
Ended   == {"park", "gone"}

\* The operation has its receipt, in a round its attempt checkpointed.
Kept(x) == Receipt(x) /\ \E k \in Rounds : k >= x[2] /\ <<x[1], k>> \in rounds

\* Only the attempt claimed last can hold the lease.
LatestHolds == holder \in {0, issued}

\* Nothing is recorded of an attempt that was not claimed.
OnlyClaimed ==
  /\ \A n \in Attempts : proc[n].stage # "idle" => n <= issued
  /\ \A x \in OpIds : ops[x].status # "none" => x[1] <= issued
  /\ \A b \in rounds : b[1] <= issued

ActsInRound == \A n \in Attempts : proc[n].stage = "act" => proc[n].at \in Rounds

DoneWasBegun == \A x \in done : ops[x].status \notin {"none", "prepared"}

\* An attempt that reconciled the operation of another one does not continue.
ForeignReceipts ==
  \A x \in OpIds : ops[x].status # "none" /\ ops[x].by # x[1] =>
    /\ ops[x].status = "reconciled"
    /\ ops[x].by \in Attempts
    /\ proc[ops[x].by].stage \in Ended

\* What CheckEffects established stays true.
CheckedOnce ==
  \A m \in Attempts : proc[m].stage \in Past =>
    \A x \in OpIds : x[1] < m /\ ops[x].status # "none" => Kept(x)

RoundsAdvance == \A b, e \in rounds : b[1] < e[1] => b[2] < e[2]

TalkIsAhead ==
  \A m \in Attempts : proc[m].stage \in Talking =>
    \A b \in rounds : b[1] < m => b[2] < proc[m].at

OpsAreAhead ==
  \A y \in OpIds : ops[y].status # "none" =>
    \A b \in rounds : b[1] < y[1] => b[2] < y[2]

OpsAreKept ==
  \A x, y \in OpIds : x[1] < y[1] /\ ops[x].status # "none" /\ ops[y].status # "none" => Kept(x)

IInv ==
  /\ TypeOK /\ LatestHolds /\ OnlyClaimed /\ ActsInRound /\ DoneWasBegun
  /\ ForeignReceipts /\ CheckedOnce
  /\ RoundsAdvance /\ TalkIsAhead /\ OpsAreAhead /\ OpsAreKept /\ ReceiptsAreTrue

-----------------------------------------------------------------------------
\* The bounds are numbers, so the attempts, rounds and positions are.
LEMMA Numbers ==
  /\ MaxAttempts \in Nat /\ MaxRounds \in Nat
  /\ \A n \in Attempts : n \in Nat
  /\ \A k \in Rounds : k \in Nat
  /\ \A k \in Positions : k \in Nat
BY BoundsAssumption DEF BoundsAssumption, Attempts, Rounds, Positions

\* The components of an operation id.
LEMMA OpIdParts ==
  ASSUME NEW x \in OpIds
  PROVE  x[1] \in Attempts /\ x[2] \in Rounds /\ x[3] \in Calls
BY DEF OpIds

\* Where an executor goes within the reply it is at.
LEMMA Going ==
  ASSUME proc \in [Attempts -> Proc], NEW n \in Attempts, NEW stage \in Stages, GoTo(n, stage)
  PROVE  /\ proc' \in [Attempts -> Proc]
         /\ proc'[n].stage = stage /\ proc'[n].at = proc[n].at
         /\ \A m \in Attempts : m # n => proc'[m] = proc[m]
<1>1. proc[n] \in Proc
  OBVIOUS
<1>2. [proc[n] EXCEPT !.stage = stage] \in Proc
  BY <1>1 DEF Proc
<1>3. proc' = [proc EXCEPT ![n] = [proc[n] EXCEPT !.stage = stage]]
  BY DEF GoTo
<1>4. [proc[n] EXCEPT !.stage = stage].stage = stage /\ [proc[n] EXCEPT !.stage = stage].at = proc[n].at
  BY <1>1 DEF Proc
<1>. QED BY <1>2, <1>3, <1>4

\* Where it goes when it turns to another reply.
LEMMA GoingToReply ==
  ASSUME proc \in [Attempts -> Proc], NEW n \in Attempts, NEW stage \in Stages, NEW k \in Positions,
         GoToReply(n, stage, k)
  PROVE  /\ proc' \in [Attempts -> Proc]
         /\ proc'[n].stage = stage /\ proc'[n].at = k
         /\ \A m \in Attempts : m # n => proc'[m] = proc[m]
<1>1. [stage |-> stage, at |-> k, calls |-> {}] \in Proc
  BY DEF Proc
<1>2. proc' = [proc EXCEPT ![n] = [stage |-> stage, at |-> k, calls |-> {}]]
  BY DEF GoToReply
<1>. QED BY <1>1, <1>2

\* Where it goes when it leaves the conversation.
LEMMA Leaving ==
  ASSUME proc \in [Attempts -> Proc], NEW n \in Attempts, NEW stage \in Stages, Leave(n, stage)
  PROVE  /\ proc' \in [Attempts -> Proc]
         /\ proc'[n].stage = stage
         /\ \A m \in Attempts : m # n => proc'[m] = proc[m]
<1>1. 1 \in Positions
  BY Numbers DEF Positions
<1>2. GoToReply(n, stage, 1)
  BY DEF Leave
<1>. QED BY <1>1, <1>2, GoingToReply

\* A record of the journal advances: class and id stay.
LEMMA RecordAdvances ==
  ASSUME ops \in [OpIds -> Operation], NEW x \in OpIds, NEW status \in OpStatus, NEW n \in Attempts,
         Advance(x, status, n)
  PROVE  /\ ops' \in [OpIds -> Operation]
         /\ ops'[x].status = status /\ ops'[x].class = ops[x].class /\ ops'[x].by = n
         /\ \A z \in OpIds : z # x => ops'[z] = ops[z]
<1>1. ops[x] \in Operation /\ n \in 0..MaxAttempts
  BY Numbers DEF Attempts
<1>2. [status |-> status, class |-> ops[x].class, by |-> n] \in Operation
  BY <1>1 DEF Operation
<1>3. ops' = [ops EXCEPT ![x] = [status |-> status, class |-> ops[x].class, by |-> n]]
  BY <1>1 DEF Advance, Operation
<1>. QED BY <1>2, <1>3

\* Every initial state satisfies the inductive invariant: nothing is recorded.
LEMMA InitIInv == Init => IInv
<1> SUFFICES ASSUME Init PROVE IInv
  OBVIOUS
<1>1. TypeOK
  <2>1. proc \in [Attempts -> Proc]
    BY Numbers DEF Init, Proc, Positions, Stages
  <2>2. ops \in [OpIds -> Operation]
    BY Numbers DEF Init, Operation, NoOperation, OpStatus, ReplayClass
  <2>3. usage \in [Billings -> UsageStatus]
    BY DEF Init, UsageStatus
  <2>4. file \in [Calls -> 0..MaxRounds]
    BY Numbers DEF Init
  <2>. QED BY <2>1, <2>2, <2>3, <2>4, Numbers DEF TypeOK, Init
<1>2. \A x \in OpIds : ops[x].status = "none"
  BY DEF Init, NoOperation
<1>3. \A n \in Attempts : proc[n].stage = "idle"
  BY DEF Init
<1>4. rounds = {} /\ done = {}
  BY DEF Init
<1>. QED
  BY <1>1, <1>2, <1>3, <1>4
  DEF IInv, Init, LatestHolds, OnlyClaimed, ActsInRound, DoneWasBegun, ForeignReceipts, CheckedOnce,
      RoundsAdvance, TalkIsAhead, OpsAreAhead, OpsAreKept, ReceiptsAreTrue, Receipt, Past, Talking

-----------------------------------------------------------------------------
\* A step in which one executor moves on and neither the journal nor the rounds change
\* keeps what IInv says of them, if the executor has what its new stage asks for.
LEMMA Arriving ==
  ASSUME IInv, TypeOK', NEW n \in Attempts,
         proc[n].stage # "idle",
         \A m \in Attempts : m # n => proc'[m] = proc[m],
         UNCHANGED <<issued, ops, rounds, done>>,
         holder' \in {0, holder},
         proc'[n].stage \in Past => \A x \in OpIds : x[1] < n /\ ops[x].status # "none" => Kept(x),
         proc'[n].stage \in Talking => \A b \in rounds : b[1] < n => b[2] < proc'[n].at,
         proc'[n].stage = "act" => proc'[n].at \in Rounds,
         proc[n].stage \in Ended => proc'[n].stage \in Ended
  PROVE  IInv'
<1>. USE Numbers DEF IInv
<1>1. LatestHolds' /\ OnlyClaimed' /\ ActsInRound' /\ DoneWasBegun'
  BY DEF LatestHolds, OnlyClaimed, ActsInRound, DoneWasBegun
<1>2. ForeignReceipts'
  BY DEF ForeignReceipts
<1>3. \A x \in OpIds : Kept(x) <=> Kept(x)'
  BY DEF Kept, Receipt
<1>4. CheckedOnce'
  BY <1>3 DEF CheckedOnce
<1>5. RoundsAdvance' /\ OpsAreAhead'
  BY DEF RoundsAdvance, OpsAreAhead
<1>6. OpsAreKept'
  BY <1>3 DEF OpsAreKept
<1>7. ReceiptsAreTrue'
  BY DEF ReceiptsAreTrue, Receipt
<1>8. TalkIsAhead'
  BY DEF TalkIsAhead
<1>. QED BY <1>1, <1>2, <1>4, <1>5, <1>6, <1>7, <1>8

\* The usual case: the executor neither enters the conversation nor moves back in it.
LEMMA Moving ==
  ASSUME IInv, TypeOK', NEW n \in Attempts,
         proc[n].stage # "idle",
         \A m \in Attempts : m # n => proc'[m] = proc[m],
         UNCHANGED <<issued, ops, rounds, done>>,
         holder' \in {0, holder},
         proc'[n].stage \in Past => proc[n].stage \in Past,
         proc'[n].stage \in Talking => proc[n].stage \in Talking /\ proc[n].at <= proc'[n].at,
         proc'[n].stage = "act" => proc'[n].at \in Rounds,
         proc[n].stage \in Ended => proc'[n].stage \in Ended
  PROVE  IInv'
<1>1. proc'[n].stage \in Past => \A x \in OpIds : x[1] < n /\ ops[x].status # "none" => Kept(x)
  BY DEF IInv, CheckedOnce
<1>2. ASSUME proc'[n].stage \in Talking, NEW b \in rounds, b[1] < n
      PROVE  b[2] < proc'[n].at
  <2>1. b[2] < proc[n].at /\ proc[n].at <= proc'[n].at
    BY <1>2 DEF IInv, TalkIsAhead
  <2>2. b[2] \in Nat /\ proc[n].at \in Nat /\ proc'[n].at \in Nat
    BY Numbers DEF IInv, TypeOK, Proc
  <2>. QED BY <2>1, <2>2
<1>. QED BY <1>1, <1>2, Arriving

\* A step of the lease alone, of the workspace, or of the outside world's effects.
LEMMA Elsewhere ==
  ASSUME IInv, TypeOK',
         UNCHANGED <<issued, proc, ops, rounds>>,
         holder' \in {0, holder, issued},
         done \subseteq done',
         \A x \in done' : ops[x].status \notin {"none", "prepared"}
  PROVE  IInv'
<1>. USE Numbers DEF IInv
<1>1. LatestHolds' /\ OnlyClaimed' /\ ActsInRound' /\ DoneWasBegun'
  BY DEF LatestHolds, OnlyClaimed, ActsInRound, DoneWasBegun
<1>2. ForeignReceipts' /\ RoundsAdvance' /\ OpsAreAhead' /\ TalkIsAhead'
  BY DEF ForeignReceipts, RoundsAdvance, OpsAreAhead, TalkIsAhead
<1>3. \A x \in OpIds : Kept(x) <=> Kept(x)'
  BY DEF Kept, Receipt
<1>4. CheckedOnce' /\ OpsAreKept'
  BY <1>3 DEF CheckedOnce, OpsAreKept
<1>5. ReceiptsAreTrue'
  BY DEF ReceiptsAreTrue, Receipt
<1>. QED BY <1>1, <1>2, <1>4, <1>5

\* A record of the journal advances: it is nobody's first record, and a receipt stays one.
LEMMA Advancing ==
  ASSUME IInv, TypeOK', NEW x \in OpIds,
         \A z \in OpIds : z # x => ops'[z] = ops[z],
         UNCHANGED <<issued, holder, rounds, done>>,
         ops[x].status # "none",
         ops'[x].status \notin {"none", "prepared"},
         Receipt(x) => Receipt(x)',
         Receipt(x)' /\ x \notin done => ops'[x].class = "fingerprinted_write" /\ ops'[x].status = "reconciled",
         ops'[x].by = x[1] \/ (/\ ops'[x].status = "reconciled"
                               /\ ops'[x].by \in Attempts /\ proc'[ops'[x].by].stage \in Ended),
         \A m \in Attempts : proc'[m] = proc[m]
                             \/ (proc[m].stage # "idle" /\ proc'[m].stage \in Ended)
  PROVE  IInv'
<1>. USE Numbers DEF IInv
<1>0. LatestHolds' /\ DoneWasBegun'
  BY DEF LatestHolds, DoneWasBegun, TypeOK
<1>1. OnlyClaimed'
  <2>1. \A m \in Attempts : proc'[m].stage # "idle" => m <= issued
    BY DEF OnlyClaimed
  <2>2. \A z \in OpIds : ops'[z].status # "none" => z[1] <= issued
    BY DEF OnlyClaimed
  <2>. QED BY <2>1, <2>2 DEF OnlyClaimed
<1>2. ActsInRound' /\ TalkIsAhead'
  BY DEF ActsInRound, TalkIsAhead, Ended, Talking
<1>3. ForeignReceipts'
  BY DEF ForeignReceipts
<1>4. \A z \in OpIds : Kept(z) => Kept(z)'
  BY DEF Kept, Receipt
<1>5. CheckedOnce'
  BY <1>4 DEF CheckedOnce, Ended, Past
<1>6. RoundsAdvance' /\ OpsAreAhead'
  BY DEF RoundsAdvance, OpsAreAhead
<1>7. OpsAreKept'
  BY <1>4 DEF OpsAreKept
<1>8. ReceiptsAreTrue'
  BY DEF ReceiptsAreTrue, Receipt
<1>. QED BY <1>0, <1>1, <1>2, <1>3, <1>5, <1>6, <1>7, <1>8

-----------------------------------------------------------------------------
\* While an attempt holds the lease, no later one was claimed (verifyLease).
LEMMA HolderIsLatest ==
  ASSUME LatestHolds, TypeOK, NEW n \in Attempts, Holds(n)
  PROVE  n = issued
BY Numbers DEF LatestHolds, TypeOK, Holds, Attempts

\* The first record of an operation: its attempt holds the lease, got past the checks and
\* is ahead of every earlier round.
LEMMA Preparing ==
  ASSUME IInv, TypeOK', NEW n \in Attempts, NEW c \in Calls, Prepare(n, c)
  PROVE  IInv'
<1>. DEFINE y == <<n, proc[n].at, c>>
<1>. USE Numbers DEF IInv
<1>1. y \in OpIds /\ y[1] = n /\ y[2] = proc[n].at
  BY DEF Prepare, Acts, In, ActsInRound, OpIds
<1>2. /\ ops[y].status = "none"
      /\ ops'[y].status = "prepared" /\ ops'[y].by = n
      /\ \A z \in OpIds : z # y => ops'[z] = ops[z]
      /\ proc[n].stage = "act"
      /\ UNCHANGED <<issued, holder, proc, rounds, done>>
  <2>1. PICK class \in Classes[c] :
          ops' = [ops EXCEPT ![y] = [status |-> "prepared", class |-> class, by |-> n]]
    BY DEF Prepare, OpOf
  <2>2. ops \in [OpIds -> Operation]
    BY DEF TypeOK
  <2>3. ops[y].status = "none" /\ proc[n].stage = "act"
    BY DEF Prepare, Acts, In, OpOf
  <2>4. UNCHANGED <<issued, holder, proc, rounds, done>>
    BY DEF Prepare, world
  <2>. QED BY <1>1, <2>1, <2>2, <2>3, <2>4
<1>3. n = issued
  BY HolderIsLatest DEF Prepare
<1>. HIDE DEF y
<1>a. LatestHolds' /\ ActsInRound'
  BY <1>2 DEF LatestHolds, ActsInRound
<1>b. DoneWasBegun'
  BY <1>2 DEF DoneWasBegun, TypeOK
<1>4. OnlyClaimed'
  <2>1. \A z \in OpIds : ops'[z].status # "none" => z[1] <= issued
    BY <1>1, <1>2, <1>3 DEF OnlyClaimed
  <2>. QED BY <2>1, <1>2 DEF OnlyClaimed
<1>5. ForeignReceipts'
  BY <1>1, <1>2 DEF ForeignReceipts
<1>6. \A z \in OpIds : Kept(z) => Kept(z)'
  BY <1>2 DEF Kept, Receipt
<1>7. CheckedOnce'
  <2> SUFFICES ASSUME NEW m \in Attempts, proc'[m].stage \in Past, NEW x \in OpIds,
                      x[1] < m, ops'[x].status # "none"
               PROVE  Kept(x)'
    BY DEF CheckedOnce
  <2>1. m <= issued
    BY <1>2 DEF OnlyClaimed, Past
  <2>2. x # y
    BY <2>1, <1>1, <1>3
  <2>. QED BY <2>2, <1>2, <1>6 DEF CheckedOnce
<1>8. RoundsAdvance' /\ TalkIsAhead'
  BY <1>2 DEF RoundsAdvance, TalkIsAhead
<1>9. OpsAreAhead'
  BY <1>1, <1>2 DEF OpsAreAhead, TalkIsAhead, Talking
<1>10. OpsAreKept'
  <2> SUFFICES ASSUME NEW x \in OpIds, NEW z \in OpIds, x[1] < z[1],
                      ops'[x].status # "none", ops'[z].status # "none"
               PROVE  Kept(x)'
    BY DEF OpsAreKept
  <2>1. z[1] <= issued
    BY <1>1, <1>2, <1>3 DEF OnlyClaimed
  <2>2. x # y
    BY <2>1, <1>1, <1>3, OpIdParts
  <2>3. CASE z = y
    BY <2>2, <2>3, <1>1, <1>2, <1>6 DEF CheckedOnce, Past
  <2>4. CASE z # y
    BY <2>2, <2>4, <1>2, <1>6 DEF OpsAreKept
  <2>. QED BY <2>3, <2>4
<1>11. ReceiptsAreTrue'
  BY <1>2 DEF ReceiptsAreTrue, Receipt
<1>. QED BY <1>a, <1>b, <1>4, <1>5, <1>7, <1>8, <1>9, <1>10, <1>11

\* A tool round is checkpointed by the attempt claimed last, after every earlier round.
LEMMA Checkpointing ==
  ASSUME IInv, TypeOK', NEW n \in Attempts, CheckpointToolRound(n)
  PROVE  IInv'
<1>. DEFINE k == proc[n].at
<1>. DEFINE e == <<n, k>>
<1>. USE Numbers DEF IInv
<1>1. /\ proc[n].stage = "act" /\ k \in Rounds
      /\ rounds' = rounds \union {e}
      /\ proc'[n].stage = "reserve" /\ proc'[n].at = k + 1
      /\ \A m \in Attempts : m # n => proc'[m] = proc[m]
      /\ UNCHANGED <<issued, holder, ops, done>>
  <2>1. proc[n].stage = "act" /\ k \in Rounds
    BY DEF CheckpointToolRound, In, ActsInRound
  <2>2. rounds' = rounds \union {e} /\ UNCHANGED <<issued, holder, ops, done>>
    BY DEF CheckpointToolRound, Billing, world
  <2>3. proc' = [proc EXCEPT ![n] = [stage |-> "reserve", at |-> k + 1, calls |-> {}]]
    BY DEF CheckpointToolRound, GoToReply
  <2>4. proc \in [Attempts -> Proc]
    BY DEF TypeOK
  <2>. HIDE DEF k, e
  <2>. QED BY <2>1, <2>2, <2>3, <2>4
<1>2. e[1] = n /\ e[2] = k
  OBVIOUS
<1>3. n = issued
  BY HolderIsLatest DEF CheckpointToolRound
<1>4. \A b \in rounds : b[1] \in Nat /\ b[2] \in Nat
  BY DEF TypeOK
<1>. HIDE DEF k, e
<1>5. LatestHolds' /\ OnlyClaimed' /\ ActsInRound' /\ DoneWasBegun'
  BY <1>1, <1>2, <1>3 DEF LatestHolds, OnlyClaimed, ActsInRound, DoneWasBegun
<1>6. ForeignReceipts'
  BY <1>1 DEF ForeignReceipts, Ended
<1>7. \A z \in OpIds : Kept(z) => Kept(z)'
  BY <1>1 DEF Kept, Receipt
<1>8. CheckedOnce'
  BY <1>1, <1>7 DEF CheckedOnce, Past
<1>9. RoundsAdvance'
  <2> SUFFICES ASSUME NEW b \in rounds', NEW d \in rounds', b[1] < d[1]
               PROVE  b[2] < d[2]
    BY DEF RoundsAdvance
  <2>1. b \in rounds
    BY <1>1, <1>2, <1>3, <1>4 DEF OnlyClaimed
  <2>2. CASE d = e
    BY <2>1, <2>2, <1>1, <1>2 DEF TalkIsAhead, Talking, k
  <2>3. CASE d # e
    BY <2>1, <2>3, <1>1 DEF RoundsAdvance
  <2>. QED BY <2>2, <2>3
<1>10. TalkIsAhead'
  <2> SUFFICES ASSUME NEW m \in Attempts, proc'[m].stage \in Talking, NEW b \in rounds', b[1] < m
               PROVE  b[2] < proc'[m].at
    BY DEF TalkIsAhead
  <2>1. m <= issued
    BY <1>1, <1>3 DEF OnlyClaimed, Talking
  <2>2. b \in rounds
    BY <2>1, <1>1, <1>2, <1>3
  <2>3. CASE m = n
    <3>1. b[2] < k
      BY <2>2, <2>3, <1>1 DEF TalkIsAhead, Talking, k
    <3>. QED BY <3>1, <2>2, <2>3, <1>1, <1>4
  <2>4. CASE m # n
    BY <2>2, <2>4, <1>1 DEF TalkIsAhead
  <2>. QED BY <2>3, <2>4
<1>11. OpsAreAhead'
  <2> SUFFICES ASSUME NEW y \in OpIds, ops'[y].status # "none", NEW b \in rounds', b[1] < y[1]
               PROVE  b[2] < y[2]
    BY DEF OpsAreAhead
  <2>1. y[1] <= issued
    BY <1>1 DEF OnlyClaimed
  <2>2. b \in rounds
    BY <2>1, <1>1, <1>2, <1>3, OpIdParts
  <2>. QED BY <2>2, <1>1 DEF OpsAreAhead
<1>12. OpsAreKept'
  BY <1>1, <1>7 DEF OpsAreKept
<1>13. ReceiptsAreTrue'
  BY <1>1 DEF ReceiptsAreTrue, Receipt
<1>. QED BY <1>5, <1>6, <1>8, <1>9, <1>10, <1>11, <1>12, <1>13

-----------------------------------------------------------------------------
\* Every step keeps the types; an executor that acts is in a tool round.
LEMMA TypeStep ==
  ASSUME TypeOK, ActsInRound, [Next]_vars
  PROVE  TypeOK'
<1>. USE Numbers DEF TypeOK, ledger, world
<1>1. CASE UNCHANGED vars
  BY <1>1 DEF vars
<1>2. CASE Claim
  <2>1. issued + 1 \in Attempts
    BY <1>2 DEF Claim, Attempts
  <2>2. proc' \in [Attempts -> Proc]
    BY <1>2, <2>1, Going DEF Claim, Stages
  <2>. QED BY <1>2, <2>1, <2>2 DEF Claim, Attempts
<1>3. CASE Expire \/ Revive \/ Wake
  BY <1>3 DEF Expire, Revive, Wake
<1>4. ASSUME NEW n \in Attempts, CheckEffects(n)
      PROVE  TypeOK'
  <2>1. proc' \in [Attempts -> Proc]
    BY <1>4, Going, Leaving DEF CheckEffects, Stages
  <2>2. ops' \in [OpIds -> Operation]
    BY <1>4, RecordAdvances DEF CheckEffects, OpStatus
  <2>. QED BY <1>4, <2>1, <2>2 DEF CheckEffects
<1>5. ASSUME NEW n \in Attempts, CheckUsage(n) \/ CheckCount(n)
      PROVE  TypeOK'
  <2>1. proc' \in [Attempts -> Proc]
    BY <1>5, Going, Leaving DEF CheckUsage, CheckCount, Stages
  <2>. QED BY <1>5, <2>1 DEF CheckUsage, CheckCount
<1>6. ASSUME NEW n \in Attempts, Resume(n)
      PROVE  TypeOK'
  <2>1. proc' \in [Attempts -> Proc]
    BY <1>6, GoingToReply, Leaving DEF Resume, Stages
  <2>. QED BY <1>6, <2>1 DEF Resume
<1>7. ASSUME NEW n \in Attempts, Reserve(n) \/ Send(n) \/ NotSent(n)
      PROVE  TypeOK'
  <2>1. proc' \in [Attempts -> Proc]
    BY <1>7, Going, Leaving DEF Reserve, Send, NotSent, Stages
  <2>2. Billing(n) \in Billings
    BY DEF Billing, Billings, Proc
  <2>3. usage' \in [Billings -> UsageStatus]
    BY <1>7, <2>2 DEF Reserve, Send, NotSent, UsageStatus
  <2>. QED BY <1>7, <2>1, <2>2, <2>3 DEF Reserve, Send, NotSent
<1>8. ASSUME NEW n \in Attempts, Account(n)
      PROVE  TypeOK'
  <2>1. proc' \in [Attempts -> Proc]
    <3>1. CASE GoTo(n, "answer")
      BY <3>1, Going DEF Stages
    <3>2. ASSUME proc[n].at \in Rounds,
                 NEW calls \in SUBSET MayCall[proc[n].at],
                 proc' = [proc EXCEPT ![n] = [stage |-> "act", at |-> @.at, calls |-> calls]]
          PROVE  proc' \in [Attempts -> Proc]
      <4>1. calls \in SUBSET Calls
        BY <3>2, MayCallAssumption DEF MayCallAssumption, Rounds
      <4>2. [stage |-> "act", at |-> proc[n].at, calls |-> calls] \in Proc
        BY <4>1 DEF Proc, Stages
      <4>. QED BY <3>2, <4>2
    <3>. QED BY <1>8, <3>1, <3>2 DEF Account
  <2>2. Billing(n) \in Billings
    BY DEF Billing, Billings, Proc
  <2>3. usage' \in [Billings -> UsageStatus]
    BY <1>8, <2>2 DEF Account, UsageStatus
  <2>. QED BY <1>8, <2>1, <2>3 DEF Account
<1>9. ASSUME NEW n \in Attempts, NEW c \in Calls,
             Prepare(n, c) \/ Begin(n, c) \/ Perform(n, c) \/ Observe(n, c)
      PROVE  TypeOK'
  <2>1. proc[n].at \in Rounds /\ OpOf(n, c) \in OpIds
    BY <1>9 DEF Prepare, Begin, Perform, Observe, Acts, In, ActsInRound, OpOf, OpIds
  <2>2. CASE Prepare(n, c)
    <3>1. PICK class \in Classes[c] :
            ops' = [ops EXCEPT ![OpOf(n, c)] = [status |-> "prepared", class |-> class, by |-> n]]
      BY <2>2 DEF Prepare
    <3>2. class \in ReplayClass /\ n \in 0..MaxAttempts
      BY ClassesAssumption DEF ClassesAssumption, Attempts
    <3>3. [status |-> "prepared", class |-> class, by |-> n] \in Operation
      BY <3>2 DEF Operation, OpStatus
    <3>4. ops' \in [OpIds -> Operation]
      BY <2>1, <3>1, <3>3
    <3>. QED BY <2>2, <3>4 DEF Prepare
  <2>3. CASE Begin(n, c) \/ Observe(n, c)
    <3>1. ops' \in [OpIds -> Operation]
      BY <2>1, <2>3, RecordAdvances DEF Begin, Observe, OpStatus
    <3>. QED BY <2>3, <3>1 DEF Begin, Observe
  <2>4. CASE Perform(n, c)
    <3>1. file' \in [Calls -> 0..MaxRounds]
      BY <2>1, <2>4 DEF Perform, Rounds
    <3>. QED BY <2>1, <2>4, <3>1 DEF Perform
  <2>. QED BY <1>9, <2>2, <2>3, <2>4
<1>10. ASSUME NEW n \in Attempts, CheckpointToolRound(n)
       PROVE  TypeOK'
  <2>1. proc[n].at \in Rounds
    BY <1>10 DEF CheckpointToolRound, In, ActsInRound
  <2>2. proc[n].at + 1 \in Positions
    BY <2>1 DEF Rounds, Positions
  <2>3. proc' \in [Attempts -> Proc]
    BY <1>10, <2>2, GoingToReply DEF CheckpointToolRound, Stages
  <2>4. rounds' \subseteq Attempts \X Rounds
    BY <1>10, <2>1 DEF CheckpointToolRound, Billing
  <2>. QED BY <1>10, <2>3, <2>4 DEF CheckpointToolRound
<1>11. ASSUME NEW n \in Attempts, CheckpointAgentReply(n) \/ Publish(n) \/ Park(n) \/ Abort(n)
       PROVE  TypeOK'
  <2>1. proc' \in [Attempts -> Proc]
    BY <1>11, Leaving DEF CheckpointAgentReply, Publish, Park, Abort, Stages
  <2>2. Billing(n) \in Billings
    BY DEF Billing, Billings, Proc
  <2>3. CASE CheckpointAgentReply(n)
    BY <2>1, <2>2, <2>3 DEF CheckpointAgentReply
  <2>4. CASE Publish(n) \/ Park(n) \/ Abort(n)
    BY <2>1, <2>4 DEF Publish, Park, Abort
  <2>. QED BY <1>11, <2>3, <2>4
<1>12. ASSUME NEW c \in Calls, OutsideEdit(c)
       PROVE  TypeOK'
  BY <1>12 DEF OutsideEdit
<1>. QED
  BY <1>1, <1>2, <1>3, <1>4, <1>5, <1>6, <1>7, <1>8, <1>9, <1>10, <1>11, <1>12 DEF Next, Executor

-----------------------------------------------------------------------------
\* An attempt resumes after every round of the earlier ones: after the latest of them,
\* which RoundsAdvance makes the one that went furthest.
LEMMA Resuming ==
  ASSUME IInv, TypeOK', NEW n \in Attempts, Resume(n)
  PROVE  IInv'
<1>. USE Numbers DEF IInv
<1>1. /\ proc[n].stage = "resume" /\ proc \in [Attempts -> Proc]
      /\ UNCHANGED <<issued, holder, ops, rounds, done>>
  BY DEF Resume, In, ledger, world, TypeOK
<1>2. \A x \in OpIds : x[1] < n /\ ops[x].status # "none" => Kept(x)
  BY <1>1 DEF CheckedOnce, Past
<1>3. CASE Leave(n, "publish")
  <2>1. proc'[n].stage = "publish" /\ \A m \in Attempts : m # n => proc'[m] = proc[m]
    BY <1>1, <1>3, Leaving DEF Stages
  <2>. QED BY <1>1, <2>1, Moving DEF Past, Talking, Ended
<1>4. ASSUME NEW k \in Positions, ResumesAt(n, k), GoToReply(n, "reserve", k)
      PROVE  IInv'
  <2>1. /\ proc'[n].stage = "reserve" /\ proc'[n].at = k
        /\ \A m \in Attempts : m # n => proc'[m] = proc[m]
    BY <1>1, <1>4, GoingToReply DEF Stages
  <2>2. ASSUME NEW b \in rounds, b[1] < n
        PROVE  b[2] < k
    <3>1. b \in Earlier(rounds, n)
      BY <2>2 DEF Earlier
    <3>2. PICK e \in rounds : IsLatest(e, Earlier(rounds, n)) /\ k = e[2] + 1
      BY <1>4, <3>1 DEF ResumesAt
    <3>3. b[1] < e[1] \/ (b[1] = e[1] /\ b[2] <= e[2])
      BY <3>1, <3>2 DEF IsLatest
    <3>4. b[2] \in Nat /\ e[2] \in Nat
      BY DEF TypeOK
    <3>5. b[2] <= e[2]
      BY <3>3, <3>4 DEF RoundsAdvance
    <3>. QED BY <3>2, <3>4, <3>5
  <2>. QED BY <1>1, <1>2, <2>1, <2>2, Arriving DEF Ended
<1>. QED BY <1>3, <1>4 DEF Resume

\* The executor's check of the journal: it finds every operation of the earlier attempts
\* covered and goes on, or reconciles one of them at most and parks.
LEMMA Checking ==
  ASSUME IInv, TypeOK', NEW n \in Attempts, CheckEffects(n)
  PROVE  IInv'
<1>. USE Numbers DEF IInv
<1>1. /\ proc[n].stage = "effects" /\ proc \in [Attempts -> Proc] /\ ops \in [OpIds -> Operation]
      /\ UNCHANGED <<issued, holder, rounds, done>>
  BY DEF CheckEffects, In, world, TypeOK
<1>2. ASSUME NEW up \in BOOLEAN, Doubtful(n, up) = {}, GoTo(n, "usage"), UNCHANGED ops
      PROVE  IInv'
  <2>1. /\ proc'[n].stage = "usage"
        /\ \A m \in Attempts : m # n => proc'[m] = proc[m]
    BY <1>1, <1>2, Going DEF Stages
  <2>2. ASSUME NEW x \in OpIds, x[1] < n, ops[x].status # "none"
        PROVE  Kept(x)
    <3>1. ops[x].by # n
      BY <1>1, <2>2 DEF ForeignReceipts, Ended
    <3>2. Covers(x)
      BY <1>2, <2>2, <3>1 DEF Doubtful
    <3>. QED BY <3>2 DEF Covers, Kept
  <2>. QED BY <1>1, <1>2, <2>1, <2>2, Arriving DEF Talking, Ended
<1>3. ASSUME NEW up \in BOOLEAN, NEW x \in OpIds, IsFirstOf(x, Doubtful(n, up)), Leave(n, "park"),
             Proves(x, up), Advance(x, "reconciled", n)
      PROVE  IInv'
  <2>1. /\ proc'[n].stage = "park"
        /\ \A m \in Attempts : m # n => proc'[m] = proc[m]
    BY <1>1, <1>3, Leaving DEF Stages
  <2>2. /\ ops'[x].status = "reconciled" /\ ops'[x].class = ops[x].class /\ ops'[x].by = n
        /\ \A z \in OpIds : z # x => ops'[z] = ops[z]
    BY <1>1, <1>3, RecordAdvances DEF OpStatus
  <2>3. ops[x].status = "running"
    BY <1>3 DEF Proves
  <2>4. x \in done \/ ops[x].class = "fingerprinted_write"
    <3>1. ops[x].class \in {"fingerprinted_write", "idempotent_external"}
      BY <1>1, <1>3 DEF Proves, Operation, ReplayClass
    <3>. QED BY <1>3, <3>1 DEF Proves, Confirmed
  <2>5. Receipt(x)'
    BY <2>2 DEF Receipt
  <2>. QED BY <1>1, <2>1, <2>2, <2>3, <2>4, <2>5, Advancing DEF Ended
<1>4. ASSUME Leave(n, "park"), UNCHANGED ops
      PROVE  IInv'
  <2>1. /\ proc'[n].stage = "park"
        /\ \A m \in Attempts : m # n => proc'[m] = proc[m]
    BY <1>1, <1>4, Leaving DEF Stages
  <2>. QED BY <1>1, <1>4, <2>1, Moving DEF Past, Talking, Ended
<1>. QED BY <1>2, <1>3, <1>4 DEF CheckEffects

\* Begin and Observe advance the attempt's own record; an observed effect has happened.
LEMMA Effecting ==
  ASSUME IInv, TypeOK', NEW n \in Attempts, NEW c \in Calls, Begin(n, c) \/ Observe(n, c)
  PROVE  IInv'
<1>. USE Numbers DEF IInv
<1>0. OpOf(n, c) \in OpIds /\ OpOf(n, c)[1] = n
  BY DEF Begin, Observe, Acts, In, ActsInRound, OpOf, OpIds
<1>1. PICK x \in OpIds : x = OpOf(n, c) /\ x[1] = n
  BY <1>0
<1>2. UNCHANGED <<issued, holder, proc, rounds, done>> /\ ops \in [OpIds -> Operation]
  BY DEF Begin, Observe, world, TypeOK
<1>3. CASE Begin(n, c)
  <2>1. ops[x].status = "prepared" /\ Advance(x, "running", n)
    BY <1>1, <1>3 DEF Begin, Acts
  <2>2. /\ ops'[x].status = "running" /\ ops'[x].by = n
        /\ \A z \in OpIds : z # x => ops'[z] = ops[z]
    BY <1>1, <1>2, <2>1, RecordAdvances DEF OpStatus
  <2>3. ~Receipt(x) /\ ~Receipt(x)'
    BY <2>1, <2>2 DEF Receipt
  <2>. QED BY <1>1, <1>2, <2>1, <2>2, <2>3, Advancing
<1>4. CASE Observe(n, c)
  <2>1. ops[x].status = "running" /\ x \in done /\ Advance(x, "observed", n)
    BY <1>1, <1>4 DEF Observe, Acts
  <2>2. /\ ops'[x].status = "observed" /\ ops'[x].by = n
        /\ \A z \in OpIds : z # x => ops'[z] = ops[z]
    BY <1>1, <1>2, <2>1, RecordAdvances DEF OpStatus
  <2>3. Receipt(x)'
    BY <2>2 DEF Receipt
  <2>. QED BY <1>1, <1>2, <2>1, <2>2, <2>3, Advancing
<1>. QED BY <1>3, <1>4

\* A claim starts an attempt of which nothing is recorded yet.
LEMMA Claiming ==
  ASSUME IInv, TypeOK', Claim
  PROVE  IInv'
<1>. DEFINE n == issued + 1
<1>. USE Numbers DEF IInv
<1>1. /\ n \in Attempts /\ issued \in Nat /\ proc \in [Attempts -> Proc]
      /\ issued' = n /\ holder' = n
      /\ UNCHANGED <<ops, rounds, done>>
  BY DEF Claim, ledger, world, TypeOK, Attempts
<1>2. GoTo(n, "effects")
  BY DEF Claim
<1>3. proc[n].stage = "idle"
  BY <1>1 DEF OnlyClaimed
<1>. HIDE DEF n
<1>4. /\ proc'[n].stage = "effects"
      /\ \A m \in Attempts : m # n => proc'[m] = proc[m]
  BY <1>1, <1>2, Going DEF Stages
<1>5. LatestHolds' /\ ActsInRound' /\ DoneWasBegun'
  BY <1>1, <1>4 DEF LatestHolds, ActsInRound, DoneWasBegun
<1>6. OnlyClaimed'
  <2>1. n = issued + 1
    BY DEF n
  <2>2. \A m \in Attempts : proc'[m].stage # "idle" => m <= issued'
    BY <2>1, <1>1, <1>4 DEF OnlyClaimed
  <2>3. \A x \in OpIds : ops'[x].status # "none" => x[1] <= issued'
    <3> SUFFICES ASSUME NEW x \in OpIds, ops[x].status # "none" PROVE x[1] <= issued'
      BY <1>1
    <3>1. x[1] \in Nat /\ x[1] <= issued
      BY OpIdParts DEF OnlyClaimed
    <3>. QED BY <3>1, <2>1, <1>1
  <2>4. \A b \in rounds' : b[1] <= issued'
    <3> SUFFICES ASSUME NEW b \in rounds PROVE b[1] <= issued'
      BY <1>1
    <3>1. b[1] \in Nat /\ b[1] <= issued
      BY DEF OnlyClaimed, TypeOK
    <3>. QED BY <3>1, <2>1, <1>1
  <2>. QED BY <2>2, <2>3, <2>4 DEF OnlyClaimed
<1>7. ForeignReceipts'
  BY <1>1, <1>3, <1>4 DEF ForeignReceipts, Ended
<1>8. \A x \in OpIds : Kept(x) <=> Kept(x)'
  BY <1>1 DEF Kept, Receipt
<1>9. CheckedOnce' /\ OpsAreKept'
  BY <1>1, <1>4, <1>8 DEF CheckedOnce, OpsAreKept, Past
<1>10. RoundsAdvance' /\ OpsAreAhead' /\ TalkIsAhead'
  BY <1>1, <1>4 DEF RoundsAdvance, OpsAreAhead, TalkIsAhead, Talking
<1>11. ReceiptsAreTrue'
  BY <1>1 DEF ReceiptsAreTrue, Receipt
<1>. QED BY <1>5, <1>6, <1>7, <1>9, <1>10, <1>11

-----------------------------------------------------------------------------
\* Every step keeps the inductive invariant.
LEMMA NextIInv ==
  ASSUME IInv, [Next]_vars
  PROVE  IInv'
<1>1. TypeOK'
  BY TypeStep DEF IInv
<1>. USE Numbers
<1>2. proc \in [Attempts -> Proc] /\ \A n \in Attempts : proc[n].at \in Nat
  BY DEF IInv, TypeOK, Proc
<1>3. CASE UNCHANGED vars
  BY <1>1, <1>3, Elsewhere DEF vars, ledger, world, IInv, DoneWasBegun
<1>4. CASE Claim
  BY <1>1, <1>4, Claiming
<1>5. CASE Expire \/ Revive \/ Wake
  <2>1. /\ UNCHANGED <<issued, proc, ops, rounds, done>>
        /\ holder' \in {0, holder, issued}
    BY <1>5 DEF Expire, Revive, Wake, ledger, world
  <2>. QED BY <1>1, <2>1, Elsewhere DEF IInv, DoneWasBegun
<1>6. ASSUME NEW n \in Attempts, CheckEffects(n) \/ Resume(n) \/ CheckpointToolRound(n)
      PROVE  IInv'
  BY <1>1, <1>6, Checking, Resuming, Checkpointing
<1>7. ASSUME NEW n \in Attempts, CheckUsage(n) \/ CheckCount(n)
      PROVE  IInv'
  <2>1. /\ UNCHANGED <<issued, holder, ops, rounds, done>>
        /\ proc[n].stage \in {"usage", "counts"}
    BY <1>7 DEF CheckUsage, CheckCount, In, ledger, world
  <2>2. /\ proc'[n].stage \in {"counts", "resume", "park"}
        /\ \A m \in Attempts : m # n => proc'[m] = proc[m]
    BY <1>2, <1>7, Going, Leaving DEF CheckUsage, CheckCount, Stages
  <2>. QED BY <1>1, <2>1, <2>2, Moving DEF Past, Talking, Ended
<1>8. ASSUME NEW n \in Attempts, Reserve(n) \/ Send(n)
      PROVE  IInv'
  <2>1. /\ UNCHANGED <<issued, holder, ops, rounds, done>>
        /\ proc[n].stage \in {"reserve", "send"}
    BY <1>8 DEF Reserve, Send, In, ledger, world
  <2>2. /\ proc'[n].stage \in {"send", "account"} /\ proc'[n].at = proc[n].at
        /\ \A m \in Attempts : m # n => proc'[m] = proc[m]
    BY <1>2, <1>8, Going DEF Reserve, Send, Stages
  <2>. QED BY <1>1, <1>2, <2>1, <2>2, Moving DEF Past, Talking, Ended
<1>9. ASSUME NEW n \in Attempts, Account(n)
      PROVE  IInv'
  <2>1. /\ UNCHANGED <<issued, holder, ops, rounds, done>>
        /\ proc[n].stage = "account"
    BY <1>9 DEF Account, In, world
  <2>2. /\ proc'[n].stage \in {"answer", "act"} /\ proc'[n].at = proc[n].at
        /\ proc'[n].stage = "act" => proc[n].at \in Rounds
        /\ \A m \in Attempts : m # n => proc'[m] = proc[m]
    <3>1. CASE GoTo(n, "answer")
      BY <1>2, <3>1, Going DEF Stages
    <3>2. ASSUME proc[n].at \in Rounds,
                 NEW calls,
                 proc' = [proc EXCEPT ![n] = [stage |-> "act", at |-> @.at, calls |-> calls]]
          PROVE  <2>2!:
      BY <1>2, <3>2
    <3>. QED BY <1>9, <3>1, <3>2 DEF Account
  <2>. QED BY <1>1, <1>2, <2>1, <2>2, Moving DEF Past, Talking, Ended
<1>10. ASSUME NEW n \in Attempts, NEW c \in Calls, Prepare(n, c) \/ Begin(n, c) \/ Observe(n, c)
       PROVE  IInv'
  BY <1>1, <1>10, Preparing, Effecting
<1>11. ASSUME NEW n \in Attempts, NEW c \in Calls, Perform(n, c)
       PROVE  IInv'
  <2>1. /\ UNCHANGED <<issued, holder, proc, ops, rounds>>
        /\ done' = done \union {OpOf(n, c)}
        /\ ops[OpOf(n, c)].status = "running"
    BY <1>11 DEF Perform, Acts, ledger
  <2>. QED BY <1>1, <2>1, Elsewhere DEF IInv, DoneWasBegun
<1>12. ASSUME NEW n \in Attempts, NotSent(n) \/ CheckpointAgentReply(n) \/ Publish(n) \/ Park(n) \/ Abort(n)
       PROVE  IInv'
  <2>1. /\ UNCHANGED <<issued, ops, rounds, done>>
        /\ holder' \in {0, holder}
        /\ proc[n].stage # "idle"
        /\ proc'[n].stage \in {"park", "publish", "gone"}
        /\ proc'[n].stage = "publish" => proc[n].stage = "answer"
        /\ proc[n].stage \in Ended => proc'[n].stage = "gone"
        /\ \A m \in Attempts : m # n => proc'[m] = proc[m]
    <3>1. CASE NotSent(n)
      BY <1>2, <3>1, Leaving DEF NotSent, In, Stages, Ended, ledger, world
    <3>2. CASE CheckpointAgentReply(n)
      BY <1>2, <3>2, Leaving DEF CheckpointAgentReply, In, Stages, Ended, world
    <3>3. CASE Publish(n)
      BY <1>2, <3>3, Leaving DEF Publish, In, Stages, Ended, ledger, world
    <3>4. CASE Park(n)
      BY <1>2, <3>4, Leaving DEF Park, In, Stages, Ended, ledger, world
    <3>5. CASE Abort(n)
      BY <1>2, <3>5, Leaving DEF Abort, In, Stages, Ended, ledger, world
    <3>. QED BY <1>12, <3>1, <3>2, <3>3, <3>4, <3>5
  <2>. QED BY <1>1, <2>1, Moving DEF Past, Talking, Ended
<1>13. ASSUME NEW c \in Calls, OutsideEdit(c)
       PROVE  IInv'
  BY <1>1, <1>13, Elsewhere DEF OutsideEdit, ledger, IInv, DoneWasBegun
<1>. QED
  BY <1>3, <1>4, <1>5, <1>6, <1>7, <1>8, <1>9, <1>10, <1>11, <1>12, <1>13 DEF Next, Executor

\* The inductive invariant holds in every reachable state.
THEOREM Invariance == Spec => []IInv
<1>1. Init => IInv
  BY InitIInv
<1>2. IInv /\ [Next]_vars => IInv'
  BY NextIInv
<1>. QED BY <1>1, <1>2, PTL DEF Spec

-----------------------------------------------------------------------------
\* The journal, the checkpoints and the executors keep their types.
THEOREM TypeCorrectness == Spec => []TypeOK
<1>1. IInv => TypeOK
  BY DEF IInv
<1>. QED BY <1>1, Invariance, PTL

\* A receipt stands for an effect that happened, or for a file whose exact content was found.
THEOREM ReceiptCorrectness == Spec => []ReceiptsAreTrue
<1>1. IInv => ReceiptsAreTrue
  BY DEF IInv
<1>. QED BY <1>1, Invariance, PTL

\* A later attempt that got past the checks finds no effect of an earlier one under way,
\* and none can come under way any more: a receipt is not a running operation.
THEOREM OverlapCorrectness == Spec => []EffectsDoNotOverlap
<1>1. IInv => EffectsDoNotOverlap
  <2> SUFFICES ASSUME IInv, NEW n \in Attempts, NEW m \in Attempts, n < m,
                      proc[m].stage \in {"reserve", "send", "account", "act", "answer", "publish"},
                      NEW x \in OpIds, x[1] = n, ops[x].status = "running"
               PROVE  FALSE
    BY DEF EffectsDoNotOverlap
  <2>1. Kept(x)
    BY DEF IInv, CheckedOnce, Past
  <2>. QED BY <2>1 DEF Kept, Receipt
<1>. QED BY <1>1, Invariance, PTL

\* No two attempts perform the effects of one round: the operations of the later attempt
\* are in rounds after the one in which the earlier attempt's operation has its receipt.
THEOREM EffectCorrectness == Spec => []EffectsNotRepeated
<1>1. IInv => EffectsNotRepeated
  <2> SUFFICES ASSUME IInv PROVE EffectsNotRepeated
    OBVIOUS
  <2>. USE DEF IInv
  <2>1. ASSUME NEW x \in done, NEW y \in done, x[2] = y[2], x[1] < y[1]
        PROVE  FALSE
    <3>1. x \in OpIds /\ y \in OpIds /\ ops[x].status # "none" /\ ops[y].status # "none"
      BY DEF TypeOK, DoneWasBegun
    <3>2. Kept(x)
      BY <2>1, <3>1 DEF OpsAreKept
    <3>3. PICK k \in Rounds : k >= x[2] /\ <<x[1], k>> \in rounds
      BY <3>2 DEF Kept
    <3>4. k < y[2]
      BY <2>1, <3>1, <3>3 DEF OpsAreAhead
    <3>. QED BY <2>1, <3>1, <3>3, <3>4, Numbers, OpIdParts
  <2>2. ASSUME NEW x \in done, NEW y \in done, x[2] = y[2]
        PROVE  x[1] = y[1]
    <3>1. x[1] \in Nat /\ y[1] \in Nat
      BY Numbers, OpIdParts DEF TypeOK
    <3>. QED BY <2>1, <2>2, <3>1
  <2>. QED BY <2>2 DEF EffectsNotRepeated
<1>. QED BY <1>1, Invariance, PTL

-----------------------------------------------------------------------------
(* Provider calls, the conversation and the result *)

Fresh    == {"idle", "effects", "usage", "counts", "resume"}   \* before the first request
Settled  == Past \ {"usage"}                                   \* past CheckUsage
Admitted == Settled \ {"counts"}                               \* past CheckCount
Accounts == {"reconciled", "unknown"}                          \* what became of a sent request

Checkpointed(b) == b \in rounds \/ b \in replies

\* Only claimed attempts are billed, and only they checkpoint a reply.
BilledOnceClaimed ==
  /\ \A b \in Billings : usage[b] # "none" => b[1] <= issued
  /\ \A b \in replies : b[1] <= issued

\* An attempt is not billed for a reply it has not got to.
NotYetBilled ==
  \A m \in Attempts, k \in Positions :
    \/ proc[m].stage \in Fresh
    \/ proc[m].stage \in Talking /\ k > proc[m].at
    \/ proc[m].stage = "reserve" /\ k = proc[m].at
    => usage[<<m, k>>] = "none"

\* The bill of the reply an attempt is at.
BillUnderWay ==
  \A m \in Attempts :
    /\ proc[m].stage \in {"send", "account"} => usage[Billing(m)] = "reserved"
    /\ proc[m].stage = "send" => Billing(m) \notin asked
    /\ proc[m].stage \in {"act", "answer"} => usage[Billing(m)] \in Accounts

AskedIsBilled        == \A b \in asked : usage[b] \in {"reserved"} \union Accounts
CheckpointsAreBilled == \A b \in Billings : Checkpointed(b) => usage[b] \in Accounts

\* An attempt in the conversation is past every round it checkpointed, and no attempt up
\* to it checkpointed a terminal reply.
OwnRoundsBehind ==
  \A m \in Attempts : proc[m].stage \in Talking => \A b \in rounds : b[1] = m => b[2] < proc[m].at
NoReplyYet ==
  \A m \in Attempts : proc[m].stage \in Talking => \A b \in replies : m < b[1]
RoundOrReply == \A b \in rounds : b \notin replies

\* What CheckUsage and CheckCount established stays true.
UsageSettled ==
  \A m \in Attempts : proc[m].stage \in Settled =>
    \A b \in Billings : b[1] < m => usage[b] \in {"none", "reconciled", "cancelled"}
AllAccounted ==
  \A m \in Attempts : proc[m].stage \in Admitted =>
    \A b \in Billings : b[1] < m /\ usage[b] = "reconciled" => Checkpointed(b)

\* Once a reply was billed to an attempt, what the earlier ones were billed for is in a
\* checkpoint, in an earlier round.
BillsAreKept ==
  \A a, b \in Billings : a[1] < b[1] /\ usage[a] # "none" /\ usage[b] # "none" =>
    usage[a] = "cancelled" \/ Checkpointed(a)
BillsAreAhead ==
  \A b \in Billings : usage[b] # "none" =>
    /\ \A e \in rounds : e[1] < b[1] => e[2] < b[2]
    /\ \A e \in replies : b[1] <= e[1]

BillInv ==
  /\ BilledOnceClaimed /\ NotYetBilled /\ BillUnderWay /\ AskedIsBilled /\ CheckpointsAreBilled
  /\ OwnRoundsBehind /\ NoReplyYet /\ RoundOrReply
  /\ UsageSettled /\ AllAccounted /\ BillsAreKept /\ BillsAreAhead

\* The rounds up to a checkpointed one, and up to the reply an attempt is at, are
\* checkpointed, by that attempt or an earlier one.
NoGaps ==
  \A e \in rounds : \A k \in 1..e[2] : \E b \in rounds : b[1] <= e[1] /\ b[2] = k
TalkIsComplete ==
  \A m \in Attempts : proc[m].stage \in Talking =>
    \A k \in 1..(proc[m].at - 1) : \E b \in rounds : b[1] <= m /\ b[2] = k

TalkInv == NoGaps /\ TalkIsComplete

\* An attempt has no operation before it is in the conversation, and there each has its
\* receipt, except those of the reply it acts on.
OwnReceipts ==
  \A m \in Attempts : \A x \in OpIds : x[1] = m /\ ops[x].status # "none" =>
    /\ proc[m].stage \notin Fresh
    /\ proc[m].stage \in Talking =>
         (x[2] < proc[m].at /\ Receipt(x)) \/ (proc[m].stage = "act" /\ x[2] = proc[m].at /\ x[3] \in proc[m].calls)
    /\ proc[m].stage = "publish" => Receipt(x)

\* What is published: a reply of this attempt or of an earlier one.
PublishesReply ==
  \A m \in Attempts : proc[m].stage = "publish" =>
    /\ \E b \in replies : b[1] <= m
    /\ \A b \in Billings : b[1] = m => usage[b] \in {"none", "reconciled"}
ResultHasReply == results # {} => replies # {}

ResultInv == OwnReceipts /\ PublishesReply /\ ResultHasReply /\ ResultHidesNothing

-----------------------------------------------------------------------------
\* The components of a billing, and the one an attempt is at.
LEMMA BillingParts ==
  ASSUME TypeOK
  PROVE  /\ \A b \in Billings : /\ b[1] \in Attempts /\ b[2] \in Positions
                                /\ b[1] \in Nat /\ b[2] \in Nat /\ b = <<b[1], b[2]>>
         /\ rounds \subseteq Billings /\ replies \subseteq Billings /\ asked \subseteq Billings
         /\ \A m \in Attempts : /\ proc[m].at \in Positions /\ proc[m].at \in Nat
                                /\ Billing(m) \in Billings
                                /\ Billing(m)[1] = m /\ Billing(m)[2] = proc[m].at
<1>1. \A b \in Billings : b[1] \in Attempts /\ b[2] \in Positions /\ b = <<b[1], b[2]>>
  BY DEF Billings
<1>2. rounds \subseteq Billings
  BY Numbers DEF TypeOK, Billings, Rounds, Positions
<1>3. \A m \in Attempts : proc[m].at \in Positions
  BY DEF TypeOK, Proc
<1>4. \A m \in Attempts : Billing(m) \in Billings /\ Billing(m)[1] = m /\ Billing(m)[2] = proc[m].at
  BY <1>3 DEF Billing, Billings
<1>. QED BY <1>1, <1>2, <1>3, <1>4, Numbers DEF TypeOK

\* Nothing is billed at first.
LEMMA InitBillInv == Init => BillInv
<1> SUFFICES ASSUME Init PROVE BillInv
  OBVIOUS
<1>1. \A b \in Billings : usage[b] = "none"
  BY DEF Init
<1>2. \A n \in Attempts : proc[n].stage = "idle"
  BY DEF Init
<1>3. rounds = {} /\ replies = {} /\ asked = {}
  BY DEF Init
<1>4. NotYetBilled
  BY <1>1 DEF NotYetBilled, Billings
<1>. QED
  BY <1>1, <1>2, <1>3, <1>4
  DEF BillInv, BilledOnceClaimed, BillUnderWay, AskedIsBilled, CheckpointsAreBilled, OwnRoundsBehind,
      NoReplyYet, RoundOrReply, UsageSettled, AllAccounted, BillsAreKept, BillsAreAhead, Checkpointed,
      Past, Settled, Admitted, Talking

\* A step that bills nothing and checkpoints nothing, in which one executor at most moves
\* on; it enters the conversation only where no attempt before it replied.
LEMMA BillsElsewhere ==
  ASSUME IInv, IInv', BillInv, NEW n \in Attempts,
         UNCHANGED <<usage, asked, rounds, replies>>,
         issued <= issued',
         \A m \in Attempts : m # n => proc'[m] = proc[m],
         \/ proc'[n] = proc[n]
         \/ /\ proc'[n].stage \notin {"send", "account", "act", "answer"}
            /\ proc'[n].stage \in Fresh \union {"reserve"} => proc[n].stage \in Fresh
            /\ proc'[n].stage = "reserve" => \A b \in replies : n <= b[1]
            /\ proc'[n].stage \in Settled =>
                 \A b \in Billings : b[1] < n => usage[b] \in {"none", "reconciled", "cancelled"}
            /\ proc'[n].stage \in Admitted =>
                 \A b \in Billings : b[1] < n /\ usage[b] = "reconciled" => Checkpointed(b)
  PROVE  BillInv'
<1>. USE Numbers DEF BillInv
<1>1. TypeOK /\ TypeOK'
  BY DEF IInv
<1>2. BilledOnceClaimed'
  BY <1>1, BillingParts DEF BilledOnceClaimed, TypeOK
<1>3. NotYetBilled'
  BY DEF NotYetBilled, Talking, Fresh
<1>4. BillUnderWay'
  BY DEF BillUnderWay, Billing
<1>5. AskedIsBilled' /\ CheckpointsAreBilled' /\ RoundOrReply' /\ BillsAreKept' /\ BillsAreAhead'
  BY DEF AskedIsBilled, CheckpointsAreBilled, RoundOrReply, BillsAreKept, BillsAreAhead, Checkpointed
<1>6. ASSUME proc[n].stage \in Fresh, NEW b \in Billings, Checkpointed(b), b[1] = n
      PROVE  FALSE
  BY <1>1, <1>6, BillingParts DEF CheckpointsAreBilled, NotYetBilled, Accounts
<1>7. OwnRoundsBehind'
  BY <1>1, <1>6, BillingParts DEF OwnRoundsBehind, Talking, Checkpointed
<1>8. NoReplyYet'
  BY <1>1, <1>6, BillingParts DEF NoReplyYet, Talking, Checkpointed
<1>9. UsageSettled' /\ AllAccounted'
  BY DEF UsageSettled, AllAccounted, Checkpointed
<1>. QED BY <1>2, <1>3, <1>4, <1>5, <1>7, <1>8, <1>9

\* A reservation: its attempt holds the lease, so it is the latest; it is ahead of every
\* checkpointed round and no attempt has replied.
LEMMA Reserving ==
  ASSUME IInv, IInv', BillInv, NEW n \in Attempts, Reserve(n)
  PROVE  BillInv'
<1>. DEFINE r == Billing(n)
<1>. USE Numbers DEF BillInv
<1>1. TypeOK /\ TypeOK' /\ LatestHolds
  BY DEF IInv
<1>2. /\ r \in Billings /\ r[1] = n /\ r[2] = proc[n].at /\ r = <<n, proc[n].at>>
      /\ proc[n].at \in Positions
      /\ \A b \in Billings : b[1] \in Nat /\ b[2] \in Nat /\ b = <<b[1], b[2]>>
      /\ rounds \subseteq Billings /\ replies \subseteq Billings /\ asked \subseteq Billings
  BY <1>1, BillingParts DEF Billing
<1>3. /\ proc[n].stage = "reserve" /\ proc'[n].stage = "send" /\ proc'[n].at = proc[n].at
      /\ \A m \in Attempts : m # n => proc'[m] = proc[m]
      /\ UNCHANGED <<issued, asked, rounds, replies>>
  BY <1>1, Going DEF Reserve, In, TypeOK, Stages, world
<1>4. /\ usage[r] = "none" /\ usage'[r] = "reserved"
      /\ \A b \in Billings : b # r => usage'[b] = usage[b]
  <2>1. usage[r] = "none"
    BY <1>2, <1>3 DEF NotYetBilled
  <2>2. usage \in [Billings -> UsageStatus] /\ usage' = [usage EXCEPT ![r] = "reserved"]
    BY <1>1 DEF Reserve, TypeOK
  <2>. HIDE DEF r
  <2>. QED BY <2>1, <2>2, <1>2
<1>5. n = issued
  BY <1>1, HolderIsLatest DEF Reserve
<1>6. \A m \in Attempts : Billing(m)' = Billing(m)
  BY <1>3 DEF Billing
<1>7. \A m \in Attempts : m # n => Billing(m) # r
  BY <1>1, BillingParts
<1>a. \A m \in Attempts : Billing(m) \in Billings
  BY <1>1, BillingParts
<1>b. \A m \in Attempts, k \in Positions : <<m, k>> \in Billings /\ <<m, k>>[1] = m /\ <<m, k>>[2] = k
  BY DEF Billings
<1>c. proc[n].at \in Nat /\ \A m \in Attempts : proc[m].stage # "idle" => m <= n
  BY <1>1, <1>5, BillingParts DEF IInv, OnlyClaimed
<1>d. ~Checkpointed(r) /\ r \notin asked
  BY <1>2, <1>4 DEF CheckpointsAreBilled, AskedIsBilled, Accounts
<1>e. \A b \in Billings : Checkpointed(b)' <=> Checkpointed(b)
  BY <1>3 DEF Checkpointed
<1>. HIDE DEF r
<1>8. BilledOnceClaimed'
  BY <1>2, <1>3, <1>4, <1>5 DEF BilledOnceClaimed
<1>9. NotYetBilled'
  BY <1>2, <1>3, <1>4, <1>b, <1>c DEF NotYetBilled, Talking, Fresh
<1>10. BillUnderWay'
  BY <1>3, <1>4, <1>6, <1>7, <1>a, <1>d DEF BillUnderWay, r
<1>11. AskedIsBilled'
  BY <1>2, <1>3, <1>4 DEF AskedIsBilled
<1>12. CheckpointsAreBilled'
  BY <1>4, <1>d, <1>e DEF CheckpointsAreBilled
<1>13. OwnRoundsBehind' /\ NoReplyYet' /\ RoundOrReply'
  BY <1>3 DEF OwnRoundsBehind, NoReplyYet, RoundOrReply, Talking
<1>14. UsageSettled'
  BY <1>2, <1>3, <1>4, <1>c DEF UsageSettled, Settled, Past
<1>15. AllAccounted'
  BY <1>3, <1>4, <1>e DEF AllAccounted, Admitted, Settled, Past
<1>16. BillsAreKept'
  <2> SUFFICES ASSUME NEW a \in Billings, NEW b \in Billings,
                      a[1] < b[1], usage'[a] # "none", usage'[b] # "none"
               PROVE  usage'[a] = "cancelled" \/ Checkpointed(a)'
    BY DEF BillsAreKept
  <2>1. b[1] <= n
    BY <1>2, <1>4, <1>5 DEF BilledOnceClaimed
  <2>2. a # r
    BY <2>1, <1>2
  <2>3. CASE b = r
    BY <2>2, <2>3, <1>2, <1>3, <1>4, <1>e DEF UsageSettled, AllAccounted, Settled, Admitted, Past
  <2>4. CASE b # r
    BY <2>2, <2>4, <1>4, <1>e DEF BillsAreKept
  <2>. QED BY <2>3, <2>4
<1>17. BillsAreAhead'
  <2> SUFFICES ASSUME NEW b \in Billings, usage'[b] # "none"
               PROVE  /\ \A e \in rounds : e[1] < b[1] => e[2] < b[2]
                      /\ \A e \in replies : b[1] <= e[1]
    BY <1>3 DEF BillsAreAhead
  <2>1. CASE b = r
    <3>1. \A e \in rounds : e[1] < n => e[2] < proc[n].at
      BY <1>3 DEF IInv, TalkIsAhead, Talking
    <3>2. \A e \in replies : n < e[1]
      BY <1>3 DEF NoReplyYet, Talking
    <3>. QED BY <2>1, <3>1, <3>2, <1>2
  <2>2. CASE b # r
    BY <2>2, <1>4 DEF BillsAreAhead
  <2>. QED BY <2>1, <2>2
<1>. QED BY <1>8, <1>9, <1>10, <1>11, <1>12, <1>13, <1>14, <1>15, <1>16, <1>17

\* The request is sent: of the reply the attempt has a reservation for.
LEMMA Sending ==
  ASSUME IInv, IInv', BillInv, NEW n \in Attempts, Send(n)
  PROVE  BillInv'
<1>. USE Numbers DEF BillInv
<1>1. TypeOK /\ TypeOK'
  BY DEF IInv
<1>2. /\ Billing(n) \in Billings /\ \A m \in Attempts : Billing(m)[1] = m
      /\ rounds \subseteq Billings /\ replies \subseteq Billings /\ asked \subseteq Billings
  BY <1>1, BillingParts
<1>3. /\ proc[n].stage = "send" /\ proc'[n].stage = "account" /\ proc'[n].at = proc[n].at
      /\ \A m \in Attempts : m # n => proc'[m] = proc[m]
      /\ UNCHANGED <<issued, usage, rounds, replies>>
      /\ asked' = asked \union {Billing(n)}
  BY <1>1, Going DEF Send, In, TypeOK, Stages, ledger
<1>4. \A m \in Attempts : Billing(m)' = Billing(m)
  BY <1>3 DEF Billing
<1>5. BilledOnceClaimed'
  BY <1>3 DEF BilledOnceClaimed
<1>6. NotYetBilled'
  BY <1>3 DEF NotYetBilled, Talking, Fresh
<1>7. BillUnderWay'
  <2>1. \A m \in Attempts : m # n => Billing(m) # Billing(n)
    BY <1>2
  <2>. QED BY <2>1, <1>3, <1>4 DEF BillUnderWay
<1>8. AskedIsBilled'
  BY <1>3 DEF AskedIsBilled, BillUnderWay
<1>9. CheckpointsAreBilled' /\ RoundOrReply' /\ BillsAreKept' /\ BillsAreAhead'
  BY <1>3 DEF CheckpointsAreBilled, RoundOrReply, BillsAreKept, BillsAreAhead, Checkpointed
<1>10. OwnRoundsBehind' /\ NoReplyYet'
  BY <1>3 DEF OwnRoundsBehind, NoReplyYet, Talking
<1>11. UsageSettled' /\ AllAccounted'
  BY <1>3 DEF UsageSettled, AllAccounted, Checkpointed, Admitted, Settled, Past
<1>. QED BY <1>5, <1>6, <1>7, <1>8, <1>9, <1>10, <1>11

\* The reservation is resolved, with the lease or without: it was sent and is accounted for,
\* or cancelled unsent.  No later attempt can have been past CheckUsage.
LEMMA Resolving ==
  ASSUME IInv, IInv', BillInv, NEW n \in Attempts, NotSent(n) \/ Account(n)
  PROVE  BillInv'
<1>. DEFINE r == Billing(n)
<1>. USE Numbers DEF BillInv
<1>1. TypeOK /\ TypeOK' /\ proc \in [Attempts -> Proc]
  BY DEF IInv, TypeOK
<1>2. /\ r \in Billings /\ r[1] = n /\ r[2] = proc[n].at /\ r = <<n, proc[n].at>>
      /\ \A b \in Billings : b[1] \in Nat /\ b[2] \in Nat /\ b = <<b[1], b[2]>>
      /\ rounds \subseteq Billings /\ replies \subseteq Billings /\ asked \subseteq Billings
  BY <1>1, BillingParts DEF Billing
<1>3. /\ proc[n].stage \in {"send", "account"}
      /\ \A m \in Attempts : m # n => proc'[m] = proc[m]
      /\ UNCHANGED <<issued, asked, rounds, replies>>
      /\ \/ /\ proc'[n].stage = "park"
            /\ usage' = [usage EXCEPT ![r] = "cancelled"]
            /\ proc[n].stage = "send"
         \/ /\ proc'[n].stage \in {"act", "answer"}
            /\ proc'[n].at = proc[n].at
            /\ \E status \in Accounts : usage' = [usage EXCEPT ![r] = status]
  <2>1. CASE NotSent(n)
    BY <1>1, <2>1, Leaving DEF NotSent, In, Stages, world
  <2>2. CASE Account(n)
    <3>1. proc[n].stage = "account" /\ UNCHANGED <<issued, asked, rounds, replies>>
      BY <2>2 DEF Account, In, world
    <3>2. \E status \in Accounts : usage' = [usage EXCEPT ![r] = status]
      BY <2>2 DEF Account, Accounts
    <3>3. CASE GoTo(n, "answer")
      BY <1>1, <3>1, <3>2, <3>3, Going DEF Stages
    <3>4. ASSUME NEW calls,
                 proc' = [proc EXCEPT ![n] = [stage |-> "act", at |-> @.at, calls |-> calls]]
          PROVE  <1>3!:
      <4>1. proc'[n].stage = "act" /\ proc'[n].at = proc[n].at
        BY <1>1, <3>4
      <4>2. \A m \in Attempts : m # n => proc'[m] = proc[m]
        BY <1>1, <3>4
      <4>. QED BY <4>1, <4>2, <3>1, <3>2
    <3>. QED BY <2>2, <3>3, <3>4 DEF Account
  <2>. QED BY <2>1, <2>2
<1>4. /\ usage[r] = "reserved"
      /\ usage'[r] = "cancelled" \/ usage'[r] \in Accounts
      /\ proc'[n].stage # "park" => usage'[r] \in Accounts
      /\ proc'[n].stage = "park" => r \notin asked
      /\ \A b \in Billings : b # r => usage'[b] = usage[b]
  <2>1. usage[r] = "reserved" /\ (proc[n].stage = "send" => r \notin asked)
    BY <1>3 DEF BillUnderWay
  <2>2. usage \in [Billings -> UsageStatus]
    BY <1>1 DEF TypeOK
  <2>. HIDE DEF r
  <2>. QED BY <2>1, <2>2, <1>2, <1>3
<1>6. \A m \in Attempts : proc'[m] = proc[m] => Billing(m)' = Billing(m)
  BY DEF Billing
<1>7. \A m \in Attempts : m # n => Billing(m) # r
  BY <1>1, BillingParts
<1>a. \A m \in Attempts : Billing(m) \in Billings
  BY <1>1, BillingParts
<1>b. \A m \in Attempts, k \in Positions : <<m, k>> \in Billings /\ <<m, k>>[1] = m /\ <<m, k>>[2] = k
  BY DEF Billings
<1>c. proc[n].at \in Nat /\ (proc'[n].at = proc[n].at => Billing(n)' = r)
  BY <1>1, BillingParts DEF Billing
<1>d. ~Checkpointed(r)
  BY <1>2, <1>4 DEF CheckpointsAreBilled, Accounts
<1>e. \A b \in Billings : Checkpointed(b)' <=> Checkpointed(b)
  BY <1>3 DEF Checkpointed
<1>f. \A m \in Attempts : proc[m].stage \in Settled => ~(n < m)
  BY <1>2, <1>4 DEF UsageSettled
<1>. HIDE DEF r
<1>8. BilledOnceClaimed'
  BY <1>2, <1>3, <1>4 DEF BilledOnceClaimed
<1>9. NotYetBilled'
  <2> SUFFICES ASSUME NEW m \in Attempts, NEW k \in Positions,
                      \/ proc'[m].stage \in Fresh
                      \/ proc'[m].stage \in Talking /\ k > proc'[m].at
                      \/ proc'[m].stage = "reserve" /\ k = proc'[m].at
               PROVE  usage'[<<m, k>>] = "none"
    BY DEF NotYetBilled
  <2>1. usage[<<m, k>>] = "none"
    BY <1>3 DEF NotYetBilled, Talking, Fresh
  <2>. QED BY <2>1, <1>4, <1>b
<1>10. BillUnderWay'
  <2> SUFFICES ASSUME NEW m \in Attempts
               PROVE  /\ proc'[m].stage \in {"send", "account"} => usage'[Billing(m)'] = "reserved"
                      /\ proc'[m].stage = "send" => Billing(m)' \notin asked'
                      /\ proc'[m].stage \in {"act", "answer"} => usage'[Billing(m)'] \in Accounts
    BY DEF BillUnderWay
  <2>1. CASE m = n
    BY <2>1, <1>3, <1>4, <1>c
  <2>2. CASE m # n
    BY <2>2, <1>3, <1>4, <1>6, <1>7, <1>a DEF BillUnderWay
  <2>. QED BY <2>1, <2>2
<1>11. AskedIsBilled'
  BY <1>2, <1>3, <1>4 DEF AskedIsBilled
<1>12. CheckpointsAreBilled'
  BY <1>4, <1>d, <1>e DEF CheckpointsAreBilled
<1>13. OwnRoundsBehind' /\ NoReplyYet' /\ RoundOrReply'
  BY <1>3 DEF OwnRoundsBehind, NoReplyYet, RoundOrReply, Talking
<1>14. UsageSettled'
  <2> SUFFICES ASSUME NEW m \in Attempts, proc'[m].stage \in Settled, NEW b \in Billings, b[1] < m
               PROVE  usage'[b] \in {"none", "reconciled", "cancelled"}
    BY DEF UsageSettled
  <2>1. proc[m].stage \in Settled
    BY <1>3 DEF Settled, Past
  <2>2. b # r
    BY <2>1, <1>2, <1>f
  <2>. QED BY <2>1, <2>2, <1>4 DEF UsageSettled
<1>15. AllAccounted'
  <2> SUFFICES ASSUME NEW m \in Attempts, proc'[m].stage \in Admitted,
                      NEW b \in Billings, b[1] < m, usage'[b] = "reconciled"
               PROVE  Checkpointed(b)
    BY <1>e DEF AllAccounted
  <2>1. proc[m].stage \in Admitted
    BY <1>3 DEF Admitted, Settled, Past
  <2>2. b # r
    BY <2>1, <1>2, <1>f DEF Admitted
  <2>. QED BY <2>1, <2>2, <1>4 DEF AllAccounted
<1>16. BillsAreKept'
  <2> SUFFICES ASSUME NEW a \in Billings, NEW b \in Billings,
                      a[1] < b[1], usage'[a] # "none", usage'[b] # "none"
               PROVE  usage'[a] = "cancelled" \/ Checkpointed(a)'
    BY DEF BillsAreKept
  <2>1. usage[a] # "none" /\ usage[b] # "none"
    BY <1>4
  <2>2. a # r
    BY <2>1, <1>4, <1>d DEF BillsAreKept
  <2>. QED BY <2>1, <2>2, <1>4, <1>e DEF BillsAreKept
<1>17. BillsAreAhead'
  BY <1>3, <1>4 DEF BillsAreAhead
<1>. QED BY <1>8, <1>9, <1>10, <1>11, <1>12, <1>13, <1>14, <1>15, <1>16, <1>17

\* A checkpoint of the reply its attempt is at: a tool round, after which the attempt asks
\* for the next reply, or the terminal reply, after which it asks for nothing.
LEMMA Keeping ==
  ASSUME IInv, IInv', BillInv, NEW n \in Attempts, CheckpointToolRound(n) \/ CheckpointAgentReply(n)
  PROVE  BillInv'
<1>. DEFINE r == Billing(n)
<1>. USE Numbers DEF BillInv
<1>1. TypeOK /\ TypeOK' /\ LatestHolds /\ proc \in [Attempts -> Proc]
  BY DEF IInv, TypeOK
<1>2. /\ r \in Billings /\ r[1] = n /\ r[2] = proc[n].at /\ r = <<n, proc[n].at>>
      /\ \A b \in Billings : b[1] \in Nat /\ b[2] \in Nat /\ b = <<b[1], b[2]>>
      /\ rounds \subseteq Billings /\ replies \subseteq Billings
  BY <1>1, BillingParts DEF Billing
<1>3. /\ proc[n].stage \in {"act", "answer"}
      /\ \A m \in Attempts : m # n => proc'[m] = proc[m]
      /\ UNCHANGED <<issued, asked, usage>>
      /\ \/ /\ proc'[n].stage = "reserve" /\ proc'[n].at = proc[n].at + 1
            /\ rounds' = rounds \union {r} /\ replies' = replies
         \/ /\ proc'[n].stage = "publish"
            /\ rounds' = rounds /\ replies' = replies \union {r}
  <2>1. CASE CheckpointToolRound(n)
    <3>1. proc[n].at + 1 \in Positions
      BY <2>1 DEF IInv, ActsInRound, CheckpointToolRound, In, Rounds, Positions
    <3>2. GoToReply(n, "reserve", proc[n].at + 1)
      BY <2>1 DEF CheckpointToolRound
    <3>3. /\ proc'[n].stage = "reserve" /\ proc'[n].at = proc[n].at + 1
          /\ \A m \in Attempts : m # n => proc'[m] = proc[m]
      BY <1>1, <3>1, <3>2, GoingToReply DEF Stages
    <3>. QED BY <2>1, <3>3 DEF CheckpointToolRound, In, world
  <2>2. CASE CheckpointAgentReply(n)
    BY <1>1, <2>2, Leaving DEF CheckpointAgentReply, In, Stages, world
  <2>. QED BY <2>1, <2>2
<1>4. usage[r] \in Accounts
  BY <1>3 DEF BillUnderWay
<1>5. n = issued
  BY <1>1, HolderIsLatest DEF CheckpointToolRound, CheckpointAgentReply
<1>6. \A m \in Attempts : proc'[m] = proc[m] => Billing(m)' = Billing(m)
  BY DEF Billing
<1>c. proc[n].at \in Nat /\ \A m \in Attempts : proc[m].stage # "idle" => m <= n
  BY <1>1, <1>5, BillingParts DEF IInv, OnlyClaimed
<1>d. \A b \in Billings : b = r \/ (Checkpointed(b)' <=> Checkpointed(b))
  BY <1>3 DEF Checkpointed
<1>e. \A b \in Billings : Checkpointed(b) => Checkpointed(b)'
  BY <1>3 DEF Checkpointed
<1>f. r \notin rounds /\ r \notin replies
  BY <1>2, <1>3 DEF OwnRoundsBehind, NoReplyYet, Talking
<1>g. \A b \in Billings : usage[b] # "none" => b[1] <= n
  BY <1>5 DEF BilledOnceClaimed
<1>. HIDE DEF r
<1>8. BilledOnceClaimed'
  BY <1>2, <1>3, <1>5 DEF BilledOnceClaimed
<1>9. NotYetBilled'
  BY <1>3, <1>c DEF NotYetBilled, Talking, Fresh
<1>10. BillUnderWay'
  BY <1>3, <1>6 DEF BillUnderWay
<1>11. AskedIsBilled'
  BY <1>3 DEF AskedIsBilled
<1>12. CheckpointsAreBilled'
  BY <1>3, <1>4, <1>d DEF CheckpointsAreBilled
<1>13. OwnRoundsBehind'
  BY <1>2, <1>3, <1>c DEF OwnRoundsBehind, Talking
<1>14. NoReplyYet'
  <2> SUFFICES ASSUME NEW m \in Attempts, proc'[m].stage \in Talking, NEW b \in replies'
               PROVE  m < b[1]
    BY DEF NoReplyYet
  <2>1. proc[m].stage \in Talking
    BY <1>3 DEF Talking
  <2>2. m <= n /\ (m = n => proc'[n].stage = "reserve")
    BY <2>1, <1>3, <1>c DEF Talking
  <2>3. CASE b = r
    BY <2>2, <2>3, <1>2, <1>3, <1>f
  <2>4. CASE b # r
    BY <2>1, <2>4, <1>3 DEF NoReplyYet
  <2>. QED BY <2>3, <2>4
<1>15. RoundOrReply'
  BY <1>3, <1>f DEF RoundOrReply
<1>16. UsageSettled'
  BY <1>3 DEF UsageSettled, Settled, Past
<1>17. AllAccounted'
  BY <1>3, <1>e DEF AllAccounted, Admitted, Settled, Past
<1>18. BillsAreKept'
  BY <1>3, <1>e DEF BillsAreKept
<1>19. BillsAreAhead'
  <2> SUFFICES ASSUME NEW b \in Billings, usage[b] # "none"
               PROVE  /\ \A e \in rounds' : e[1] < b[1] => e[2] < b[2]
                      /\ \A e \in replies' : b[1] <= e[1]
    BY <1>3 DEF BillsAreAhead
  <2>1. b[1] <= n
    BY <1>g
  <2>. QED BY <2>1, <1>2, <1>3 DEF BillsAreAhead
<1>. QED
  BY <1>8, <1>9, <1>10, <1>11, <1>12, <1>13, <1>14, <1>15, <1>16, <1>17, <1>18, <1>19

\* CheckUsage: past it, no earlier attempt has a reservation or an unknown charge.
LEMMA Settling ==
  ASSUME IInv, IInv', BillInv, NEW n \in Attempts, CheckUsage(n)
  PROVE  BillInv'
<1>1. proc[n].stage = "usage" /\ proc \in [Attempts -> Proc] /\ usage \in [Billings -> UsageStatus]
  BY DEF CheckUsage, In, IInv, TypeOK
<1>2. UNCHANGED <<usage, asked, rounds, replies, issued>>
  BY DEF CheckUsage, ledger, world
<1>3. /\ \A m \in Attempts : m # n => proc'[m] = proc[m]
      /\ proc'[n].stage \in {"counts", "park"}
      /\ proc'[n].stage = "counts" => With("reserved") \union With("unknown") = {}
  BY <1>1, Going, Leaving DEF CheckUsage, Stages
<1>4. proc'[n].stage = "counts" =>
        \A b \in Billings : usage[b] \in {"none", "reconciled", "cancelled"}
  BY <1>1, <1>3 DEF With, UsageStatus
<1>5. issued <= issued'
  BY <1>2, Numbers DEF IInv, TypeOK
<1>. QED
  BY <1>1, <1>2, <1>3, <1>4, <1>5, BillsElsewhere DEF Fresh, Settled, Admitted, Past

\* CheckCount: the earlier checkpoints are billed, each once, so when there are as many of
\* them as there are reconciled bills, every reconciled bill has its checkpoint.
LEMMA Counting ==
  ASSUME IInv, BillInv, NEW n \in Attempts, proc[n].stage = "counts", Accounted(n)
  PROVE  \A b \in Billings : usage[b] = "reconciled" => Checkpointed(b)
<1>. DEFINE R == Earlier(rounds, n)
            Q == Earlier(replies, n)
            W == With("reconciled")
<1>1. TypeOK
  BY DEF IInv
<1>2. rounds \subseteq Billings /\ replies \subseteq Billings
  BY <1>1, BillingParts
<1>3. IsFiniteSet(Billings)
  <2>1. MaxAttempts \in Int /\ MaxRounds + 1 \in Int
    BY Numbers
  <2>2. IsFiniteSet(Attempts) /\ IsFiniteSet(Positions)
    BY <2>1, FS_Interval DEF Attempts, Positions
  <2>. QED BY <2>2, FS_Product DEF Billings
<1>4. IsFiniteSet(W) /\ R \subseteq W /\ Q \subseteq W
  <2>1. W \subseteq Billings
    BY DEF With
  <2>2. ASSUME NEW b \in Billings, b[1] < n, Checkpointed(b)
        PROVE  b \in W
    BY <2>2 DEF BillInv, CheckpointsAreBilled, UsageSettled, Accounts, Settled, Past, With
  <2>. QED BY <1>2, <1>3, <2>1, <2>2, FS_Subset DEF Earlier, Checkpointed
<1>5. R \intersect Q = {}
  BY DEF Earlier, BillInv, RoundOrReply
<1>6. IsFiniteSet(R) /\ IsFiniteSet(Q) /\ R \union Q \subseteq W
  BY <1>4, FS_Subset
<1>7. Cardinality(R \union Q) = Cardinality(R) + Cardinality(Q)
  <2>1. /\ Cardinality(R) \in Nat /\ Cardinality(Q) \in Nat
        /\ Cardinality(R \intersect Q) = 0
        /\ Cardinality(R \union Q) = Cardinality(R) + Cardinality(Q) - Cardinality(R \intersect Q)
    BY <1>5, <1>6, FS_Union, FS_CardinalityType, FS_EmptySet
  <2>. QED BY <2>1
<1>8. Cardinality(R) + Cardinality(Q) = Cardinality(W)
  BY DEF Accounted
<1>9. R \union Q = W
  BY <1>4, <1>6, <1>7, <1>8, FS_Subset
<1>. QED BY <1>9 DEF With, Earlier, Checkpointed

LEMMA Admitting ==
  ASSUME IInv, IInv', BillInv, NEW n \in Attempts, CheckCount(n)
  PROVE  BillInv'
<1>1. proc[n].stage = "counts" /\ proc \in [Attempts -> Proc] /\ TypeOK
  BY DEF CheckCount, In, IInv, TypeOK
<1>2. UNCHANGED <<usage, asked, rounds, replies, issued>>
  BY DEF CheckCount, ledger, world
<1>3. /\ \A m \in Attempts : m # n => proc'[m] = proc[m]
      /\ proc'[n].stage \in {"resume", "park"}
      /\ proc'[n].stage = "resume" => n = 1 \/ With("reconciled") = {} \/ Accounted(n)
  BY <1>1, Going, Leaving DEF CheckCount, Stages
<1>4. ASSUME proc'[n].stage = "resume", NEW b \in Billings, b[1] < n, usage[b] = "reconciled"
      PROVE  Checkpointed(b)
  <2>1. n # 1
    BY <1>1, <1>4, BillingParts, Numbers DEF Attempts
  <2>2. b \in With("reconciled")
    BY <1>4 DEF With
  <2>. QED BY <1>1, <1>3, <1>4, <2>1, <2>2, Counting
<1>5. \A b \in Billings : b[1] < n => usage[b] \in {"none", "reconciled", "cancelled"}
  BY <1>1 DEF BillInv, UsageSettled, Settled, Past
<1>6. issued <= issued'
  BY <1>2, Numbers DEF IInv, TypeOK
<1>. QED
  BY <1>1, <1>2, <1>3, <1>4, <1>5, <1>6, BillsElsewhere DEF Fresh, Settled, Admitted, Past

\* Resume: an attempt past CheckCount goes on only where no attempt before it replied.
LEMMA Returning ==
  ASSUME IInv, IInv', BillInv, NEW n \in Attempts, Resume(n)
  PROVE  BillInv'
<1>. USE Numbers
<1>1. proc[n].stage = "resume" /\ proc \in [Attempts -> Proc] /\ TypeOK
  BY DEF Resume, In, IInv, TypeOK
<1>2. UNCHANGED <<usage, asked, rounds, replies, issued>>
  BY DEF Resume, ledger, world
<1>3. /\ \A m \in Attempts : m # n => proc'[m] = proc[m]
      /\ proc'[n].stage \in {"reserve", "publish"}
      /\ proc'[n].stage = "reserve" => Earlier(replies, n) = {}
  BY <1>1, GoingToReply, Leaving DEF Resume, Stages
<1>4. ASSUME proc'[n].stage = "reserve", NEW b \in replies
      PROVE  n <= b[1]
  BY <1>1, <1>3, <1>4, BillingParts DEF Earlier
<1>5. \A b \in Billings : b[1] < n => usage[b] \in {"none", "reconciled", "cancelled"}
  BY <1>1 DEF BillInv, UsageSettled, Settled, Past
<1>6. \A b \in Billings : b[1] < n /\ usage[b] = "reconciled" => Checkpointed(b)
  BY <1>1 DEF BillInv, AllAccounted, Admitted, Settled, Past
<1>7. issued <= issued'
  BY <1>1, <1>2 DEF TypeOK
<1>. QED
  BY <1>1, <1>2, <1>3, <1>4, <1>5, <1>6, <1>7, BillsElsewhere DEF Fresh

\* Every step keeps what the bills and the checkpoints say of each other.
LEMMA NextBillInv ==
  ASSUME IInv, BillInv, [Next]_vars
  PROVE  BillInv'
<1>. USE Numbers
<1>0. IInv'
  BY NextIInv
<1>1. TypeOK /\ proc \in [Attempts -> Proc] /\ issued \in Nat
  BY DEF IInv, TypeOK
<1>2. ASSUME UNCHANGED <<issued, proc, usage, asked, rounds, replies>>
      PROVE  BillInv'
  BY <1>2
  DEF BillInv, BilledOnceClaimed, NotYetBilled, BillUnderWay, AskedIsBilled, CheckpointsAreBilled,
      OwnRoundsBehind, NoReplyYet, RoundOrReply, UsageSettled, AllAccounted, BillsAreKept,
      BillsAreAhead, Checkpointed, Billing
<1>3. CASE UNCHANGED vars \/ Expire \/ Revive \/ Wake
  BY <1>2, <1>3 DEF vars, ledger, world, Expire, Revive, Wake
<1>4. CASE Claim
  <2>1. /\ issued + 1 \in Attempts /\ issued' = issued + 1
        /\ UNCHANGED <<usage, asked, rounds, replies>>
        /\ GoTo(issued + 1, "effects")
    BY <1>1, <1>4 DEF Claim, ledger, world, Attempts
  <2>2. PICK n \in Attempts : n = issued + 1
    BY <2>1
  <2>3. proc[n].stage = "idle"
    BY <1>1, <2>2 DEF IInv, OnlyClaimed
  <2>4. proc'[n].stage = "effects" /\ \A m \in Attempts : m # n => proc'[m] = proc[m]
    BY <1>1, <2>1, <2>2, Going DEF Stages
  <2>5. issued <= issued'
    BY <1>1, <2>1
  <2>. QED
    BY <1>0, <2>1, <2>3, <2>4, <2>5, BillsElsewhere DEF Fresh, Settled, Admitted, Past
<1>5. ASSUME NEW n \in Attempts, CheckEffects(n) \/ Publish(n) \/ Park(n) \/ Abort(n)
      PROVE  BillInv'
  <2>1. /\ \A m \in Attempts : m # n => proc'[m] = proc[m]
        /\ proc'[n].stage \in {"usage", "park", "gone"}
        /\ proc'[n].stage = "usage" => proc[n].stage = "effects"
    <3>1. CASE CheckEffects(n)
      BY <1>1, <3>1, Going, Leaving DEF CheckEffects, In, Stages
    <3>2. CASE Publish(n) \/ Park(n) \/ Abort(n)
      BY <1>1, <3>2, Leaving DEF Publish, Park, Abort, Stages
    <3>. QED BY <1>5, <3>1, <3>2
  <2>2. UNCHANGED <<issued, usage, asked, rounds, replies>>
    BY <1>5 DEF CheckEffects, Publish, Park, Abort, ledger, world
  <2>3. issued <= issued'
    BY <1>1, <2>2
  <2>. QED
    BY <1>0, <2>1, <2>2, <2>3, BillsElsewhere DEF Fresh, Settled, Admitted, Past
<1>6. ASSUME NEW n \in Attempts,
             \/ CheckUsage(n) \/ CheckCount(n) \/ Resume(n)
             \/ Reserve(n) \/ Send(n) \/ NotSent(n) \/ Account(n)
             \/ CheckpointToolRound(n) \/ CheckpointAgentReply(n)
      PROVE  BillInv'
  BY <1>0, <1>6, Settling, Admitting, Returning, Reserving, Sending, Resolving, Keeping
<1>7. ASSUME NEW n \in Attempts, NEW c \in Calls,
             Prepare(n, c) \/ Begin(n, c) \/ Perform(n, c) \/ Observe(n, c)
      PROVE  BillInv'
  BY <1>2, <1>7 DEF Prepare, Begin, Perform, Observe, ledger, world
<1>8. ASSUME NEW c \in Calls, OutsideEdit(c)
      PROVE  BillInv'
  BY <1>2, <1>8 DEF OutsideEdit, ledger
<1>. QED BY <1>3, <1>4, <1>5, <1>6, <1>7, <1>8 DEF Next, Executor

\* What the bills and the checkpoints say of each other holds in every reachable state.
THEOREM BillInvariance == Spec => []BillInv
<1>1. Init => BillInv
  BY InitBillInv
<1>2. IInv /\ BillInv /\ [Next]_vars => BillInv'
  BY NextBillInv
<1>. QED BY <1>1, <1>2, Invariance, PTL DEF Spec

\* A reply an attempt was billed for is never asked for again by a later one: the earlier
\* bill is in a checkpoint, the terminal reply ends the conversation, and after a round the
\* conversation resumes further on.
THEOREM ReplyCorrectness == Spec => []RepliesNotRebought
<1>1. IInv /\ BillInv => RepliesNotRebought
  <2> SUFFICES ASSUME IInv, BillInv PROVE RepliesNotRebought
    OBVIOUS
  <2>0. TypeOK
    BY DEF IInv
  <2>1. ASSUME NEW a \in asked, NEW b \in asked, a[2] = b[2], a[1] < b[1]
        PROVE  FALSE
    <3>1. a \in Billings /\ b \in Billings /\ a[2] \in Nat /\ a[1] \in Nat /\ b[1] \in Nat
      BY <2>0, BillingParts
    <3>2. usage[a] \in {"reserved", "reconciled", "unknown"} /\ usage[b] # "none"
      BY DEF BillInv, AskedIsBilled, Accounts
    <3>3. Checkpointed(a)
      BY <2>1, <3>1, <3>2 DEF BillInv, BillsAreKept
    <3>4. (a \in rounds => a[2] < b[2]) /\ (a \in replies => b[1] <= a[1])
      BY <2>1, <3>1, <3>2 DEF BillInv, BillsAreAhead
    <3>. QED BY <2>1, <3>1, <3>3, <3>4 DEF Checkpointed
  <2>2. ASSUME NEW a \in asked, NEW b \in asked, a[2] = b[2]
        PROVE  a[1] = b[1]
    <3>1. a[1] \in Nat /\ b[1] \in Nat
      BY <2>0, BillingParts
    <3>. QED BY <2>1, <2>2, <3>1
  <2>. QED BY <2>2 DEF RepliesNotRebought
<1>. QED BY <1>1, Invariance, BillInvariance, PTL

-----------------------------------------------------------------------------
\* A step that checkpoints no round, and in which no executor enters the conversation or
\* moves on in it, leaves it complete.
LEMMA TalkElsewhere ==
  ASSUME TalkInv, UNCHANGED rounds,
         \A m \in Attempts : proc'[m].stage \in Talking =>
           proc[m].stage \in Talking /\ proc'[m].at = proc[m].at
  PROVE  TalkInv'
BY DEF TalkInv, NoGaps, TalkIsComplete

\* A round is checkpointed at the position the conversation is complete up to.
LEMMA Extending ==
  ASSUME IInv, TalkInv, NEW n \in Attempts, CheckpointToolRound(n)
  PROVE  TalkInv'
<1>. DEFINE k == proc[n].at
<1>. DEFINE e == <<n, k>>
<1>1. TypeOK /\ proc \in [Attempts -> Proc]
  BY DEF IInv, TypeOK
<1>2. e[1] = n /\ e[2] = k /\ k \in Nat
  BY <1>1, BillingParts
<1>3. /\ proc[n].stage = "act" /\ rounds' = rounds \union {e}
      /\ proc'[n].at = k + 1
      /\ \A m \in Attempts : m # n => proc'[m] = proc[m]
  <2>1. k + 1 \in Positions
    BY <1>2, Numbers DEF IInv, ActsInRound, CheckpointToolRound, In, Rounds, Positions
  <2>. QED BY <1>1, <2>1, GoingToReply DEF CheckpointToolRound, In, Stages, Billing
<1>. HIDE DEF k, e
<1>4. \A j \in 1..(k - 1) : \E b \in rounds : b[1] <= n /\ b[2] = j
  BY <1>3 DEF TalkInv, TalkIsComplete, Talking, k
<1>5. \A j \in 1..k : \E b \in rounds' : b[1] <= n /\ b[2] = j
  <2> SUFFICES ASSUME NEW j \in 1..k PROVE \E b \in rounds' : b[1] <= n /\ b[2] = j
    OBVIOUS
  <2>1. CASE j = k
    BY <2>1, <1>2, <1>3, Numbers
  <2>2. CASE j # k
    <3>1. j \in 1..(k - 1)
      BY <2>2, <1>2
    <3>. QED BY <3>1, <1>3, <1>4
  <2>. QED BY <2>1, <2>2
<1>6. NoGaps'
  <2> SUFFICES ASSUME NEW d \in rounds', NEW j \in 1..d[2]
               PROVE  \E b \in rounds' : b[1] <= d[1] /\ b[2] = j
    BY DEF NoGaps
  <2>1. CASE d = e
    BY <2>1, <1>2, <1>5
  <2>2. CASE d # e
    BY <2>2, <1>3 DEF TalkInv, NoGaps
  <2>. QED BY <2>1, <2>2
<1>7. TalkIsComplete'
  <2> SUFFICES ASSUME NEW m \in Attempts, proc'[m].stage \in Talking, NEW j \in 1..(proc'[m].at - 1)
               PROVE  \E b \in rounds' : b[1] <= m /\ b[2] = j
    BY DEF TalkIsComplete
  <2>1. CASE m = n
    <3>1. j \in 1..k
      BY <2>1, <1>2, <1>3
    <3>. QED BY <2>1, <3>1, <1>5
  <2>2. CASE m # n
    BY <2>2, <1>3 DEF TalkInv, TalkIsComplete
  <2>. QED BY <2>1, <2>2
<1>. QED BY <1>6, <1>7 DEF TalkInv

\* A conversation resumes right after the latest round of the earlier attempts.
LEMMA Continuing ==
  ASSUME IInv, TalkInv, NEW n \in Attempts, Resume(n)
  PROVE  TalkInv'
<1>. USE Numbers
<1>1. TypeOK /\ proc \in [Attempts -> Proc] /\ rounds' = rounds
  BY DEF IInv, TypeOK, Resume, ledger
<1>2. CASE Leave(n, "publish")
  <2>1. proc'[n].stage = "publish" /\ \A m \in Attempts : m # n => proc'[m] = proc[m]
    BY <1>1, <1>2, Leaving DEF Stages
  <2>. QED BY <1>1, <2>1, TalkElsewhere DEF Talking
<1>3. ASSUME NEW k \in Positions, ResumesAt(n, k), GoToReply(n, "reserve", k)
      PROVE  TalkInv'
  <2>1. proc'[n].at = k /\ \A m \in Attempts : m # n => proc'[m] = proc[m]
    BY <1>1, <1>3, GoingToReply DEF Stages
  <2>2. ASSUME NEW j \in 1..(k - 1)
        PROVE  \E b \in rounds : b[1] <= n /\ b[2] = j
    <3>1. Earlier(rounds, n) # {}
      BY <1>3 DEF ResumesAt
    <3>2. PICK e \in rounds : IsLatest(e, Earlier(rounds, n)) /\ k = e[2] + 1
      BY <1>3, <3>1 DEF ResumesAt
    <3>3. e[1] < n /\ e[1] \in Nat /\ e[2] \in Nat
      BY <1>1, <3>2 DEF IsLatest, Earlier, TypeOK
    <3>4. j \in 1..e[2]
      BY <3>2, <3>3
    <3>5. PICK b \in rounds : b[1] <= e[1] /\ b[2] = j
      BY <3>4 DEF TalkInv, NoGaps
    <3>6. b[1] \in Nat
      BY <1>1 DEF TypeOK
    <3>. QED BY <3>3, <3>5, <3>6
  <2>. QED BY <1>1, <2>1, <2>2 DEF TalkInv, NoGaps, TalkIsComplete
<1>. QED BY <1>2, <1>3 DEF Resume

\* Every step leaves the conversation without a gap.
LEMMA NextTalkInv ==
  ASSUME IInv, TalkInv, [Next]_vars
  PROVE  TalkInv'
<1>. USE Numbers
<1>1. TypeOK /\ proc \in [Attempts -> Proc] /\ issued \in Nat
  BY DEF IInv, TypeOK
<1>2. ASSUME UNCHANGED <<proc, rounds>>
      PROVE  TalkInv'
  BY <1>2, TalkElsewhere
<1>3. CASE UNCHANGED vars \/ Expire \/ Revive \/ Wake
  BY <1>2, <1>3 DEF vars, ledger, Expire, Revive, Wake
<1>4. CASE Claim
  <2>1. issued + 1 \in Attempts /\ UNCHANGED rounds /\ GoTo(issued + 1, "effects")
    BY <1>1, <1>4 DEF Claim, ledger, Attempts
  <2>2. /\ proc'[issued + 1].stage = "effects"
        /\ \A m \in Attempts : m # issued + 1 => proc'[m] = proc[m]
    BY <1>1, <2>1, Going DEF Stages
  <2>. QED BY <2>1, <2>2, TalkElsewhere DEF Talking
<1>5. ASSUME NEW n \in Attempts,
             \/ CheckEffects(n) \/ CheckUsage(n) \/ CheckCount(n)
             \/ NotSent(n) \/ CheckpointAgentReply(n) \/ Publish(n) \/ Park(n) \/ Abort(n)
      PROVE  TalkInv'
  <2>1. /\ proc'[n].stage \notin Talking
        /\ \A m \in Attempts : m # n => proc'[m] = proc[m]
    <3>1. CASE CheckEffects(n)
      BY <1>1, <3>1, Going, Leaving DEF CheckEffects, Stages, Talking
    <3>2. CASE CheckUsage(n) \/ CheckCount(n)
      BY <1>1, <3>2, Going, Leaving DEF CheckUsage, CheckCount, Stages, Talking
    <3>3. CASE NotSent(n) \/ CheckpointAgentReply(n) \/ Publish(n) \/ Park(n) \/ Abort(n)
      BY <1>1, <3>3, Leaving DEF NotSent, CheckpointAgentReply, Publish, Park, Abort, Stages, Talking
    <3>. QED BY <1>5, <3>1, <3>2, <3>3
  <2>2. UNCHANGED rounds
    BY <1>5
    DEF CheckEffects, CheckUsage, CheckCount, NotSent, CheckpointAgentReply, Publish, Park, Abort, ledger
  <2>. QED BY <2>1, <2>2, TalkElsewhere
<1>6. ASSUME NEW n \in Attempts, Reserve(n) \/ Send(n) \/ Account(n)
      PROVE  TalkInv'
  <2>1. proc[n].stage \in Talking /\ UNCHANGED rounds
    BY <1>6 DEF Reserve, Send, Account, In, Talking, ledger
  <2>2. proc'[n].at = proc[n].at /\ \A m \in Attempts : m # n => proc'[m] = proc[m]
    <3>1. CASE Reserve(n) \/ Send(n)
      BY <1>1, <3>1, Going DEF Reserve, Send, Stages
    <3>2. CASE GoTo(n, "answer")
      BY <1>1, <3>2, Going DEF Stages
    <3>3. ASSUME NEW calls,
                 proc' = [proc EXCEPT ![n] = [stage |-> "act", at |-> @.at, calls |-> calls]]
          PROVE  <2>2!:
      BY <1>1, <3>3
    <3>. QED BY <1>6, <3>1, <3>2, <3>3 DEF Account
  <2>. QED BY <2>1, <2>2, TalkElsewhere
<1>7. ASSUME NEW n \in Attempts, CheckpointToolRound(n) \/ Resume(n)
      PROVE  TalkInv'
  BY <1>7, Extending, Continuing
<1>8. ASSUME NEW n \in Attempts, NEW c \in Calls,
             Prepare(n, c) \/ Begin(n, c) \/ Perform(n, c) \/ Observe(n, c)
      PROVE  TalkInv'
  BY <1>2, <1>8 DEF Prepare, Begin, Perform, Observe, ledger
<1>9. ASSUME NEW c \in Calls, OutsideEdit(c)
      PROVE  TalkInv'
  BY <1>2, <1>9 DEF OutsideEdit, ledger
<1>. QED BY <1>3, <1>4, <1>5, <1>6, <1>7, <1>8, <1>9 DEF Next, Executor

\* The rounds of an attempt that holds the lease are exactly those before the reply it is
\* at: complete by TalkInv, and none further on by TalkIsAhead and OwnRoundsBehind.
THEOREM ConversationCorrectness == Spec => []ConversationIsComplete
<1>1. Init => TalkInv
  BY DEF Init, TalkInv, NoGaps, TalkIsComplete, Talking
<1>2. IInv /\ TalkInv /\ [Next]_vars => TalkInv'
  BY NextTalkInv
<1>3. IInv /\ BillInv /\ TalkInv => ConversationIsComplete
  <2> SUFFICES ASSUME IInv, BillInv, TalkInv, NEW n \in Attempts,
                      proc[n].stage \in Talking, Holds(n)
               PROVE  {b[2] : b \in rounds} = 1..(proc[n].at - 1)
    BY DEF ConversationIsComplete, Talking
  <2>1. TypeOK /\ n = issued
    BY HolderIsLatest DEF IInv
  <2>2. \A b \in rounds : b[1] \in Nat /\ b[2] \in Nat /\ b[2] >= 1 /\ b[1] <= n
    <3>1. \A b \in rounds : b[1] \in Attempts /\ b[2] \in 1..MaxRounds
      BY <2>1 DEF TypeOK, Rounds
    <3>2. \A b \in rounds : b[1] <= issued
      BY DEF IInv, OnlyClaimed
    <3>. QED BY <2>1, <3>1, <3>2, Numbers
  <2>3. n \in Nat /\ proc[n].at \in Nat
    BY <2>1, Numbers, BillingParts
  <2>4. ASSUME NEW b \in rounds
        PROVE  b[2] \in 1..(proc[n].at - 1)
    <3>1. b[2] < proc[n].at
      BY <2>2, <2>3 DEF IInv, TalkIsAhead, BillInv, OwnRoundsBehind
    <3>. QED BY <2>2, <2>3, <3>1
  <2>5. \A k \in 1..(proc[n].at - 1) : \E b \in rounds : b[2] = k
    BY DEF TalkInv, TalkIsComplete
  <2>. QED BY <2>4, <2>5
<1>. QED BY <1>1, <1>2, <1>3, Invariance, BillInvariance, PTL DEF Spec

-----------------------------------------------------------------------------
\* The journal's record changes only by Prepare, by Begin and Observe, and by the check of
\* a later attempt; bills, checkpoints of replies and results only by their own actions.
LEMMA WhatChanges ==
  ASSUME [Next]_vars
  PROVE  /\ \/ UNCHANGED ops
            \/ \E n \in Attempts : CheckEffects(n)
            \/ \E n \in Attempts, c \in Calls : Prepare(n, c) \/ Begin(n, c) \/ Observe(n, c)
         /\ \/ UNCHANGED usage
            \/ \E n \in Attempts : Reserve(n) \/ NotSent(n) \/ Account(n)
         /\ UNCHANGED replies \/ \E n \in Attempts : CheckpointAgentReply(n)
         /\ UNCHANGED results \/ \E n \in Attempts : Publish(n)
<1>1. CASE UNCHANGED vars \/ Claim \/ Expire \/ Revive \/ Wake
  BY <1>1 DEF vars, ledger, Claim, Expire, Revive, Wake
<1>2. ASSUME NEW n \in Attempts,
             CheckEffects(n) \/ CheckUsage(n) \/ CheckCount(n) \/ Resume(n) \/ Park(n) \/ Abort(n)
      PROVE  /\ UNCHANGED ops \/ CheckEffects(n)
             /\ UNCHANGED <<usage, replies, results>>
  BY <1>2 DEF ledger, CheckEffects, CheckUsage, CheckCount, Resume, Park, Abort
<1>3. ASSUME NEW n \in Attempts, Reserve(n) \/ Send(n) \/ NotSent(n) \/ Account(n)
      PROVE  /\ UNCHANGED <<ops, replies, results>>
             /\ UNCHANGED usage \/ Reserve(n) \/ NotSent(n) \/ Account(n)
  BY <1>3 DEF ledger, Reserve, Send, NotSent, Account
<1>4. ASSUME NEW n \in Attempts, CheckpointToolRound(n) \/ CheckpointAgentReply(n) \/ Publish(n)
      PROVE  /\ UNCHANGED <<ops, usage>>
             /\ UNCHANGED replies \/ CheckpointAgentReply(n)
             /\ UNCHANGED results \/ Publish(n)
  BY <1>4 DEF ledger, CheckpointToolRound, CheckpointAgentReply, Publish
<1>5. ASSUME NEW n \in Attempts, NEW c \in Calls,
             Prepare(n, c) \/ Begin(n, c) \/ Perform(n, c) \/ Observe(n, c)
      PROVE  /\ UNCHANGED ops \/ Prepare(n, c) \/ Begin(n, c) \/ Observe(n, c)
             /\ UNCHANGED <<usage, replies, results>>
  BY <1>5 DEF ledger, Prepare, Begin, Perform, Observe
<1>6. ASSUME NEW c \in Calls, OutsideEdit(c)
      PROVE  UNCHANGED <<ops, usage, replies, results>>
  BY <1>6 DEF ledger, OutsideEdit
<1>. QED BY <1>1, <1>2, <1>3, <1>4, <1>5, <1>6 DEF Next, Executor

\* Checkpoints of replies and results are never taken back.
LEMMA OnlyMore ==
  ASSUME [Next]_vars
  PROVE  replies \subseteq replies' /\ results \subseteq results'
BY WhatChanges DEF CheckpointAgentReply, Publish

\* The records stay and one executor at most moves on, where its operations allow it.
LEMMA OwnElsewhere ==
  ASSUME OwnReceipts, UNCHANGED ops, NEW n \in Attempts,
         \A m \in Attempts : m # n => proc'[m] = proc[m],
         \/ proc'[n] = proc[n]
         \/ /\ proc'[n].stage \in Fresh => proc[n].stage \in Fresh
            /\ proc'[n].stage \in Talking \union {"publish"} =>
                 \A x \in OpIds : x[1] = n /\ ops[x].status # "none" =>
                   Receipt(x) /\ (proc'[n].stage \in Talking => x[2] < proc'[n].at)
  PROVE  OwnReceipts'
<1>1. \A x \in OpIds : Receipt(x)' <=> Receipt(x)
  BY DEF Receipt
<1>. QED BY <1>1 DEF OwnReceipts

\* A record advances while no executor moves on, or the one that advances it parks.
LEMMA OwnAdvance ==
  ASSUME OwnReceipts, NEW x \in OpIds,
         ops[x].status # "none",
         \A z \in OpIds : z # x => ops'[z] = ops[z],
         Receipt(x) => Receipt(x)',
         \A m \in Attempts : proc'[m] = proc[m] \/ proc'[m].stage = "park"
  PROVE  OwnReceipts'
<1>1. \A z \in OpIds : Receipt(z) => Receipt(z)'
  BY DEF Receipt
<1>2. \A z \in OpIds : ops'[z].status # "none" => ops[z].status # "none"
  OBVIOUS
<1>. QED BY <1>1, <1>2 DEF OwnReceipts, Fresh, Talking

\* Every step keeps the receipts of an attempt's own operations.
LEMMA NextOwnReceipts ==
  ASSUME IInv, OwnReceipts, [Next]_vars
  PROVE  OwnReceipts'
<1>. USE Numbers
<1>1. TypeOK /\ proc \in [Attempts -> Proc] /\ issued \in Nat /\ ops \in [OpIds -> Operation]
      /\ \A x \in OpIds : x[2] \in Nat
  BY OpIdParts DEF IInv, TypeOK
<1>2. ASSUME UNCHANGED <<proc, ops>>
      PROVE  OwnReceipts'
  BY <1>2 DEF OwnReceipts, Receipt
<1>3. CASE UNCHANGED vars \/ Expire \/ Revive \/ Wake
  BY <1>2, <1>3 DEF vars, ledger, Expire, Revive, Wake
<1>4. CASE Claim
  <2>1. issued + 1 \in Attempts /\ UNCHANGED ops /\ GoTo(issued + 1, "effects")
    BY <1>1, <1>4 DEF Claim, ledger, Attempts
  <2>2. PICK n \in Attempts : n = issued + 1
    BY <2>1
  <2>3. proc[n].stage = "idle"
    BY <1>1, <2>2 DEF IInv, OnlyClaimed
  <2>4. proc'[n].stage = "effects" /\ \A m \in Attempts : m # n => proc'[m] = proc[m]
    BY <1>1, <2>1, <2>2, Going DEF Stages
  <2>. QED BY <2>1, <2>3, <2>4, OwnElsewhere DEF Fresh, Talking
<1>5. ASSUME NEW n \in Attempts, CheckEffects(n)
      PROVE  OwnReceipts'
  <2>0. proc[n].stage = "effects"
    BY <1>5 DEF CheckEffects, In
  <2>1. CASE UNCHANGED ops
    <3>1. /\ proc'[n].stage \in {"usage", "park"}
          /\ \A m \in Attempts : m # n => proc'[m] = proc[m]
      BY <1>1, <1>5, Going, Leaving DEF CheckEffects, Stages
    <3>. QED BY <2>0, <2>1, <3>1, OwnElsewhere DEF Fresh, Talking
  <2>2. ASSUME NEW x \in OpIds, ops[x].status = "running", Advance(x, "reconciled", n), Leave(n, "park")
        PROVE  OwnReceipts'
    <3>1. ops'[x].status = "reconciled" /\ \A z \in OpIds : z # x => ops'[z] = ops[z]
      BY <1>1, <2>2, RecordAdvances DEF OpStatus
    <3>2. proc'[n].stage = "park" /\ \A m \in Attempts : m # n => proc'[m] = proc[m]
      BY <1>1, <2>2, Leaving DEF Stages
    <3>3. Receipt(x)'
      BY <3>1 DEF Receipt
    <3>. QED BY <2>2, <3>1, <3>2, <3>3, OwnAdvance
  <2>. QED BY <1>5, <2>1, <2>2 DEF CheckEffects, Proves
<1>6. ASSUME NEW n \in Attempts, CheckUsage(n) \/ CheckCount(n) \/ NotSent(n) \/ Publish(n) \/ Park(n) \/ Abort(n)
      PROVE  OwnReceipts'
  <2>1. UNCHANGED ops
    BY <1>6 DEF CheckUsage, CheckCount, NotSent, Publish, Park, Abort, ledger
  <2>2. /\ proc'[n].stage \in {"counts", "resume", "park", "gone"}
        /\ proc'[n].stage \in {"counts", "resume"} => proc[n].stage \in {"usage", "counts"}
        /\ \A m \in Attempts : m # n => proc'[m] = proc[m]
    <3>1. CASE CheckUsage(n) \/ CheckCount(n)
      BY <1>1, <3>1, Going, Leaving DEF CheckUsage, CheckCount, In, Stages
    <3>2. CASE NotSent(n) \/ Publish(n) \/ Park(n) \/ Abort(n)
      BY <1>1, <3>2, Leaving DEF NotSent, Publish, Park, Abort, Stages
    <3>. QED BY <1>6, <3>1, <3>2
  <2>. QED BY <2>1, <2>2, OwnElsewhere DEF Fresh, Talking
<1>7. ASSUME NEW n \in Attempts, Resume(n)
      PROVE  OwnReceipts'
  <2>1. UNCHANGED ops /\ proc[n].stage = "resume"
    BY <1>7 DEF Resume, In, ledger
  <2>2. \A x \in OpIds : ~(x[1] = n /\ ops[x].status # "none")
    BY <2>1 DEF OwnReceipts, Fresh
  <2>3. /\ proc'[n].stage \in {"reserve", "publish"}
        /\ \A m \in Attempts : m # n => proc'[m] = proc[m]
    BY <1>1, <1>7, GoingToReply, Leaving DEF Resume, Stages
  <2>. QED BY <2>1, <2>2, <2>3, OwnElsewhere DEF Fresh
<1>8. ASSUME NEW n \in Attempts, Reserve(n) \/ Send(n)
      PROVE  OwnReceipts'
  <2>1. UNCHANGED ops /\ proc[n].stage \in {"reserve", "send"}
    BY <1>8 DEF Reserve, Send, In, ledger
  <2>2. \A x \in OpIds : x[1] = n /\ ops[x].status # "none" => Receipt(x) /\ x[2] < proc[n].at
    BY <2>1 DEF OwnReceipts, Talking
  <2>3. /\ proc'[n].stage \in {"send", "account"} /\ proc'[n].at = proc[n].at
        /\ \A m \in Attempts : m # n => proc'[m] = proc[m]
    BY <1>1, <1>8, Going DEF Reserve, Send, Stages
  <2>. QED BY <2>1, <2>2, <2>3, OwnElsewhere DEF Fresh
<1>9. ASSUME NEW n \in Attempts, Account(n)
      PROVE  OwnReceipts'
  <2>1. UNCHANGED ops /\ proc[n].stage = "account"
    BY <1>9 DEF Account, In
  <2>2. \A x \in OpIds : x[1] = n /\ ops[x].status # "none" => Receipt(x) /\ x[2] < proc[n].at
    BY <2>1 DEF OwnReceipts, Talking
  <2>3. /\ proc'[n].stage \in {"act", "answer"} /\ proc'[n].at = proc[n].at
        /\ \A m \in Attempts : m # n => proc'[m] = proc[m]
    <3>1. CASE GoTo(n, "answer")
      BY <1>1, <3>1, Going DEF Stages
    <3>2. ASSUME NEW calls,
                 proc' = [proc EXCEPT ![n] = [stage |-> "act", at |-> @.at, calls |-> calls]]
          PROVE  <2>3!:
      BY <1>1, <3>2
    <3>. QED BY <1>9, <3>1, <3>2 DEF Account
  <2>. QED BY <2>1, <2>2, <2>3, OwnElsewhere DEF Fresh
<1>10. ASSUME NEW n \in Attempts, CheckpointToolRound(n)
       PROVE  OwnReceipts'
  <2>1. UNCHANGED ops /\ proc[n].stage = "act" /\ proc[n].at \in Nat /\ proc[n].at + 1 \in Positions
    BY <1>1, <1>10 DEF CheckpointToolRound, In, IInv, ActsInRound, Rounds, Positions
  <2>2. /\ proc'[n].stage = "reserve" /\ proc'[n].at = proc[n].at + 1
        /\ \A m \in Attempts : m # n => proc'[m] = proc[m]
    BY <1>1, <1>10, <2>1, GoingToReply DEF CheckpointToolRound, Stages
  <2>3. ASSUME NEW x \in OpIds, x[1] = n, ops[x].status # "none"
        PROVE  Receipt(x) /\ x[2] < proc[n].at + 1
    <3>1. (x[2] < proc[n].at /\ Receipt(x)) \/ (x[2] = proc[n].at /\ x[3] \in proc[n].calls)
      BY <2>1, <2>3 DEF OwnReceipts, Talking
    <3>2. CASE x[2] = proc[n].at /\ x[3] \in proc[n].calls
      <4>1. x = OpOf(n, x[3])
        BY <2>3, <3>2 DEF OpIds, OpOf
      <4>2. Receipt(OpOf(n, x[3]))
        BY <1>10, <3>2 DEF CheckpointToolRound
      <4>3. Receipt(x)
        BY <4>1, <4>2
      <4>. QED BY <2>1, <3>2, <4>3
    <3>. QED BY <1>1, <2>1, <3>1, <3>2
  <2>. QED BY <2>1, <2>2, <2>3, OwnElsewhere DEF Fresh
<1>11. ASSUME NEW n \in Attempts, CheckpointAgentReply(n)
       PROVE  OwnReceipts'
  <2>1. UNCHANGED ops /\ proc[n].stage = "answer"
    BY <1>11 DEF CheckpointAgentReply, In
  <2>2. \A x \in OpIds : x[1] = n /\ ops[x].status # "none" => Receipt(x)
    BY <2>1 DEF OwnReceipts, Talking
  <2>3. proc'[n].stage = "publish" /\ \A m \in Attempts : m # n => proc'[m] = proc[m]
    BY <1>1, <1>11, Leaving DEF CheckpointAgentReply, Stages
  <2>. QED BY <2>1, <2>2, <2>3, OwnElsewhere DEF Fresh, Talking
<1>12. ASSUME NEW n \in Attempts, NEW c \in Calls, Prepare(n, c)
       PROVE  OwnReceipts'
  <2>1. /\ OpOf(n, c) \in OpIds
        /\ OpOf(n, c)[1] = n /\ OpOf(n, c)[2] = proc[n].at /\ OpOf(n, c)[3] = c
    BY <1>12 DEF Prepare, Acts, In, IInv, ActsInRound, OpOf, OpIds
  <2>2. PICK x \in OpIds : x = OpOf(n, c) /\ x[1] = n /\ x[2] = proc[n].at /\ x[3] = c
    BY <2>1
  <2>3. /\ UNCHANGED proc /\ proc[n].stage = "act" /\ c \in proc[n].calls
        /\ \E class \in Classes[c] :
             ops' = [ops EXCEPT ![x] = [status |-> "prepared", class |-> class, by |-> n]]
    BY <1>12, <2>2 DEF Prepare, Acts, In
  <2>4. \A z \in OpIds : z # x => ops'[z] = ops[z] /\ (Receipt(z)' <=> Receipt(z))
    BY <1>1, <2>3 DEF Receipt
  <2>5. ASSUME NEW m \in Attempts, NEW z \in OpIds, z[1] = m, ops'[z].status # "none"
        PROVE  /\ proc[m].stage \notin Fresh
               /\ proc[m].stage \in Talking =>
                    \/ z[2] < proc[m].at /\ Receipt(z)'
                    \/ proc[m].stage = "act" /\ z[2] = proc[m].at /\ z[3] \in proc[m].calls
               /\ proc[m].stage = "publish" => Receipt(z)'
    <3>1. CASE z = x
      BY <2>2, <2>3, <2>5, <3>1 DEF Fresh
    <3>2. CASE z # x
      BY <2>4, <2>5, <3>2 DEF OwnReceipts
    <3>. QED BY <3>1, <3>2
  <2>. QED BY <2>3, <2>5 DEF OwnReceipts
<1>13. ASSUME NEW n \in Attempts, NEW c \in Calls, Begin(n, c) \/ Observe(n, c)
       PROVE  OwnReceipts'
  <2>1. OpOf(n, c) \in OpIds
    BY <1>13 DEF Begin, Observe, Acts, In, IInv, ActsInRound, OpOf, OpIds
  <2>2. PICK x \in OpIds : x = OpOf(n, c)
    BY <2>1
  <2>3. /\ UNCHANGED proc /\ ops[x].status \in {"prepared", "running"}
        /\ \E status \in OpStatus : Advance(x, status, n)
    BY <1>13, <2>2 DEF Begin, Observe, Acts, OpStatus
  <2>4. \A z \in OpIds : z # x => ops'[z] = ops[z]
    BY <1>1, <2>3, RecordAdvances
  <2>5. ~Receipt(x)
    BY <2>3 DEF Receipt
  <2>. QED BY <2>3, <2>4, <2>5, OwnAdvance
<1>14. ASSUME NEW n \in Attempts, NEW c \in Calls, Perform(n, c)
       PROVE  OwnReceipts'
  BY <1>2, <1>14 DEF Perform, ledger
<1>15. ASSUME NEW c \in Calls, OutsideEdit(c)
       PROVE  OwnReceipts'
  BY <1>2, <1>15 DEF OutsideEdit, ledger
<1>. QED
  BY <1>3, <1>4, <1>5, <1>6, <1>7, <1>8, <1>9, <1>10, <1>11, <1>12, <1>13, <1>14, <1>15
  DEF Next, Executor

\* What an attempt comes to publish is a reply of its own, or of an attempt before it, and
\* its own requests are all accounted for.
LEMMA NextPublishes ==
  ASSUME IInv, BillInv, PublishesReply, [Next]_vars
  PROVE  PublishesReply'
<1>. USE Numbers
<1>1. TypeOK /\ proc \in [Attempts -> Proc] /\ usage \in [Billings -> UsageStatus]
  BY DEF IInv, TypeOK
<1> SUFFICES ASSUME NEW m \in Attempts, proc'[m].stage = "publish"
             PROVE  /\ \E b \in replies' : b[1] <= m
                    /\ \A b \in Billings : b[1] = m => usage'[b] \in {"none", "reconciled"}
  BY DEF PublishesReply
<1>2. CASE proc[m].stage = "publish"
  <2>1. ASSUME NEW b \in Billings, b[1] = m
        PROVE  usage'[b] = usage[b]
    <3>1. b = <<m, b[2]>> /\ \A n \in Attempts : Billing(n) \in Billings /\ Billing(n)[1] = n
      BY <1>1, <2>1, BillingParts
    <3>2. CASE UNCHANGED usage
      BY <3>2
    <3>3. ASSUME NEW n \in Attempts, Reserve(n) \/ NotSent(n) \/ Account(n)
          PROVE  usage'[b] = usage[b]
      <4>1. n # m
        BY <1>2, <3>3 DEF Reserve, NotSent, Account, In
      <4>2. b # Billing(n)
        BY <2>1, <3>1, <4>1
      <4>3. \E status : usage' = [usage EXCEPT ![Billing(n)] = status]
        BY <3>3 DEF Reserve, NotSent, Account
      <4>. QED BY <1>1, <3>1, <4>2, <4>3
    <3>. QED BY <3>2, <3>3, WhatChanges
  <2>. QED BY <1>2, <2>1, OnlyMore DEF PublishesReply
<1>3. CASE proc[m].stage # "publish"
  <2>1. Resume(m) \/ CheckpointAgentReply(m)
    <3>1. proc'[m] # proc[m]
      BY <1>3
    <3>2. ASSUME NEW n \in Attempts, Executor(n) \/ Abort(n)
          PROVE  <2>1
      <4>1. CASE CheckEffects(n)
        BY <1>1, <1>3, <4>1, Going, Leaving DEF CheckEffects, Stages
      <4>2. CASE CheckUsage(n) \/ CheckCount(n)
        BY <1>1, <1>3, <4>2, Going, Leaving DEF CheckUsage, CheckCount, Stages
      <4>3. CASE Resume(n)
        BY <1>1, <1>3, <4>3, Leaving, GoingToReply DEF Resume, Stages
      <4>4. CASE Reserve(n) \/ Send(n)
        BY <1>1, <1>3, <4>4, Going DEF Reserve, Send, Stages
      <4>5. CASE Account(n)
        <5>1. CASE GoTo(n, "answer")
          BY <1>1, <1>3, <5>1, Going DEF Stages
        <5>2. ASSUME NEW calls,
                     proc' = [proc EXCEPT ![n] = [stage |-> "act", at |-> @.at, calls |-> calls]]
              PROVE  <2>1
          BY <1>1, <1>3, <5>2
        <5>. QED BY <4>5, <5>1, <5>2 DEF Account
      <4>6. CASE NotSent(n) \/ Park(n) \/ Publish(n) \/ Abort(n) \/ CheckpointAgentReply(n)
        BY <1>1, <1>3, <4>6, Leaving DEF NotSent, Park, Publish, Abort, CheckpointAgentReply, Stages
      <4>7. CASE CheckpointToolRound(n)
        <5>1. proc[n].at + 1 \in Positions
          BY <4>7 DEF CheckpointToolRound, In, IInv, ActsInRound, Rounds, Positions
        <5>. QED BY <1>1, <1>3, <4>7, <5>1, GoingToReply DEF CheckpointToolRound, Stages
      <4>8. CASE \E c \in Calls : Prepare(n, c) \/ Begin(n, c) \/ Perform(n, c) \/ Observe(n, c)
        BY <3>1, <4>8 DEF Prepare, Begin, Perform, Observe
      <4>. QED BY <3>2, <4>1, <4>2, <4>3, <4>4, <4>5, <4>6, <4>7, <4>8 DEF Executor
    <3>3. CASE Claim
      <4>1. issued + 1 \in Attempts /\ GoTo(issued + 1, "effects")
        BY <1>1, <3>3 DEF Claim, Attempts, TypeOK
      <4>. QED BY <1>1, <1>3, <4>1, Going DEF Stages
    <3>4. CASE UNCHANGED vars \/ Expire \/ Revive \/ Wake \/ \E c \in Calls : OutsideEdit(c)
      BY <3>1, <3>4 DEF vars, Expire, Revive, Wake, OutsideEdit
    <3>. QED BY <3>2, <3>3, <3>4 DEF Next
  <2>2. CASE Resume(m)
    <3>1. proc[m].stage = "resume" /\ UNCHANGED <<usage, replies>>
      BY <2>2 DEF Resume, In, ledger
    <3>2. Earlier(replies, m) # {}
      BY <1>1, <2>2, GoingToReply DEF Resume, Stages
    <3>3. \E b \in replies : b[1] <= m
      BY <1>1, <3>2, BillingParts DEF Earlier
    <3>4. \A b \in Billings : b[1] = m => usage[b] = "none"
      BY <1>1, <3>1, BillingParts DEF BillInv, NotYetBilled, Fresh
    <3>. QED BY <3>1, <3>3, <3>4
  <2>3. CASE CheckpointAgentReply(m)
    <3>1. UNCHANGED usage /\ Billing(m) \in replies'
      BY <2>3 DEF CheckpointAgentReply
    <3>2. \A b \in Billings : b[1] = m /\ usage[b] # "none" => usage[b] = "reconciled"
      BY <2>3 DEF CheckpointAgentReply, With
    <3>3. Billing(m)[1] <= m
      BY <1>1, BillingParts
    <3>. QED BY <3>1, <3>2, <3>3
  <2>. QED BY <2>1, <2>2, <2>3
<1>. QED BY <1>2, <1>3

\* A result has its reply, and what it says stays true: after it nobody holds the lease of
\* a conversation, no request is outstanding and no operation without its receipt.
LEMMA NextResult ==
  ASSUME IInv, BillInv, OwnReceipts, PublishesReply, ResultHasReply, ResultHidesNothing, [Next]_vars
  PROVE  ResultHasReply' /\ ResultHidesNothing'
<1>. USE Numbers
<1>1. TypeOK /\ proc \in [Attempts -> Proc] /\ usage \in [Billings -> UsageStatus]
      /\ ops \in [OpIds -> Operation] /\ LatestHolds
  BY DEF IInv, TypeOK
<1>2. CASE \E n \in Attempts : Publish(n)
  <2>1. PICK n \in Attempts : Publish(n)
    BY <1>2
  <2>2. proc[n].stage = "publish" /\ n = issued /\ UNCHANGED <<ops, usage, replies>>
    BY <1>1, <2>1, HolderIsLatest DEF Publish, In, ledger
  <2>3. \A x \in OpIds : ops[x].status # "none" => Receipt(x)
    <3> SUFFICES ASSUME NEW x \in OpIds, ops[x].status # "none" PROVE Receipt(x)
      OBVIOUS
    <3>1. x[1] <= n /\ x[1] \in Nat
      BY <2>2, OpIdParts DEF IInv, OnlyClaimed
    <3>2. CASE x[1] < n
      BY <2>2, <3>2 DEF IInv, CheckedOnce, Past, Kept
    <3>3. CASE x[1] = n
      BY <2>2, <3>3 DEF OwnReceipts
    <3>. QED BY <3>1, <3>2, <3>3
  <2>4. \A b \in Billings : usage[b] \in {"none", "reconciled", "cancelled"}
    <3> SUFFICES ASSUME NEW b \in Billings PROVE usage[b] \in {"none", "reconciled", "cancelled"}
      OBVIOUS
    <3>1. usage[b] = "none" \/ (b[1] <= n /\ b[1] \in Nat)
      BY <1>1, <2>2, BillingParts DEF BillInv, BilledOnceClaimed
    <3>2. CASE b[1] < n
      BY <2>2, <3>2 DEF BillInv, UsageSettled, Settled, Past
    <3>3. CASE b[1] = n
      BY <2>2, <3>3 DEF PublishesReply
    <3>. QED BY <3>1, <3>2, <3>3
  <2>5. replies # {}
    BY <2>2 DEF PublishesReply
  <2>. QED
    BY <2>2, <2>3, <2>4, <2>5 DEF ResultHasReply, ResultHidesNothing, Receipt
<1>3. CASE UNCHANGED results
  <2>1. ResultHasReply'
    BY <1>3, OnlyMore DEF ResultHasReply
  <2> SUFFICES ASSUME results # {} PROVE ResultHidesNothing'
    BY <1>3, <2>1 DEF ResultHidesNothing
  <2>2. /\ \A x \in OpIds : ops[x].status = "none" \/ Receipt(x)
        /\ \A b \in Billings : usage[b] \in {"none", "reconciled", "cancelled"}
    BY DEF ResultHidesNothing
  <2>3. ASSUME NEW n \in Attempts, proc[n].stage \in Talking
        PROVE  ~Holds(n)
    <3>1. PICK b \in replies : TRUE
      BY DEF ResultHasReply
    <3>2. n < b[1] /\ b[1] <= issued
      BY <2>3, <3>1 DEF BillInv, NoReplyYet, BilledOnceClaimed
    <3>3. b[1] \in Nat /\ n \in Nat /\ issued \in Nat
      BY <1>1, <3>1, BillingParts DEF TypeOK
    <3>. QED BY <1>1, <3>2, <3>3, HolderIsLatest
  <2>4. UNCHANGED usage
    <3>1. ASSUME NEW n \in Attempts, Reserve(n) PROVE FALSE
      BY <2>3, <3>1 DEF Reserve, In, Talking
    <3>2. ASSUME NEW n \in Attempts, NotSent(n) \/ Account(n) PROVE FALSE
      <4>1. usage[Billing(n)] = "reserved"
        BY <3>2 DEF NotSent, Account, In, BillInv, BillUnderWay
      <4>. QED BY <1>1, <2>2, <4>1, BillingParts
    <3>. QED BY <3>1, <3>2, WhatChanges
  <2>5. UNCHANGED ops
    <3>1. ASSUME NEW n \in Attempts, NEW c \in Calls, Prepare(n, c) \/ Begin(n, c) \/ Observe(n, c)
          PROVE  FALSE
      BY <2>3, <3>1 DEF Prepare, Begin, Observe, Acts, In, Talking
    <3>2. ASSUME NEW n \in Attempts, CheckEffects(n)
          PROVE  UNCHANGED ops
      <4>1. \A x \in OpIds : ops[x].status # "running"
        BY <2>2 DEF Receipt
      <4>. QED BY <3>2, <4>1 DEF CheckEffects, Proves
    <3>. QED BY <3>1, <3>2, WhatChanges
  <2>. QED BY <2>2, <2>4, <2>5 DEF ResultHidesNothing, Receipt
<1>. QED BY <1>2, <1>3, WhatChanges

\* What is published for acceptance has no effect in doubt behind it, and no provider call
\* nobody accounted for.
THEOREM ResultCorrectness == Spec => []ResultHidesNothing
<1>1. Init => ResultInv
  BY DEF Init, ResultInv, OwnReceipts, PublishesReply, ResultHasReply, ResultHidesNothing, NoOperation
<1>2. IInv /\ BillInv /\ ResultInv /\ [Next]_vars => ResultInv'
  BY NextOwnReceipts, NextPublishes, NextResult DEF ResultInv
<1>3. ResultInv => ResultHidesNothing
  BY DEF ResultInv
<1>. QED BY <1>1, <1>2, <1>3, Invariance, BillInvariance, PTL DEF Spec
=============================================================================
