--------------------------- MODULE DeliveryEffects --------------------------
(***************************************************************************)
(* One admitted delivery from the model's first reply to its published     *)
(* result, across any number of interrupted attempts: the effect journal   *)
(* (delivery_operations.go), the checkpoints of tool rounds and of the     *)
(* terminal reply, the record of billed provider calls, and the executor   *)
(* that decides from them whether an attempt may continue.                 *)
(*                                                                         *)
(* Each transaction, each provider request and each effect is an action.   *)
(* Only what verifyLease guards needs the lease: a worker that lost it may *)
(* still perform the effect it began and account for the call it made.     *)
(* A step that returns an error is Abort, which every step may be.  A      *)
(* worker whose process died is one that takes no further step.            *)
(***************************************************************************)
EXTENDS Naturals, FiniteSets

CONSTANTS
  MaxAttempts,   \* bound: attempts of the delivery
  MaxRounds,     \* bound: tool rounds of one conversation
  Calls,         \* effectful calls; call c writes the file c
  MayCall,       \* bound: MayCall[k] are the calls round k may make
  Classes        \* Classes[c]: replay classes an operation of call c's tool may get

ReplayClass == {"unknown", "fingerprinted_write", "idempotent_external"}

ASSUME BoundsAssumption == MaxAttempts \in Nat /\ MaxRounds \in Nat
ASSUME ClassesAssumption == Classes \in [Calls -> SUBSET ReplayClass]
ASSUME CallsAssumption == IsFiniteSet(Calls)

ASSUME MayCallAssumption == MayCall \in [1..MaxRounds -> SUBSET Calls]

Attempts  == 1..MaxAttempts
Rounds    == 1..MaxRounds
Positions == 1..(MaxRounds + 1)     \* the model's replies, a terminal one at the latest last
OpIds     == Attempts \X Rounds \X Calls   \* "delivery:<id>:<epoch>:<call>"
Billings  == Attempts \X Positions         \* the call ids of delivery_usage_calls

VARIABLES
  queue,    \* status of the delivery's queue row
  issued,   \* attempts claimed so far
  holder,   \* the attempt whose lease passes verifyLease, 0 when none does
  proc,     \* proc[n]: where the executor of attempt n stands
  ops,      \* ops[x]: the delivery_operations record of x
  usage,    \* usage[b]: status of the delivery_usage_calls record of b
  rounds,   \* delivery_tool_rounds: <<n, k>> when n checkpointed the round after reply k
  replies,  \* delivery_agent_replies: <<n, k>> when n checkpointed terminal reply k
  results,  \* attempts that published a result for acceptance
  asked,    \* the outside world: requests a provider was sent
  done,     \*   operations whose effect happened
  file      \*   file[c]: the round whose content the file c holds, 0 for any other

ledger == <<ops, usage, rounds, replies>>
world  == <<asked, done, file>>
vars   == <<queue, issued, holder, proc, ledger, results, world>>

-----------------------------------------------------------------------------
Stages == {"idle", "effects", "usage", "counts", "resume", "reserve", "send", "account",
           "act", "answer", "publish", "park", "gone"}

OpStatus    == {"none", "prepared", "running", "observed", "reconciled"}
UsageStatus == {"none", "reserved", "reconciled", "unknown", "cancelled"}

\* at: the reply being asked for or acted on; calls: the effectful calls it made.
Proc == [stage : Stages, at : Positions, calls : SUBSET Calls]

\* by: the attempt that advanced the record last.
Operation == [status : OpStatus, class : ReplayClass, by : 0..MaxAttempts]

NoOperation == [status |-> "none", class |-> "unknown", by |-> 0]

Init ==
  /\ queue = "ready"
  /\ issued = 0
  /\ holder = 0
  /\ proc = [n \in Attempts |-> [stage |-> "idle", at |-> 1, calls |-> {}]]
  /\ ops = [x \in OpIds |-> NoOperation]
  /\ usage = [b \in Billings |-> "none"]
  /\ rounds = {}
  /\ replies = {}
  /\ results = {}
  /\ asked = {}
  /\ done = {}
  /\ file = [c \in Calls |-> 0]

-----------------------------------------------------------------------------
(* What the records say *)

Receipt(x) == ops[x].status \in {"observed", "reconciled"}

\* CoversOperation: the receipt stands in the last round of the attempt that wrote it,
\* under that attempt's own invocation.
Covers(x) ==
  /\ Receipt(x)
  /\ ops[x].by = x[1]
  /\ \E k \in Rounds : k >= x[2] /\ <<x[1], k>> \in rounds

\* What Recovery.Observe or the file's hash still shows of a covered operation; "up"
\* says that the workspace and the destination answered.
Confirmed(x, up) ==
  CASE ops[x].class = "fingerprinted_write" -> up /\ file[x[3]] = x[2]
    [] ops[x].class = "idempotent_external" -> up /\ x \in done
    [] OTHER -> TRUE

\* An interrupted operation whose outcome the host can establish by looking.
ProvesAnything(x, up) == ops[x].status = "running" /\ up
Proves(x, up) ==
  /\ ops[x].status = "running"
  /\ ops[x].class # "unknown"
  /\ Confirmed(x, up)

\* ORDER BY prepared_at; calls of one round may be prepared in any order.
Before(x, y) == x[1] < y[1] \/ (x[1] = y[1] /\ x[2] < y[2])
IsFirstOf(x, S) == x \in S /\ \A y \in S : ~Before(y, x)

Earlier(S, n) == {b \in S : b[1] < n}
With(status)  == {b \in Billings : usage[b] = status}

\* The greatest pair of a set of checkpoints: ORDER BY attempt DESC, round_number DESC
IsLatest(b, S)   == b \in S /\ \A e \in S : e[1] < b[1] \/ (e[1] = b[1] /\ e[2] <= b[2])
IsEarliest(b, S) == b \in S /\ \A e \in S : e[1] > b[1] \/ (e[1] = b[1] /\ e[2] <= b[2])

\* verifyLease
HoldsUnfenced(n) == TRUE
Holds(n) == holder = n

In(n, stage) == proc[n].stage = stage
GoTo(n, stage) == proc' = [proc EXCEPT ![n].stage = stage]
GoToReply(n, stage, k) ==
  proc' = [proc EXCEPT ![n] = [stage |-> stage, at |-> k, calls |-> {}]]
Leave(n, stage) == GoToReply(n, stage, 1)     \* the conversation is over
Advance(x, status, n) ==
  ops' = [ops EXCEPT ![x] = [status |-> status, class |-> @.class, by |-> n]]

-----------------------------------------------------------------------------
(* The lease, as DeliveryQueue keeps it.  A cancelled delivery is one whose lease   *)
(* expired and that is never claimed again.                                         *)

ClaimUncounted ==
  /\ queue = "ready" \/ (queue = "leased" /\ holder = 0)
  /\ issued < MaxAttempts
  /\ holder' = issued + 1
  /\ queue' = "leased"
  /\ GoTo(issued + 1, "effects")
  /\ UNCHANGED <<issued, ledger, results, world>>
Claim ==
  /\ queue = "ready" \/ (queue = "leased" /\ holder = 0)
  /\ issued < MaxAttempts
  /\ issued' = issued + 1
  /\ holder' = issued + 1
  /\ queue' = "leased"
  /\ GoTo(issued + 1, "effects")
  /\ UNCHANGED <<ledger, results, world>>

\* The worker is paused, dead or cut off from the database for the lease's duration.
Expire ==
  /\ holder # 0
  /\ holder' = 0
  /\ UNCHANGED <<queue, issued, proc, ledger, results, world>>

\* Nobody has claimed it since, and an older clock reading, or one whose text sorts
\* before the expiry's, passes verifyLease again (see DeliveryQueue).
Revive ==
  /\ queue = "leased" /\ holder = 0
  /\ holder' = issued
  /\ UNCHANGED <<queue, issued, proc, ledger, results, world>>

\* SignalWaiting, by whoever reviewed what the attempt parked for.
Wake ==
  /\ queue = "waiting"
  /\ queue' = "ready"
  /\ UNCHANGED <<issued, holder, proc, ledger, results, world>>

\* An error is returned: of the database, the provider, a tool, or of a lost lease.
Abort(n) ==
  /\ ~In(n, "idle") /\ ~In(n, "park") /\ ~In(n, "gone")
  /\ Leave(n, "park")
  /\ UNCHANGED <<queue, issued, holder, ledger, results, world>>

\* RunOnce's Finalize of the executor's outcome, always OutcomeWaiting.
Park(n) ==
  /\ In(n, "park")
  /\ Leave(n, "gone")
  /\ IF Holds(n) THEN queue' = "waiting" /\ holder' = 0 ELSE UNCHANGED <<queue, holder>>
  /\ UNCHANGED <<issued, ledger, results, world>>

Publish(n) ==
  /\ In(n, "publish")
  /\ Holds(n)
  /\ Leave(n, "gone")
  /\ queue' = "waiting"
  /\ holder' = 0
  /\ results' = results \union {n}
  /\ UNCHANGED <<issued, ledger, world>>

-----------------------------------------------------------------------------
(* ReadOnlyDeliveryExecutor.Execute: may this attempt continue? *)

\* Operations of other attempts that are not covered, or no longer as their receipt says.
Doubtful(n, up) ==
  {x \in OpIds : /\ ops[x].status # "none"
                 /\ ops[x].by # n
                 /\ ~(Covers(x) /\ Confirmed(x, up))}

CheckEffects(n) ==
  /\ In(n, "effects")
  /\ \E up \in BOOLEAN :
       \/ /\ Doubtful(n, up) = {}
          /\ GoTo(n, "usage")
          /\ UNCHANGED ops
       \/ \E x \in OpIds :
            /\ IsFirstOf(x, Doubtful(n, up))
            /\ IF Proves(x, up) /\ Holds(n) THEN Advance(x, "reconciled", n) ELSE UNCHANGED ops
            /\ Leave(n, "park")
  /\ UNCHANGED <<queue, issued, holder, usage, rounds, replies, results, world>>

CheckUsage(n) ==
  /\ In(n, "usage")
  /\ IF With("reserved") \union With("unknown") = {} THEN GoTo(n, "counts") ELSE Leave(n, "park")
  /\ UNCHANGED <<queue, issued, holder, ledger, results, world>>

\* CheckpointedCallCount against the reconciled calls of all attempts.
AccountedAnyway(n) == TRUE
Accounted(n) ==
  Cardinality(Earlier(rounds, n)) + Cardinality(Earlier(replies, n)) = Cardinality(With("reconciled"))

CheckCount(n) ==
  /\ In(n, "counts")
  /\ IF n = 1 \/ With("reconciled") = {} \/ Accounted(n) THEN GoTo(n, "resume") ELSE Leave(n, "park")
  /\ UNCHANGED <<queue, issued, holder, ledger, results, world>>

\* ResumeAgentReply, else ResumeToolRound, else a new conversation.
ResumesAtEarliest(n, k) ==
  IF Earlier(rounds, n) = {} THEN k = 1
  ELSE \E b \in rounds : IsEarliest(b, Earlier(rounds, n)) /\ k = b[2] + 1
ResumesAtSameReply(n, k) ==
  IF Earlier(rounds, n) = {} THEN k = 1
  ELSE \E b \in rounds : IsLatest(b, Earlier(rounds, n)) /\ k = b[2]
ResumesAt(n, k) ==
  IF Earlier(rounds, n) = {} THEN k = 1
  ELSE \E b \in rounds : IsLatest(b, Earlier(rounds, n)) /\ k = b[2] + 1

Resume(n) ==
  /\ In(n, "resume")
  /\ Holds(n)
  /\ IF Earlier(replies, n) # {} THEN Leave(n, "publish")
     ELSE \E k \in Positions : ResumesAt(n, k) /\ GoToReply(n, "reserve", k)
  /\ UNCHANGED <<queue, issued, holder, ledger, results, world>>

-----------------------------------------------------------------------------
(* deliveryUsageHook: the provider call at position proc[n].at *)

Billing(n) == <<n, proc[n].at>>

\* ReserveUsageLease
Reserve(n) ==
  /\ In(n, "reserve")
  /\ Holds(n)
  /\ usage' = [usage EXCEPT ![Billing(n)] = "reserved"]
  /\ GoTo(n, "send")
  /\ UNCHANGED <<queue, issued, holder, ops, rounds, replies, results, world>>

Send(n) ==
  /\ In(n, "send")
  /\ asked' = asked \union {Billing(n)}
  /\ GoTo(n, "account")
  /\ UNCHANGED <<queue, issued, holder, ledger, results, done, file>>

\* CancelUnusedReservation: no provider was contacted.
NotSent(n) ==
  /\ In(n, "send")
  /\ usage' = [usage EXCEPT ![Billing(n)] = "cancelled"]
  /\ Leave(n, "park")
  /\ UNCHANGED <<queue, issued, holder, ops, rounds, replies, results, world>>

\* After: ReconcileUsage, or MarkProviderUsageUnknown when the reply has no usage.
\* Neither needs the lease.  The reply is terminal or makes calls; some have an effect.
Account(n) ==
  /\ In(n, "account")
  /\ \E status \in {"reconciled", "unknown"} : usage' = [usage EXCEPT ![Billing(n)] = status]
  /\ \/ GoTo(n, "answer")
     \/ /\ proc[n].at \in Rounds
        /\ \E calls \in SUBSET MayCall[proc[n].at] :
             proc' = [proc EXCEPT ![n] = [stage |-> "act", at |-> @.at, calls |-> calls]]
  /\ UNCHANGED <<queue, issued, holder, ops, rounds, replies, results, world>>

-----------------------------------------------------------------------------
(* wrapDeliveryOperations: the effectful call c of the reply *)

OpOf(n, c) == <<n, proc[n].at, c>>

Acts(n, c, status) == In(n, "act") /\ c \in proc[n].calls /\ ops[OpOf(n, c)].status = status

\* PrepareOperation; the host derives the class from the tool and its arguments.
Prepare(n, c) ==
  /\ Acts(n, c, "none")
  /\ Holds(n)
  /\ \E class \in Classes[c] :
       ops' = [ops EXCEPT ![OpOf(n, c)] = [status |-> "prepared", class |-> class, by |-> n]]
  /\ UNCHANGED <<queue, issued, holder, proc, usage, rounds, replies, results, world>>

\* BeginOperation
Begin(n, c) ==
  /\ Acts(n, c, "prepared")
  /\ Holds(n)
  /\ Advance(OpOf(n, c), "running", n)
  /\ UNCHANGED <<queue, issued, holder, proc, usage, rounds, replies, results, world>>

\* invokeJournaledTool: nothing fences the effect itself.
Perform(n, c) ==
  /\ Acts(n, c, "running")
  /\ OpOf(n, c) \notin done
  /\ done' = done \union {OpOf(n, c)}
  /\ file' = IF ops[OpOf(n, c)].class = "fingerprinted_write"
             THEN [file EXCEPT ![c] = proc[n].at] ELSE file
  /\ UNCHANGED <<queue, issued, holder, proc, ledger, results, asked>>

\* ObserveOperation, after looking at the destination or the file again.
Observe(n, c) ==
  /\ Acts(n, c, "running")
  /\ OpOf(n, c) \in done
  /\ Confirmed(OpOf(n, c), TRUE)
  /\ Holds(n)
  /\ ops[OpOf(n, c)].by = n
  /\ Advance(OpOf(n, c), "observed", n)
  /\ UNCHANGED <<queue, issued, holder, proc, usage, rounds, replies, results, world>>

\* CheckpointToolRound: the exchange is complete and every effect has its receipt.
CheckpointAnyRound(n) ==
  /\ In(n, "act")
  /\ Holds(n)
  /\ rounds' = rounds \union {Billing(n)}
  /\ GoToReply(n, "reserve", proc[n].at + 1)
  /\ UNCHANGED <<queue, issued, holder, ops, usage, replies, results, world>>
CheckpointToolRound(n) ==
  /\ In(n, "act")
  /\ Holds(n)
  /\ \A c \in proc[n].calls : Receipt(OpOf(n, c))
  /\ rounds' = rounds \union {Billing(n)}
  /\ GoToReply(n, "reserve", proc[n].at + 1)
  /\ UNCHANGED <<queue, issued, holder, ops, usage, replies, results, world>>

\* CheckpointAgentReply: every call of this invocation is billed and has a checkpoint.
CheckpointAgentReply(n) ==
  /\ In(n, "answer")
  /\ Holds(n)
  /\ LET billed == {b \in Billings : b[1] = n /\ usage[b] # "none"}
     IN  /\ Cardinality(billed) = Cardinality({b \in rounds : b[1] = n}) + 1
         /\ billed \subseteq With("reconciled")
  /\ replies' = replies \union {Billing(n)}
  /\ Leave(n, "publish")
  /\ UNCHANGED <<queue, issued, holder, ops, usage, rounds, results, world>>

-----------------------------------------------------------------------------
\* Somebody else edits a file of the workspace.
OutsideEdit(c) ==
  /\ file[c] # 0
  /\ file' = [file EXCEPT ![c] = 0]
  /\ UNCHANGED <<queue, issued, holder, proc, ledger, results, asked, done>>

Executor(n) ==
  \/ CheckEffects(n) \/ CheckUsage(n) \/ CheckCount(n) \/ Resume(n)
  \/ Reserve(n) \/ Send(n) \/ NotSent(n) \/ Account(n)
  \/ \E c \in Calls : Prepare(n, c) \/ Begin(n, c) \/ Perform(n, c) \/ Observe(n, c)
  \/ CheckpointToolRound(n) \/ CheckpointAgentReply(n) \/ Publish(n) \/ Park(n)

Next ==
  \/ Claim \/ Expire \/ Revive \/ Wake
  \/ \E n \in Attempts : Executor(n) \/ Abort(n)
  \/ \E c \in Calls : OutsideEdit(c)

Spec == Init /\ [][Next]_vars

-----------------------------------------------------------------------------
(* Properties *)

\* The records of the journal, the checkpoints and the executors keep their types.
TypeOK ==
  /\ queue \in {"ready", "leased", "waiting"}
  /\ issued \in 0..MaxAttempts
  /\ holder \in 0..issued
  /\ proc \in [Attempts -> Proc]
  /\ ops \in [OpIds -> Operation]
  /\ usage \in [Billings -> UsageStatus]
  /\ rounds \subseteq Attempts \X Rounds
  /\ replies \subseteq Billings
  /\ results \subseteq Attempts
  /\ asked \subseteq Billings
  /\ done \subseteq OpIds
  /\ file \in [Calls -> 0..MaxRounds]

\* "Replay does not duplicate completed effects": however often the delivery is
\* interrupted and woken, a round's effects are those of one attempt.  Operation ids are
\* new in every attempt, so nothing but the executor's checks sees to it.
EffectsNotRepeated ==
  \A x, y \in done : x[2] = y[2] => x[1] = y[1]

\* A reply the provider billed is never asked for again by a later attempt
\* (CheckpointedCallCount's "a billed reply without either checkpoint cannot be replayed").
RepliesNotRebought ==
  \A a, b \in asked : a[2] = b[2] => a[1] = b[1]

\* "An ambiguous effect cannot become a successful receipt": what has a receipt happened,
\* or is a file write whose exact content the host found in place.
ReceiptsAreTrue ==
  \A x \in OpIds : Receipt(x) /\ x \notin done => /\ ops[x].class = "fingerprinted_write"
                                                  /\ ops[x].status = "reconciled"

\* A delivery is never put up for acceptance with an effect of any attempt in doubt, or
\* with a provider call nobody accounted for.
ResultHidesNothing ==
  results # {} =>
    /\ \A x \in OpIds : ops[x].status = "none" \/ Receipt(x)
    /\ \A b \in Billings : usage[b] \in {"none", "reconciled", "cancelled"}

\* The conversation an attempt is in contains every exchange any attempt checkpointed, and
\* no gap: resuming neither forgets an exchange nor skips one.
ConversationIsComplete ==
  \A n \in Attempts :
    /\ proc[n].stage \in {"reserve", "send", "account", "act", "answer"}
    /\ Holds(n)
    => {b[2] : b \in rounds} = 1..(proc[n].at - 1)

\* Two attempts never work at the same time: while one is between Begin and the end of its
\* effect, no later attempt has got past the executor's checks.
EffectsDoNotOverlap ==
  \A n, m \in Attempts :
    /\ n < m
    /\ proc[m].stage \in {"reserve", "send", "account", "act", "answer", "publish"}
    => \A x \in OpIds : x[1] = n => ops[x].status # "running"
=============================================================================
