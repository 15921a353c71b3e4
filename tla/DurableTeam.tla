----------------------------- MODULE DurableTeam -----------------------------
(***************************************************************************)
(* One admitted delivery to a team, across interrupted attempts            *)
(* (orchestrator/delivery_team.go): the members' receipts in the attempt's *)
(* checkpoint, the comparison of those receipts with the calls that were   *)
(* billed, and the resumption of the members that have none.  A sequential *)
(* team feeds every member its predecessor's answer and keeps a prefix of  *)
(* receipts with one total of billed calls; a parallel team runs all its   *)
(* members at once and keeps a receipt and a count for each.               *)
(*                                                                         *)
(* Every member runs the conversation DeliveryEffects describes, under its *)
(* own node and invocation; its tools only read.  The lease is the one of  *)
(* DeliveryQueue.  A process that died takes no further step.              *)
(***************************************************************************)
EXTENDS Naturals, FiniteSets

CONSTANTS
  MaxAttempts,   \* bound: MaxAttempts[s] attempts of a delivery to a team of strategy s
  Size,          \* members of the team
  MaxRounds,     \* bound: tool rounds of one member's conversation
  ToolUsers      \* bound: the members that may call a tool

Strategies == {"sequential", "parallel"}

ASSUME BoundsAssumption == MaxAttempts \in [Strategies -> Nat] /\ Size \in Nat /\ MaxRounds \in Nat
ASSUME ToolUsersAssumption == ToolUsers \subseteq 1..Size

Attempts  == UNION {1..MaxAttempts[s] : s \in Strategies}
Members   == 1..Size
Rounds    == 1..MaxRounds
Positions == 1..(MaxRounds + 1)
Billings  == Attempts \X Members \X Positions   \* model calls; the last one of a member is its answer

VARIABLES
  strategy,   \* of the team
  issued,     \* attempts claimed so far
  holder,     \* the attempt whose lease passes verifyLease, 0 when none does
  team,       \* team[n]: where the executor of attempt n stands
  known,      \* known[n]: the receipts in its memory
  member,     \* member[n][m]: where its run of member m stands
  usage,      \* usage[b]: status of the delivery_usage_calls record of b
  rounds,     \* delivery_tool_rounds
  replies,    \* delivery_agent_replies
  receipts,   \* receipts[n]: the checkpoint of attempt n's row
  asked,      \* requests a provider was sent
  results     \* attempts that published a result for acceptance

lease  == <<issued, holder>>
ledger == <<usage, rounds, replies, receipts>>
vars   == <<strategy, lease, team, known, member, ledger, asked, results>>

-----------------------------------------------------------------------------
TeamStages   == {"idle", "usage", "receipts", "run", "publish", "park", "gone"}
MemberStages == {"idle", "reserve", "send", "account", "round", "answer", "receipt", "over"}
UsageStatus  == {"none", "reserved", "reconciled", "unknown", "cancelled"}

Message == <<0, 0, 0>>               \* the goal's statement
Answers == Billings \union {Message}

\* input: what the member was given to answer; at: the call it is at.
Member == [stage : MemberStages, at : Positions, input : Answers, answer : Answers]

\* calls: reconciled calls of the member, or of the whole delivery in a sequential team.
MemberReceipt == [answer : Answers, calls : Nat]
NoReceipts    == [m \in {} |-> Message]

Init ==
  /\ strategy \in Strategies
  /\ issued = 0
  /\ holder = 0
  /\ team = [n \in Attempts |-> "idle"]
  /\ known = [n \in Attempts |-> NoReceipts]
  /\ member = [n \in Attempts |-> [m \in Members |->
                [stage |-> "idle", at |-> 1, input |-> Message, answer |-> Message]]]
  /\ usage = [b \in Billings |-> "none"]
  /\ rounds = {}
  /\ replies = {}
  /\ receipts = [n \in Attempts |-> NoReceipts]
  /\ asked = {}
  /\ results = {}

-----------------------------------------------------------------------------
(* What the records say *)

Holds(n) == holder = n

With(status)   == {b \in Billings : usage[b] = status}
Of(m, S)       == {b \in S : b[2] = m}
Earlier(S, n)  == {b \in S : b[1] < n}

\* UsageByNode and CheckpointedCallsByNode
Reconciled(m)      == Cardinality(Of(m, With("reconciled")))
Checkpointed(n, m) == Cardinality(Of(m, Earlier(rounds, n))) + Cardinality(Of(m, Earlier(replies, n)))

\* PriorAttempts: the checkpoint of the latest attempt that has one
InheritedFromPrevious(n) == IF n = 1 THEN NoReceipts ELSE receipts[n - 1]
Inherited(n) ==
  LET prior == {k \in 1..(n - 1) : DOMAIN receipts[k] # {}}
  IN  IF prior = {} THEN NoReceipts
      ELSE receipts[CHOOSE k \in prior : \A j \in prior : j <= k]

\* The latest record of the member: ORDER BY attempt DESC, round_number DESC
IsLatest(b, S) == b \in S /\ \A e \in S : e[1] < b[1] \/ (e[1] = b[1] /\ e[3] <= b[3])

-----------------------------------------------------------------------------
(* The lease *)

\* The row is ready, woken by SignalWaiting, or its lease expired.
Claim ==
  /\ holder = 0
  /\ issued < MaxAttempts[strategy]
  /\ issued' = issued + 1
  /\ holder' = issued + 1
  /\ team' = [team EXCEPT ![issued + 1] = "usage"]
  /\ UNCHANGED <<strategy, known, member, ledger, asked, results>>

Expire ==
  /\ holder # 0
  /\ holder' = 0
  /\ UNCHANGED <<strategy, issued, team, known, member, ledger, asked, results>>

\* Nobody has claimed it since, and an older clock reading passes verifyLease again.
Revive ==
  /\ holder = 0 /\ issued > 0 /\ team[issued] # "gone"
  /\ holder' = issued
  /\ UNCHANGED <<strategy, issued, team, known, member, ledger, asked, results>>

Leave(n) ==
  /\ team' = [team EXCEPT ![n] = "gone"]
  /\ known' = [known EXCEPT ![n] = NoReceipts]
  /\ holder' = IF Holds(n) THEN 0 ELSE holder

Park(n) ==
  /\ team[n] = "park"
  /\ Leave(n)
  /\ UNCHANGED <<strategy, issued, member, ledger, asked, results>>

Publish(n) ==
  /\ team[n] = "publish"
  /\ Holds(n)
  /\ Leave(n)
  /\ results' = results \union {n}
  /\ UNCHANGED <<strategy, issued, member, ledger, asked>>

-----------------------------------------------------------------------------
(* runDurableTeam, runDurableParallelTeam: may this attempt continue? *)

CheckUsage(n) ==
  /\ team[n] = "usage"
  /\ team' = [team EXCEPT ![n] = IF With("reserved") \union With("unknown") = {}
                                 THEN "receipts" ELSE "park"]
  /\ UNCHANGED <<strategy, lease, known, member, ledger, asked, results>>

\* Calls since the prefix was written belong to the next member and are all checkpointed.
PrefixAccounts(n, done) ==
  LET next  == Cardinality(DOMAIN done) + 1
      total == IF DOMAIN done = {} THEN 0 ELSE done[next - 1].calls
      extra == Cardinality(With("reconciled")) - total
  IN  /\ total <= Cardinality(With("reconciled"))
      /\ extra > 0 => /\ next \in Members
                      /\ Reconciled(next) = extra
                      /\ Checkpointed(n, next) = extra

\* A member's calls are those of its receipt; without one, they are all checkpointed.
MembersAccount(n, done) ==
  \A m \in Members :
    Reconciled(m) = IF m \in DOMAIN done THEN done[m].calls
                    ELSE IF Reconciled(m) = 0 THEN 0 ELSE Checkpointed(n, m)

AdmittedAnyway(n) == TRUE
Admitted(n) ==
  IF strategy = "sequential" THEN PrefixAccounts(n, Inherited(n)) ELSE MembersAccount(n, Inherited(n))

CheckReceipts(n) ==
  /\ team[n] = "receipts"
  /\ IF Admitted(n)
     THEN team' = [team EXCEPT ![n] = "run"] /\ known' = [known EXCEPT ![n] = Inherited(n)]
     ELSE team' = [team EXCEPT ![n] = "park"] /\ UNCHANGED known
  /\ UNCHANGED <<strategy, lease, member, ledger, asked, results>>

\* The team returns when no member runs any more: all have receipts, or one failed or was
\* never started.
Return(n) ==
  /\ team[n] = "run"
  /\ \A m \in Members : member[n][m].stage \in {"idle", "over"}
  /\ team' = [team EXCEPT ![n] = IF DOMAIN known[n] = Members THEN "publish" ELSE "park"]
  /\ UNCHANGED <<strategy, lease, known, member, ledger, asked, results>>

-----------------------------------------------------------------------------
(* A member's run *)

In(n, m, stage)  == member[n][m].stage = stage
Billing(n, m)    == <<n, m, member[n][m].at>>
Moves(n, m, stage, k, answer) ==
  member' = [member EXCEPT ![n][m] = [stage |-> stage, at |-> k, input |-> @.input, answer |-> answer]]
GoTo(n, m, stage) == Moves(n, m, stage, member[n][m].at, member[n][m].answer)
Stop(n, m)        == Moves(n, m, "over", 1, Message)

\* RunSequentialWithCheckpoints, RunParallelWithCheckpoints: the members without receipts.
StartsAtOnce(n, m) == m \notin DOMAIN known[n]
Starts(n, m) ==
  /\ m \notin DOMAIN known[n]
  /\ strategy = "sequential" => DOMAIN known[n] = 1..(m - 1)

Input(n, m) ==
  IF strategy = "sequential" /\ m - 1 \in DOMAIN known[n] THEN known[n][m - 1].answer ELSE Message

\* ResumeAgentReply and ResumeToolRound: records of the node that answer the same input.
SavedRepliesOfAnyNode(n, m) == Earlier(replies, n)
SavedReplies(n, m) == Of(m, Earlier(replies, n))
SavedRounds(n, m)  == Of(m, Earlier(rounds, n))
SameInput(b, n, m) == member[b[1]][b[2]].input = Input(n, m)

RunFrom(n, m, stage, k, answer) ==
  member' = [member EXCEPT ![n][m] = [stage |-> stage, at |-> k, input |-> Input(n, m), answer |-> answer]]

Resume(n, m) ==
  /\ team[n] = "run" /\ In(n, m, "idle")
  /\ Starts(n, m)
  /\ Holds(n)
  /\ \/ \E b \in SavedReplies(n, m) :
          /\ IsLatest(b, SavedReplies(n, m)) /\ SameInput(b, n, m)
          /\ RunFrom(n, m, "receipt", 1, b)
     \/ /\ SavedReplies(n, m) = {}
        /\ \E b \in SavedRounds(n, m) :
             /\ IsLatest(b, SavedRounds(n, m)) /\ SameInput(b, n, m)
             /\ RunFrom(n, m, "reserve", b[3] + 1, Message)
     \/ /\ SavedReplies(n, m) = {} /\ SavedRounds(n, m) = {}
        /\ RunFrom(n, m, "reserve", 1, Message)
  /\ UNCHANGED <<strategy, lease, team, known, ledger, asked, results>>

\* deliveryUsageHook.Before
Reserve(n, m) ==
  /\ In(n, m, "reserve")
  /\ Holds(n)
  /\ usage' = [usage EXCEPT ![Billing(n, m)] = "reserved"]
  /\ GoTo(n, m, "send")
  /\ UNCHANGED <<strategy, lease, team, known, rounds, replies, receipts, asked, results>>

Send(n, m) ==
  /\ In(n, m, "send")
  /\ asked' = asked \union {Billing(n, m)}
  /\ GoTo(n, m, "account")
  /\ UNCHANGED <<strategy, lease, team, known, ledger, results>>

NotSent(n, m) ==
  /\ In(n, m, "send")
  /\ usage' = [usage EXCEPT ![Billing(n, m)] = "cancelled"]
  /\ Stop(n, m)
  /\ UNCHANGED <<strategy, lease, team, known, rounds, replies, receipts, asked, results>>

\* deliveryUsageHook.After, without the lease; the reply is terminal or calls tools.
Account(n, m) ==
  /\ In(n, m, "account")
  /\ \E status \in {"reconciled", "unknown"} : usage' = [usage EXCEPT ![Billing(n, m)] = status]
  /\ GoTo(n, m, "answer") \/ (m \in ToolUsers /\ member[n][m].at \in Rounds /\ GoTo(n, m, "round"))
  /\ UNCHANGED <<strategy, lease, team, known, rounds, replies, receipts, asked, results>>

CheckpointToolRound(n, m) ==
  /\ In(n, m, "round")
  /\ Holds(n)
  /\ rounds' = rounds \union {Billing(n, m)}
  /\ Moves(n, m, "reserve", member[n][m].at + 1, member[n][m].answer)
  /\ UNCHANGED <<strategy, lease, team, known, usage, replies, receipts, asked, results>>

CheckpointAgentReply(n, m) ==
  /\ In(n, m, "answer")
  /\ Holds(n)
  /\ LET billed == {b \in Of(m, Billings) : b[1] = n /\ usage[b] # "none"}
     IN  /\ Cardinality(billed) = Cardinality({b \in Of(m, rounds) : b[1] = n}) + 1
         /\ billed \subseteq With("reconciled")
  /\ replies' = replies \union {Billing(n, m)}
  /\ Moves(n, m, "receipt", member[n][m].at, Billing(n, m))
  /\ UNCHANGED <<strategy, lease, team, known, usage, rounds, receipts, asked, results>>

\* The callback after a member's answer, one at a time: the receipt goes into the
\* attempt's checkpoint.
ReceiptOf(n, m) ==
  [answer |-> member[n][m].answer,
   calls  |-> IF strategy = "sequential" THEN Cardinality(With("reconciled")) ELSE Reconciled(m)]

CheckpointMember(n, m) ==
  /\ In(n, m, "receipt")
  /\ Holds(n)
  /\ LET open == With("reserved") \union With("unknown")
     IN  IF strategy = "sequential" THEN open = {} ELSE Of(m, open) = {}
  /\ LET now == [j \in DOMAIN known[n] \union {m} |-> IF j = m THEN ReceiptOf(n, m) ELSE known[n][j]]
     IN  /\ receipts' = [receipts EXCEPT ![n] = now]
         /\ \/ known' = [known EXCEPT ![n] = now]
            \/ UNCHANGED known      \* written, but reported as an error
  /\ Stop(n, m)
  /\ UNCHANGED <<strategy, lease, team, usage, rounds, replies, asked, results>>

\* An error of the database, the provider or a tool, a lost lease or a cancelled context.
Fail(n, m) ==
  /\ team[n] = "run"
  /\ member[n][m].stage \notin {"idle", "send", "over"}
  /\ Stop(n, m)
  /\ UNCHANGED <<strategy, lease, team, known, ledger, asked, results>>

-----------------------------------------------------------------------------
Run(n, m) ==
  \/ Resume(n, m) \/ Reserve(n, m) \/ Send(n, m) \/ NotSent(n, m) \/ Account(n, m)
  \/ CheckpointToolRound(n, m) \/ CheckpointAgentReply(n, m) \/ CheckpointMember(n, m)
  \/ Fail(n, m)

Next ==
  \/ Claim \/ Expire \/ Revive
  \/ \E n \in Attempts :
       \/ CheckUsage(n) \/ CheckReceipts(n) \/ Return(n) \/ Park(n) \/ Publish(n)
       \/ \E m \in Members : Run(n, m)

Spec == Init /\ [][Next]_vars

-----------------------------------------------------------------------------
(* Properties *)

\* The receipts, the members' runs and the records of their calls keep their types; a
\* sequential team's receipts are a prefix.
TypeOK ==
  /\ issued \in 0..MaxAttempts[strategy] /\ holder \in {0, issued}
  /\ team \in [Attempts -> TeamStages]
  /\ member \in [Attempts -> [Members -> Member]]
  /\ usage \in [Billings -> UsageStatus]
  /\ \A n \in Attempts :
       /\ DOMAIN known[n] \subseteq Members /\ DOMAIN receipts[n] \subseteq Members
       /\ \A m \in DOMAIN receipts[n] : receipts[n][m] \in MemberReceipt
       /\ strategy = "sequential" => DOMAIN receipts[n] \in {1..k : k \in 0..Size}
  /\ rounds \subseteq Attempts \X Members \X Rounds
  /\ replies \subseteq Billings /\ asked \subseteq Billings

\* "Resumes only members without a durable receipt", and those where they were: however
\* often the team is interrupted, no call of a member is bought by two attempts.
CallsNotRebought ==
  \A a, b \in asked : a[2] = b[2] /\ a[3] = b[3] => a[1] = b[1]

\* A receipt holds the member's own answer, the end of one conversation that contains
\* every call of that member that was paid for.
ReceiptsAccountForCalls ==
  \A n \in Attempts : \A m \in DOMAIN receipts[n] :
    LET answer == receipts[n][m].answer
    IN  /\ answer \in Of(m, With("reconciled"))
        /\ {b[3] : b \in Of(m, With("reconciled"))} = 1..answer[3]

\* In a sequential team, whatever a member was asked in any attempt followed from the
\* answer its predecessor's receipts hold, in all of them.
MembersSeeTheAnswer ==
  strategy = "sequential" =>
    \A b \in asked : \A n \in Attempts :
      b[2] - 1 \in DOMAIN receipts[n] =>
        member[b[1]][b[2]].input = receipts[n][b[2] - 1].answer

\* While an attempt that may record receipts runs the team, it has those of all earlier
\* attempts: no interruption makes the team forget a member that is done.
ReceiptsAreInherited ==
  \A n \in Attempts : team[n] = "run" /\ Holds(n) =>
    \A k \in Attempts : k < n => DOMAIN receipts[k] \subseteq DOMAIN known[n]
=============================================================================
