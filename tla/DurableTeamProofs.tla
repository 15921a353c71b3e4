-------------------------- MODULE DurableTeamProofs --------------------------
(***************************************************************************)
(* Theorems about DurableTeam, for any number of attempts, members and     *)
(* rounds.  The invariant has three layers.  BaseInv: the bill of the call *)
(* a member is at, and that an attempt past CheckUsage sees no open bill   *)
(* of an earlier one; as only the attempt claimed last holds the lease,    *)
(* what the earlier ones paid for is then settled for good.  ReceiptInv:   *)
(* receipts are inherited and grow, so a member without one was never      *)
(* asked after a successor of it was.  TalkInv: the paid calls of a member *)
(* without a receipt are all checkpointed, which is what the comparison of *)
(* CheckReceipts establishes, and a conversation goes on behind the latest *)
(* checkpoint.                                                             *)
(***************************************************************************)
EXTENDS DurableTeam, FiniteSetTheorems, TLAPS

(* The inductive invariant *)

\* A member whose conversation goes on, and one that is at work at all.
Talking == {"reserve", "send", "account", "round", "answer"}

Talks(n, m)  == member[n][m].stage \in Talking
Active(n, m) == member[n][m].stage \notin {"idle", "over"}

\* The attempt has passed CheckUsage.
Began(n) == \/ team[n] \in {"receipts", "run", "publish"}
            \/ \E m \in Members : member[n][m].stage # "idle"

\* All receipts of g are in f.
Includes(f, g) == DOMAIN g \subseteq DOMAIN f /\ \A m \in DOMAIN g : f[m] = g[m]

\* What the receipts of an attempt may be.
Receipts(f) ==
  /\ DOMAIN f \subseteq Members
  /\ \A m \in DOMAIN f : f[m] \in MemberReceipt
  /\ strategy = "sequential" => \E k \in 0..Size : DOMAIN f = 1..k

\* The types; unlike TypeOK, for what the attempts know as well.
Types ==
  /\ strategy \in Strategies
  /\ issued \in 0..MaxAttempts[strategy] /\ holder \in {0, issued}
  /\ team \in [Attempts -> TeamStages]
  /\ member \in [Attempts -> [Members -> Member]]
  /\ usage \in [Billings -> UsageStatus]
  /\ rounds \subseteq Attempts \X Members \X Rounds
  /\ replies \subseteq Billings /\ asked \subseteq Billings
  /\ DOMAIN known = Attempts /\ DOMAIN receipts = Attempts
  /\ \A n \in Attempts : Receipts(known[n]) /\ Receipts(receipts[n])

\* No executor runs for an attempt that was not claimed.
OnlyClaimed == \A n \in Attempts : n > issued => team[n] = "idle"

\* A team that does not run yet has begun nothing and recorded nothing.
Quiet ==
  \A n \in Attempts : team[n] \in {"idle", "usage", "receipts"} =>
    /\ DOMAIN known[n] = {} /\ DOMAIN receipts[n] = {}
    /\ \A m \in Members : member[n][m].stage = "idle"

\* A member at work has no receipt, and its predecessors in a sequential team have theirs.
AtWork ==
  \A n \in Attempts, m \in Members : Active(n, m) =>
    /\ team[n] = "run"
    /\ m \notin DOMAIN known[n]
    /\ strategy = "sequential" => DOMAIN known[n] = 1..(m - 1)

\* The usage record of the member's call k.
Bill(n, m, k) == usage[<<n, m, k>>]

\* The bill of the call a member is at.
BillFits(n, m) ==
  /\ member[n][m].stage = "idle" => \A k \in Positions : Bill(n, m, k) = "none"
  /\ member[n][m].stage \in {"send", "account"} => Bill(n, m, member[n][m].at) = "reserved"
  /\ member[n][m].stage \in {"round", "answer"} => Bill(n, m, member[n][m].at) \in {"reconciled", "unknown"}
  /\ member[n][m].stage = "round" => member[n][m].at \in Rounds
BillOfCall == \A n \in Attempts, m \in Members : BillFits(n, m)

\* Its other calls are behind it, and checkpointed.
CallsFit(n, m) ==
  Talks(n, m) =>
    \A k \in Positions : Bill(n, m, k) # "none" =>
      \/ k < member[n][m].at /\ <<n, m, k>> \in rounds
      \/ k = member[n][m].at /\ member[n][m].stage # "reserve"
OwnCalls == \A n \in Attempts, m \in Members : CallsFit(n, m)

\* Rounds, replies and requests have bills; the call a member is about to send was not sent.
Recorded ==
  /\ \A b \in rounds : usage[b] \in {"reconciled", "unknown"}
  /\ \A b \in replies : usage[b] = "reconciled"
  /\ \A b \in asked : /\ usage[b] \in {"reserved", "reconciled", "unknown"}
                      /\ ~(member[b[1]][b[2]].stage = "send" /\ member[b[1]][b[2]].at = b[3])

\* What CheckUsage established stays true.
Settled ==
  \A n \in Attempts : Began(n) =>
    \A b \in Billings : b[1] < n => usage[b] \notin {"reserved", "unknown"}

\* Layer 1: claims and bills.
BaseInv ==
  /\ Types /\ OnlyClaimed /\ Quiet /\ AtWork /\ BillOfCall /\ OwnCalls /\ Recorded /\ Settled

\* A team that runs knows the receipts of all earlier attempts.
Inheritance ==
  \A n \in Attempts : team[n] \in {"run", "publish"} =>
    \A k \in Attempts : k < n => Includes(known[n], receipts[k])

\* An attempt that recorded a receipt recorded those of all earlier ones with it.
ReceiptsGrow ==
  \A k, n \in Attempts : k < n /\ DOMAIN receipts[n] # {} => Includes(receipts[n], receipts[k])

\* What a team knows is in its own checkpoint, if it has one, and in that of some attempt.
KnownIsRecorded ==
  \A n \in Attempts :
    /\ DOMAIN receipts[n] # {} => Includes(receipts[n], known[n])
    /\ \A m \in DOMAIN known[n] :
         \E k \in Attempts : k <= n /\ m \in DOMAIN receipts[k] /\ receipts[k][m] = known[n][m]

\* A receipt the team did not get told of is of a member it will not run again.
WrittenOnce ==
  \A n \in Attempts : team[n] = "run" =>
    \A m \in DOMAIN receipts[n] : m \in DOMAIN known[n] \/ member[n][m].stage = "over"

\* In a sequential team a member answers the answer its predecessor's receipt holds.
InputFollows ==
  strategy = "sequential" =>
    \A n \in Attempts, m \in Members : member[n][m].stage # "idle" /\ m > 1 =>
      \E k \in Attempts :
        /\ k <= n /\ m - 1 \in DOMAIN receipts[k]
        /\ member[n][m].input = receipts[k][m - 1].answer

\* In a sequential team the total of a prefix counts calls of its members only.
UpTo(m) == {b \in With("reconciled") : b[2] <= m}
TotalsCount ==
  strategy = "sequential" =>
    \A n \in Attempts : \A m \in DOMAIN receipts[n] : receipts[n][m].calls <= Cardinality(UpTo(m))

\* Layer 2: receipts.
ReceiptInv ==
  Inheritance /\ ReceiptsGrow /\ KnownIsRecorded /\ WrittenOnce /\ InputFollows /\ TotalsCount

\* The calls earlier attempts paid for, of a member that has no receipt, are all checkpointed:
\* what CheckReceipts compares.
Accounted ==
  \A n \in Attempts, m \in Members : team[n] = "run" /\ m \notin DOMAIN known[n] =>
    \A b \in Billings : b[1] < n /\ b[2] = m /\ usage[b] = "reconciled" => b \in rounds \union replies

\* A later attempt checkpoints later rounds, and none is left out.
RoundsAdvance == \A b, e \in rounds : b[2] = e[2] /\ b[1] < e[1] => b[3] < e[3]
NoGaps == \A b \in rounds : \A k \in 1..(b[3] - 1) : \E e \in rounds : e[2] = b[2] /\ e[3] = k

\* A conversation that goes on is behind all rounds checkpointed up to its attempt, and no
\* attempt up to it checkpointed its reply.
TalkGoesOn ==
  \A n \in Attempts, m \in Members : Talks(n, m) =>
    /\ \A b \in rounds : b[2] = m /\ b[1] <= n => b[3] < member[n][m].at
    /\ \A k \in 1..(member[n][m].at - 1) : \E e \in rounds : e[2] = m /\ e[3] = k
    /\ \A b \in replies : b[2] = m => n < b[1]

\* A reply ends the conversation it is the reply of.
ReplyEnds ==
  \A b \in replies :
    /\ \A e \in Billings : e[2] = b[2] /\ usage[e] = "reconciled" => e = b \/ e \in rounds
    /\ \A e \in rounds : e[2] = b[2] => e[3] < b[3] /\ usage[e] = "reconciled"
    /\ \A k \in 1..(b[3] - 1) : \E e \in rounds : e[2] = b[2] /\ e[3] = k

\* Receipts hold checkpointed replies of their members.
AnswersAreReplies ==
  \A n \in Attempts :
    /\ \A m \in DOMAIN receipts[n] : receipts[n][m].answer \in Of(m, replies)
    /\ \A m \in DOMAIN known[n] : known[n][m].answer \in Of(m, replies)
    /\ \A m \in Members : member[n][m].stage = "receipt" => member[n][m].answer \in Of(m, replies)

\* Layer 3: conversations.
TalkInv == Accounted /\ RoundsAdvance /\ NoGaps /\ TalkGoesOn /\ ReplyEnds /\ AnswersAreReplies /\ CallsNotRebought

IInv == BaseInv /\ ReceiptInv /\ TalkInv

-----------------------------------------------------------------------------
(* Numbers, members and bills *)

\* A set of numbers has a least one.
LEMMA Smallest ==
  ASSUME NEW T, T \subseteq Nat, T # {}
  PROVE  \E x \in T : \A y \in T : x <= y
<1>. DEFINE R == OpToRel(<, Nat)
<1>1. \A y, x \in Nat : y < x => <<y, x>> \in R
  BY DEF OpToRel
<1>2. IsWellFoundedOn(R, Nat)
  BY NatLessThanWellFounded
<1>. HIDE DEF R
<1>3. PICK x \in T : \A y \in T : ~ (<<y, x>> \in R)
  BY <1>2, WFMin
<1>4. ASSUME NEW y \in T PROVE x <= y
  <2>1. x \in Nat /\ y \in Nat /\ ~ (y < x)
    BY <1>1, <1>3
  <2>. QED BY <2>1
<1>. QED BY <1>4

\* A set of numbers that are at most n has a greatest one.
LEMMA Largest ==
  ASSUME NEW n \in Nat, NEW T, T \subseteq 0..n, T # {}
  PROVE  \E x \in T : \A y \in T : y <= x
<1>. DEFINE U == {u \in 0..n : n - u \in T}
<1>1. \A x \in T : n - x \in 0..n /\ n - (n - x) = x
  OBVIOUS
<1>2. U \subseteq Nat /\ \A x \in T : n - x \in U
  BY <1>1
<1>3. PICK u \in U : \A v \in U : u <= v
  <2>1. U # {}
    BY <1>2
  <2>. HIDE DEF U
  <2>. QED BY <1>2, <2>1, Smallest
<1>4. n - u \in T /\ u \in 0..n
  BY <1>3
<1>5. ASSUME NEW y \in T PROVE y <= n - u
  <2>1. u <= n - y
    BY <1>2, <1>3
  <2>2. y \in 0..n
    OBVIOUS
  <2>. QED BY <1>4, <2>1, <2>2
<1>. QED BY <1>4, <1>5

-----------------------------------------------------------------------------
\* The bounds are numbers, so attempts, members, rounds and positions are.
LEMMA Numbers ==
  /\ Size \in Nat /\ MaxRounds \in Nat
  /\ \A s \in Strategies : MaxAttempts[s] \in Nat
  /\ \A n \in Attempts : n \in Nat /\ n >= 1
  /\ \A m \in Members : m \in Nat /\ 1 <= m /\ m <= Size
  /\ \A k \in Rounds : k \in Positions /\ k + 1 \in Positions
  /\ \A k \in Positions : k \in Nat /\ 1 <= k
  /\ 1 \in Positions
<1>1. Size \in Nat /\ MaxRounds \in Nat /\ \A s \in Strategies : MaxAttempts[s] \in Nat
  BY BoundsAssumption DEF BoundsAssumption
<1>. QED BY <1>1 DEF Attempts, Members, Rounds, Positions

\* The components of a billing.
LEMMA BillParts ==
  ASSUME NEW b \in Billings
  PROVE  b[1] \in Attempts /\ b[2] \in Members /\ b[3] \in Positions /\ b = <<b[1], b[2], b[3]>>
BY DEF Billings

\* The components of a checkpointed round.
LEMMA RoundParts ==
  ASSUME NEW b \in Attempts \X Members \X Rounds
  PROVE  b \in Billings /\ b[1] \in Attempts /\ b[2] \in Members /\ b[3] \in Rounds
         /\ b = <<b[1], b[2], b[3]>>
BY Numbers DEF Billings

\* A member moves within its run.
LEMMA Moving ==
  ASSUME member \in [Attempts -> [Members -> Member]],
         NEW n \in Attempts, NEW m \in Members, NEW stage \in MemberStages,
         NEW k \in Positions, NEW answer \in Answers, Moves(n, m, stage, k, answer)
  PROVE  /\ member' \in [Attempts -> [Members -> Member]]
         /\ member'[n][m].stage = stage /\ member'[n][m].at = k
         /\ member'[n][m].input = member[n][m].input /\ member'[n][m].answer = answer
         /\ \A j \in Attempts, i \in Members : j # n \/ i # m => member'[j][i] = member[j][i]
<1>. DEFINE r == [stage |-> stage, at |-> k, input |-> member[n][m].input, answer |-> answer]
<1>1. r \in Member
  BY DEF Member
<1>2. member' = [member EXCEPT ![n][m] = r]
  BY DEF Moves
<1>3. r.stage = stage /\ r.at = k /\ r.input = member[n][m].input /\ r.answer = answer
  OBVIOUS
<1>. HIDE DEF r
<1>4. member'[n][m] = r
  BY <1>2
<1>. QED BY <1>1, <1>2, <1>3, <1>4

\* What the records of a member's run are.
LEMMA MemberParts ==
  ASSUME member \in [Attempts -> [Members -> Member]], NEW n \in Attempts, NEW m \in Members
  PROVE  /\ member[n][m].stage \in MemberStages /\ member[n][m].at \in Positions
         /\ member[n][m].input \in Answers /\ member[n][m].answer \in Answers
         /\ Billing(n, m) \in Billings
<1>1. member[n][m] \in Member
  OBVIOUS
<1>2. /\ member[n][m].stage \in MemberStages /\ member[n][m].at \in Positions
      /\ member[n][m].input \in Answers /\ member[n][m].answer \in Answers
  BY <1>1 DEF Member
<1>. QED BY <1>2 DEF Billing, Billings

\* GoTo keeps the call a member is at.
LEMMA Going ==
  ASSUME member \in [Attempts -> [Members -> Member]],
         NEW n \in Attempts, NEW m \in Members, NEW stage \in MemberStages, GoTo(n, m, stage)
  PROVE  /\ member' \in [Attempts -> [Members -> Member]]
         /\ member'[n][m].stage = stage /\ member'[n][m].at = member[n][m].at
         /\ member'[n][m].input = member[n][m].input /\ member'[n][m].answer = member[n][m].answer
         /\ \A j \in Attempts, i \in Members : j # n \/ i # m => member'[j][i] = member[j][i]
<1>1. member[n][m].at \in Positions /\ member[n][m].answer \in Answers
  BY MemberParts
<1>. QED BY <1>1, Moving DEF GoTo

\* A run that ends keeps its input.
LEMMA Stopping ==
  ASSUME member \in [Attempts -> [Members -> Member]], NEW n \in Attempts, NEW m \in Members, Stop(n, m)
  PROVE  /\ member' \in [Attempts -> [Members -> Member]]
         /\ member'[n][m].stage = "over" /\ member'[n][m].input = member[n][m].input
         /\ \A j \in Attempts, i \in Members : j # n \/ i # m => member'[j][i] = member[j][i]
<1>1. 1 \in Positions /\ Message \in Answers /\ "over" \in MemberStages
  BY Numbers DEF Answers, MemberStages
<1>. QED BY <1>1, Moving DEF Stop

\* One bill changes.
LEMMA BillChange ==
  ASSUME usage \in [Billings -> UsageStatus], NEW c \in Billings,
         NEW status \in UsageStatus, usage' = [usage EXCEPT ![c] = status]
  PROVE  /\ usage' \in [Billings -> UsageStatus] /\ usage'[c] = status
         /\ \A b \in Billings : b # c => usage'[b] = usage[b]
OBVIOUS

\* The holder is the attempt claimed last, and no later one has begun anything.
LEMMA Latest ==
  ASSUME Types, OnlyClaimed, NEW n \in Attempts, Holds(n)
  PROVE  n = issued /\ \A j \in Attempts : j > n => team[j] = "idle"
BY Numbers DEF Types, OnlyClaimed, Holds

\* A member that has left "idle" was claimed, and its attempt has begun.
LEMMA Claimed ==
  ASSUME BaseInv, NEW n \in Attempts, NEW m \in Members, member[n][m].stage # "idle"
  PROVE  n <= issued /\ Began(n)
<1>1. team[n] # "idle"
  BY DEF BaseInv, Quiet
<1>2. issued \in Nat
  BY Numbers DEF BaseInv, Types
<1>. QED BY <1>1, <1>2, Numbers DEF BaseInv, OnlyClaimed, Began

-----------------------------------------------------------------------------
\* Every initial state satisfies the invariant: nothing is begun or recorded.
LEMMA InitIInv == Init => IInv
<1> SUFFICES ASSUME Init PROVE IInv
  OBVIOUS
<1>. USE Numbers
<1>1. \A n \in Attempts, m \in Members : member[n][m].stage = "idle"
  BY DEF Init
<1>2. \A n \in Attempts : team[n] = "idle" /\ DOMAIN known[n] = {} /\ DOMAIN receipts[n] = {}
  BY DEF Init, NoReceipts
<1>3. rounds = {} /\ replies = {} /\ asked = {} /\ strategy \in Strategies
  BY DEF Init
<1>4. \A n \in Attempts, m \in Members, k \in Positions : Bill(n, m, k) = "none"
  BY DEF Init, Bill, Billings
<1>5. Types
  <2>1. [stage |-> "idle", at |-> 1, input |-> Message, answer |-> Message] \in Member
    BY DEF Member, MemberStages, Answers
  <2>2. member \in [Attempts -> [Members -> Member]]
    BY <2>1 DEF Init
  <2>3. team \in [Attempts -> TeamStages] /\ usage \in [Billings -> UsageStatus]
    BY DEF Init, TeamStages, UsageStatus
  <2>4. 0 \in 0..MaxAttempts[strategy] /\ 0 \in 0..Size /\ 1..0 = {}
    BY <1>3
  <2>5. \A n \in Attempts : Receipts(known[n]) /\ Receipts(receipts[n])
    BY <1>2, <2>4 DEF Receipts
  <2>6. DOMAIN known = Attempts /\ DOMAIN receipts = Attempts
    BY DEF Init
  <2>7. issued = 0 /\ holder = 0
    BY DEF Init
  <2>. QED BY <1>3, <2>2, <2>3, <2>4, <2>5, <2>6, <2>7 DEF Types
<1>6. BaseInv
  BY <1>1, <1>2, <1>3, <1>4, <1>5
  DEF BaseInv, OnlyClaimed, Quiet, AtWork, Active, BillOfCall, BillFits, OwnCalls, CallsFit, Talks, Talking, Recorded, Settled, Began
<1>7. ReceiptInv
  BY <1>1, <1>2
  DEF ReceiptInv, Inheritance, ReceiptsGrow, KnownIsRecorded, WrittenOnce, InputFollows, TotalsCount
<1>8. TalkInv
  BY <1>1, <1>2, <1>3
  DEF TalkInv, Accounted, RoundsAdvance, NoGaps, TalkGoesOn, Talks, Talking, ReplyEnds, AnswersAreReplies,
      CallsNotRebought
<1>. QED BY <1>6, <1>7, <1>8 DEF IInv

-----------------------------------------------------------------------------
(* The team *)

\* What the step of a team leaves alone: its members, their bills and their records.
MembersRest == UNCHANGED <<strategy, member, usage, rounds, replies, receipts, asked>>

\* Such a step keeps what is said of bills, receipts and conversations alone.
LEMMA Rest ==
  ASSUME MembersRest
  PROVE  /\ BillOfCall => BillOfCall'
         /\ OwnCalls => OwnCalls'
         /\ Recorded => Recorded'
         /\ ReceiptsGrow => ReceiptsGrow'
         /\ InputFollows => InputFollows'
         /\ TotalsCount => TotalsCount'
         /\ RoundsAdvance => RoundsAdvance'
         /\ NoGaps => NoGaps'
         /\ TalkGoesOn => TalkGoesOn'
         /\ ReplyEnds => ReplyEnds'
         /\ CallsNotRebought => CallsNotRebought'
<1>1. BillOfCall => BillOfCall'
  BY DEF MembersRest, BillOfCall, BillFits, Bill
<1>2. OwnCalls => OwnCalls'
  BY DEF MembersRest, OwnCalls, CallsFit, Bill, Talks
<1>3. Recorded => Recorded'
  BY DEF MembersRest, Recorded
<1>4. ReceiptsGrow => ReceiptsGrow'
  BY DEF MembersRest, ReceiptsGrow, Includes
<1>5. InputFollows => InputFollows'
  BY DEF MembersRest, InputFollows
<1>6. TotalsCount => TotalsCount'
  <2>1. \A m \in Members : UpTo(m)' = UpTo(m)
    BY DEF MembersRest, UpTo, With
  <2>2. \A n \in Attempts : receipts'[n] = receipts[n]
    BY DEF MembersRest
  <2>3. UNCHANGED <<strategy, usage, receipts>>
    BY DEF MembersRest
  <2>. QED BY <2>3 DEF TotalsCount, UpTo, With
<1>7. (RoundsAdvance => RoundsAdvance') /\ (NoGaps => NoGaps') /\ (TalkGoesOn => TalkGoesOn')
  BY DEF MembersRest, RoundsAdvance, NoGaps, TalkGoesOn, Talks
<1>8. (ReplyEnds => ReplyEnds') /\ (CallsNotRebought => CallsNotRebought')
  BY DEF MembersRest, ReplyEnds, CallsNotRebought
<1>. QED BY <1>1, <1>2, <1>3, <1>4, <1>5, <1>6, <1>7, <1>8

\* The team of one attempt moves on, and neither enters the run nor learns of receipts.
LEMMA Deciding ==
  ASSUME IInv, MembersRest, NEW n \in Attempts,
         team' \in [Attempts -> TeamStages], DOMAIN known' = Attempts,
         \A k \in Attempts : k # n => team'[k] = team[k] /\ known'[k] = known[k],
         issued' \in issued..MaxAttempts[strategy], holder' \in {0, issued'}, n <= issued',
         team'[n] # "idle",
         known'[n] = known[n] \/ (DOMAIN known'[n] = {} /\ team'[n] = "gone"),
         team'[n] = "run" => team[n] = "run",
         team'[n] = "publish" => team[n] = "run",
         team'[n] = "usage" => team[n] = "idle",
         team'[n] = "receipts" => team[n] = "usage" /\ With("reserved") \union With("unknown") = {},
         team[n] = "run" /\ team'[n] # "run" => \A m \in Members : ~Active(n, m)
  PROVE  IInv'
<1>. USE Numbers
<1>a. BaseInv /\ ReceiptInv /\ TalkInv
  BY DEF IInv
<1>b. UNCHANGED <<strategy, member, usage, rounds, replies, receipts, asked>>
  BY DEF MembersRest
<1>1. Types'
  <2>1. issued' \in 0..MaxAttempts[strategy]
    BY <1>a DEF BaseInv, Types
  <2>2. \A k \in Attempts : Receipts(known[k])
    BY <1>a DEF BaseInv, Types
  <2>3. ASSUME NEW k \in Attempts
        PROVE  Receipts(known[k])'
    <3>1. CASE known'[k] = known[k]
      BY <1>b, <2>2, <3>1 DEF Receipts
    <3>2. CASE DOMAIN known'[k] = {}
      <4>1. 0 \in 0..Size /\ DOMAIN known'[k] = 1..0
        BY <3>2
      <4>. QED BY <3>2, <4>1 DEF Receipts
    <3>. QED BY <3>1, <3>2
  <2>4. \A k \in Attempts : Receipts(receipts[k])'
    BY <1>a, <1>b DEF BaseInv, Types, Receipts
  <2>. QED BY <1>a, <1>b, <2>1, <2>3, <2>4 DEF BaseInv, Types
<1>2. OnlyClaimed' /\ Quiet' /\ AtWork'
  <2>1. OnlyClaimed'
    BY <1>a DEF BaseInv, Types, OnlyClaimed
  <2>2. Quiet'
    BY <1>a, <1>b DEF BaseInv, Quiet
  <2>3. AtWork'
    BY <1>a, <1>b DEF BaseInv, AtWork, Active
  <2>. QED BY <2>1, <2>2, <2>3
<1>3. Settled'
  <2> SUFFICES ASSUME NEW k \in Attempts, Began(k)', NEW b \in Billings, b[1] < k
               PROVE  usage'[b] \notin {"reserved", "unknown"}
    BY DEF Settled
  <2>1. CASE Began(k)
    BY <1>a, <1>b, <2>1 DEF BaseInv, Settled
  <2>2. CASE ~Began(k)
    <3>1. k = n /\ team'[n] = "receipts"
      BY <1>b, <2>2 DEF Began
    <3>. QED BY <1>b, <3>1 DEF With
  <2>. QED BY <2>1, <2>2
<1>4. BaseInv'
  BY <1>1, <1>2, <1>3, <1>a, Rest DEF BaseInv
<1>5. Inheritance'
  BY <1>a, <1>b DEF ReceiptInv, Inheritance, Includes
<1>6. KnownIsRecorded'
  BY <1>a, <1>b DEF ReceiptInv, KnownIsRecorded, Includes
<1>7. WrittenOnce'
  BY <1>a, <1>b DEF ReceiptInv, WrittenOnce
<1>8. Accounted'
  BY <1>a, <1>b DEF TalkInv, Accounted
<1>9. AnswersAreReplies'
  BY <1>a, <1>b DEF TalkInv, AnswersAreReplies, Of
<1>. QED BY <1>4, <1>5, <1>6, <1>7, <1>8, <1>9, <1>a, Rest DEF IInv, ReceiptInv, TalkInv

\* The lease is claimed.
LEMMA Claiming ==
  ASSUME IInv, Claim
  PROVE  IInv'
<1>1. Types /\ Quiet /\ OnlyClaimed
  BY DEF IInv, BaseInv
<1>2. issued + 1 \in 1..MaxAttempts[strategy] /\ strategy \in Strategies /\ issued \in Nat
  BY <1>1, Numbers DEF Claim, Types
<1>3. issued + 1 \in Attempts
  BY <1>2 DEF Attempts
<1>4. team[issued + 1] = "idle"
  BY <1>1, <1>2, <1>3 DEF OnlyClaimed
<1>5. /\ team' = [team EXCEPT ![issued + 1] = "usage"] /\ issued' = issued + 1 /\ holder' = issued + 1
      /\ UNCHANGED <<strategy, known, member, usage, rounds, replies, receipts, asked>>
  BY DEF Claim, ledger
<1>6. /\ team' \in [Attempts -> TeamStages] /\ team'[issued + 1] = "usage"
      /\ \A k \in Attempts : k # issued + 1 => team'[k] = team[k]
  BY <1>1, <1>3, <1>5 DEF Types, TeamStages
<1>7. issued' \in issued..MaxAttempts[strategy] /\ issued + 1 <= issued'
  BY <1>2, <1>5, Numbers
<1>. DEFINE n == issued + 1
<1>8. MembersRest /\ UNCHANGED known /\ DOMAIN known' = Attempts
  BY <1>1, <1>5 DEF MembersRest, Types
<1>9. n \in Attempts /\ team'[n] = "usage" /\ team[n] = "idle" /\ holder' \in {0, issued'} /\ n <= issued'
  BY <1>3, <1>4, <1>5, <1>6, <1>7
<1>10. \A k \in Attempts : k # n => team'[k] = team[k] /\ known'[k] = known[k]
  BY <1>6, <1>8
<1>. HIDE DEF n
<1>. QED BY <1>6, <1>7, <1>8, <1>9, <1>10, Deciding

\* The lease expires, or passes verifyLease once more.
LEMMA Releasing ==
  ASSUME IInv, Expire \/ Revive
  PROVE  IInv'
<1>1. holder' \in {0, issued} /\ MembersRest /\ UNCHANGED <<issued, team, known>>
  BY DEF Expire, Revive, MembersRest, ledger
<1>2. UNCHANGED <<strategy, member, usage, rounds, replies, receipts, asked>>
  BY <1>1 DEF MembersRest
<1>3. BaseInv'
  <2>1. Types'
    BY <1>1, <1>2 DEF IInv, BaseInv, Types, Receipts
  <2>2. OnlyClaimed' /\ Quiet' /\ AtWork'
    BY <1>1, <1>2 DEF IInv, BaseInv, OnlyClaimed, Quiet, AtWork, Active
  <2>3. Settled'
    BY <1>1, <1>2 DEF IInv, BaseInv, Settled, Began
  <2>. QED BY <1>1, <2>1, <2>2, <2>3, Rest DEF IInv, BaseInv
<1>4. Inheritance' /\ KnownIsRecorded' /\ WrittenOnce'
  BY <1>1, <1>2 DEF IInv, ReceiptInv, Inheritance, KnownIsRecorded, WrittenOnce, Includes
<1>5. Accounted' /\ AnswersAreReplies'
  BY <1>1, <1>2 DEF IInv, TalkInv, Accounted, AnswersAreReplies, Of
<1>. QED BY <1>1, <1>3, <1>4, <1>5, Rest DEF IInv, ReceiptInv, TalkInv

\* The executor compares the usage, returns from the run or gives the lease up.
LEMMA Leaving ==
  ASSUME IInv, NEW n \in Attempts, CheckUsage(n) \/ Return(n) \/ Park(n) \/ Publish(n)
  PROVE  IInv'
<1>. USE Numbers
<1>1. Types /\ OnlyClaimed /\ AtWork
  BY DEF IInv, BaseInv
<1>2. team[n] \in {"usage", "run", "park", "publish"}
  BY DEF CheckUsage, Return, Park, Publish
<1>3. n <= issued /\ issued \in Nat /\ issued \in issued..MaxAttempts[strategy]
  BY <1>1, <1>2 DEF Types, OnlyClaimed
<1>4. MembersRest /\ UNCHANGED issued /\ holder' \in {0, holder}
  BY DEF CheckUsage, Return, Park, Publish, Leave, MembersRest, ledger, lease
<1>5. CASE CheckUsage(n)
  <2>1. team' = [team EXCEPT ![n] = IF With("reserved") \union With("unknown") = {} THEN "receipts" ELSE "park"]
        /\ UNCHANGED known /\ team[n] = "usage"
    BY <1>5 DEF CheckUsage
  <2>2. team' \in [Attempts -> TeamStages] /\ \A k \in Attempts : k # n => team'[k] = team[k]
    BY <1>1, <2>1 DEF Types, TeamStages
  <2>3. team'[n] = "park" \/ (team'[n] = "receipts" /\ With("reserved") \union With("unknown") = {})
    BY <1>1, <2>1 DEF Types
  <2>. QED BY <1>1, <1>3, <1>4, <2>1, <2>2, <2>3, Deciding DEF Types
<1>6. CASE Return(n)
  <2>1. /\ team' = [team EXCEPT ![n] = IF DOMAIN known[n] = Members THEN "publish" ELSE "park"]
        /\ UNCHANGED known /\ team[n] = "run"
        /\ \A m \in Members : ~Active(n, m)
    BY <1>6 DEF Return, Active
  <2>2. team' \in [Attempts -> TeamStages] /\ \A k \in Attempts : k # n => team'[k] = team[k]
    BY <1>1, <2>1 DEF Types, TeamStages
  <2>3. team'[n] \in {"publish", "park"}
    BY <1>1, <2>1 DEF Types
  <2>. QED BY <1>1, <1>3, <1>4, <2>1, <2>2, <2>3, Deciding DEF Types
<1>7. CASE Park(n) \/ Publish(n)
  <2>1. /\ team' = [team EXCEPT ![n] = "gone"] /\ known' = [known EXCEPT ![n] = NoReceipts]
        /\ team[n] # "run"
    BY <1>7 DEF Park, Publish, Leave
  <2>2. DOMAIN NoReceipts = {}
    BY DEF NoReceipts
  <2>3. /\ team' \in [Attempts -> TeamStages] /\ DOMAIN known' = Attempts
        /\ team'[n] = "gone" /\ DOMAIN known'[n] = {}
        /\ \A k \in Attempts : k # n => team'[k] = team[k] /\ known'[k] = known[k]
    BY <1>1, <2>1, <2>2 DEF Types, TeamStages
  <2>. QED BY <1>1, <1>3, <1>4, <2>1, <2>3, Deciding DEF Types
<1>. QED BY <1>5, <1>6, <1>7

-----------------------------------------------------------------------------
(* What CheckReceipts establishes *)

\* There are finitely many calls.
LEMMA FiniteBills == IsFiniteSet(Billings)
<1>1. IsFiniteSet(1..MaxAttempts["sequential"]) /\ IsFiniteSet(1..MaxAttempts["parallel"])
      /\ IsFiniteSet(Members) /\ IsFiniteSet(Positions)
  <2>1. MaxAttempts["sequential"] \in Int /\ MaxAttempts["parallel"] \in Int
        /\ Size \in Int /\ MaxRounds + 1 \in Int
    BY Numbers DEF Strategies
  <2>. QED BY <2>1, FS_Interval DEF Members, Positions
<1>2. Attempts = (1..MaxAttempts["sequential"]) \union (1..MaxAttempts["parallel"])
  BY DEF Attempts, Strategies
<1>3. IsFiniteSet(Attempts)
  BY <1>1, <1>2, FS_Union
<1>4. IsFiniteSet(Members \X Positions) /\ IsFiniteSet(Attempts \X (Members \X Positions))
  BY <1>1, <1>3, FS_Product
<1>. DEFINE A == Attempts \X (Members \X Positions)
            f == [a \in A |-> <<a[1], a[2][1], a[2][2]>>]
<1>5. f \in Surjection(A, Billings)
  <2>1. f \in [A -> Billings]
    BY DEF Billings
  <2>2. ASSUME NEW b \in Billings PROVE \E a \in A : f[a] = b
    <3>1. <<b[1], <<b[2], b[3]>>>> \in A /\ f[<<b[1], <<b[2], b[3]>>>>] = b
      BY BillParts
    <3>. QED BY <3>1
  <2>. QED BY <2>1, <2>2 DEF Surjection
<1>. HIDE DEF A, f
<1>6. IsFiniteSet(A)
  BY <1>4 DEF A
<1>. QED BY <1>5, <1>6, FS_Surjection

\* Receipts of the latest attempt that recorded any are those of all earlier attempts.
LEMMA Inheriting ==
  ASSUME IInv, NEW n \in Attempts
  PROVE  /\ \A k \in Attempts : k < n => Includes(Inherited(n), receipts[k])
         /\ DOMAIN Inherited(n) = {} \/ \E k \in Attempts : k < n /\ Inherited(n) = receipts[k]
         /\ Receipts(Inherited(n))
<1>. DEFINE prior == {k \in 1..(n - 1) : DOMAIN receipts[k] # {}}
<1>. USE Numbers
<1>1. n \in Nat /\ 1..(n - 1) \subseteq Attempts
  BY DEF Attempts
<1>2. \A k \in Attempts : k < n => k \in 1..(n - 1)
  OBVIOUS
<1>3. Types /\ ReceiptsGrow
  BY DEF IInv, BaseInv, ReceiptInv
<1>4. CASE prior = {}
  <2>1. Inherited(n) = NoReceipts /\ DOMAIN NoReceipts = {}
    BY <1>4 DEF Inherited, NoReceipts
  <2>2. \A k \in Attempts : k < n => DOMAIN receipts[k] = {}
    BY <1>2, <1>4
  <2>3. Receipts(Inherited(n))
    <3>1. 0 \in 0..Size /\ 1..0 = {}
      OBVIOUS
    <3>. QED BY <2>1, <3>1 DEF Receipts
  <2>. QED BY <2>1, <2>2, <2>3 DEF Includes
<1>5. CASE prior # {}
  <2>. DEFINE top == CHOOSE k \in prior : \A j \in prior : j <= k
  <2>1. \E k \in prior : \A j \in prior : j <= k
    <3>1. prior \subseteq 0..n
      BY <1>1
    <3>. HIDE DEF prior
    <3>. QED BY <1>1, <1>5, <3>1, Largest
  <2>2. top \in prior /\ \A j \in prior : j <= top
    <3>. HIDE DEF prior
    <3>. QED BY <2>1
  <2>3. Inherited(n) = receipts[top]
    BY <1>5 DEF Inherited
  <2>. HIDE DEF top
  <2>4. top \in Attempts /\ top < n /\ DOMAIN receipts[top] # {} /\ top \in Nat
    BY <1>1, <2>2
  <2>5. ASSUME NEW k \in Attempts, k < n
        PROVE  Includes(receipts[top], receipts[k])
    <3>1. CASE DOMAIN receipts[k] = {}
      BY <3>1 DEF Includes
    <3>2. CASE DOMAIN receipts[k] # {}
      <4>1. k <= top /\ k \in Nat
        BY <1>2, <2>2, <2>5, <3>2
      <4>2. k = top \/ k < top
        BY <2>4, <4>1
      <4>. QED BY <1>3, <2>4, <4>2 DEF ReceiptsGrow, Includes
    <3>. QED BY <3>1, <3>2
  <2>6. Receipts(receipts[top])
    BY <1>3, <2>4 DEF Types
  <2>. QED BY <2>3, <2>4, <2>5, <2>6
<1>. QED BY <1>4, <1>5

\* Where as many calls of a member are checkpointed as were paid for, all of them are.
LEMMA Counted ==
  ASSUME IInv, NEW n \in Attempts, NEW m \in Members, Began(n),
         Reconciled(m) = 0 \/ Reconciled(m) = Checkpointed(n, m)
  PROVE  Of(m, With("reconciled")) \subseteq rounds \union replies
<1>. DEFINE R == Of(m, With("reconciled"))
            C == Of(m, Earlier(rounds, n))
            D == Of(m, Earlier(replies, n))
<1>1. Types /\ Recorded /\ Settled /\ ReplyEnds
  BY DEF IInv, BaseInv, TalkInv
<1>2. R \subseteq Billings /\ IsFiniteSet(R)
  <2>1. R \subseteq Billings
    BY DEF Of, With
  <2>. QED BY <2>1, FiniteBills, FS_Subset
<1>3. C \subseteq R
  <2>1. \A b \in rounds : b \in Billings
    BY <1>1, RoundParts DEF Types
  <2>2. \A b \in rounds : b[1] < n => usage[b] = "reconciled"
    BY <1>1, <2>1 DEF Recorded, Settled
  <2>. QED BY <2>1, <2>2 DEF Of, Earlier, With
<1>4. D \subseteq R
  BY <1>1 DEF Of, Earlier, With, Recorded, Types
<1>5. C \cap D = {}
  <2>1. \A b \in replies, e \in rounds : e[2] = b[2] => e[3] < b[3]
    BY <1>1 DEF ReplyEnds
  <2>2. \A b \in replies : b[3] \in Nat
    BY <1>1, BillParts, Numbers DEF Types
  <2>. QED BY <2>1, <2>2 DEF Of, Earlier
<1>6. Reconciled(m) = Cardinality(R) /\ Checkpointed(n, m) = Cardinality(C) + Cardinality(D)
  BY DEF Reconciled, Checkpointed
<1>7. C \subseteq rounds /\ D \subseteq replies
  BY DEF Of, Earlier
<1>. HIDE DEF R, C, D
<1>8. IsFiniteSet(C) /\ IsFiniteSet(D) /\ IsFiniteSet(C \union D) /\ C \union D \subseteq R
      /\ Cardinality(C \union D) = Cardinality(C) + Cardinality(D)
  <2>1. IsFiniteSet(C) /\ IsFiniteSet(D)
    BY <1>2, <1>3, <1>4, FS_Subset
  <2>2. Cardinality(C) \in Nat /\ Cardinality(D) \in Nat /\ Cardinality({}) = 0
    BY <2>1, FS_CardinalityType, FS_EmptySet
  <2>3. IsFiniteSet(C \union D)
        /\ Cardinality(C \union D) = Cardinality(C) + Cardinality(D) - Cardinality(C \cap D)
    BY <2>1, FS_Union
  <2>4. Cardinality(C \cap D) = 0
    BY <1>5, <2>2
  <2>5. Cardinality(C \union D) = Cardinality(C) + Cardinality(D)
    BY <2>2, <2>3, <2>4
  <2>. QED BY <1>3, <1>4, <2>1, <2>3, <2>5
<1>9. CASE Reconciled(m) = 0
  <2>1. R = {}
    BY <1>2, <1>6, <1>9, FS_EmptySet
  <2>. QED BY <2>1 DEF R
<1>10. CASE Reconciled(m) = Checkpointed(n, m)
  <2>1. Cardinality(C \union D) = Cardinality(R)
    BY <1>6, <1>8, <1>10
  <2>2. C \union D = R
    BY <1>2, <1>8, <2>1, FS_Subset
  <2>3. R \subseteq rounds \union replies
    BY <1>7, <2>2
  <2>. QED BY <2>3 DEF R
<1>. QED BY <1>9, <1>10

\* The paid calls of a member of whose answer no receipt is inherited are checkpointed:
\* what runDurableTeam and runDurableParallelTeam compare before they resume.
LEMMA Admitting ==
  ASSUME IInv, NEW n \in Attempts, team[n] = "receipts", Admitted(n),
         NEW m \in Members, m \notin DOMAIN Inherited(n),
         NEW b \in Billings, b[1] < n, b[2] = m, usage[b] = "reconciled"
  PROVE  b \in rounds \union replies
<1>. DEFINE done == Inherited(n)
            R == With("reconciled")
<1>. USE Numbers
<1>1. Types /\ Began(n) /\ Receipts(done)
  BY Inheriting DEF IInv, BaseInv, Began
<1>2. b \in Of(m, R)
  BY DEF Of, With
<1>3. CASE strategy = "parallel"
  <2>1. Reconciled(m) = 0 \/ Reconciled(m) = Checkpointed(n, m)
    BY <1>3 DEF Admitted, MembersAccount
  <2>. QED BY <1>1, <1>2, <2>1, Counted
<1>4. CASE strategy = "sequential"
  <2>1. PICK q \in 0..Size : DOMAIN done = 1..q
    BY <1>1, <1>4 DEF Receipts
  <2>2. q \in Nat /\ Cardinality(DOMAIN done) + 1 = q + 1 /\ (DOMAIN done = {} <=> q = 0)
    <3>1. Cardinality(1..q) = q
      <4>1. q \in Int /\ q >= 0
        BY <2>1
      <4>2. Cardinality(1..q) = IF 1 > q THEN 0 ELSE q - 1 + 1
        BY <4>1, FS_Interval
      <4>. QED BY <4>1, <4>2
    <3>. QED BY <2>1, <3>1
  <2>3. m \in Nat /\ m >= q + 1
    BY <2>1, <2>2
  <2>4. ~ (m > q + 1)
    <3>. SUFFICES ASSUME m > q + 1 PROVE FALSE
      OBVIOUS
    <3>1. member[b[1]][m].stage # "idle"
      <4>1. usage[b] = Bill(b[1], m, b[3])
        BY BillParts DEF Bill
      <4>. QED BY <4>1, BillParts DEF IInv, BaseInv, BillOfCall, BillFits
    <3>2. PICK k \in Attempts : k <= b[1] /\ m - 1 \in DOMAIN receipts[k]
      BY <1>4, <2>2, <2>3, <3>1, BillParts DEF IInv, ReceiptInv, InputFollows
    <3>3. k < n
      BY <3>2, BillParts
    <3>4. m - 1 \in 1..q
      BY <2>1, <3>2, <3>3, Inheriting DEF Includes
    <3>. QED BY <2>2, <2>3, <3>4
  <2>5. m = q + 1
    BY <2>2, <2>3, <2>4
  <2>. DEFINE total == IF DOMAIN done = {} THEN 0 ELSE done[q].calls
              count == Cardinality(R)
              extra == count - total
  <2>6. total <= count /\ (extra > 0 => Reconciled(m) = extra /\ Checkpointed(n, m) = extra)
    <3>1. PrefixAccounts(n, done)
      BY <1>4 DEF Admitted
    <3>2. (q + 1) - 1 = q
      BY <2>2
    <3>. QED BY <2>2, <2>5, <3>1, <3>2 DEF PrefixAccounts
  <2>7. R \subseteq Billings /\ IsFiniteSet(R) /\ count \in Nat
    BY FiniteBills, FS_Subset, FS_CardinalityType DEF With
  <2>8. total \in Nat
    <3>1. CASE q = 0
      BY <2>2, <3>1
    <3>2. CASE q # 0
      <4>1. done[q] \in MemberReceipt
        BY <1>1, <2>1, <3>2 DEF Receipts
      <4>. QED BY <2>2, <3>2, <4>1 DEF MemberReceipt
    <3>. QED BY <3>1, <3>2
  <2>9. CASE extra > 0
    BY <1>1, <1>2, <2>6, <2>9, Counted
  <2>10. CASE ~ (extra > 0)
    <3>1. count = total
      <4>. HIDE DEF count, total
      <4>. QED BY <2>6, <2>7, <2>8, <2>10
    <3>2. q # 0
      <4>. SUFFICES ASSUME q = 0 PROVE FALSE
        OBVIOUS
      <4>1. count = 0
        BY <2>2, <3>1
      <4>2. R = {}
        BY <2>7, <4>1, FS_EmptySet
      <4>. QED BY <1>2, <4>2 DEF Of
    <3>3. q \in Members /\ q \in DOMAIN done
      BY <2>1, <3>2 DEF Members
    <3>4. PICK k \in Attempts : done = receipts[k]
      BY <3>3, Inheriting
    <3>5. total <= Cardinality(UpTo(q))
      <4>1. total = receipts[k][q].calls
        BY <3>3, <3>4
      <4>2. q \in DOMAIN receipts[k]
        BY <3>3, <3>4
      <4>. QED BY <1>4, <4>1, <4>2 DEF IInv, ReceiptInv, TotalsCount
    <3>6. UpTo(q) \subseteq R /\ UpTo(q) # R
      <4>1. b \in R /\ b \notin UpTo(q)
        BY <1>2, <2>2, <2>5 DEF Of, UpTo
      <4>. QED BY <4>1 DEF UpTo
    <3>7. Cardinality(UpTo(q)) <= count /\ Cardinality(UpTo(q)) # count /\ Cardinality(UpTo(q)) \in Nat
      <4>. HIDE DEF R
      <4>. QED BY <2>7, <3>6, FS_Subset, FS_CardinalityType
    <3>. HIDE DEF count, total
    <3>. QED BY <2>7, <2>8, <3>1, <3>5, <3>7
  <2>. QED BY <2>9, <2>10
<1>. QED BY <1>1, <1>3, <1>4 DEF Types, Strategies

\* The executor takes the inherited receipts over and runs the team, or parks it.
LEMMA Receiving ==
  ASSUME IInv, NEW n \in Attempts, CheckReceipts(n)
  PROVE  IInv'
<1>. USE Numbers
<1>a. BaseInv /\ ReceiptInv /\ TalkInv /\ Types
  BY DEF IInv, BaseInv
<1>b. UNCHANGED <<strategy, issued, holder, member, usage, rounds, replies, receipts, asked>> /\ MembersRest
  BY DEF CheckReceipts, lease, ledger, MembersRest
<1>c. team[n] = "receipts"
  BY DEF CheckReceipts
<1>d. n <= issued /\ issued \in Nat /\ issued \in issued..MaxAttempts[strategy]
  BY <1>a, <1>c DEF BaseInv, Types, OnlyClaimed
<1>1. CASE ~Admitted(n)
  <2>1. team' = [team EXCEPT ![n] = "park"] /\ UNCHANGED known
    BY <1>1 DEF CheckReceipts
  <2>2. /\ team' \in [Attempts -> TeamStages] /\ team'[n] = "park"
        /\ \A k \in Attempts : k # n => team'[k] = team[k]
    BY <1>a, <2>1 DEF Types, TeamStages
  <2>. QED BY <1>a, <1>b, <1>c, <1>d, <2>1, <2>2, Deciding DEF Types
<1>2. CASE Admitted(n)
  <2>1. team' = [team EXCEPT ![n] = "run"] /\ known' = [known EXCEPT ![n] = Inherited(n)]
    BY <1>2 DEF CheckReceipts
  <2>2. /\ team' \in [Attempts -> TeamStages] /\ team'[n] = "run"
        /\ DOMAIN known' = Attempts /\ known'[n] = Inherited(n)
        /\ \A k \in Attempts : k # n => team'[k] = team[k] /\ known'[k] = known[k]
    BY <1>a, <2>1 DEF Types, TeamStages
  <2>3. Types'
    <3>1. \A k \in Attempts : Receipts(known'[k])
      BY <1>a, <2>2, Inheriting DEF Types
    <3>2. \A k \in Attempts : Receipts(known[k])' /\ Receipts(receipts[k])'
      BY <1>a, <1>b, <3>1 DEF Types, Receipts
    <3>. QED BY <1>a, <1>b, <2>2, <3>2 DEF Types
  <2>4. OnlyClaimed' /\ Quiet' /\ AtWork'
    <3>1. OnlyClaimed'
      BY <1>a, <1>b, <1>c, <2>2 DEF BaseInv, OnlyClaimed
    <3>2. Quiet'
      BY <1>a, <1>b, <2>2 DEF BaseInv, Quiet
    <3>3. AtWork'
      BY <1>a, <1>b, <1>c, <2>2 DEF BaseInv, AtWork, Active
    <3>. QED BY <3>1, <3>2, <3>3
  <2>5. Settled'
    BY <1>a, <1>b, <1>c, <2>2 DEF BaseInv, Settled, Began
  <2>6. BaseInv'
    BY <1>a, <1>b, <2>3, <2>4, <2>5, Rest DEF BaseInv
  <2>7. Inheritance'
    BY <1>a, <1>b, <2>2, Inheriting DEF ReceiptInv, Inheritance, Includes
  <2>8. DOMAIN receipts[n] = {} /\ \A m \in Members : member[n][m].stage = "idle"
    BY <1>a, <1>c DEF BaseInv, Quiet
  <2>9. KnownIsRecorded'
    <3>1. ASSUME NEW m \in DOMAIN Inherited(n)
          PROVE  \E k \in Attempts : k <= n /\ m \in DOMAIN receipts[k] /\ receipts[k][m] = Inherited(n)[m]
      <4>1. PICK k \in Attempts : k < n /\ Inherited(n) = receipts[k]
        BY <3>1, Inheriting
      <4>. QED BY <4>1
    <3>. QED BY <1>a, <1>b, <2>2, <2>8, <3>1 DEF ReceiptInv, KnownIsRecorded, Includes
  <2>10. WrittenOnce'
    BY <1>a, <1>b, <2>2, <2>8 DEF ReceiptInv, WrittenOnce
  <2>11. Accounted'
    <3> SUFFICES ASSUME NEW k \in Attempts, NEW m \in Members, team'[k] = "run", m \notin DOMAIN known'[k],
                        NEW b \in Billings, b[1] < k, b[2] = m, usage[b] = "reconciled"
                 PROVE  b \in rounds \union replies
      BY <1>b DEF Accounted
    <3>1. CASE k = n
      BY <1>2, <1>c, <2>2, <3>1, Admitting
    <3>2. CASE k # n
      BY <1>a, <2>2, <3>2 DEF TalkInv, Accounted
    <3>. QED BY <3>1, <3>2
  <2>12. AnswersAreReplies'
    <3>1. \A m \in DOMAIN Inherited(n) : Inherited(n)[m].answer \in Of(m, replies)
      BY <1>a, Inheriting DEF TalkInv, AnswersAreReplies
    <3>. QED BY <1>a, <1>b, <2>2, <3>1 DEF TalkInv, AnswersAreReplies, Of
  <2>. QED BY <1>a, <1>b, <2>6, <2>7, <2>9, <2>10, <2>11, <2>12, Rest DEF IInv, ReceiptInv, TalkInv
<1>. QED BY <1>1, <1>2

-----------------------------------------------------------------------------
(* A member's run *)

\* What a step of a member's run leaves alone.
TeamsRest == UNCHANGED <<strategy, issued, holder, team, known>>
OthersRest(n, m) == \A j \in Attempts, i \in Members : j # n \/ i # m => member'[j][i] = member[j][i]

\* Where nobody learns or records a receipt, what is known of them stays.
LEMMA Unlearned ==
  ASSUME UNCHANGED <<team, known, receipts>>
  PROVE  /\ Inheritance => Inheritance'
         /\ ReceiptsGrow => ReceiptsGrow'
         /\ KnownIsRecorded => KnownIsRecorded'
<1>1. Inheritance => Inheritance'
  BY DEF Inheritance, Includes
<1>2. ReceiptsGrow => ReceiptsGrow'
  BY DEF ReceiptsGrow, Includes
<1>3. KnownIsRecorded => KnownIsRecorded'
  BY DEF KnownIsRecorded, Includes
<1>. QED BY <1>1, <1>2, <1>3

\* A member that is at work or starts keeps what is known of teams and receipts.
LEMMA Working ==
  ASSUME IInv, NEW n \in Attempts, NEW m \in Members,
         TeamsRest, UNCHANGED receipts, OthersRest(n, m),
         member' \in [Attempts -> [Members -> Member]],
         usage' \in [Billings -> UsageStatus],
         rounds' \subseteq Attempts \X Members \X Rounds, replies' \subseteq Billings, asked' \subseteq Billings,
         team[n] = "run", member[n][m].stage # "over", member'[n][m].stage # "idle",
         Active(n, m)' => m \notin DOMAIN known[n]
                          /\ (strategy = "sequential" => DOMAIN known[n] = 1..(m - 1)),
         IF member[n][m].stage = "idle"
         THEN strategy = "sequential" /\ m > 1 =>
                m - 1 \in DOMAIN known[n] /\ member'[n][m].input = known[n][m - 1].answer
         ELSE member'[n][m].input = member[n][m].input,
         \A b \in Billings : usage[b] = "reconciled" => usage'[b] = "reconciled"
  PROVE  /\ Types' /\ OnlyClaimed' /\ Quiet' /\ AtWork'
         /\ ReceiptInv'
         /\ \A k \in Attempts : Began(k)' => Began(k)
<1>. USE Numbers
<1>a. BaseInv /\ ReceiptInv
  BY DEF IInv
<1>b. UNCHANGED <<strategy, issued, holder, team, known, receipts>>
  BY DEF TeamsRest
<1>c. \A j \in Attempts, i \in Members : j # n \/ i # m => member'[j][i] = member[j][i]
  BY DEF OthersRest
<1>1. Types'
  BY <1>a, <1>b DEF BaseInv, Types, Receipts
<1>2. OnlyClaimed'
  BY <1>a, <1>b DEF BaseInv, OnlyClaimed
<1>3. Quiet'
  <2> SUFFICES ASSUME NEW k \in Attempts, team[k] \in {"idle", "usage", "receipts"}
               PROVE  /\ DOMAIN known[k] = {} /\ DOMAIN receipts[k] = {}
                      /\ \A i \in Members : member'[k][i].stage = "idle"
    BY <1>b DEF Quiet
  <2>1. k # n
    OBVIOUS
  <2>2. \A i \in Members : member'[k][i] = member[k][i]
    BY <1>c, <2>1
  <2>. QED BY <1>a, <2>2 DEF BaseInv, Quiet
<1>4. AtWork'
  BY <1>a, <1>b, <1>c DEF BaseInv, AtWork, Active
<1>5. \A k \in Attempts : Began(k)' => Began(k)
  <2> SUFFICES ASSUME NEW k \in Attempts, Began(k)' PROVE Began(k)
    OBVIOUS
  <2>1. CASE k = n
    BY <2>1 DEF Began
  <2>2. CASE k # n
    <3>1. \A i \in Members : member'[k][i] = member[k][i]
      BY <1>c, <2>2
    <3>. QED BY <1>b, <3>1 DEF Began
  <2>. QED BY <2>1, <2>2
<1>6. Inheritance' /\ ReceiptsGrow' /\ KnownIsRecorded'
  BY <1>a, <1>b, Unlearned DEF ReceiptInv
<1>7. WrittenOnce'
  <2> SUFFICES ASSUME NEW k \in Attempts, team[k] = "run", NEW i \in DOMAIN receipts[k]
               PROVE  i \in DOMAIN known[k] \/ member'[k][i].stage = "over"
    BY <1>b DEF WrittenOnce
  <2>1. i \in Members
    BY <1>a DEF BaseInv, Types, Receipts
  <2>2. i \in DOMAIN known[k] \/ member[k][i].stage = "over"
    BY <1>a DEF ReceiptInv, WrittenOnce
  <2>. QED BY <1>c, <2>1, <2>2
<1>8. InputFollows'
  <2> SUFFICES ASSUME strategy = "sequential", NEW j \in Attempts, NEW i \in Members,
                      member'[j][i].stage # "idle", i > 1
               PROVE  \E k \in Attempts : /\ k <= j /\ i - 1 \in DOMAIN receipts[k]
                                          /\ member'[j][i].input = receipts[k][i - 1].answer
    BY <1>b DEF InputFollows
  <2>1. CASE member[j][i].stage # "idle"
    <3>1. member'[j][i].input = member[j][i].input
      BY <1>c, <2>1
    <3>. QED BY <1>a, <2>1, <3>1 DEF ReceiptInv, InputFollows
  <2>2. CASE member[j][i].stage = "idle"
    <3>1. j = n /\ i = m
      BY <1>c, <2>2
    <3>2. m - 1 \in DOMAIN known[n] /\ member'[n][m].input = known[n][m - 1].answer
      BY <2>2, <3>1
    <3>3. PICK k \in Attempts :
            k <= n /\ m - 1 \in DOMAIN receipts[k] /\ receipts[k][m - 1] = known[n][m - 1]
      BY <1>a, <3>2 DEF ReceiptInv, KnownIsRecorded
    <3>. QED BY <3>1, <3>2, <3>3
  <2>. QED BY <2>1, <2>2
<1>9. TotalsCount'
  <2> SUFFICES ASSUME strategy = "sequential", NEW k \in Attempts, NEW i \in DOMAIN receipts[k]
               PROVE  receipts[k][i].calls <= Cardinality(UpTo(i)')
    BY <1>b DEF TotalsCount
  <2>1. UpTo(i) \subseteq UpTo(i)' /\ UpTo(i)' \subseteq Billings
    BY DEF UpTo, With
  <2>2. IsFiniteSet(UpTo(i)') /\ IsFiniteSet(UpTo(i))
    BY <2>1, FiniteBills, FS_Subset
  <2>3. Cardinality(UpTo(i)) <= Cardinality(UpTo(i)')
        /\ Cardinality(UpTo(i)) \in Nat /\ Cardinality(UpTo(i)') \in Nat
    BY <2>1, <2>2, FS_Subset, FS_CardinalityType
  <2>4. receipts[k][i].calls <= Cardinality(UpTo(i)) /\ receipts[k][i].calls \in Nat
    BY <1>a DEF ReceiptInv, TotalsCount, BaseInv, Types, Receipts, MemberReceipt
  <2>. QED BY <2>3, <2>4
<1>. QED BY <1>1, <1>2, <1>3, <1>4, <1>5, <1>6, <1>7, <1>8, <1>9 DEF ReceiptInv

\* What is said of the conversations, but for the requests sent.
TalkedOf ==
  Accounted /\ RoundsAdvance /\ NoGaps /\ TalkGoesOn /\ ReplyEnds /\ AnswersAreReplies

\* A step of a conversation that checkpoints nothing keeps it: where it settles a bill, that
\* is the bill of the call the member is at.
LEMMA TalkingOn ==
  ASSUME IInv, NEW n \in Attempts, NEW m \in Members,
         TeamsRest, OthersRest(n, m), UNCHANGED <<rounds, replies, receipts>>,
         Talks(n, m)' => Talks(n, m) /\ member'[n][m].at = member[n][m].at,
         member'[n][m].stage # "receipt",
         \A b \in Billings : usage[b] = "reconciled" => usage'[b] = "reconciled",
         \A b \in Billings : usage'[b] = "reconciled" =>
           \/ usage[b] = "reconciled"
           \/ b[1] = n /\ b[2] = m /\ usage[b] = "reserved" /\ Talks(n, m)
  PROVE  TalkedOf'
<1>. USE Numbers
<1>a. BaseInv /\ TalkInv
  BY DEF IInv
<1>b. UNCHANGED <<strategy, issued, holder, team, known, rounds, replies, receipts>>
  BY DEF TeamsRest
<1>c. \A j \in Attempts, i \in Members : j # n \/ i # m => member'[j][i] = member[j][i]
  BY DEF OthersRest
<1>1. Accounted'
  <2> SUFFICES ASSUME NEW k \in Attempts, NEW i \in Members, team[k] = "run", i \notin DOMAIN known[k],
                      NEW b \in Billings, b[1] < k, b[2] = i, usage'[b] = "reconciled"
               PROVE  b \in rounds \union replies
    BY <1>b DEF Accounted
  <2>1. usage[b] # "reserved"
    BY <1>a DEF BaseInv, Settled, Began
  <2>. QED BY <1>a, <2>1 DEF TalkInv, Accounted
<1>2. RoundsAdvance' /\ NoGaps'
  BY <1>a, <1>b DEF TalkInv, RoundsAdvance, NoGaps
<1>3. TalkGoesOn'
  <2> SUFFICES ASSUME NEW j \in Attempts, NEW i \in Members, Talks(j, i)'
               PROVE  /\ \A b \in rounds : b[2] = i /\ b[1] <= j => b[3] < member'[j][i].at
                      /\ \A k \in 1..(member'[j][i].at - 1) : \E e \in rounds : e[2] = i /\ e[3] = k
                      /\ \A b \in replies : b[2] = i => j < b[1]
    BY <1>b DEF TalkGoesOn
  <2>1. Talks(j, i) /\ member'[j][i].at = member[j][i].at
    BY <1>c DEF Talks
  <2>. QED BY <1>a, <2>1 DEF TalkInv, TalkGoesOn
<1>4. ReplyEnds'
  <2> SUFFICES ASSUME NEW b \in replies
               PROVE  /\ \A e \in Billings : e[2] = b[2] /\ usage'[e] = "reconciled" => e = b \/ e \in rounds
                      /\ \A e \in rounds : e[2] = b[2] => e[3] < b[3] /\ usage'[e] = "reconciled"
                      /\ \A k \in 1..(b[3] - 1) : \E e \in rounds : e[2] = b[2] /\ e[3] = k
    BY <1>b DEF ReplyEnds
  <2>0. b \in Billings /\ b[1] \in Attempts /\ b[2] \in Members /\ b[3] \in Positions
    BY <1>a, BillParts DEF BaseInv, Types
  <2>1. Began(b[1])
    <3>1. Bill(b[1], b[2], b[3]) = "reconciled"
      BY <1>a, <2>0, BillParts DEF BaseInv, Recorded, Bill
    <3>2. member[b[1]][b[2]].stage # "idle"
      BY <1>a, <2>0, <3>1 DEF BaseInv, BillOfCall, BillFits
    <3>. QED BY <2>0, <3>2 DEF Began
  <2>2. ASSUME NEW e \in Billings, e[2] = b[2], usage'[e] = "reconciled"
        PROVE  e = b \/ e \in rounds
    <3>1. CASE usage[e] = "reconciled"
      BY <1>a, <2>2, <3>1 DEF TalkInv, ReplyEnds
    <3>2. CASE e[1] = n /\ e[2] = m /\ usage[e] = "reserved" /\ Talks(n, m)
      <4>1. e[1] < b[1]
        BY <1>a, <2>2, <3>2 DEF TalkInv, TalkGoesOn
      <4>. QED BY <1>a, <2>0, <2>1, <3>2, <4>1 DEF BaseInv, Settled
    <3>. QED BY <2>2, <3>1, <3>2
  <2>3. \A e \in rounds : e \in Billings
    BY <1>a, RoundParts DEF BaseInv, Types
  <2>. QED BY <1>a, <2>2, <2>3 DEF TalkInv, ReplyEnds
<1>5. AnswersAreReplies'
  <2>1. \A i \in Members : Of(i, replies)' = Of(i, replies)
    BY <1>b DEF Of
  <2>2. ASSUME NEW j \in Attempts, NEW i \in Members, member'[j][i].stage = "receipt"
        PROVE  member'[j][i].answer \in Of(i, replies)
    <3>1. member'[j][i] = member[j][i]
      BY <1>c, <2>2
    <3>. QED BY <1>a, <2>2, <3>1 DEF TalkInv, AnswersAreReplies
  <2>. QED BY <1>a, <1>b, <2>2 DEF TalkInv, AnswersAreReplies, Of
<1>. QED BY <1>1, <1>2, <1>3, <1>4, <1>5 DEF TalkedOf

\* The bills of the other members, and what is said of them, stay.
LEMMA OthersBills ==
  ASSUME member \in [Attempts -> [Members -> Member]],
         BillOfCall, OwnCalls, NEW n \in Attempts, NEW m \in Members, OthersRest(n, m),
         \A j \in Attempts, i \in Members, k \in Positions :
           j # n \/ i # m => Bill(j, i, k)' = Bill(j, i, k),
         rounds \subseteq rounds',
         BillFits(n, m)', CallsFit(n, m)'
  PROVE  BillOfCall' /\ OwnCalls'
<1>1. ASSUME NEW j \in Attempts, NEW i \in Members, j # n \/ i # m
      PROVE  BillFits(j, i)' /\ CallsFit(j, i)'
  <2>1. member'[j][i] = member[j][i] /\ \A k \in Positions : Bill(j, i, k)' = Bill(j, i, k)
    BY <1>1 DEF OthersRest
  <2>2. BillFits(j, i) /\ CallsFit(j, i)
    BY DEF BillOfCall, OwnCalls
  <2>3. BillFits(j, i)'
    <3>1. member[j][i].at \in Positions
      BY MemberParts
    <3>. QED BY <2>1, <2>2, <3>1 DEF BillFits
  <2>4. CallsFit(j, i)'
    BY <2>1, <2>2 DEF CallsFit, Talks
  <2>. QED BY <2>3, <2>4
<1>. QED BY <1>1 DEF BillOfCall, OwnCalls

\* What a member at work is known to be.
LEMMA WorkFacts ==
  ASSUME IInv, NEW n \in Attempts, NEW m \in Members, Active(n, m)
  PROVE  /\ team[n] = "run" /\ Began(n) /\ n <= issued /\ m \notin DOMAIN known[n]
         /\ strategy = "sequential" => DOMAIN known[n] = 1..(m - 1)
<1>1. team[n] = "run"
  BY DEF IInv, BaseInv, AtWork
<1>. QED BY <1>1, Claimed DEF IInv, BaseInv, AtWork, Began, Active

\* A call is reserved: the lease makes the attempt the latest one.
LEMMA Reserving ==
  ASSUME IInv, NEW n \in Attempts, NEW m \in Members, Reserve(n, m)
  PROVE  IInv'
<1>. USE Numbers
<1>a. BaseInv /\ ReceiptInv /\ TalkInv /\ Types
  BY DEF IInv, BaseInv
<1>k. PICK k \in Positions : k = member[n][m].at
  BY <1>a, MemberParts DEF Types
<1>b. member[n][m].stage = "reserve" /\ Active(n, m) /\ Talks(n, m)
  BY DEF Reserve, In, Active, Talks, Talking
<1>c. /\ UNCHANGED <<strategy, issued, holder, team, known, rounds, replies, receipts, asked>>
      /\ TeamsRest /\ Holds(n)
  BY DEF Reserve, lease, TeamsRest
<1>d. /\ member' \in [Attempts -> [Members -> Member]]
      /\ member'[n][m].stage = "send" /\ member'[n][m].at = k /\ member'[n][m].input = member[n][m].input
      /\ OthersRest(n, m)
  <2>1. "send" \in MemberStages /\ GoTo(n, m, "send")
    BY DEF Reserve, MemberStages
  <2>. QED BY <1>a, <1>k, <2>1, Going DEF Types, OthersRest
<1>e. /\ usage' \in [Billings -> UsageStatus] /\ Bill(n, m, k)' = "reserved"
      /\ \A b \in Billings : b # <<n, m, k>> => usage'[b] = usage[b]
      /\ \A j \in Attempts, i \in Members, l \in Positions :
           j # n \/ i # m \/ l # k => Bill(j, i, l)' = Bill(j, i, l)
  <2>1. usage' = [usage EXCEPT ![<<n, m, k>>] = "reserved"] /\ "reserved" \in UsageStatus
    BY <1>k DEF Reserve, Billing, UsageStatus
  <2>2. usage \in [Billings -> UsageStatus]
    BY <1>a DEF Types
  <2>3. <<n, m, k>> \in Billings
    BY <1>k DEF Billings
  <2>4. /\ usage' \in [Billings -> UsageStatus] /\ usage'[<<n, m, k>>] = "reserved"
        /\ \A b \in Billings : b # <<n, m, k>> => usage'[b] = usage[b]
    BY <2>1, <2>2, <2>3, BillChange
  <2>. QED BY <2>4 DEF Bill, Billings
<1>f. Bill(n, m, k) = "none" /\ k \in Nat
  <2>1. k \in Nat /\ ~ (k < k)
    OBVIOUS
  <2>2. CallsFit(n, m)
    BY <1>a DEF BaseInv, OwnCalls
  <2>. QED BY <1>b, <1>k, <2>1, <2>2 DEF CallsFit
<1>g. \A b \in Billings : usage[b] # "none" => b # <<n, m, k>> /\ usage'[b] = usage[b]
  BY <1>e, <1>f DEF Bill
<1>1. Types' /\ OnlyClaimed' /\ Quiet' /\ AtWork' /\ ReceiptInv' /\ \A j \in Attempts : Began(j)' => Began(j)
  <2>1. \A b \in Billings : usage[b] = "reconciled" => usage'[b] = "reconciled"
    BY <1>g
  <2>. QED BY <1>a, <1>b, <1>c, <1>d, <1>e, <2>1, WorkFacts, Working DEF Types
<1>2. BillOfCall' /\ OwnCalls'
  <2>1. BillFits(n, m)'
    BY <1>d, <1>e DEF BillFits
  <2>2. CallsFit(n, m)'
    BY <1>a, <1>b, <1>c, <1>d, <1>e, <1>k DEF BaseInv, OwnCalls, CallsFit, Talks, Talking
  <2>. QED BY <1>a, <1>c, <1>d, <1>e, <2>1, <2>2, OthersBills DEF BaseInv, Types
<1>3. Recorded'
  <2>1. \A b \in rounds : b \in Billings
    BY <1>a, RoundParts DEF Types
  <2>2. \A b \in asked : b \in Billings /\ b # <<n, m, k>>
    BY <1>a, <1>g DEF Types, BaseInv, Recorded
  <2>3. \A b \in asked : ~ (member'[b[1]][b[2]].stage = "send" /\ member'[b[1]][b[2]].at = b[3])
    BY <1>a, <1>d, <2>2, BillParts DEF BaseInv, Recorded, OthersRest
  <2>4. \A b \in rounds : usage'[b] = usage[b]
    BY <1>a, <1>g, <2>1 DEF BaseInv, Recorded
  <2>5. \A b \in replies : usage'[b] = usage[b]
    BY <1>a, <1>g DEF BaseInv, Recorded, Types
  <2>6. \A b \in asked : usage'[b] = usage[b]
    BY <1>e, <2>2
  <2>. QED BY <1>a, <1>c, <2>3, <2>4, <2>5, <2>6 DEF BaseInv, Recorded
<1>4. Settled'
  <2> SUFFICES ASSUME NEW j \in Attempts, Began(j)', NEW b \in Billings, b[1] < j
               PROVE  usage'[b] \notin {"reserved", "unknown"}
    BY DEF Settled
  <2>1. n = issued
    BY <1>a, <1>c, Latest DEF BaseInv
  <2>2. j <= n
    <3>1. team[j] # "idle"
      BY <1>a, <1>1 DEF Began, BaseInv, Quiet
    <3>. QED BY <1>a, <2>1, <3>1 DEF BaseInv, OnlyClaimed
  <2>3. b # <<n, m, k>>
    BY <2>2
  <2>. QED BY <1>a, <1>e, <1>1, <2>3 DEF BaseInv, Settled
<1>5. TalkedOf'
  <2>1. Talks(n, m)' => Talks(n, m) /\ member'[n][m].at = member[n][m].at
    BY <1>b, <1>d, <1>k
  <2>2. \A b \in Billings : usage[b] = "reconciled" => usage'[b] = "reconciled"
    BY <1>g
  <2>3. \A b \in Billings : usage'[b] = "reconciled" => usage[b] = "reconciled"
    <3>1. usage'[<<n, m, k>>] = "reserved"
      BY <1>e DEF Bill
    <3>. QED BY <1>e, <3>1
  <2>. QED BY <1>c, <1>d, <2>1, <2>2, <2>3, TalkingOn
<1>6. CallsNotRebought'
  BY <1>a, <1>c DEF TalkInv, CallsNotRebought
<1>. QED BY <1>1, <1>2, <1>3, <1>4, <1>5, <1>6 DEF IInv, BaseInv, TalkInv, TalkedOf

\* A member whose call has a bill has begun.
LEMMA Billed ==
  ASSUME BaseInv, NEW b \in Billings, usage[b] # "none"
  PROVE  member[b[1]][b[2]].stage # "idle" /\ Began(b[1]) /\ b[1] <= issued
<1>1. b[1] \in Attempts /\ b[2] \in Members /\ b[3] \in Positions /\ usage[b] = Bill(b[1], b[2], b[3])
  BY BillParts DEF Bill
<1>2. member[b[1]][b[2]].stage # "idle"
  BY <1>1 DEF BaseInv, BillOfCall, BillFits
<1>. QED BY <1>1, <1>2, Claimed

\* The provider is asked: nobody has asked it for this reply of the member before.
LEMMA Sending ==
  ASSUME IInv, NEW n \in Attempts, NEW m \in Members, Send(n, m)
  PROVE  IInv'
<1>. USE Numbers
<1>a. BaseInv /\ ReceiptInv /\ TalkInv /\ Types
  BY DEF IInv, BaseInv
<1>k. PICK k \in Positions : k = member[n][m].at
  BY <1>a, MemberParts DEF Types
<1>b. member[n][m].stage = "send" /\ Active(n, m) /\ Talks(n, m)
  BY DEF Send, In, Active, Talks, Talking
<1>c. /\ UNCHANGED <<strategy, issued, holder, team, known, usage, rounds, replies, receipts>>
      /\ TeamsRest /\ asked' = asked \union {<<n, m, k>>}
  BY <1>k DEF Send, lease, ledger, TeamsRest, Billing
<1>d. /\ member' \in [Attempts -> [Members -> Member]]
      /\ member'[n][m].stage = "account" /\ member'[n][m].at = k /\ member'[n][m].input = member[n][m].input
      /\ OthersRest(n, m)
  <2>1. "account" \in MemberStages /\ GoTo(n, m, "account")
    BY DEF Send, MemberStages
  <2>. QED BY <1>a, <1>k, <2>1, Going DEF Types, OthersRest
<1>e. <<n, m, k>> \in Billings /\ usage[<<n, m, k>>] = "reserved"
  BY <1>a, <1>b, <1>k DEF Billings, BaseInv, BillOfCall, BillFits, Bill
<1>1. Types' /\ OnlyClaimed' /\ Quiet' /\ AtWork' /\ ReceiptInv' /\ \A j \in Attempts : Began(j)' => Began(j)
  <2>1. asked' \subseteq Billings
    BY <1>a, <1>c, <1>e DEF Types
  <2>. QED BY <1>a, <1>b, <1>c, <1>d, <2>1, WorkFacts, Working DEF Types
<1>2. BillOfCall' /\ OwnCalls'
  <2>1. BillFits(n, m)'
    BY <1>c, <1>d, <1>e DEF BillFits, Bill
  <2>2. CallsFit(n, m)'
    BY <1>a, <1>b, <1>c, <1>d, <1>k DEF BaseInv, OwnCalls, CallsFit, Talks, Talking, Bill
  <2>3. \A j \in Attempts, i \in Members, l \in Positions : Bill(j, i, l)' = Bill(j, i, l)
    BY <1>c DEF Bill
  <2>. QED BY <1>a, <1>c, <1>d, <2>1, <2>2, <2>3, OthersBills DEF BaseInv, Types
<1>3. Recorded'
  <2>1. ASSUME NEW b \in asked'
        PROVE  /\ usage[b] \in {"reserved", "reconciled", "unknown"}
               /\ ~ (member'[b[1]][b[2]].stage = "send" /\ member'[b[1]][b[2]].at = b[3])
    <3>1. CASE b = <<n, m, k>>
      BY <1>d, <1>e, <3>1
    <3>2. CASE b \in asked
      <4>1. b \in Billings
        BY <1>a, <3>2 DEF Types
      <4>. QED BY <1>a, <1>d, <3>2, <4>1, BillParts DEF BaseInv, Recorded, OthersRest
    <3>. QED BY <1>c, <3>1, <3>2
  <2>. QED BY <1>a, <1>c, <2>1 DEF BaseInv, Recorded
<1>4. Settled'
  BY <1>a, <1>c, <1>1 DEF BaseInv, Settled
<1>5. TalkedOf'
  <2>1. Talks(n, m)' => Talks(n, m) /\ member'[n][m].at = member[n][m].at
    BY <1>b, <1>d, <1>k
  <2>. QED BY <1>c, <1>d, <2>1, TalkingOn
<1>6. CallsNotRebought'
  <2>1. ASSUME NEW c \in asked, c[2] = m, c[3] = k
        PROVE  c[1] = n
    <3>0. c \in Billings /\ c[1] \in Attempts /\ c[1] \in Nat /\ n \in Nat
      BY <1>a, BillParts DEF Types
    <3>1. usage[c] \in {"reserved", "reconciled", "unknown"}
      BY <1>a DEF BaseInv, Recorded
    <3>2. ~ (c[1] < n)
      <4>. SUFFICES ASSUME c[1] < n PROVE FALSE
        OBVIOUS
      <4>1. team[n] = "run" /\ Began(n) /\ m \notin DOMAIN known[n]
        BY <1>b, WorkFacts
      <4>2. usage[c] = "reconciled"
        BY <1>a, <3>0, <3>1, <4>1 DEF BaseInv, Settled
      <4>3. c \in rounds \union replies
        BY <1>a, <2>1, <3>0, <4>1, <4>2 DEF TalkInv, Accounted
      <4>4. CASE c \in rounds
        <5>1. c[3] < member[n][m].at
          BY <1>a, <1>b, <2>1, <3>0, <4>4 DEF TalkInv, TalkGoesOn
        <5>. QED BY <1>k, <2>1, <5>1
      <4>5. CASE c \in replies
        BY <1>a, <1>b, <2>1, <3>0, <4>5 DEF TalkInv, TalkGoesOn
      <4>. QED BY <4>3, <4>4, <4>5
    <3>3. ~ (c[1] > n)
      <4>. SUFFICES ASSUME c[1] > n PROVE FALSE
        OBVIOUS
      <4>1. Began(c[1])
        BY <1>a, <3>0, <3>1, Billed
      <4>2. <<n, m, k>>[1] < c[1]
        BY <3>0
      <4>. QED BY <1>a, <1>e, <3>0, <4>1, <4>2 DEF BaseInv, Settled
    <3>. QED BY <3>0, <3>2, <3>3
  <2>. QED BY <1>a, <1>c, <2>1 DEF TalkInv, CallsNotRebought
<1>. QED BY <1>1, <1>2, <1>3, <1>4, <1>5, <1>6 DEF IInv, BaseInv, TalkInv, TalkedOf

\* A reserved call ends: it was not sent, or is reconciled or of unknown outcome.
LEMMA Settling ==
  ASSUME IInv, NEW n \in Attempts, NEW m \in Members, NotSent(n, m) \/ Account(n, m)
  PROVE  IInv'
<1>. USE Numbers
<1>a. BaseInv /\ ReceiptInv /\ TalkInv /\ Types
  BY DEF IInv, BaseInv
<1>k. PICK k \in Positions : k = member[n][m].at
  BY <1>a, MemberParts DEF Types
<1>b. member[n][m].stage \in {"send", "account"} /\ Active(n, m) /\ Talks(n, m)
  BY DEF NotSent, Account, In, Active, Talks, Talking
<1>c. /\ UNCHANGED <<strategy, issued, holder, team, known, rounds, replies, receipts, asked>>
      /\ TeamsRest
  BY DEF NotSent, Account, lease, TeamsRest
<1>s. PICK status \in {"reconciled", "unknown", "cancelled"} :
        /\ usage' = [usage EXCEPT ![<<n, m, k>>] = status]
        /\ status = "cancelled" => Stop(n, m) /\ member[n][m].stage = "send"
        /\ status # "cancelled" =>
             GoTo(n, m, "answer") \/ (member[n][m].at \in Rounds /\ GoTo(n, m, "round"))
  <2>1. CASE NotSent(n, m)
    BY <1>k, <2>1 DEF NotSent, Billing, In
  <2>2. CASE Account(n, m)
    BY <1>k, <2>2 DEF Account, Billing
  <2>. QED BY <2>1, <2>2
<1>d. /\ member' \in [Attempts -> [Members -> Member]]
      /\ member'[n][m].stage \in {"over", "answer", "round"} /\ member'[n][m].input = member[n][m].input
      /\ member'[n][m].stage # "over" => member'[n][m].at = k
      /\ member'[n][m].stage = "round" => k \in Rounds
      /\ status = "cancelled" <=> member'[n][m].stage = "over"
      /\ OthersRest(n, m)
  <2>0. member \in [Attempts -> [Members -> Member]] /\ "answer" \in MemberStages /\ "round" \in MemberStages
    BY <1>a DEF Types, MemberStages
  <2>1. CASE status = "cancelled"
    BY <1>s, <2>0, <2>1, Stopping DEF OthersRest
  <2>2. CASE status # "cancelled" /\ GoTo(n, m, "answer")
    BY <1>k, <1>s, <2>0, <2>2, Going DEF OthersRest
  <2>3. CASE status # "cancelled" /\ k \in Rounds /\ GoTo(n, m, "round")
    BY <1>k, <1>s, <2>0, <2>3, Going DEF OthersRest
  <2>. QED BY <1>k, <1>s, <2>1, <2>2, <2>3
<1>e. <<n, m, k>> \in Billings /\ usage[<<n, m, k>>] = "reserved"
  BY <1>a, <1>b, <1>k DEF Billings, BaseInv, BillOfCall, BillFits, Bill
<1>f. /\ usage' \in [Billings -> UsageStatus] /\ usage'[<<n, m, k>>] = status
      /\ \A b \in Billings : b # <<n, m, k>> => usage'[b] = usage[b]
  <2>1. usage \in [Billings -> UsageStatus] /\ status \in UsageStatus
    BY <1>a DEF Types, UsageStatus
  <2>. QED BY <1>e, <1>s, <2>1, BillChange
<1>g. /\ Bill(n, m, k)' = status
      /\ \A j \in Attempts, i \in Members, l \in Positions :
           j # n \/ i # m \/ l # k => Bill(j, i, l)' = Bill(j, i, l)
  BY <1>f DEF Bill, Billings
<1>h. \A b \in Billings : usage[b] \in {"reconciled", "unknown"} => usage'[b] = usage[b]
  BY <1>e, <1>f
<1>1. Types' /\ OnlyClaimed' /\ Quiet' /\ AtWork' /\ ReceiptInv' /\ \A j \in Attempts : Began(j)' => Began(j)
  BY <1>a, <1>b, <1>c, <1>d, <1>f, <1>h, WorkFacts, Working DEF Types
<1>2. BillOfCall' /\ OwnCalls'
  <2>1. BillFits(n, m)'
    BY <1>d, <1>g DEF BillFits
  <2>2. CallsFit(n, m)'
    BY <1>a, <1>b, <1>c, <1>d, <1>g, <1>k DEF BaseInv, OwnCalls, CallsFit, Talks, Talking
  <2>. QED BY <1>a, <1>c, <1>d, <1>g, <2>1, <2>2, OthersBills DEF BaseInv, Types
<1>3. Recorded'
  <2>1. \A b \in rounds : b \in Billings
    BY <1>a, RoundParts DEF Types
  <2>2. ASSUME NEW b \in asked
        PROVE  /\ usage'[b] \in {"reserved", "reconciled", "unknown"}
               /\ ~ (member'[b[1]][b[2]].stage = "send" /\ member'[b[1]][b[2]].at = b[3])
    <3>1. b \in Billings /\ b[1] \in Attempts /\ b[2] \in Members
      BY <1>a, BillParts DEF Types
    <3>2. CASE b = <<n, m, k>>
      <4>1. status # "cancelled"
        BY <1>a, <1>k, <1>s, <3>2 DEF BaseInv, Recorded
      <4>. QED BY <1>d, <1>f, <3>2, <4>1
    <3>3. CASE b # <<n, m, k>>
      BY <1>a, <1>d, <1>f, <3>1, <3>3 DEF BaseInv, Recorded, OthersRest
    <3>. QED BY <3>2, <3>3
  <2>. QED BY <1>a, <1>c, <1>h, <2>1, <2>2 DEF BaseInv, Recorded, Types
<1>4. Settled'
  <2> SUFFICES ASSUME NEW j \in Attempts, Began(j)', NEW b \in Billings, b[1] < j
               PROVE  usage'[b] \notin {"reserved", "unknown"}
    BY DEF Settled
  <2>1. usage[b] \notin {"reserved", "unknown"}
    BY <1>a, <1>1 DEF BaseInv, Settled
  <2>. QED BY <1>e, <1>f, <2>1
<1>5. TalkedOf'
  <2>1. Talks(n, m)' => Talks(n, m) /\ member'[n][m].at = member[n][m].at
    BY <1>b, <1>d, <1>k DEF Talks, Talking
  <2>2. \A b \in Billings : usage'[b] = "reconciled" =>
          usage[b] = "reconciled" \/ (b[1] = n /\ b[2] = m /\ usage[b] = "reserved" /\ Talks(n, m))
    BY <1>b, <1>e, <1>f
  <2>3. \A b \in Billings : usage[b] = "reconciled" => usage'[b] = "reconciled"
    BY <1>h
  <2>. QED BY <1>c, <1>d, <2>1, <2>2, <2>3, TalkingOn
<1>6. CallsNotRebought'
  BY <1>a, <1>c DEF TalkInv, CallsNotRebought
<1>. QED BY <1>1, <1>2, <1>3, <1>4, <1>5, <1>6 DEF IInv, BaseInv, TalkInv, TalkedOf

\* A member's run fails.
LEMMA Failing ==
  ASSUME IInv, NEW n \in Attempts, NEW m \in Members, Fail(n, m)
  PROVE  IInv'
<1>. USE Numbers
<1>a. BaseInv /\ ReceiptInv /\ TalkInv /\ Types
  BY DEF IInv, BaseInv
<1>b. Active(n, m)
  BY DEF Fail, Active
<1>c. /\ UNCHANGED <<strategy, issued, holder, team, known, usage, rounds, replies, receipts, asked>>
      /\ TeamsRest
  BY DEF Fail, lease, ledger, TeamsRest
<1>d. /\ member' \in [Attempts -> [Members -> Member]]
      /\ member'[n][m].stage = "over" /\ member'[n][m].input = member[n][m].input
      /\ OthersRest(n, m)
  BY <1>a, Stopping DEF Fail, Types, OthersRest
<1>1. Types' /\ OnlyClaimed' /\ Quiet' /\ AtWork' /\ ReceiptInv' /\ \A j \in Attempts : Began(j)' => Began(j)
  BY <1>a, <1>b, <1>c, <1>d, WorkFacts, Working DEF Types, Active
<1>2. BillOfCall' /\ OwnCalls'
  <2>1. BillFits(n, m)' /\ CallsFit(n, m)'
    BY <1>d DEF BillFits, CallsFit, Talks, Talking
  <2>2. \A j \in Attempts, i \in Members, l \in Positions : Bill(j, i, l)' = Bill(j, i, l)
    BY <1>c DEF Bill
  <2>. QED BY <1>a, <1>c, <1>d, <2>1, <2>2, OthersBills DEF BaseInv, Types
<1>3. Recorded'
  <2>1. ASSUME NEW b \in asked
        PROVE  ~ (member'[b[1]][b[2]].stage = "send" /\ member'[b[1]][b[2]].at = b[3])
    <3>1. b \in Billings
      BY <1>a DEF Types
    <3>. QED BY <1>a, <1>d, <3>1, BillParts DEF BaseInv, Recorded, OthersRest
  <2>. QED BY <1>a, <1>c, <2>1 DEF BaseInv, Recorded
<1>4. Settled'
  BY <1>a, <1>c, <1>1 DEF BaseInv, Settled
<1>5. TalkedOf'
  <2>1. ~ Talks(n, m)'
    BY <1>d DEF Talks, Talking
  <2>. QED BY <1>c, <1>d, <2>1, TalkingOn
<1>6. CallsNotRebought'
  BY <1>a, <1>c DEF TalkInv, CallsNotRebought
<1>. QED BY <1>1, <1>2, <1>3, <1>4, <1>5, <1>6 DEF IInv, BaseInv, TalkInv, TalkedOf

\* A record of a call is of an attempt that was claimed.
LEMMA RoundsClaimed ==
  ASSUME BaseInv, NEW b \in rounds
  PROVE  b \in Billings /\ usage[b] \in {"reconciled", "unknown"} /\ b[1] <= issued
<1>1. b \in Billings /\ usage[b] \in {"reconciled", "unknown"}
  BY RoundParts DEF BaseInv, Types, Recorded
<1>. QED BY <1>1, Billed

\* So is that of a checkpointed reply.
LEMMA RepliesClaimed ==
  ASSUME BaseInv, NEW b \in replies
  PROVE  b \in Billings /\ usage[b] = "reconciled" /\ b[1] <= issued
<1>1. b \in Billings /\ usage[b] = "reconciled"
  BY DEF BaseInv, Types, Recorded
<1>. QED BY <1>1, Billed

\* A member starts where its latest record says: with its answer, behind its rounds, or anew.
LEMMA Resuming ==
  ASSUME IInv, NEW n \in Attempts, NEW m \in Members, Resume(n, m)
  PROVE  IInv'
<1>. USE Numbers
<1>a. BaseInv /\ ReceiptInv /\ TalkInv /\ Types
  BY DEF IInv, BaseInv
<1>b. /\ team[n] = "run" /\ member[n][m].stage = "idle" /\ m \notin DOMAIN known[n]
      /\ strategy = "sequential" => DOMAIN known[n] = 1..(m - 1)
  BY DEF Resume, In, Starts
<1>c. /\ UNCHANGED <<strategy, issued, holder, team, known, usage, rounds, replies, receipts, asked>>
      /\ TeamsRest
  BY DEF Resume, lease, ledger, TeamsRest
<1>s. \E stage \in {"receipt", "reserve"}, k \in Positions, answer \in Answers :
        /\ RunFrom(n, m, stage, k, answer)
        /\ stage = "receipt" => answer \in Of(m, replies)
        /\ stage = "reserve" =>
             /\ SavedReplies(n, m) = {}
             /\ \/ SavedRounds(n, m) = {} /\ k = 1
                \/ \E b \in SavedRounds(n, m) : IsLatest(b, SavedRounds(n, m)) /\ k = b[3] + 1
  <2>1. CASE \E b \in SavedReplies(n, m) : RunFrom(n, m, "receipt", 1, b)
    <3>1. \A b \in SavedReplies(n, m) : b \in Of(m, replies) /\ b \in Answers
      BY <1>a DEF SavedReplies, Of, Earlier, Answers, Types
    <3>. QED BY <2>1, <3>1
  <2>2. CASE /\ SavedReplies(n, m) = {}
             /\ \E b \in SavedRounds(n, m) :
                  IsLatest(b, SavedRounds(n, m)) /\ RunFrom(n, m, "reserve", b[3] + 1, Message)
    <3>1. \A b \in SavedRounds(n, m) : b[3] + 1 \in Positions
      BY <1>a, RoundParts DEF SavedRounds, Of, Earlier, Types
    <3>2. Message \in Answers
      BY DEF Answers
    <3>. QED BY <2>2, <3>1, <3>2
  <2>3. CASE SavedReplies(n, m) = {} /\ SavedRounds(n, m) = {} /\ RunFrom(n, m, "reserve", 1, Message)
    <3>1. Message \in Answers
      BY DEF Answers
    <3>. QED BY <2>3, <3>1
  <2>. QED BY <2>1, <2>2, <2>3 DEF Resume
<1>t. PICK stage \in {"receipt", "reserve"}, k \in Positions, answer \in Answers :
        /\ RunFrom(n, m, stage, k, answer)
        /\ stage = "receipt" => answer \in Of(m, replies)
        /\ stage = "reserve" =>
             /\ SavedReplies(n, m) = {}
             /\ \/ SavedRounds(n, m) = {} /\ k = 1
                \/ \E b \in SavedRounds(n, m) : IsLatest(b, SavedRounds(n, m)) /\ k = b[3] + 1
  BY <1>s
<1>i. /\ Input(n, m) \in Answers
      /\ strategy = "sequential" /\ m > 1 =>
           m - 1 \in DOMAIN known[n] /\ Input(n, m) = known[n][m - 1].answer
  <2>1. \A i \in DOMAIN known[n] : known[n][i].answer \in Answers
    BY <1>a DEF Types, Receipts, MemberReceipt
  <2>2. strategy = "sequential" /\ m > 1 => m - 1 \in DOMAIN known[n]
    BY <1>b
  <2>3. Message \in Answers
    BY DEF Answers
  <2>. QED BY <2>1, <2>2, <2>3 DEF Input
<1>d. /\ member' \in [Attempts -> [Members -> Member]]
      /\ member'[n][m].stage = stage /\ member'[n][m].at = k /\ member'[n][m].answer = answer
      /\ member'[n][m].input = Input(n, m)
      /\ OthersRest(n, m)
  <2>. DEFINE in == Input(n, m)
              r == [stage |-> stage, at |-> k, input |-> in, answer |-> answer]
  <2>1. r \in Member
    BY <1>i, <1>t DEF Member, MemberStages
  <2>2. member' = [member EXCEPT ![n][m] = r]
    BY <1>t DEF RunFrom
  <2>3. r.stage = stage /\ r.at = k /\ r.input = Input(n, m) /\ r.answer = answer
    OBVIOUS
  <2>4. member \in [Attempts -> [Members -> Member]]
    BY <1>a DEF Types
  <2>. HIDE DEF r
  <2>5. member'[n][m] = r /\ member' \in [Attempts -> [Members -> Member]] /\ OthersRest(n, m)
    BY <2>1, <2>2, <2>4 DEF OthersRest
  <2>. QED BY <2>3, <2>5
<1>1. Types' /\ OnlyClaimed' /\ Quiet' /\ AtWork' /\ ReceiptInv' /\ \A j \in Attempts : Began(j)' => Began(j)
  <2>1. member'[n][m].stage # "idle" /\ member[n][m].stage # "over"
    BY <1>b, <1>d, <1>t
  <2>. QED BY <1>a, <1>b, <1>c, <1>d, <1>i, <2>1, Working DEF Types
<1>e. \A l \in Positions : Bill(n, m, l) = "none"
  BY <1>a, <1>b DEF BaseInv, BillOfCall, BillFits
<1>f. \A b \in Billings : usage[b] # "none" => b[1] # n \/ b[2] # m
  BY <1>e, BillParts DEF Bill
<1>2. BillOfCall' /\ OwnCalls'
  <2>1. BillFits(n, m)' /\ CallsFit(n, m)'
    BY <1>c, <1>d, <1>e, <1>t DEF BillFits, CallsFit, Talks, Talking, Bill
  <2>2. \A j \in Attempts, i \in Members, l \in Positions : Bill(j, i, l)' = Bill(j, i, l)
    BY <1>c DEF Bill
  <2>. QED BY <1>a, <1>c, <1>d, <2>1, <2>2, OthersBills DEF BaseInv, Types
<1>3. Recorded'
  <2>1. ASSUME NEW b \in asked
        PROVE  ~ (member'[b[1]][b[2]].stage = "send" /\ member'[b[1]][b[2]].at = b[3])
    <3>1. b \in Billings
      BY <1>a DEF Types
    <3>. QED BY <1>a, <1>d, <1>t, <3>1, BillParts DEF BaseInv, Recorded, OthersRest
  <2>. QED BY <1>a, <1>c, <2>1 DEF BaseInv, Recorded
<1>4. Settled'
  BY <1>a, <1>c, <1>1 DEF BaseInv, Settled
<1>5. Accounted' /\ RoundsAdvance' /\ NoGaps' /\ ReplyEnds' /\ CallsNotRebought'
  <2>1. Accounted'
    BY <1>a, <1>c DEF TalkInv, Accounted
  <2>2. RoundsAdvance' /\ NoGaps'
    BY <1>a, <1>c DEF TalkInv, RoundsAdvance, NoGaps
  <2>3. ReplyEnds' /\ CallsNotRebought'
    BY <1>a, <1>c DEF TalkInv, ReplyEnds, CallsNotRebought
  <2>. QED BY <2>1, <2>2, <2>3
<1>6. TalkGoesOn'
  <2> SUFFICES ASSUME NEW j \in Attempts, NEW i \in Members, Talks(j, i)'
               PROVE  /\ \A b \in rounds : b[2] = i /\ b[1] <= j => b[3] < member'[j][i].at
                      /\ \A l \in 1..(member'[j][i].at - 1) : \E e \in rounds : e[2] = i /\ e[3] = l
                      /\ \A b \in replies : b[2] = i => j < b[1]
    BY <1>c DEF TalkGoesOn
  <2>1. CASE j # n \/ i # m
    <3>1. member'[j][i] = member[j][i]
      BY <1>d, <2>1 DEF OthersRest
    <3>2. Talks(j, i)
      BY <3>1 DEF Talks
    <3>. QED BY <1>a, <3>1, <3>2 DEF TalkInv, TalkGoesOn
  <2>2. CASE j = n /\ i = m
    <3>1. stage = "reserve"
      BY <1>d, <1>t, <2>2 DEF Talks, Talking
    <3>2. \A b \in rounds : b[2] = m /\ b[1] <= n => b \in SavedRounds(n, m)
      <4>1. ASSUME NEW b \in rounds, b[2] = m, b[1] <= n PROVE b[1] < n
        BY <1>a, <1>f, <4>1, RoundsClaimed, BillParts
      <4>. QED BY <4>1 DEF SavedRounds, Of, Earlier
    <3>3. \A b \in replies : b[2] = m => n < b[1]
      <4>1. ASSUME NEW b \in replies, b[2] = m PROVE ~ (b[1] < n) /\ b[1] # n /\ b[1] \in Nat /\ n \in Nat
        <5>1. b \notin SavedReplies(n, m)
          BY <1>t, <3>1
        <5>. QED BY <1>a, <1>f, <4>1, <5>1, RepliesClaimed, BillParts DEF SavedReplies, Of, Earlier
      <4>. QED BY <4>1
    <3>4. CASE SavedRounds(n, m) = {} /\ k = 1
      BY <1>d, <2>2, <3>2, <3>3, <3>4
    <3>5. CASE \E b \in SavedRounds(n, m) : IsLatest(b, SavedRounds(n, m)) /\ k = b[3] + 1
      <4>1. PICK b \in SavedRounds(n, m) : IsLatest(b, SavedRounds(n, m)) /\ k = b[3] + 1
        BY <3>5
      <4>2. b \in rounds /\ b[2] = m /\ b[3] \in Nat
        BY <1>a, <4>1, RoundParts DEF SavedRounds, Of, Earlier, Types
      <4>3. ASSUME NEW e \in SavedRounds(n, m)
            PROVE  e[3] < k
        <5>1. e \in rounds /\ e[2] = m /\ e[3] \in Nat
          BY <1>a, RoundParts DEF SavedRounds, Of, Earlier, Types
        <5>2. e[1] < b[1] \/ e[3] <= b[3]
          BY <4>1 DEF IsLatest
        <5>3. e[3] <= b[3]
          BY <1>a, <4>2, <5>1, <5>2 DEF TalkInv, RoundsAdvance
        <5>. QED BY <4>1, <4>2, <5>1, <5>3
      <4>4. ASSUME NEW l \in 1..(k - 1)
            PROVE  \E e \in rounds : e[2] = m /\ e[3] = l
        <5>1. CASE l = b[3]
          BY <4>2, <5>1
        <5>2. CASE l # b[3]
          <6>1. l \in 1..(b[3] - 1)
            BY <4>1, <4>2, <5>2
          <6>. QED BY <1>a, <4>2, <6>1 DEF TalkInv, NoGaps
        <5>. QED BY <5>1, <5>2
      <4>. QED BY <1>d, <2>2, <3>2, <3>3, <4>3, <4>4
    <3>. QED BY <1>t, <3>1, <3>4, <3>5
  <2>. QED BY <2>1, <2>2
<1>7. AnswersAreReplies'
  <2>1. ASSUME NEW j \in Attempts, NEW i \in Members, member'[j][i].stage = "receipt"
        PROVE  member'[j][i].answer \in Of(i, replies)
    <3>1. CASE j = n /\ i = m
      BY <1>d, <1>t, <2>1, <3>1
    <3>2. CASE j # n \/ i # m
      <4>1. member'[j][i] = member[j][i]
        BY <1>d, <3>2 DEF OthersRest
      <4>. QED BY <1>a, <2>1, <4>1 DEF TalkInv, AnswersAreReplies
    <3>. QED BY <3>1, <3>2
  <2>. QED BY <1>a, <1>c, <2>1 DEF TalkInv, AnswersAreReplies, Of
<1>. QED BY <1>1, <1>2, <1>3, <1>4, <1>5, <1>6, <1>7 DEF IInv, BaseInv, TalkInv

\* A tool round is checkpointed: it is the next one of the member's conversation.
LEMMA CheckpointingRound ==
  ASSUME IInv, NEW n \in Attempts, NEW m \in Members, CheckpointToolRound(n, m)
  PROVE  IInv'
<1>. USE Numbers
<1>a. BaseInv /\ ReceiptInv /\ TalkInv /\ Types
  BY DEF IInv, BaseInv
<1>b. member[n][m].stage = "round" /\ Active(n, m) /\ Talks(n, m)
  BY DEF CheckpointToolRound, In, Active, Talks, Talking
<1>k. PICK k \in Rounds : k = member[n][m].at
  BY <1>a, <1>b DEF BaseInv, BillOfCall, BillFits
<1>0. k \in Positions /\ k + 1 \in Positions /\ k \in Nat
  BY <1>k
<1>c. /\ UNCHANGED <<strategy, issued, holder, team, known, usage, replies, receipts, asked>>
      /\ TeamsRest /\ Holds(n) /\ rounds' = rounds \union {<<n, m, k>>}
  BY <1>k DEF CheckpointToolRound, lease, TeamsRest, Billing
<1>d. /\ member' \in [Attempts -> [Members -> Member]]
      /\ member'[n][m].stage = "reserve" /\ member'[n][m].at = k + 1
      /\ member'[n][m].input = member[n][m].input
      /\ OthersRest(n, m)
  <2>1. Moves(n, m, "reserve", k + 1, member[n][m].answer) /\ "reserve" \in MemberStages
    BY <1>k DEF CheckpointToolRound, MemberStages
  <2>2. member \in [Attempts -> [Members -> Member]] /\ member[n][m].answer \in Answers
    BY <1>a, MemberParts DEF Types
  <2>. QED BY <1>0, <2>1, <2>2, Moving DEF OthersRest
<1>e. /\ <<n, m, k>> \in Attempts \X Members \X Rounds /\ <<n, m, k>> \in Billings
      /\ usage[<<n, m, k>>] \in {"reconciled", "unknown"}
  BY <1>a, <1>b, <1>k, <1>0 DEF Billings, BaseInv, BillOfCall, BillFits, Bill
<1>f. n = issued /\ issued \in Nat
  BY <1>a, <1>c, Latest DEF BaseInv
<1>1. Types' /\ OnlyClaimed' /\ Quiet' /\ AtWork' /\ ReceiptInv' /\ \A j \in Attempts : Began(j)' => Began(j)
  <2>1. rounds' \subseteq Attempts \X Members \X Rounds
    BY <1>a, <1>c, <1>e DEF Types
  <2>. QED BY <1>a, <1>b, <1>c, <1>d, <2>1, WorkFacts, Working DEF Types
<1>2. BillOfCall' /\ OwnCalls'
  <2>1. BillFits(n, m)'
    <3>1. \A l \in Positions : Bill(n, m, l)' = Bill(n, m, l)
      BY <1>c DEF Bill
    <3>. QED BY <1>d DEF BillFits
  <2>2. CallsFit(n, m)'
    <3> SUFFICES ASSUME NEW l \in Positions, usage[<<n, m, l>>] # "none"
                 PROVE  l < k + 1 /\ <<n, m, l>> \in rounds'
      BY <1>c, <1>d DEF CallsFit, Bill
    <3>1. CallsFit(n, m)
      BY <1>a DEF BaseInv, OwnCalls
    <3>2. (l < k /\ <<n, m, l>> \in rounds) \/ l = k
      BY <1>b, <1>k, <3>1 DEF CallsFit, Bill
    <3>. QED BY <1>0, <1>c, <3>2
  <2>3. \A j \in Attempts, i \in Members, l \in Positions : Bill(j, i, l)' = Bill(j, i, l)
    BY <1>c DEF Bill
  <2>. QED BY <1>a, <1>c, <1>d, <2>1, <2>2, <2>3, OthersBills DEF BaseInv, Types
<1>3. Recorded'
  <2>1. ASSUME NEW b \in asked
        PROVE  ~ (member'[b[1]][b[2]].stage = "send" /\ member'[b[1]][b[2]].at = b[3])
    <3>1. b \in Billings
      BY <1>a DEF Types
    <3>. QED BY <1>a, <1>d, <3>1, BillParts DEF BaseInv, Recorded, OthersRest
  <2>2. \A b \in rounds' : usage[b] \in {"reconciled", "unknown"}
    BY <1>a, <1>c, <1>e DEF BaseInv, Recorded
  <2>. QED BY <1>a, <1>c, <2>1, <2>2 DEF BaseInv, Recorded
<1>4. Settled'
  BY <1>a, <1>c, <1>1 DEF BaseInv, Settled
<1>5. Accounted' /\ CallsNotRebought'
  BY <1>a, <1>c DEF TalkInv, Accounted, CallsNotRebought
<1>g. /\ \A b \in rounds : b[2] = m => b[3] < k
      /\ \A l \in 1..(k - 1) : \E e \in rounds : e[2] = m /\ e[3] = l
      /\ \A b \in replies : b[2] # m
  <2>1. \A b \in rounds : b[2] = m => b[3] < k
    BY <1>a, <1>b, <1>f, <1>k, RoundsClaimed DEF TalkInv, TalkGoesOn
  <2>2. \A l \in 1..(k - 1) : \E e \in rounds : e[2] = m /\ e[3] = l
    BY <1>a, <1>b, <1>k DEF TalkInv, TalkGoesOn
  <2>3. ASSUME NEW b \in replies, b[2] = m PROVE FALSE
    <3>1. n < b[1] /\ b[1] <= issued /\ b[1] \in Nat
      BY <1>a, <1>b, <2>3, RepliesClaimed, BillParts DEF TalkInv, TalkGoesOn
    <3>. QED BY <1>f, <3>1
  <2>. QED BY <2>1, <2>2, <2>3
<1>6. RoundsAdvance'
  <2> SUFFICES ASSUME NEW b \in rounds', NEW e \in rounds', b[2] = e[2], b[1] < e[1]
               PROVE  b[3] < e[3]
    BY DEF RoundsAdvance
  <2>1. CASE b \in rounds /\ e \in rounds
    BY <1>a, <2>1 DEF TalkInv, RoundsAdvance
  <2>2. CASE b \in rounds /\ e = <<n, m, k>>
    BY <1>g, <2>2
  <2>3. CASE b = <<n, m, k>> /\ e \in rounds
    <3>1. n < e[1] /\ e[1] <= issued /\ e[1] \in Nat
      BY <1>a, <2>3, RoundsClaimed, BillParts
    <3>. QED BY <1>f, <3>1
  <2>4. ~ (b = <<n, m, k>> /\ e = <<n, m, k>>)
    OBVIOUS
  <2>. QED BY <1>c, <2>1, <2>2, <2>3, <2>4
<1>7. NoGaps'
  <2> SUFFICES ASSUME NEW b \in rounds', NEW l \in 1..(b[3] - 1)
               PROVE  \E e \in rounds : e[2] = b[2] /\ e[3] = l
    BY <1>c DEF NoGaps
  <2>1. CASE b \in rounds
    BY <1>a, <2>1 DEF TalkInv, NoGaps
  <2>2. CASE b = <<n, m, k>>
    BY <1>g, <2>2
  <2>. QED BY <1>c, <2>1, <2>2
<1>8. TalkGoesOn'
  <2> SUFFICES ASSUME NEW j \in Attempts, NEW i \in Members, Talks(j, i)'
               PROVE  /\ \A b \in rounds' : b[2] = i /\ b[1] <= j => b[3] < member'[j][i].at
                      /\ \A l \in 1..(member'[j][i].at - 1) : \E e \in rounds' : e[2] = i /\ e[3] = l
                      /\ \A b \in replies : b[2] = i => j < b[1]
    BY <1>c DEF TalkGoesOn
  <2>1. CASE j = n /\ i = m
    <3>1. \A b \in rounds' : b[2] = m => b[3] < k + 1
      <4>1. \A b \in rounds : b[2] = m => b[3] \in Nat /\ b[3] < k
        BY <1>a, <1>g, RoundsClaimed, BillParts
      <4>. QED BY <1>0, <1>c, <4>1
    <3>2. \A l \in 1..((k + 1) - 1) : \E e \in rounds' : e[2] = m /\ e[3] = l
      <4>1. \A l \in 1..((k + 1) - 1) : l \in 1..(k - 1) \/ l = k
        BY <1>0
      <4>2. <<n, m, k>> \in rounds' /\ rounds \subseteq rounds'
        BY <1>c
      <4>. QED BY <1>g, <4>1, <4>2
    <3>. QED BY <1>d, <1>g, <2>1, <3>1, <3>2
  <2>2. CASE j # n \/ i # m
    <3>1. member'[j][i] = member[j][i] /\ Talks(j, i)
      BY <1>d, <2>2 DEF OthersRest, Talks
    <3>2. j <= issued
      BY <1>a, <3>1, Claimed DEF Talks, Talking
    <3>3. ASSUME NEW b \in rounds', b[2] = i, b[1] <= j
          PROVE  b \in rounds
      BY <1>c, <1>f, <2>2, <3>2, <3>3
    <3>. QED BY <1>a, <1>c, <3>1, <3>3 DEF TalkInv, TalkGoesOn
  <2>. QED BY <2>1, <2>2
<1>9. ReplyEnds'
  <2> SUFFICES ASSUME NEW b \in replies
               PROVE  /\ \A e \in Billings : e[2] = b[2] /\ usage[e] = "reconciled" => e = b \/ e \in rounds'
                      /\ \A e \in rounds' : e[2] = b[2] => e[3] < b[3] /\ usage[e] = "reconciled"
                      /\ \A l \in 1..(b[3] - 1) : \E e \in rounds' : e[2] = b[2] /\ e[3] = l
    BY <1>c DEF ReplyEnds
  <2>. QED BY <1>a, <1>c, <1>g DEF TalkInv, ReplyEnds
<1>10. AnswersAreReplies'
  <2>1. ASSUME NEW j \in Attempts, NEW i \in Members, member'[j][i].stage = "receipt"
        PROVE  member'[j][i].answer \in Of(i, replies)
    <3>1. member'[j][i] = member[j][i]
      BY <1>d, <2>1 DEF OthersRest
    <3>. QED BY <1>a, <2>1, <3>1 DEF TalkInv, AnswersAreReplies
  <2>. QED BY <1>a, <1>c, <2>1 DEF TalkInv, AnswersAreReplies, Of
<1>. QED
  BY <1>1, <1>2, <1>3, <1>4, <1>5, <1>6, <1>7, <1>8, <1>9, <1>10 DEF IInv, BaseInv, TalkInv

\* A member's reply is checkpointed: every call paid for on the way to it is.
LEMMA CheckpointingReply ==
  ASSUME IInv, NEW n \in Attempts, NEW m \in Members, CheckpointAgentReply(n, m)
  PROVE  IInv'
<1>. USE Numbers
<1>a. BaseInv /\ ReceiptInv /\ TalkInv /\ Types
  BY DEF IInv, BaseInv
<1>b. member[n][m].stage = "answer" /\ Active(n, m) /\ Talks(n, m)
  BY DEF CheckpointAgentReply, In, Active, Talks, Talking
<1>k. PICK k \in Positions : k = member[n][m].at
  BY <1>a, MemberParts DEF Types
<1>. DEFINE reply == <<n, m, k>>
<1>c. /\ UNCHANGED <<strategy, issued, holder, team, known, usage, rounds, receipts, asked>>
      /\ TeamsRest /\ Holds(n) /\ replies' = replies \union {reply}
  BY <1>k DEF CheckpointAgentReply, lease, TeamsRest, Billing
<1>e. reply \in Billings /\ usage[reply] \in {"reconciled", "unknown"}
      /\ reply[1] = n /\ reply[2] = m /\ reply[3] = k
  BY <1>a, <1>b, <1>k DEF Billings, BaseInv, BillOfCall, BillFits, Bill
<1>h. \A b \in Billings : b[1] = n /\ b[2] = m /\ usage[b] # "none" => usage[b] = "reconciled"
  BY DEF CheckpointAgentReply, Of, With
<1>. HIDE DEF reply
<1>d. /\ member' \in [Attempts -> [Members -> Member]]
      /\ member'[n][m].stage = "receipt" /\ member'[n][m].answer = reply
      /\ member'[n][m].input = member[n][m].input
      /\ OthersRest(n, m)
  <2>1. Moves(n, m, "receipt", k, reply) /\ "receipt" \in MemberStages
    BY <1>k DEF CheckpointAgentReply, MemberStages, Billing, reply
  <2>2. member \in [Attempts -> [Members -> Member]] /\ reply \in Answers
    BY <1>a, <1>e DEF Types, Answers
  <2>. QED BY <1>k, <2>1, <2>2, Moving DEF OthersRest
<1>f. n = issued /\ issued \in Nat
  BY <1>a, <1>c, Latest DEF BaseInv
<1>i. usage[reply] = "reconciled"
  BY <1>e, <1>h
<1>1. Types' /\ OnlyClaimed' /\ Quiet' /\ AtWork' /\ ReceiptInv' /\ \A j \in Attempts : Began(j)' => Began(j)
  <2>1. replies' \subseteq Billings
    BY <1>a, <1>c, <1>e DEF Types
  <2>. QED BY <1>a, <1>b, <1>c, <1>d, <2>1, WorkFacts, Working DEF Types
<1>2. BillOfCall' /\ OwnCalls'
  <2>1. BillFits(n, m)' /\ CallsFit(n, m)'
    BY <1>d DEF BillFits, CallsFit, Talks, Talking
  <2>2. \A j \in Attempts, i \in Members, l \in Positions : Bill(j, i, l)' = Bill(j, i, l)
    BY <1>c DEF Bill
  <2>. QED BY <1>a, <1>c, <1>d, <2>1, <2>2, OthersBills DEF BaseInv, Types
<1>3. Recorded'
  <2>1. ASSUME NEW b \in asked
        PROVE  ~ (member'[b[1]][b[2]].stage = "send" /\ member'[b[1]][b[2]].at = b[3])
    <3>1. b \in Billings
      BY <1>a DEF Types
    <3>. QED BY <1>a, <1>d, <3>1, BillParts DEF BaseInv, Recorded, OthersRest
  <2>2. \A b \in replies' : usage[b] = "reconciled"
    BY <1>a, <1>c, <1>i DEF BaseInv, Recorded
  <2>. QED BY <1>a, <1>c, <2>1, <2>2 DEF BaseInv, Recorded
<1>4. Settled'
  BY <1>a, <1>c, <1>1 DEF BaseInv, Settled
<1>5. Accounted' /\ RoundsAdvance' /\ NoGaps' /\ CallsNotRebought'
  <2>1. Accounted'
    BY <1>a, <1>c DEF TalkInv, Accounted
  <2>. QED BY <1>a, <1>c, <2>1 DEF TalkInv, RoundsAdvance, NoGaps, CallsNotRebought
<1>6. TalkGoesOn'
  <2> SUFFICES ASSUME NEW j \in Attempts, NEW i \in Members, Talks(j, i)'
               PROVE  /\ \A b \in rounds : b[2] = i /\ b[1] <= j => b[3] < member'[j][i].at
                      /\ \A l \in 1..(member'[j][i].at - 1) : \E e \in rounds : e[2] = i /\ e[3] = l
                      /\ \A b \in replies' : b[2] = i => j < b[1]
    BY <1>c DEF TalkGoesOn
  <2>1. j # n \/ i # m
    BY <1>d DEF Talks, Talking
  <2>2. member'[j][i] = member[j][i] /\ Talks(j, i)
    BY <1>d, <2>1 DEF OthersRest, Talks
  <2>3. j <= issued
    BY <1>a, <2>2, Claimed DEF Talks, Talking
  <2>4. i = m => j < n
    BY <1>f, <2>1, <2>3
  <2>. QED BY <1>a, <1>c, <1>e, <2>2, <2>4 DEF TalkInv, TalkGoesOn
<1>7. ReplyEnds'
  <2> SUFFICES ASSUME NEW b \in replies'
               PROVE  /\ \A e \in Billings : e[2] = b[2] /\ usage[e] = "reconciled" => e = b \/ e \in rounds
                      /\ \A e \in rounds : e[2] = b[2] => e[3] < b[3] /\ usage[e] = "reconciled"
                      /\ \A l \in 1..(b[3] - 1) : \E e \in rounds : e[2] = b[2] /\ e[3] = l
    BY <1>c DEF ReplyEnds
  <2>1. CASE b \in replies
    BY <1>a, <2>1 DEF TalkInv, ReplyEnds
  <2>2. CASE b = reply
    <3>0. team[n] = "run" /\ Began(n) /\ m \notin DOMAIN known[n]
      BY <1>b, WorkFacts
    <3>1. ASSUME NEW e \in Billings, e[2] = m, usage[e] = "reconciled"
          PROVE  e = reply \/ e \in rounds
      <4>0. e[1] \in Attempts /\ e[3] \in Positions /\ e = <<e[1], m, e[3]>> /\ e[1] <= n
        BY <1>a, <1>f, <3>1, BillParts, Billed
      <4>1. CASE e[1] = n
        <5>1. CallsFit(n, m)
          BY <1>a DEF BaseInv, OwnCalls
        <5>2. Bill(n, m, e[3]) # "none"
          BY <3>1, <4>0, <4>1 DEF Bill
        <5>. QED BY <1>b, <1>k, <4>0, <4>1, <5>1, <5>2 DEF CallsFit, reply
      <4>2. CASE e[1] < n
        <5>1. e \in rounds \union replies
          BY <1>a, <3>0, <3>1, <4>2 DEF TalkInv, Accounted
        <5>2. e \notin replies
          <6>1. e \in replies => n < e[1]
            BY <1>a, <1>b, <3>1 DEF TalkInv, TalkGoesOn
          <6>. QED BY <4>0, <4>2, <6>1
        <5>. QED BY <5>1, <5>2
      <4>. QED BY <4>0, <4>1, <4>2
    <3>2. ASSUME NEW e \in rounds, e[2] = m
          PROVE  e[3] < k /\ usage[e] = "reconciled"
      <4>0. e \in Billings /\ usage[e] \in {"reconciled", "unknown"} /\ e[1] <= n /\ e[1] \in Nat /\ n \in Nat
        BY <1>a, <1>f, RoundsClaimed, BillParts
      <4>1. e[3] < k
        BY <1>a, <1>b, <1>k, <3>2, <4>0 DEF TalkInv, TalkGoesOn
      <4>2. CASE e[1] = n
        BY <1>h, <3>2, <4>0, <4>1, <4>2
      <4>3. CASE e[1] < n
        BY <1>a, <3>0, <4>0, <4>1, <4>3 DEF BaseInv, Settled
      <4>. QED BY <4>0, <4>2, <4>3
    <3>3. \A l \in 1..(k - 1) : \E e \in rounds : e[2] = m /\ e[3] = l
      BY <1>a, <1>b, <1>k DEF TalkInv, TalkGoesOn
    <3>. QED BY <1>e, <2>2, <3>1, <3>2, <3>3
  <2>. QED BY <1>c, <2>1, <2>2
<1>8. AnswersAreReplies'
  <2>1. ASSUME NEW j \in Attempts, NEW i \in Members, member'[j][i].stage = "receipt"
        PROVE  member'[j][i].answer \in Of(i, replies')
    <3>1. CASE j = n /\ i = m
      BY <1>c, <1>d, <1>e, <3>1 DEF Of
    <3>2. CASE j # n \/ i # m
      <4>1. member'[j][i] = member[j][i]
        BY <1>d, <3>2 DEF OthersRest
      <4>. QED BY <1>a, <1>c, <2>1, <4>1 DEF TalkInv, AnswersAreReplies, Of
    <3>. QED BY <3>1, <3>2
  <2>. QED BY <1>a, <1>c, <2>1 DEF TalkInv, AnswersAreReplies, Of
<1>. QED BY <1>1, <1>2, <1>3, <1>4, <1>5, <1>6, <1>7, <1>8 DEF IInv, BaseInv, TalkInv

-----------------------------------------------------------------------------
(* A receipt is recorded *)

\* The checkpoint CheckpointMember writes: what the team knows, and the member's receipt.
Now(n, m) == [j \in DOMAIN known[n] \union {m} |-> IF j = m THEN ReceiptOf(n, m) ELSE known[n][j]]

\* What there is to know of that step, and of the state it is taken in: nobody was claimed
\* after the attempt, and the member has no receipt yet.
Writes(n, m) ==
  /\ UNCHANGED <<strategy, issued, holder, team, usage, rounds, replies, asked>>
  /\ member' \in [Attempts -> [Members -> Member]]
  /\ member'[n][m].stage = "over" /\ member'[n][m].input = member[n][m].input
  /\ OthersRest(n, m)
  /\ DOMAIN receipts' = Attempts /\ receipts'[n] = Now(n, m)
  /\ DOMAIN known' = Attempts /\ (known'[n] = Now(n, m) \/ known'[n] = known[n])
  /\ \A j \in Attempts : j # n => receipts'[j] = receipts[j] /\ known'[j] = known[j]

Writer(n, m) ==
  /\ n = issued /\ team[n] = "run" /\ member[n][m].stage = "receipt"
  /\ m \notin DOMAIN known[n] /\ m \notin DOMAIN receipts[n]
  /\ strategy = "sequential" => DOMAIN known[n] = 1..(m - 1)
  /\ \A j \in Attempts : j > n =>
       /\ DOMAIN receipts[j] = {} /\ DOMAIN known[j] = {}
       /\ \A i \in Members : member[j][i].stage = "idle"

\* The checkpoint includes what the team knew, and nothing but the member's receipt beyond it.
LEMMA NowHas ==
  ASSUME NEW n \in Attempts, NEW m \in Members, m \notin DOMAIN known[n]
  PROVE  /\ DOMAIN Now(n, m) = DOMAIN known[n] \union {m}
         /\ Now(n, m)[m] = ReceiptOf(n, m)
         /\ \A j \in DOMAIN known[n] : Now(n, m)[j] = known[n][j]
BY DEF Now

\* The step of CheckpointMember, taken apart.
LEMMA Writing ==
  ASSUME IInv, NEW n \in Attempts, NEW m \in Members, CheckpointMember(n, m)
  PROVE  Writes(n, m) /\ Writer(n, m)
<1>. USE Numbers
<1>a. BaseInv /\ ReceiptInv /\ Types
  BY DEF IInv, BaseInv
<1>1. member[n][m].stage = "receipt" /\ Active(n, m) /\ Holds(n)
  BY DEF CheckpointMember, In, Active
<1>2. /\ UNCHANGED <<strategy, issued, holder, team, usage, rounds, replies, asked>>
      /\ Stop(n, m)
      /\ receipts' = [receipts EXCEPT ![n] = Now(n, m)]
      /\ known' = [known EXCEPT ![n] = Now(n, m)] \/ known' = known
  BY DEF CheckpointMember, lease, Now
<1>3. /\ member' \in [Attempts -> [Members -> Member]]
      /\ member'[n][m].stage = "over" /\ member'[n][m].input = member[n][m].input
      /\ OthersRest(n, m)
  BY <1>a, <1>2, Stopping DEF Types, OthersRest
<1>4. DOMAIN receipts' = Attempts /\ receipts'[n] = Now(n, m)
      /\ DOMAIN known' = Attempts /\ (known'[n] = Now(n, m) \/ known'[n] = known[n])
      /\ \A j \in Attempts : j # n => receipts'[j] = receipts[j] /\ known'[j] = known[j]
  <2>1. DOMAIN receipts = Attempts /\ DOMAIN known = Attempts
    BY <1>a DEF Types
  <2>. QED BY <1>2, <2>1
<1>5. Writes(n, m)
  BY <1>2, <1>3, <1>4 DEF Writes
<1>6. n = issued /\ \A j \in Attempts : j > n => team[j] = "idle"
  BY <1>a, <1>1, Latest DEF BaseInv
<1>7. team[n] = "run" /\ m \notin DOMAIN known[n]
      /\ (strategy = "sequential" => DOMAIN known[n] = 1..(m - 1))
  BY <1>1, WorkFacts
<1>8. m \notin DOMAIN receipts[n]
  BY <1>a, <1>1, <1>7 DEF ReceiptInv, WrittenOnce
<1>9. \A j \in Attempts : j > n =>
        /\ DOMAIN receipts[j] = {} /\ DOMAIN known[j] = {}
        /\ \A i \in Members : member[j][i].stage = "idle"
  BY <1>a, <1>6 DEF BaseInv, Quiet
<1>. QED BY <1>1, <1>5, <1>6, <1>7, <1>8, <1>9 DEF Writer

\* Receipts that were known still are.
LEMMA StillKnown ==
  ASSUME NEW n \in Attempts, NEW m \in Members, Writes(n, m), Writer(n, m), NEW k \in Attempts
  PROVE  Includes(known'[k], known[k]) /\ DOMAIN known'[k] \subseteq DOMAIN known[k] \union {m}
<1>1. m \notin DOMAIN known[n]
  BY DEF Writer
<1>2. /\ DOMAIN Now(n, m) = DOMAIN known[n] \union {m}
      /\ \A j \in DOMAIN known[n] : Now(n, m)[j] = known[n][j]
  BY <1>1, NowHas
<1>3. CASE known'[k] = known[k]
  BY <1>3 DEF Includes
<1>4. CASE k = n /\ known'[n] = Now(n, m)
  BY <1>2, <1>4 DEF Includes
<1>. QED BY <1>3, <1>4 DEF Writes

\* The types and the bills.
LEMMA WritingBase ==
  ASSUME IInv, NEW n \in Attempts, NEW m \in Members, Writes(n, m), Writer(n, m)
  PROVE  BaseInv' /\ \A j \in Attempts : Began(j)' => Began(j)
<1>. USE Numbers
<1>a. BaseInv /\ Types /\ TalkInv
  BY DEF IInv, BaseInv
<1>b. UNCHANGED <<strategy, issued, holder, team, usage, rounds, replies, asked>>
  BY DEF Writes
<1>c. \A j \in Attempts, i \in Members : j # n \/ i # m => member'[j][i] = member[j][i]
  BY DEF Writes, OthersRest
<1>d. member'[n][m].stage = "over" /\ member[n][m].stage = "receipt" /\ team[n] = "run"
  BY DEF Writes, Writer
<1>1. Types'
  <2>1. Receipts(Now(n, m))
    <3>1. ReceiptOf(n, m) \in MemberReceipt
      <4>1. member[n][m].answer \in Answers
        BY <1>a, MemberParts DEF Types
      <4>2. With("reconciled") \subseteq Billings /\ Of(m, With("reconciled")) \subseteq Billings
        BY DEF With, Of
      <4>3. Cardinality(With("reconciled")) \in Nat /\ Reconciled(m) \in Nat
        BY <4>2, FiniteBills, FS_Subset, FS_CardinalityType DEF Reconciled
      <4>. QED BY <4>1, <4>3 DEF ReceiptOf, MemberReceipt
    <3>2. Receipts(known[n]) /\ m \notin DOMAIN known[n]
      BY <1>a DEF Types, Writer
    <3>3. /\ DOMAIN Now(n, m) = DOMAIN known[n] \union {m}
          /\ Now(n, m)[m] = ReceiptOf(n, m)
          /\ \A j \in DOMAIN known[n] : Now(n, m)[j] = known[n][j]
      BY <3>2, NowHas
    <3>4. strategy = "sequential" => m \in 0..Size /\ DOMAIN Now(n, m) = 1..m
      <4>1. strategy = "sequential" => DOMAIN Now(n, m) = (1..(m - 1)) \union {m}
        BY <3>3 DEF Writer
      <4>2. m \in Nat /\ 1 <= m /\ m <= Size
        OBVIOUS
      <4>. QED BY <4>1, <4>2
    <3>. QED BY <3>1, <3>2, <3>3, <3>4 DEF Receipts
  <2>2. \A j \in Attempts : Receipts(known'[j]) /\ Receipts(receipts'[j])
    BY <1>a, <2>1 DEF Types, Writes
  <2>3. \A j \in Attempts : Receipts(known[j])' /\ Receipts(receipts[j])'
    BY <1>b, <2>2 DEF Receipts
  <2>4. DOMAIN known' = Attempts /\ DOMAIN receipts' = Attempts
        /\ member' \in [Attempts -> [Members -> Member]]
    BY DEF Writes
  <2>. QED BY <1>a, <1>b, <2>3, <2>4 DEF Types
<1>2. OnlyClaimed'
  BY <1>a, <1>b DEF BaseInv, OnlyClaimed
<1>3. Quiet'
  <2> SUFFICES ASSUME NEW j \in Attempts, team[j] \in {"idle", "usage", "receipts"}
               PROVE  /\ DOMAIN known'[j] = {} /\ DOMAIN receipts'[j] = {}
                      /\ \A i \in Members : member'[j][i].stage = "idle"
    BY <1>b DEF Quiet
  <2>1. j # n
    BY <1>d
  <2>2. known'[j] = known[j] /\ receipts'[j] = receipts[j]
    BY <2>1 DEF Writes
  <2>. QED BY <1>a, <1>c, <2>1, <2>2 DEF BaseInv, Quiet
<1>4. AtWork'
  <2> SUFFICES ASSUME NEW j \in Attempts, NEW i \in Members, Active(j, i)'
               PROVE  /\ team[j] = "run" /\ i \notin DOMAIN known'[j]
                      /\ strategy = "sequential" => DOMAIN known'[j] = 1..(i - 1)
    BY <1>b DEF AtWork
  <2>1. j # n \/ i # m
    BY <1>d DEF Active
  <2>2. Active(j, i)
    BY <1>c, <2>1 DEF Active
  <2>3. /\ team[j] = "run" /\ i \notin DOMAIN known[j]
        /\ strategy = "sequential" => DOMAIN known[j] = 1..(i - 1)
    BY <2>2, WorkFacts
  <2>4. CASE j = n
    <3>1. strategy # "sequential"
      <4>1. strategy = "sequential" => 1..(i - 1) = 1..(m - 1) /\ i # m
        BY <2>1, <2>3, <2>4 DEF Writer
      <4>2. i - 1 \in Nat /\ m - 1 \in Nat /\ i \in Nat /\ m \in Nat
        OBVIOUS
      <4>3. CASE i < m
        <5>1. i \in 1..(m - 1) /\ i \notin 1..(i - 1)
          BY <4>2, <4>3
        <5>. QED BY <4>1, <5>1
      <4>4. CASE m < i
        <5>1. m \in 1..(i - 1) /\ m \notin 1..(m - 1)
          BY <4>2, <4>4
        <5>. QED BY <4>1, <5>1
      <4>. QED BY <2>1, <2>4, <4>2, <4>3, <4>4
    <3>. QED BY <2>1, <2>3, <2>4, <3>1, StillKnown
  <2>5. CASE j # n
    BY <2>3, <2>5 DEF Writes
  <2>. QED BY <2>4, <2>5
<1>5. BillOfCall' /\ OwnCalls'
  <2>1. BillFits(n, m)' /\ CallsFit(n, m)'
    BY <1>d DEF BillFits, CallsFit, Talks, Talking
  <2>2. \A j \in Attempts, i \in Members, l \in Positions : Bill(j, i, l)' = Bill(j, i, l)
    BY <1>b DEF Bill
  <2>. QED BY <1>a, <1>b, <2>1, <2>2, OthersBills DEF BaseInv, Types, Writes
<1>6. Recorded'
  <2>1. ASSUME NEW b \in asked
        PROVE  ~ (member'[b[1]][b[2]].stage = "send" /\ member'[b[1]][b[2]].at = b[3])
    <3>1. b \in Billings
      BY <1>a DEF Types
    <3>. QED BY <1>a, <1>c, <1>d, <3>1, BillParts DEF BaseInv, Recorded
  <2>. QED BY <1>a, <1>b, <2>1 DEF BaseInv, Recorded
<1>7. \A j \in Attempts : Began(j)' => Began(j)
  <2> SUFFICES ASSUME NEW j \in Attempts, Began(j)' PROVE Began(j)
    OBVIOUS
  <2>1. CASE j = n
    BY <1>d, <2>1 DEF Began
  <2>2. CASE j # n
    <3>1. \A i \in Members : member'[j][i] = member[j][i]
      BY <1>c, <2>2
    <3>. QED BY <1>b, <3>1 DEF Began
  <2>. QED BY <2>1, <2>2
<1>8. Settled'
  BY <1>a, <1>b, <1>7 DEF BaseInv, Settled
<1>. QED BY <1>1, <1>2, <1>3, <1>4, <1>5, <1>6, <1>7, <1>8 DEF BaseInv

\* The receipts.
LEMMA WritingReceipts ==
  ASSUME IInv, NEW n \in Attempts, NEW m \in Members, Writes(n, m), Writer(n, m)
  PROVE  ReceiptInv'
<1>. USE Numbers
<1>a. BaseInv /\ Types /\ ReceiptInv
  BY DEF IInv, BaseInv
<1>b. UNCHANGED <<strategy, issued, holder, team, usage, rounds, replies, asked>>
  BY DEF Writes
<1>c. \A j \in Attempts, i \in Members : j # n \/ i # m => member'[j][i] = member[j][i]
  BY DEF Writes, OthersRest
<1>d. /\ receipts'[n] = Now(n, m)
      /\ \A j \in Attempts : j # n => receipts'[j] = receipts[j] /\ known'[j] = known[j]
  BY DEF Writes
<1>e. /\ team[n] = "run" /\ m \notin DOMAIN known[n] /\ m \notin DOMAIN receipts[n]
      /\ \A j \in Attempts : j > n => DOMAIN receipts[j] = {} /\ DOMAIN known[j] = {}
  BY DEF Writer
<1>f. /\ DOMAIN Now(n, m) = DOMAIN known[n] \union {m}
      /\ Now(n, m)[m] = ReceiptOf(n, m)
      /\ \A j \in DOMAIN known[n] : Now(n, m)[j] = known[n][j]
  BY <1>e, NowHas
<1>g. \A k \in Attempts : k < n => Includes(known[n], receipts[k])
  BY <1>a, <1>e DEF ReceiptInv, Inheritance
<1>1. Inheritance'
  <2> SUFFICES ASSUME NEW j \in Attempts, team[j] \in {"run", "publish"}, NEW k \in Attempts, k < j
               PROVE  Includes(known'[j], receipts'[k])
    BY <1>b DEF Inheritance, Includes
  <2>1. k # n
    <3>1. ~ (j > n)
      BY <1>a DEF BaseInv, OnlyClaimed, Writer
    <3>. QED BY <3>1
  <2>2. receipts'[k] = receipts[k] /\ Includes(known[j], receipts[k])
    BY <1>a, <1>d, <2>1 DEF ReceiptInv, Inheritance
  <2>3. Includes(known'[j], known[j])
    BY StillKnown
  <2>. QED BY <2>2, <2>3 DEF Includes
<1>2. ReceiptsGrow'
  <2> SUFFICES ASSUME NEW k \in Attempts, NEW j \in Attempts, k < j, DOMAIN receipts'[j] # {}
               PROVE  Includes(receipts'[j], receipts'[k])
    BY DEF ReceiptsGrow, Includes
  <2>1. CASE j = n
    <3>1. receipts'[k] = receipts[k] /\ Includes(known[n], receipts[k])
      BY <1>d, <1>g, <2>1
    <3>. QED BY <1>d, <1>f, <2>1, <3>1 DEF Includes
  <2>2. CASE j # n
    <3>1. DOMAIN receipts[j] # {} /\ ~ (j > n)
      BY <1>d, <1>e, <2>2
    <3>2. k # n
      BY <3>1
    <3>. QED BY <1>a, <1>d, <2>2, <3>1, <3>2 DEF ReceiptInv, ReceiptsGrow
  <2>. QED BY <2>1, <2>2
<1>3. KnownIsRecorded'
  <2>1. ASSUME NEW j \in Attempts, DOMAIN receipts'[j] # {}
        PROVE  Includes(receipts'[j], known'[j])
    <3>1. CASE j = n
      BY <1>d, <1>f, <3>1 DEF Writes, Includes
    <3>2. CASE j # n
      BY <1>a, <1>d, <2>1, <3>2 DEF ReceiptInv, KnownIsRecorded
    <3>. QED BY <3>1, <3>2
  <2>2. ASSUME NEW j \in Attempts, NEW i \in DOMAIN known'[j]
        PROVE  \E k \in Attempts : k <= j /\ i \in DOMAIN receipts'[k] /\ receipts'[k][i] = known'[j][i]
    <3>1. CASE j = n
      <4>1. Includes(Now(n, m), known'[n])
        BY <1>f DEF Writes, Includes
      <4>2. n <= n
        OBVIOUS
      <4>. QED BY <1>d, <2>2, <3>1, <4>1, <4>2 DEF Includes
    <3>2. CASE j # n
      <4>1. known'[j] = known[j] /\ ~ (j > n)
        BY <1>d, <1>e, <2>2, <3>2
      <4>2. PICK k \in Attempts : k <= j /\ i \in DOMAIN receipts[k] /\ receipts[k][i] = known[j][i]
        BY <1>a, <2>2, <4>1 DEF ReceiptInv, KnownIsRecorded
      <4>3. k # n
        BY <3>2, <4>1, <4>2
      <4>. QED BY <1>d, <4>1, <4>2, <4>3
    <3>. QED BY <3>1, <3>2
  <2>. QED BY <2>1, <2>2 DEF KnownIsRecorded, Includes
<1>4. WrittenOnce'
  <2> SUFFICES ASSUME NEW k \in Attempts, team[k] = "run", NEW i \in DOMAIN receipts'[k]
               PROVE  i \in DOMAIN known'[k] \/ member'[k][i].stage = "over"
    BY <1>b DEF WrittenOnce
  <2>1. CASE k = n
    <3>1. i = m \/ i \in DOMAIN known[n]
      BY <1>d, <1>f, <2>1
    <3>. QED BY <2>1, <3>1, StillKnown DEF Writes, Includes
  <2>2. CASE k # n
    <3>1. i \in DOMAIN receipts[k] /\ i \in Members
      BY <1>a, <1>d, <2>2 DEF Types, Receipts
    <3>. QED BY <1>a, <1>c, <1>d, <2>2, <3>1 DEF ReceiptInv, WrittenOnce
  <2>. QED BY <2>1, <2>2
<1>5. InputFollows'
  <2> SUFFICES ASSUME strategy = "sequential", NEW j \in Attempts, NEW i \in Members,
                      member'[j][i].stage # "idle", i > 1
               PROVE  \E k \in Attempts : /\ k <= j /\ i - 1 \in DOMAIN receipts'[k]
                                          /\ member'[j][i].input = receipts'[k][i - 1].answer
    BY <1>b DEF InputFollows
  <2>1. member[j][i].stage # "idle" /\ member'[j][i].input = member[j][i].input
    BY <1>c DEF Writes, Writer
  <2>2. PICK k \in Attempts : /\ k <= j /\ i - 1 \in DOMAIN receipts[k]
                              /\ member[j][i].input = receipts[k][i - 1].answer
    BY <1>a, <2>1 DEF ReceiptInv, InputFollows
  <2>3. CASE k # n
    BY <1>d, <2>1, <2>2, <2>3
  <2>4. CASE k = n
    <3>1. PICK q \in 0..Size : DOMAIN receipts[n] = 1..q
      BY <1>a DEF Types, Receipts
    <3>2. i - 1 \in 1..q /\ m \notin 1..q
      BY <1>e, <2>2, <2>4, <3>1
    <3>3. i - 1 \in 1..(m - 1)
      BY <3>2
    <3>4. i - 1 \in DOMAIN known[n]
      BY <3>3 DEF Writer
    <3>5. receipts[n][i - 1] = known[n][i - 1]
      BY <1>a, <2>2, <2>4, <3>4 DEF ReceiptInv, KnownIsRecorded, Includes
    <3>6. i - 1 \in DOMAIN receipts'[n] /\ receipts'[n][i - 1] = receipts[n][i - 1]
      BY <1>d, <1>f, <3>4, <3>5
    <3>. QED BY <2>1, <2>2, <2>4, <3>6
  <2>. QED BY <2>3, <2>4
<1>6. TotalsCount'
  <2> SUFFICES ASSUME strategy = "sequential", NEW k \in Attempts, NEW i \in DOMAIN receipts'[k]
               PROVE  receipts'[k][i].calls <= Cardinality(UpTo(i))
    <3>1. \A i : UpTo(i)' = UpTo(i)
      BY <1>b DEF UpTo, With
    <3>. QED BY <1>b, <3>1 DEF TotalsCount
  <2>1. CASE k # n
    BY <1>a, <1>d, <2>1 DEF ReceiptInv, TotalsCount
  <2>2. CASE k = n /\ i \in DOMAIN known[n]
    <3>1. PICK l \in Attempts : l <= n /\ i \in DOMAIN receipts[l] /\ receipts[l][i] = known[n][i]
      BY <1>a, <2>2 DEF ReceiptInv, KnownIsRecorded
    <3>2. receipts'[k][i] = receipts[l][i]
      BY <1>d, <1>f, <2>2, <3>1
    <3>. QED BY <1>a, <3>1, <3>2 DEF ReceiptInv, TotalsCount
  <2>3. CASE k = n /\ i = m
    <3>1. ASSUME NEW b \in Billings, usage[b] = "reconciled", b[2] > m
          PROVE  FALSE
      <4>1. member[b[1]][b[2]].stage # "idle" /\ b[1] \in Attempts /\ b[2] \in Members
        BY <1>a, <3>1, Billed, BillParts
      <4>2. b[2] > 1
        BY <3>1, <4>1
      <4>3. PICK l \in Attempts : b[2] - 1 \in DOMAIN receipts[l]
        BY <1>a, <4>1, <4>2 DEF ReceiptInv, InputFollows
      <4>4. PICK q \in 0..Size : DOMAIN receipts[l] = 1..q
        BY <1>a DEF Types, Receipts
      <4>5. m \in DOMAIN receipts[l]
        <5>1. b[2] - 1 \in 1..q /\ b[2] \in Nat
          BY <4>1, <4>3, <4>4
        <5>2. m \in 1..q
          BY <3>1, <5>1
        <5>. QED BY <4>4, <5>2
      <4>6. l # n /\ ~ (l > n)
        BY <1>e, <4>5
      <4>7. l < n
        BY <4>6
      <4>. QED BY <1>e, <1>g, <4>5, <4>7 DEF Includes
    <3>2. With("reconciled") = UpTo(m)
      <4>1. \A b \in Billings : b[2] \in Nat /\ m \in Nat
        BY BillParts
      <4>. QED BY <3>1, <4>1 DEF With, UpTo
    <3>3. receipts'[k][i].calls = Cardinality(UpTo(m))
      BY <1>d, <1>f, <2>3, <3>2 DEF ReceiptOf
    <3>4. Cardinality(UpTo(m)) \in Nat
      <4>1. UpTo(m) \subseteq Billings
        BY DEF UpTo, With
      <4>. QED BY <4>1, FiniteBills, FS_Subset, FS_CardinalityType
    <3>. QED BY <2>3, <3>3, <3>4
  <2>. QED BY <1>d, <1>f, <2>1, <2>2, <2>3
<1>. QED BY <1>1, <1>2, <1>3, <1>4, <1>5, <1>6 DEF ReceiptInv

\* A member's receipt is recorded.
LEMMA CheckpointingMember ==
  ASSUME IInv, NEW n \in Attempts, NEW m \in Members, CheckpointMember(n, m)
  PROVE  IInv'
<1>. USE Numbers
<1>a. BaseInv /\ Types /\ TalkInv
  BY DEF IInv, BaseInv
<1>w. Writes(n, m) /\ Writer(n, m)
  BY Writing
<1>b. UNCHANGED <<strategy, issued, holder, team, usage, rounds, replies, asked>>
  BY <1>w DEF Writes
<1>c. \A j \in Attempts, i \in Members : j # n \/ i # m => member'[j][i] = member[j][i]
  BY <1>w DEF Writes, OthersRest
<1>d. member'[n][m].stage = "over" /\ member[n][m].stage = "receipt"
  BY <1>w DEF Writes, Writer
<1>1. BaseInv' /\ ReceiptInv'
  BY <1>w, WritingBase, WritingReceipts
<1>2. Accounted'
  <2>1. \A k \in Attempts : DOMAIN known[k] \subseteq DOMAIN known'[k]
    BY <1>w, StillKnown DEF Includes
  <2>. QED BY <1>a, <1>b, <2>1 DEF TalkInv, Accounted
<1>3. RoundsAdvance' /\ NoGaps' /\ ReplyEnds' /\ CallsNotRebought'
  BY <1>a, <1>b DEF TalkInv, RoundsAdvance, NoGaps, ReplyEnds, CallsNotRebought
<1>4. TalkGoesOn'
  <2> SUFFICES ASSUME NEW j \in Attempts, NEW i \in Members, Talks(j, i)'
               PROVE  member'[j][i] = member[j][i] /\ Talks(j, i)
    BY <1>a, <1>b DEF TalkInv, TalkGoesOn
  <2>1. j # n \/ i # m
    BY <1>d DEF Talks, Talking
  <2>. QED BY <1>c, <2>1 DEF Talks
<1>5. AnswersAreReplies'
  <2>1. ASSUME NEW j \in Attempts, NEW i \in Members, member'[j][i].stage = "receipt"
        PROVE  member'[j][i].answer \in Of(i, replies)
    <3>1. member'[j][i] = member[j][i]
      BY <1>c, <1>d, <2>1
    <3>. QED BY <1>a, <2>1, <3>1 DEF TalkInv, AnswersAreReplies
  <2>2. \A i \in DOMAIN Now(n, m) : Now(n, m)[i].answer \in Of(i, replies)
    <3>1. ReceiptOf(n, m).answer \in Of(m, replies)
      BY <1>a, <1>d DEF ReceiptOf, TalkInv, AnswersAreReplies
    <3>2. \A i \in DOMAIN known[n] : known[n][i].answer \in Of(i, replies)
      BY <1>a DEF TalkInv, AnswersAreReplies
    <3>3. m \notin DOMAIN known[n]
      BY <1>w DEF Writer
    <3>4. /\ DOMAIN Now(n, m) = DOMAIN known[n] \union {m}
          /\ Now(n, m)[m] = ReceiptOf(n, m)
          /\ \A j \in DOMAIN known[n] : Now(n, m)[j] = known[n][j]
      BY <3>3, NowHas
    <3>. QED BY <3>1, <3>2, <3>4
  <2>3. ASSUME NEW j \in Attempts
        PROVE  /\ \A i \in DOMAIN receipts'[j] : receipts'[j][i].answer \in Of(i, replies)
               /\ \A i \in DOMAIN known'[j] : known'[j][i].answer \in Of(i, replies)
    BY <1>a, <1>w, <2>2 DEF Writes, TalkInv, AnswersAreReplies
  <2>4. \A i : Of(i, replies)' = Of(i, replies)
    BY <1>b DEF Of
  <2>. QED BY <1>b, <2>1, <2>3 DEF AnswersAreReplies, Of
<1>. QED BY <1>1, <1>2, <1>3, <1>4, <1>5 DEF IInv, TalkInv

-----------------------------------------------------------------------------
\* Every step preserves the invariant.
LEMMA NextIInv == IInv /\ [Next]_vars => IInv'
<1> SUFFICES ASSUME IInv, [Next]_vars PROVE IInv'
  OBVIOUS
<1>1. CASE Claim
  BY <1>1, Claiming
<1>2. CASE Expire \/ Revive
  BY <1>2, Releasing
<1>3. ASSUME NEW n \in Attempts, CheckUsage(n) \/ Return(n) \/ Park(n) \/ Publish(n) PROVE IInv'
  BY <1>3, Leaving
<1>4. ASSUME NEW n \in Attempts, CheckReceipts(n) PROVE IInv'
  BY <1>4, Receiving
<1>5. ASSUME NEW n \in Attempts, NEW m \in Members, Run(n, m) PROVE IInv'
  <2>1. CASE Resume(n, m)
    BY <2>1, Resuming
  <2>2. CASE Reserve(n, m)
    BY <2>2, Reserving
  <2>3. CASE Send(n, m)
    BY <2>3, Sending
  <2>4. CASE NotSent(n, m) \/ Account(n, m)
    BY <2>4, Settling
  <2>5. CASE CheckpointToolRound(n, m)
    BY <2>5, CheckpointingRound
  <2>6. CASE CheckpointAgentReply(n, m)
    BY <2>6, CheckpointingReply
  <2>7. CASE CheckpointMember(n, m)
    BY <2>7, CheckpointingMember
  <2>8. CASE Fail(n, m)
    BY <2>8, Failing
  <2>. QED BY <1>5, <2>1, <2>2, <2>3, <2>4, <2>5, <2>6, <2>7, <2>8 DEF Run
<1>6. CASE UNCHANGED vars
  <2>1. UNCHANGED <<strategy, issued, holder, team, known, member, usage, rounds, replies, receipts, asked>>
    BY <1>6 DEF vars, lease, ledger
  <2>2. MembersRest
    BY <2>1 DEF MembersRest
  <2>3. BaseInv'
    <3>1. Types' /\ OnlyClaimed' /\ Quiet'
      BY <2>1 DEF IInv, BaseInv, Types, Receipts, OnlyClaimed, Quiet
    <3>2. AtWork' /\ Settled'
      BY <2>1 DEF IInv, BaseInv, AtWork, Active, Settled, Began
    <3>. QED BY <2>2, <3>1, <3>2, Rest DEF IInv, BaseInv
  <2>4. Inheritance' /\ KnownIsRecorded' /\ WrittenOnce'
    BY <2>1 DEF IInv, ReceiptInv, Inheritance, KnownIsRecorded, WrittenOnce, Includes
  <2>5. Accounted' /\ AnswersAreReplies'
    BY <2>1 DEF IInv, TalkInv, Accounted, AnswersAreReplies, Of
  <2>. QED BY <2>2, <2>3, <2>4, <2>5, Rest DEF IInv, ReceiptInv, TalkInv
<1>. QED BY <1>1, <1>2, <1>3, <1>4, <1>5, <1>6 DEF Next

\* The invariant of DurableTeam: the claims, the bills, the receipts and the checkpointed
\* conversations of all attempts fit together, whatever is interrupted when.
THEOREM Invariance == Spec => []IInv
<1>1. Init => IInv
  BY InitIInv
<1>2. IInv /\ [Next]_vars => IInv'
  BY NextIInv
<1>. QED BY <1>1, <1>2, PTL DEF Spec

\* The team's state and its records keep their types, and a sequential team's receipts are a
\* prefix (delivery_team.go, TeamCheckpoint).
THEOREM TypeCorrectness == Spec => []TypeOK
<1>1. IInv => TypeOK
  <2> SUFFICES ASSUME Types PROVE TypeOK
    BY DEF IInv, BaseInv
  <2>1. ASSUME NEW n \in Attempts, strategy = "sequential"
        PROVE  DOMAIN receipts[n] \in {1..k : k \in 0..Size}
    BY <2>1 DEF Types, Receipts
  <2>2. \A n \in Attempts : /\ DOMAIN known[n] \subseteq Members /\ DOMAIN receipts[n] \subseteq Members
                            /\ \A m \in DOMAIN receipts[n] : receipts[n][m] \in MemberReceipt
    BY DEF Types, Receipts
  <2>. QED BY <2>1, <2>2 DEF Types, TypeOK
<1>. QED BY <1>1, Invariance, PTL

\* No call of a member is bought by two attempts: where ResumeToolRound and ResumeAgentReply
\* go on, no attempt was before.
THEOREM CallCorrectness == Spec => []CallsNotRebought
<1>1. IInv => CallsNotRebought
  BY DEF IInv, TalkInv
<1>. QED BY <1>1, Invariance, PTL

\* A receipt CheckpointMember recorded holds the member's answer and accounts for every call
\* that was paid for on the way to it.
THEOREM ReceiptCorrectness == Spec => []ReceiptsAccountForCalls
<1>1. IInv => ReceiptsAccountForCalls
  <2> SUFFICES ASSUME IInv, NEW n \in Attempts, NEW m \in DOMAIN receipts[n]
               PROVE  /\ receipts[n][m].answer \in Of(m, With("reconciled"))
                      /\ {b[3] : b \in Of(m, With("reconciled"))} = 1..receipts[n][m].answer[3]
    BY DEF ReceiptsAccountForCalls
  <2>1. PICK r \in replies : r = receipts[n][m].answer /\ r[2] = m
    BY DEF IInv, TalkInv, AnswersAreReplies, Of
  <2>2. r \in Billings /\ usage[r] = "reconciled" /\ r[3] \in Positions
    BY BillParts DEF IInv, BaseInv, Types, Recorded
  <2>3. r \in Of(m, With("reconciled"))
    BY <2>1, <2>2 DEF Of, With
  <2>4. ASSUME NEW b \in Of(m, With("reconciled")) PROVE b[3] \in 1..r[3]
    <3>1. b \in Billings /\ b[2] = m /\ usage[b] = "reconciled" /\ b[3] \in Positions
      BY BillParts DEF Of, With
    <3>2. b = r \/ (b \in rounds /\ b[3] < r[3])
      BY <2>1, <3>1 DEF IInv, TalkInv, ReplyEnds
    <3>. QED BY <2>2, <3>1, <3>2, Numbers
  <2>5. ASSUME NEW k \in 1..r[3] PROVE \E b \in Of(m, With("reconciled")) : b[3] = k
    <3>1. CASE k = r[3]
      BY <2>3, <3>1
    <3>2. CASE k # r[3]
      <4>1. k \in 1..(r[3] - 1)
        BY <2>2, <3>2, Numbers
      <4>2. PICK e \in rounds : e[2] = m /\ e[3] = k
        BY <2>1, <4>1 DEF IInv, TalkInv, ReplyEnds
      <4>3. e \in Billings /\ usage[e] = "reconciled"
        BY <2>1, <4>2, RoundParts DEF IInv, TalkInv, ReplyEnds, BaseInv, Types
      <4>. QED BY <4>2, <4>3 DEF Of, With
    <3>. QED BY <3>1, <3>2
  <2>6. {b[3] : b \in Of(m, With("reconciled"))} = 1..r[3]
    BY <2>4, <2>5
  <2>. QED BY <2>1, <2>3, <2>6
<1>. QED BY <1>1, Invariance, PTL

\* What a member of a sequential team was asked, in any attempt, followed from the answer all
\* recorded receipts hold for its predecessor.
THEOREM AnswerCorrectness == Spec => []MembersSeeTheAnswer
<1>1. IInv => MembersSeeTheAnswer
  <2> SUFFICES ASSUME IInv, strategy = "sequential", NEW b \in asked, NEW n \in Attempts,
                      b[2] - 1 \in DOMAIN receipts[n]
               PROVE  member[b[1]][b[2]].input = receipts[n][b[2] - 1].answer
    BY DEF MembersSeeTheAnswer
  <2>1. b \in Billings /\ usage[b] # "none"
    BY DEF IInv, BaseInv, Types, Recorded
  <2>2. b[1] \in Attempts /\ b[2] \in Members /\ member[b[1]][b[2]].stage # "idle"
    BY <2>1, BillParts, Billed DEF IInv
  <2>3. b[2] > 1
    <3>1. b[2] - 1 \in Members
      BY DEF IInv, BaseInv, Types, Receipts
    <3>. QED BY <2>2, <3>1, Numbers
  <2>4. PICK k \in Attempts : /\ b[2] - 1 \in DOMAIN receipts[k]
                              /\ member[b[1]][b[2]].input = receipts[k][b[2] - 1].answer
    BY <2>2, <2>3 DEF IInv, ReceiptInv, InputFollows
  <2>5. receipts[k][b[2] - 1] = receipts[n][b[2] - 1]
    <3>1. k < n \/ k = n \/ n < k
      BY Numbers
    <3>2. DOMAIN receipts[k] # {} /\ DOMAIN receipts[n] # {}
      BY <2>4
    <3>. QED BY <2>4, <3>1, <3>2 DEF IInv, ReceiptInv, ReceiptsGrow, Includes
  <2>. QED BY <2>4, <2>5
<1>. QED BY <1>1, Invariance, PTL

\* The attempt that runs the team has the receipts of all earlier ones: PriorAttempts loses no
\* member that is done.
THEOREM InheritanceCorrectness == Spec => []ReceiptsAreInherited
<1>1. IInv => ReceiptsAreInherited
  BY DEF IInv, ReceiptInv, Inheritance, Includes, ReceiptsAreInherited
<1>. QED BY <1>1, Invariance, PTL
=============================================================================
