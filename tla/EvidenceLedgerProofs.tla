------------------------- MODULE EvidenceLedgerProofs -------------------------
(***************************************************************************)
(* Theorems about EvidenceLedger, for any files, calls and bounds.         *)
(*                                                                         *)
(* BaseInv, for any number of lanes: the events in memory are in order,    *)
(* those of a file that can be read too, and the file is memory, with at   *)
(* most one line more that forbids another.  Then DurableHistory: a file   *)
(* that is memory stays readable however the next append ends.             *)
(*                                                                         *)
(* FreshInv, for one lane: no content of a file comes back (Past), and a   *)
(* check in flight, or recorded since the ledger was opened, saw what the  *)
(* files hold unless the change is recorded behind it or will be.          *)
(***************************************************************************)
EXTENDS EvidenceLedger, SequenceTheorems, FiniteSetTheorems, TLAPS

Hashes == Nat \union {DeletedHash}
WriteEvent == [kind : {"write"}, file : Files, hash : Hashes, seq : Nat, rev : Nat]
CheckEvent == [kind : {"check"}, check : Checks, passed : BOOLEAN, seq : Nat, rev : Nat]
Event == WriteEvent \union CheckEvent
Ledgers == [mem : Seq(Event), lines : Seq(Event \union {Garbled}), torn : BOOLEAN]

Active == {"running", "background", "scanned", "judged"}

(* BaseInv: the events are in order, and the file is memory *)

Types ==
    /\ disk \in [Files -> Nat]
    /\ ledger \in Ledgers
    /\ sources \in [Files -> Nat] \union {NoScan}
    /\ opened \in Nat
    /\ up \in {"up", "down", "corrupt"}
    /\ stage \in [Writers \union Checks -> {"idle", "written", "done"} \union Active]
    /\ by \in [Checks -> {"shell", "await", "observe"}]
    /\ started \in [Checks -> Nat]
    /\ saw \in [Checks -> [Files -> Nat] \union {NoScan}]
    /\ passed \in [Checks -> BOOLEAN]
    /\ changes \in Nat /\ failures \in Nat /\ crashes \in Nat

Ordered(log) ==
    \A i, j \in 1..Len(log) : i < j => log[i].seq < log[j].seq /\ log[i].rev <= log[j].rev

\* A line behind what memory holds keeps any later line from being read.
Linked(L) ==
    Readable(L.lines) =>
        \/ L.lines = L.mem
        \/ \E e \in Event : L.lines = Append(L.mem, e) /\ e.seq >= NextSequence(L.mem)

BaseInv ==
    /\ Types
    /\ Ordered(ledger.mem)
    /\ Readable(ledger.lines) => Ordered(ledger.lines)
    /\ up = "up" => Linked(ledger)
    /\ up # "up" => ledger.mem = <<>>

-----------------------------------------------------------------------------
(* Numbers, and the elements of a set in some order *)

\* A set of numbers has a least one.
LEMMA Smallest ==
  ASSUME NEW T, T \subseteq Nat, T # {}
  PROVE  \E x \in T : \A y \in T : x <= y
<1>. DEFINE R == OpToRel(<, Nat)
<1>1. \A y, x \in Nat : y < x => <<y, x>> \in R
  BY DEF OpToRel
<1>2. IsWellFoundedOn(R, Nat)
  BY NatLessThanWellFounded
<1>. HIDE DEF R
<1>3. PICK x \in T : \A y \in T : ~ (<<y, x>> \in R)
  BY <1>2, WFMin
<1>4. ASSUME NEW y \in T PROVE x <= y
  <2>1. x \in Nat /\ y \in Nat /\ ~ (y < x)
    BY <1>1, <1>3
  <2>. QED BY <2>1
<1>. QED BY <1>4

\* Max gives the greatest of some numbers that are at most n.
LEMMA MaxIsGreatest ==
  ASSUME NEW n \in Nat, NEW T, T \subseteq 0..n, T # {}
  PROVE  Max(T) \in T /\ \A y \in T : y <= Max(T)
<1>. DEFINE U == {u \in 0..n : n - u \in T}
<1>1. \A x \in T : n - x \in 0..n /\ n - (n - x) = x
  OBVIOUS
<1>2. U \subseteq Nat /\ \A x \in T : n - x \in U
  BY <1>1
<1>3. PICK u \in U : \A v \in U : u <= v
  <2>1. U # {}
    BY <1>2
  <2>. HIDE DEF U
  <2>. QED BY <1>2, <2>1, Smallest
<1>4. n - u \in T /\ u \in 0..n
  BY <1>3
<1>5. ASSUME NEW y \in T PROVE n - u >= y
  <2>1. u <= n - y
    BY <1>2, <1>3
  <2>2. y \in 0..n
    OBVIOUS
  <2>. QED BY <2>1, <2>2, <1>4
<1>6. Max(T) \in T /\ \A y \in T : Max(T) >= y
  BY <1>4, <1>5 DEF Max
<1>7. \A y \in T : y \in Nat
  OBVIOUS
<1>. QED BY <1>6, <1>7

\* SetToSeq lists every element of a finite set.
LEMMA SetToSeqLists ==
  ASSUME NEW S, IsFiniteSet(S)
  PROVE  /\ SetToSeq(S) \in Seq(S)
         /\ \A k \in DOMAIN SetToSeq(S) : SetToSeq(S)[k] \in S
         /\ \A x \in S : \E k \in DOMAIN SetToSeq(S) : SetToSeq(S)[k] = x
<1>. DEFINE n == Cardinality(S)
<1>1. n \in Nat /\ ExistsBijection(1..n, S)
  BY FS_CardinalityType
<1>. HIDE DEF n
<1>2. PICK g \in Bijection(1..n, S) : TRUE
  BY <1>1 DEF ExistsBijection
<1>3. g \in [1..n -> S] /\ IsInjective(g)
  BY <1>2 DEF Bijection, Injection
<1>4. SetToSeq(S) = CHOOSE f \in [1..n -> S] : IsInjective(f)
  BY DEF SetToSeq, n
<1>5. SetToSeq(S) \in [1..n -> S] /\ IsInjective(SetToSeq(S))
  BY <1>3, <1>4
<1>6. SetToSeq(S) \in Injection(1..n, S)
  BY <1>5 DEF Injection
<1>7. IsFiniteSet(1..n) /\ Cardinality(1..n) = n
  BY <1>1, FS_Interval
<1>8. SetToSeq(S) \in Surjection(1..n, S)
  BY <1>6, <1>7, FS_Injection DEF n
<1>9. \A x \in S : \E k \in 1..n : SetToSeq(S)[k] = x
  BY <1>8 DEF Surjection
<1>10. DOMAIN SetToSeq(S) = 1..n /\ SetToSeq(S) \in Seq(S)
  BY <1>1, <1>5
<1>. QED BY <1>5, <1>9, <1>10

-----------------------------------------------------------------------------
(* What Record makes of a history *)

\* Drafts that are recorded one after the other: writes, or a single check.
Batch(drafts) ==
    /\ drafts \in Seq(Event)
    /\ (\A k \in 1..Len(drafts) : drafts[k].kind = "write") \/ Len(drafts) = 1

\* The history once the first n drafts are recorded.
Grown(log, drafts, n) == log \o [k \in 1..n |-> Assigned(log, drafts, k)]

\* What an event is about, whatever Record has given to it.
SameFact(e, d) ==
    /\ e.kind = d.kind
    /\ d.kind = "write" => e.file = d.file /\ e.hash = d.hash
    /\ d.kind = "check" => e.check = d.check /\ e.passed = d.passed

LEMMA EventFacts ==
  ASSUME NEW e \in Event
  PROVE  /\ e.seq \in Nat /\ e.rev \in Nat /\ e.kind \in {"write", "check"}
         /\ e.kind = "write" => e \in WriteEvent /\ e.file \in Files /\ e.hash \in Hashes
         /\ e.kind = "check" => e \in CheckEvent /\ e.check \in Checks /\ e.passed \in BOOLEAN
         /\ e # Garbled
<1>1. CASE e \in WriteEvent
  <2>1. e.kind = "write" /\ e.seq \in Nat /\ e.rev \in Nat /\ e.file \in Files /\ e.hash \in Hashes
    BY <1>1 DEF WriteEvent
  <2>. QED BY <1>1, <2>1 DEF Garbled
<1>2. CASE e \in CheckEvent
  <2>1. e.kind = "check" /\ e.seq \in Nat /\ e.rev \in Nat /\ e.check \in Checks /\ e.passed \in BOOLEAN
    BY <1>2 DEF CheckEvent
  <2>. QED BY <1>2, <2>1 DEF Garbled
<1>. QED BY <1>1, <1>2 DEF Event

\* The next sequence is above every one recorded, the revision no less than any.
LEMMA LogFacts ==
  ASSUME NEW log \in Seq(Event), Ordered(log)
  PROVE  /\ NextSequence(log) \in Nat /\ Revision(log) \in Nat
         /\ \A i \in 1..Len(log) :
               log[i].seq < NextSequence(log) /\ log[i].rev <= Revision(log)
         /\ Revision(log) = 0 \/ \E i \in 1..Len(log) : Revision(log) = log[i].rev
<1>1. \A i \in 1..Len(log) : log[i] \in Event /\ log[i].seq \in Nat /\ log[i].rev \in Nat
  <2>1. \A i \in 1..Len(log) : log[i] \in Event
    OBVIOUS
  <2>. QED BY <2>1, EventFacts
<1>2. DOMAIN log = 1..Len(log) /\ Len(log) \in Nat
  OBVIOUS
<1>3. CASE log = <<>>
  <2>1. NextSequence(log) = 1 /\ 1..Len(log) = {}
    BY <1>3 DEF NextSequence
  <2>2. {0} \union {log[i].rev : i \in DOMAIN log} = {0}
    BY <1>2, <2>1
  <2>3. Revision(log) = 0
    <3>1. {0} \subseteq 0..0 /\ {0} # {}
      OBVIOUS
    <3>2. Max({0}) \in {0}
      BY <3>1, MaxIsGreatest
    <3>. QED BY <2>2, <3>2 DEF Revision
  <2>. QED BY <2>1, <2>3
<1>4. CASE log # <<>>
  <2>1. Len(log) \in 1..Len(log)
    BY <1>4
  <2>2. NextSequence(log) = log[Len(log)].seq + 1
    BY <1>4 DEF NextSequence, Last
  <2>3. \A i \in 1..Len(log) : log[i].seq <= log[Len(log)].seq /\ log[i].rev <= log[Len(log)].rev
    <3>1. SUFFICES ASSUME NEW i \in 1..Len(log)
                   PROVE  log[i].seq <= log[Len(log)].seq /\ log[i].rev <= log[Len(log)].rev
      OBVIOUS
    <3>2. CASE i = Len(log)
      BY <3>2, <1>1, <2>1
    <3>3. CASE i < Len(log)
      <4>1. log[i].seq < log[Len(log)].seq /\ log[i].rev <= log[Len(log)].rev
        BY <3>3, <2>1 DEF Ordered
      <4>. QED BY <4>1, <1>1, <2>1
    <3>4. i = Len(log) \/ i < Len(log)
      <4>1. i \in Nat /\ Len(log) \in Nat /\ i <= Len(log)
        OBVIOUS
      <4>. QED BY <4>1
    <3>. QED BY <3>2, <3>3, <3>4
  <2>4. PICK n : n = log[Len(log)].rev
    OBVIOUS
  <2>12. n \in Nat
    BY <1>1, <2>1, <2>4
  <2>5. PICK revs : revs = {0} \union {log[i].rev : i \in DOMAIN log}
    OBVIOUS
  <2>6. revs \subseteq 0..n /\ revs # {}
    BY <2>5, <2>3, <2>4, <2>12, <1>1, <1>2
  <2>7. Max(revs) \in revs /\ \A y \in revs : y <= Max(revs)
    BY <2>6, <2>12, MaxIsGreatest
  <2>8. Revision(log) = Max(revs)
    BY <2>5 DEF Revision
  <2>9. Revision(log) \in Nat
    <3>1. Max(revs) \in 0..n
      BY <2>6, <2>7
    <3>2. 0..n \subseteq Nat
      BY <2>12
    <3>. QED BY <3>1, <3>2, <2>8
  <2>10. \A i \in 1..Len(log) : log[i].seq < NextSequence(log)
    BY <2>2, <2>3, <1>1, <2>1
  <2>13. Revision(log) = 0 \/ \E i \in 1..Len(log) : Revision(log) = log[i].rev
    BY <2>5, <2>7, <2>8, <1>2
  <2>14. \A i \in 1..Len(log) : log[i].rev <= Revision(log)
    BY <2>5, <2>7, <2>8, <1>2
  <2>15. NextSequence(log) \in Nat
    BY <1>1, <2>1, <2>2
  <2>. QED BY <2>9, <2>10, <2>13, <2>14, <2>15
<1>. QED BY <1>3, <1>4

\* Record keeps what the event says and places it behind the history.
LEMMA AssignedFacts ==
  ASSUME NEW log \in Seq(Event), Ordered(log), NEW drafts, Batch(drafts),
         NEW k \in 1..Len(drafts)
  PROVE  /\ Assigned(log, drafts, k) \in Event
         /\ SameFact(Assigned(log, drafts, k), drafts[k])
         /\ Assigned(log, drafts, k).seq = NextSequence(log) + k - 1
         /\ Assigned(log, drafts, k).rev
               = Revision(log) + (IF drafts[k].kind = "write" THEN k ELSE 0)
<1>1. drafts \in Seq(Event) /\ drafts[k] \in Event /\ k \in Nat /\ k >= 1
  BY DEF Batch
<1>2. PICK d \in Event : d = drafts[k]
  BY <1>1
<1>3. PICK s, r :
         /\ s = NextSequence(log) + k - 1
         /\ r = Revision(log) + (IF drafts[k].kind = "write" THEN k ELSE 0)
  OBVIOUS
<1>7. s \in Nat /\ r \in Nat
  <2>1. NextSequence(log) \in Nat /\ Revision(log) \in Nat
    BY LogFacts
  <2>. QED BY <1>1, <1>3, <2>1
<1>4. Assigned(log, drafts, k) = [d EXCEPT !.seq = s, !.rev = r]
  BY <1>2, <1>3 DEF Assigned
<1>5. CASE d \in WriteEvent
  <2>1. [d EXCEPT !.seq = s, !.rev = r] \in WriteEvent
    BY <1>5, <1>7 DEF WriteEvent
  <2>2. d.kind = "write" /\ [d EXCEPT !.seq = s, !.rev = r].kind = "write"
    BY <1>5 DEF WriteEvent
  <2>3. /\ [d EXCEPT !.seq = s, !.rev = r].file = d.file
        /\ [d EXCEPT !.seq = s, !.rev = r].hash = d.hash
        /\ [d EXCEPT !.seq = s, !.rev = r].seq = s
        /\ [d EXCEPT !.seq = s, !.rev = r].rev = r
    BY <1>5 DEF WriteEvent
  <2>. QED BY <2>1, <2>2, <2>3, <1>2, <1>3, <1>4 DEF SameFact, Event
<1>6. CASE d \in CheckEvent
  <2>1. [d EXCEPT !.seq = s, !.rev = r] \in CheckEvent
    BY <1>6, <1>7 DEF CheckEvent
  <2>2. d.kind = "check" /\ [d EXCEPT !.seq = s, !.rev = r].kind = "check"
    BY <1>6 DEF CheckEvent
  <2>3. /\ [d EXCEPT !.seq = s, !.rev = r].check = d.check
        /\ [d EXCEPT !.seq = s, !.rev = r].passed = d.passed
        /\ [d EXCEPT !.seq = s, !.rev = r].seq = s
        /\ [d EXCEPT !.seq = s, !.rev = r].rev = r
    BY <1>6 DEF CheckEvent
  <2>. QED BY <2>1, <2>2, <2>3, <1>2, <1>3, <1>4 DEF SameFact, Event
<1>. QED BY <1>5, <1>6, <1>2 DEF Event

\* A grown history keeps what it had and stays in order.
LEMMA GrownFacts ==
  ASSUME NEW log \in Seq(Event), Ordered(log), NEW drafts, Batch(drafts),
         NEW n \in 0..Len(drafts), NEW new, new = Grown(log, drafts, n)
  PROVE  /\ new \in Seq(Event) /\ Len(new) = Len(log) + n
         /\ \A i \in 1..Len(log) : new[i] = log[i]
         /\ \A k \in 1..n : new[Len(log) + k] = Assigned(log, drafts, k)
         /\ \A i \in 1..Len(new) : i \in 1..Len(log) \/ i - Len(log) \in 1..n
         /\ Ordered(new)
         /\ Revision(log) <= Revision(new)
         /\ NextSequence(new) = NextSequence(log) + n
<1>1. PICK added : added = [k \in 1..n |-> Assigned(log, drafts, k)]
  OBVIOUS
<1>2. n \in Nat /\ Len(log) \in Nat /\ Len(drafts) \in Nat /\ \A k \in 1..n : k \in 1..Len(drafts)
  BY DEF Batch
<1>3. \A k \in 1..n : Assigned(log, drafts, k) \in Event
  BY <1>2, AssignedFacts
<1>4. added \in Seq(Event) /\ Len(added) = n
  BY <1>1, <1>2, <1>3
<1>5. new = log \o added
  BY <1>1 DEF Grown
<1>6. new \in Seq(Event) /\ Len(new) = Len(log) + n
  BY <1>2, <1>4, <1>5, ConcatProperties
<1>7. \A i \in 1..Len(log) : new[i] = log[i]
  BY <1>2, <1>4, <1>5, ConcatProperties
<1>8. \A k \in 1..n : new[Len(log) + k] = Assigned(log, drafts, k)
  <2>1. \A k \in 1..n : new[Len(log) + k] = added[k]
    BY <1>2, <1>4, <1>5, ConcatProperties
  <2>. QED BY <2>1, <1>1
<1>9. \A i \in 1..Len(new) : i \in 1..Len(log) \/ i - Len(log) \in 1..n
  BY <1>2, <1>6
<1>10. /\ NextSequence(log) \in Nat /\ Revision(log) \in Nat
       /\ \A i \in 1..Len(log) :
             log[i].seq < NextSequence(log) /\ log[i].rev <= Revision(log)
       /\ Revision(log) = 0 \/ \E i \in 1..Len(log) : Revision(log) = log[i].rev
  BY LogFacts
<1>11. \A k \in 1..n :
          /\ Assigned(log, drafts, k).seq = NextSequence(log) + k - 1
          /\ Assigned(log, drafts, k).rev
                = Revision(log) + (IF drafts[k].kind = "write" THEN k ELSE 0)
  BY <1>2, AssignedFacts
<1>12. \A i \in 1..Len(log) : log[i].seq \in Nat /\ log[i].rev \in Nat
  BY EventFacts
<1>13. Ordered(new)
  <2>1. SUFFICES ASSUME NEW i \in 1..Len(new), NEW j \in 1..Len(new), i < j
                 PROVE  new[i].seq < new[j].seq /\ new[i].rev <= new[j].rev
    BY DEF Ordered
  <2>2. CASE j \in 1..Len(log)
    <3>1. i \in 1..Len(log)
      BY <2>1, <2>2, <1>2
    <3>. QED BY <3>1, <2>1, <2>2, <1>7 DEF Ordered
  <2>3. CASE j - Len(log) \in 1..n
    <3>1. PICK k \in 1..n : j = Len(log) + k
      BY <2>3, <1>2, <1>6, j = Len(log) + (j - Len(log))
    <3>2. new[j].seq = NextSequence(log) + k - 1
      BY <3>1, <1>8, <1>11
    <3>3. new[j].rev = Revision(log) + (IF drafts[k].kind = "write" THEN k ELSE 0)
      BY <3>1, <1>8, <1>11
    <3>4. CASE i \in 1..Len(log)
      <4>1. new[i].seq < NextSequence(log) /\ new[i].rev <= Revision(log)
        BY <3>4, <1>7, <1>10
      <4>2. new[i].seq \in Nat /\ new[i].rev \in Nat
        BY <3>4, <1>7, <1>12
      <4>3. k \in Nat /\ k >= 1 /\ NextSequence(log) \in Nat /\ Revision(log) \in Nat
        BY <1>2, <1>10
      <4>4. new[i].seq < new[j].seq
        BY <4>1, <4>2, <4>3, <3>2
      <4>5. new[i].rev <= new[j].rev
        BY <4>1, <4>2, <4>3, <3>3
      <4>. QED BY <4>4, <4>5
    <3>5. CASE i - Len(log) \in 1..n
      <4>1. PICK h \in 1..n : i = Len(log) + h
        BY <3>5, <1>2, <1>6, i = Len(log) + (i - Len(log))
      <4>2. h < k
        BY <4>1, <3>1, <2>1, <1>2
      <4>3. new[i].seq = NextSequence(log) + h - 1
        BY <4>1, <1>8, <1>11
      <4>4. new[i].rev = Revision(log) + (IF drafts[h].kind = "write" THEN h ELSE 0)
        BY <4>1, <1>8, <1>11
      <4>5. drafts[k].kind = "write"
        BY <4>2, <1>2 DEF Batch
      <4>. QED BY <4>2, <4>3, <4>4, <4>5, <3>2, <3>3, <1>10, <1>2
    <3>. QED BY <3>4, <3>5, <1>9
  <2>. QED BY <2>2, <2>3, <1>9
<1>14. /\ NextSequence(new) \in Nat /\ Revision(new) \in Nat
       /\ \A i \in 1..Len(new) : new[i].rev <= Revision(new)
  BY <1>6, <1>13, LogFacts
<1>15. Revision(log) <= Revision(new)
  <2>1. CASE Revision(log) = 0
    BY <2>1, <1>14
  <2>2. ASSUME NEW i \in 1..Len(log), Revision(log) = log[i].rev
        PROVE  Revision(log) <= Revision(new)
    <3>1. i \in 1..Len(new)
      BY <1>2, <1>6
    <3>. QED BY <3>1, <2>2, <1>7, <1>14
  <2>. QED BY <2>1, <2>2, <1>10
<1>16. NextSequence(new) = NextSequence(log) + n
  <2>1. CASE n = 0
    <3>1. added = <<>>
      BY <2>1, <1>4
    <3>2. new = log
      BY <3>1, <1>5
    <3>. QED BY <2>1, <3>2, <1>10
  <2>2. CASE n # 0
    <3>1. n \in 1..n /\ Len(new) = Len(log) + n /\ new # <<>>
      BY <2>2, <1>2, <1>6
    <3>2. NextSequence(new) = new[Len(new)].seq + 1
      BY <3>1 DEF NextSequence, Last
    <3>3. new[Len(new)].seq = NextSequence(log) + n - 1
      BY <3>1, <1>8, <1>11
    <3>. QED BY <3>2, <3>3, <1>10, <1>2
  <2>. QED BY <2>1, <2>2
<1>. QED BY <1>6, <1>7, <1>8, <1>9, <1>13, <1>15, <1>16

\* Growing by one draft more appends what Record makes of it.
LEMMA GrownNext ==
  ASSUME NEW log \in Seq(Event), Ordered(log), NEW drafts, Batch(drafts),
         NEW k \in 1..Len(drafts)
  PROVE  Grown(log, drafts, k) = Append(Grown(log, drafts, k - 1), Assigned(log, drafts, k))
<1>1. k \in Nat /\ Len(log) \in Nat /\ k \in 0..Len(drafts) /\ k - 1 \in 0..Len(drafts)
  BY DEF Batch
<1>2. PICK G, B, e : /\ G = Grown(log, drafts, k)
                     /\ B = Grown(log, drafts, k - 1)
                     /\ e = Assigned(log, drafts, k)
  OBVIOUS
<1>3. /\ G \in Seq(Event) /\ Len(G) = Len(log) + k
      /\ \A i \in 1..Len(log) : G[i] = log[i]
      /\ \A h \in 1..k : G[Len(log) + h] = Assigned(log, drafts, h)
  BY <1>1, <1>2, GrownFacts
<1>4. /\ B \in Seq(Event) /\ Len(B) = Len(log) + (k - 1)
      /\ \A i \in 1..Len(log) : B[i] = log[i]
      /\ \A h \in 1..(k - 1) : B[Len(log) + h] = Assigned(log, drafts, h)
  <2>1. PICK n \in 0..Len(drafts) : n = k - 1
    BY <1>1
  <2>2. B = Grown(log, drafts, n)
    BY <1>2, <2>1
  <2>3. /\ B \in Seq(Event) /\ Len(B) = Len(log) + n
        /\ \A i \in 1..Len(log) : B[i] = log[i]
        /\ \A h \in 1..n : B[Len(log) + h] = Assigned(log, drafts, h)
    BY <2>2, GrownFacts
  <2>. QED BY <2>1, <2>3
<1>5. e \in Event
  BY <1>2, AssignedFacts
<1>6. PICK A : A = Append(B, e)
  OBVIOUS
<1>7. /\ A \in Seq(Event) /\ Len(A) = Len(B) + 1 /\ A[Len(B) + 1] = e
      /\ \A i \in 1..Len(B) : A[i] = B[i]
  BY <1>4, <1>5, <1>6, AppendProperties
<1>8. Len(A) = Len(G)
  BY <1>1, <1>3, <1>4, <1>7
<1>9. ASSUME NEW i \in 1..Len(G) PROVE A[i] = G[i]
  <2>1. CASE i <= Len(log)
    <3>1. i \in 1..Len(log) /\ i \in 1..Len(B)
      BY <2>1, <1>1, <1>3, <1>4
    <3>. QED BY <3>1, <1>3, <1>4, <1>7
  <2>2. CASE i > Len(log) /\ i < Len(G)
    <3>1. i - Len(log) \in 1..(k - 1) /\ i = Len(log) + (i - Len(log))
      BY <2>2, <1>1, <1>3
    <3>2. PICK h \in 1..(k - 1) : i = Len(log) + h
      BY <3>1
    <3>3. i \in 1..Len(B) /\ h \in 1..k
      BY <3>2, <1>1, <1>3, <1>4
    <3>. QED BY <3>2, <3>3, <1>3, <1>4, <1>7
  <2>3. CASE i = Len(G)
    <3>1. i = Len(B) + 1 /\ i = Len(log) + k /\ k \in 1..k
      BY <2>3, <1>1, <1>3, <1>4
    <3>. QED BY <3>1, <1>2, <1>3, <1>7
  <2>4. i <= Len(log) \/ (i > Len(log) /\ i < Len(G)) \/ i = Len(G)
    <3>1. i \in Nat /\ Len(G) \in Nat /\ i <= Len(G)
      BY <1>1, <1>3
    <3>. QED BY <3>1, <1>1
  <2>. QED BY <2>1, <2>2, <2>3, <2>4
<1>10. A = G
  BY <1>3, <1>7, <1>8, <1>9, SeqEqual
<1>. QED BY <1>2, <1>6, <1>10

LEMMA GrownByNone ==
  ASSUME NEW log \in Seq(Event), NEW drafts
  PROVE  Grown(log, drafts, 0) = log
<1>1. PICK added : added = [k \in 1..0 |-> Assigned(log, drafts, k)]
  OBVIOUS
<1>2. added = <<>>
  BY <1>1
<1>. QED BY <1>1, <1>2, ConcatEmptySeq DEF Grown

-----------------------------------------------------------------------------
(* What an append does to the file *)

\* What is behind a line that cannot be read cannot be read either.
LEMMA ReadablePrefix ==
  ASSUME NEW s \in Seq(Event \union {Garbled}), NEW t \in Seq(Event \union {Garbled}),
         Readable(s \o t)
  PROVE  /\ Readable(s) /\ s \in Seq(Event)
         /\ \A k \in 1..Len(t) : t[k] # Garbled
         /\ \A i \in 1..Len(s), k \in 1..Len(t) : s[i].seq < t[k].seq
<1>1. PICK u : u = s \o t
  OBVIOUS
<1>2. /\ u \in Seq(Event \union {Garbled}) /\ Len(u) = Len(s) + Len(t)
      /\ \A i \in 1..Len(s) + Len(t) : u[i] = IF i <= Len(s) THEN s[i] ELSE t[i - Len(s)]
  BY <1>1, ConcatProperties
<1>3. Len(s) \in Nat /\ Len(t) \in Nat /\ DOMAIN s = 1..Len(s) /\ DOMAIN u = 1..Len(u)
  BY <1>2
<1>4. \A i \in 1..Len(s) : i \in 1..Len(u) /\ u[i] = s[i]
  BY <1>2, <1>3
<1>5. \A k \in 1..Len(t) : Len(s) + k \in 1..Len(u) /\ u[Len(s) + k] = t[k]
  BY <1>2, <1>3
<1>6. /\ \A i \in 1..Len(u) : u[i] # Garbled
      /\ \A i, j \in 1..Len(u) : i < j => u[i].seq < u[j].seq
  BY <1>1, <1>3 DEF Readable, Range
<1>7. \A i \in 1..Len(s) : s[i] # Garbled
  BY <1>4, <1>6
<1>8. \A i, j \in 1..Len(s) : i < j => s[i].seq < s[j].seq
  BY <1>4, <1>6
<1>9. Readable(s)
  BY <1>3, <1>7, <1>8 DEF Readable, Range
<1>10. s \in Seq(Event)
  <2>1. \A i \in 1..Len(s) : s[i] \in Event
    BY <1>7
  <2>. QED BY <2>1, <1>3
<1>11. \A k \in 1..Len(t) : t[k] # Garbled
  BY <1>5, <1>6
<1>12. ASSUME NEW i \in 1..Len(s), NEW k \in 1..Len(t) PROVE s[i].seq < t[k].seq
  <2>1. i < Len(s) + k
    BY <1>3
  <2>. QED BY <2>1, <1>4, <1>5, <1>6
<1>. QED BY <1>9, <1>10, <1>11, <1>12

LEMMA OrderedReadable ==
  ASSUME NEW s \in Seq(Event), Ordered(s)
  PROVE  Readable(s)
<1>1. \A i \in DOMAIN s : s[i] # Garbled
  BY EventFacts
<1>2. DOMAIN s = 1..Len(s)
  OBVIOUS
<1>. QED BY <1>1, <1>2 DEF Ordered, Readable, Range

\* Lines appended with the next sequence can be read only if the file was memory.
LEMMA LinkedAppend ==
  ASSUME NEW L \in Ledgers, Ordered(L.mem), Linked(L),
         NEW t \in Seq(Event), Len(t) > 0, t[1].seq = NextSequence(L.mem),
         Readable(L.lines \o t)
  PROVE  L.lines = L.mem
<1>1. L.lines \in Seq(Event \union {Garbled}) /\ L.mem \in Seq(Event)
  BY DEF Ledgers
<1>2. t \in Seq(Event \union {Garbled}) /\ 1 \in 1..Len(t)
  OBVIOUS
<1>3. Readable(L.lines) /\ \A i \in 1..Len(L.lines) : L.lines[i].seq < t[1].seq
  BY <1>1, <1>2, ReadablePrefix
<1>4. ASSUME NEW e \in Event, L.lines = Append(L.mem, e), e.seq >= NextSequence(L.mem)
      PROVE  FALSE
  <2>1. Len(L.lines) = Len(L.mem) + 1 /\ L.lines[Len(L.mem) + 1] = e /\ Len(L.mem) \in Nat
    BY <1>1, <1>4, AppendProperties
  <2>2. e.seq < NextSequence(L.mem)
    BY <2>1, <1>3
  <2>3. e.seq \in Nat /\ NextSequence(L.mem) \in Nat
    BY <1>1, EventFacts, LogFacts
  <2>. QED BY <2>2, <2>3, <1>4
<1>. QED BY <1>3, <1>4 DEF Linked

\* The first n of some drafts are recorded: memory grows by them, and if the file
\* can still be read, it is memory again.
LEMMA RecordedFacts ==
  ASSUME NEW L \in Ledgers, Ordered(L.mem), NEW drafts, Batch(drafts),
         NEW n \in 0..Len(drafts), NEW R, R = Recorded(L, SubSeq(drafts, 1, n))
  PROVE  /\ R \in Ledgers
         /\ R.mem = Grown(L.mem, drafts, n)
         /\ n = 0 => R = L
         /\ n > 0 => ~ R.torn /\ (~ L.torn /\ L.lines = L.mem => R.lines = R.mem)
         /\ Linked(L) => /\ Linked(R)
                         /\ Readable(R.lines) => n = 0 \/ R.lines = R.mem
<1>1. drafts \in Seq(Event) /\ Len(drafts) \in Nat /\ n \in Nat
      /\ \A k \in 1..n : k \in 1..Len(drafts)
  BY DEF Batch
<1>2. PICK first : first = SubSeq(drafts, 1, n)
  OBVIOUS
<1>3. /\ first \in Seq(Event) /\ Len(first) = n /\ DOMAIN first = 1..n
      /\ \A k \in 1..n : first[k] = drafts[k]
  <2>1. \A k \in 1..n : drafts[k] \in Event
    BY <1>1
  <2>2. /\ first \in Seq(Event)
        /\ Len(first) = (IF 1 <= n THEN n - 1 + 1 ELSE 0)
        /\ \A k \in 1..(n - 1 + 1) : first[k] = drafts[1 + k - 1]
    BY <1>1, <1>2, <2>1, SubSeqProperties
  <2>3. Len(first) = n /\ n - 1 + 1 = n /\ \A k \in 1..n : 1 + k - 1 = k
    BY <2>2, <1>1
  <2>. QED BY <2>2, <2>3
<1>4. PICK added : added = [k \in 1..n |-> Assigned(L.mem, drafts, k)]
  OBVIOUS
<1>5. Events(L.mem, first) = added
  BY <1>3, <1>4 DEF Events, Assigned
<1>6. L.mem \in Seq(Event) /\ L.lines \in Seq(Event \union {Garbled}) /\ L.torn \in BOOLEAN
  BY DEF Ledgers
<1>7. \A k \in 1..n : Assigned(L.mem, drafts, k) \in Event
                      /\ Assigned(L.mem, drafts, k).seq = NextSequence(L.mem) + k - 1
  BY <1>1, <1>6, AssignedFacts
<1>8. added \in Seq(Event) /\ Len(added) = n /\ DOMAIN added = 1..n
  BY <1>1, <1>4, <1>7
<1>9. PICK appended : appended = Lines(L, added)
  OBVIOUS
<1>10. appended = [k \in 1..n |-> IF k = 1 /\ L.torn THEN Garbled ELSE added[k]]
  BY <1>8, <1>9 DEF Lines
<1>11. appended \in Seq(Event \union {Garbled}) /\ Len(appended) = n
  <2>1. \A k \in 1..n : added[k] \in Event
    BY <1>8
  <2>. QED BY <2>1, <1>1, <1>10
<1>12. R = [[L EXCEPT !.lines = @ \o appended, !.torn = @ /\ added = <<>>] EXCEPT !.mem = @ \o added]
  BY <1>2, <1>5, <1>9 DEF Recorded, Persisted
<1>13. /\ R.mem = L.mem \o added /\ R.lines = L.lines \o appended
       /\ R.torn = (L.torn /\ added = <<>>)
       /\ R = [mem |-> R.mem, lines |-> R.lines, torn |-> R.torn]
  BY <1>12 DEF Ledgers
<1>14. R \in Ledgers
  <2>1. R.mem \in Seq(Event) /\ R.lines \in Seq(Event \union {Garbled}) /\ R.torn \in BOOLEAN
    BY <1>6, <1>8, <1>11, <1>13, ConcatProperties
  <2>. QED BY <2>1, <1>13 DEF Ledgers
<1>15. R.mem = Grown(L.mem, drafts, n)
  BY <1>4, <1>13 DEF Grown
<1>16. n = 0 => R = L
  <2>1. SUFFICES ASSUME n = 0 PROVE R = L
    OBVIOUS
  <2>2. added = <<>> /\ appended = <<>>
    BY <2>1, <1>8, <1>11
  <2>3. R.mem = L.mem /\ R.lines = L.lines /\ R.torn = L.torn
    BY <2>2, <1>6, <1>13, ConcatEmptySeq
  <2>. QED BY <2>3, <1>14 DEF Ledgers
<1>17. n > 0 => ~ R.torn
  <2>1. n > 0 => added # <<>>
    BY <1>1, <1>8
  <2>. QED BY <2>1, <1>13
<1>18. ~ L.torn => appended = added
  BY <1>4, <1>10
<1>19. ASSUME Linked(L), n > 0, Readable(R.lines) PROVE R.lines = R.mem
  <2>1. ~ L.torn
    <3>1. Readable(L.lines \o appended)
      BY <1>13, <1>19
    <3>2. 1 \in 1..n
      BY <1>1, <1>19
    <3>3. appended[1] # Garbled
      BY <3>1, <3>2, <1>6, <1>11, ReadablePrefix
    <3>. QED BY <3>2, <3>3, <1>10
  <2>2. added[1].seq = NextSequence(L.mem)
    <3>1. 1 \in 1..n /\ NextSequence(L.mem) \in Nat
      BY <1>1, <1>6, <1>19, LogFacts
    <3>. QED BY <3>1, <1>4, <1>7
  <2>3. L.lines = L.mem
    BY <2>1, <2>2, <1>8, <1>13, <1>18, <1>19, LinkedAppend
  <2>. QED BY <2>1, <2>3, <1>13, <1>18
<1>20. Linked(L) => Linked(R)
  BY <1>16, <1>19, <1>1 DEF Linked
<1>21. ~ L.torn /\ L.lines = L.mem => R.lines = R.mem
  BY <1>13, <1>18
<1>22. Linked(L) => (Readable(R.lines) => n = 0 \/ R.lines = R.mem)
  <2>1. n = 0 \/ n > 0
    BY <1>1
  <2>. QED BY <2>1, <1>19
<1>. QED BY <1>14, <1>15, <1>16, <1>17, <1>20, <1>21, <1>22

\* The k-th of some drafts fails: what is recorded are those before it, and the file
\* may have it as well.
LEMMA RejectedFacts ==
  ASSUME NEW L \in Ledgers, Ordered(L.mem), NEW drafts, Batch(drafts),
         NEW k \in 1..Len(drafts), NEW how \in {"nothing", "torn", "whole"},
         NEW R, R = Rejected(L, drafts, k, how)
  PROVE  /\ R \in Ledgers
         /\ R.mem = Grown(L.mem, drafts, k - 1)
         /\ Linked(L) =>
               /\ Linked(R)
               /\ Readable(R.lines) => \/ R.lines = L.lines
                                       \/ \E n \in 0..Len(drafts) : R.lines = Grown(L.mem, drafts, n)
<1>1. k - 1 \in 0..Len(drafts) /\ k \in 0..Len(drafts) /\ k \in Nat
  BY DEF Batch
<1>2. PICK B : B = Recorded(L, SubSeq(drafts, 1, k - 1))
  OBVIOUS
<1>3. /\ B \in Ledgers
      /\ B.mem = Grown(L.mem, drafts, k - 1)
      /\ k - 1 = 0 => B = L
      /\ Linked(L) => /\ Linked(B)
                      /\ Readable(B.lines) => k - 1 = 0 \/ B.lines = B.mem
  BY <1>1, <1>2, RecordedFacts
<1>4. Linked(L) /\ Readable(B.lines) =>
         B.lines = L.lines \/ \E n \in 0..Len(drafts) : B.lines = Grown(L.mem, drafts, n)
  BY <1>1, <1>3
<1>5. CASE how = "nothing"
  <2>1. R = B
    BY <1>2, <1>5 DEF Rejected
  <2>. QED BY <2>1, <1>3, <1>4
<1>6. CASE how = "torn"
  <2>1. R = [B EXCEPT !.torn = TRUE]
    BY <1>2, <1>6 DEF Rejected
  <2>2. R \in Ledgers /\ R.mem = B.mem /\ R.lines = B.lines
    BY <2>1, <1>3 DEF Ledgers
  <2>3. Linked(B) => Linked(R)
    BY <2>2 DEF Linked
  <2>. QED BY <2>2, <2>3, <1>3, <1>4
<1>7. CASE how = "whole"
  <2>1. PICK e : e = Assigned(L.mem, drafts, k)
    OBVIOUS
  <2>2. L.mem \in Seq(Event) /\ B.mem \in Seq(Event) /\ B.lines \in Seq(Event \union {Garbled})
        /\ B.torn \in BOOLEAN
    BY <1>3 DEF Ledgers
  <2>3. e \in Event /\ e.seq = NextSequence(L.mem) + k - 1
    BY <2>1, <2>2, AssignedFacts
  <2>4. /\ Ordered(B.mem) /\ NextSequence(B.mem) = NextSequence(L.mem) + (k - 1)
        /\ NextSequence(L.mem) \in Nat
    BY <1>1, <1>3, <2>2, GrownFacts, LogFacts
  <2>5. e.seq = NextSequence(B.mem)
    BY <2>3, <2>4, <1>1
  <2>6. PICK t : t = Lines(B, <<e>>)
    OBVIOUS
  <2>7. t = [i \in 1..1 |-> IF i = 1 /\ B.torn THEN Garbled ELSE <<e>>[i]]
    BY <2>6 DEF Lines
  <2>8. t = <<IF B.torn THEN Garbled ELSE e>>
    BY <2>7
  <2>9. t \in Seq(Event \union {Garbled}) /\ Len(t) = 1 /\ t[1] = IF B.torn THEN Garbled ELSE e
    BY <2>3, <2>8
  <2>10. R = [B EXCEPT !.lines = @ \o t, !.torn = @ /\ <<e>> = <<>>]
    BY <1>2, <1>7, <2>1, <2>6 DEF Rejected, Persisted
  <2>11. R \in Ledgers /\ R.mem = B.mem /\ R.lines = B.lines \o t
    <3>1. B.lines \o t \in Seq(Event \union {Garbled})
      BY <2>2, <2>9, ConcatProperties
    <3>. QED BY <3>1, <2>10, <1>3, <2>2 DEF Ledgers
  <2>12. ASSUME Linked(L), Readable(R.lines)
         PROVE  R.lines = Append(B.mem, e) /\ R.lines = Grown(L.mem, drafts, k)
    <3>1. ~ B.torn
      <4>1. Readable(B.lines \o t)
        BY <2>11, <2>12
      <4>2. t[1] # Garbled
        <5>1. B.lines \in Seq(Event \union {Garbled}) /\ t \in Seq(Event \union {Garbled})
          BY <2>2, <2>9
        <5>2. \A i \in 1..Len(t) : t[i] # Garbled
          BY <4>1, <5>1, ReadablePrefix
        <5>. QED BY <5>2, <2>9
      <4>. QED BY <4>2, <2>9
    <3>2. t = <<e>>
      BY <3>1, <2>8
    <3>3. B.lines = B.mem
      <4>1. Readable(B.lines \o <<e>>) /\ Linked(B)
        BY <3>2, <2>11, <2>12, <1>3
      <4>2. <<e>> \in Seq(Event) /\ Len(<<e>>) > 0 /\ <<e>>[1] = e
        BY <2>3
      <4>. QED BY <4>1, <4>2, <2>4, <2>5, <1>3, LinkedAppend
    <3>4. R.lines = B.mem \o <<e>>
      BY <3>2, <3>3, <2>11
    <3>5. R.lines = Append(B.mem, e)
      BY <3>4, <2>2, <2>3, AppendIsConcat
    <3>6. Grown(L.mem, drafts, k) = Append(B.mem, e)
      BY <1>3, <2>1, <2>2, GrownNext
    <3>. QED BY <3>5, <3>6
  <2>13. Linked(L) => Linked(R)
    <3>1. e.seq \in Nat /\ e.seq >= NextSequence(R.mem)
      BY <2>3, <2>4, <2>5, <2>11, EventFacts
    <3>. QED BY <3>1, <2>3, <2>11, <2>12 DEF Linked
  <2>. QED BY <2>11, <2>12, <2>13, <1>1, <1>3
<1>. QED BY <1>5, <1>6, <1>7

\* However recording some drafts ends.
LEMMA OutcomeFacts ==
  ASSUME LedgerAssumption, NEW L \in Ledgers, Ordered(L.mem), NEW drafts, Batch(drafts),
         NEW o \in Outcomes(L, drafts)
  PROVE  /\ o.ok \in BOOLEAN /\ o.ledger \in Ledgers
         /\ \E n \in 0..Len(drafts) :
               o.ledger.mem = Grown(L.mem, drafts, n) /\ (o.ok => n = Len(drafts))
         /\ Linked(L) =>
               /\ Linked(o.ledger)
               /\ Readable(o.ledger.lines) =>
                     \/ o.ledger.lines = L.lines
                     \/ \E n \in 0..Len(drafts) : o.ledger.lines = Grown(L.mem, drafts, n)
<1>1. drafts \in Seq(Event) /\ Len(drafts) \in Nat /\ DOMAIN drafts = 1..Len(drafts)
  BY DEF Batch
<1>2. CASE o = [ledger |-> Recorded(L, drafts), ok |-> TRUE]
  <2>1. PICK n : n = Len(drafts)
    OBVIOUS
  <2>2. SubSeq(drafts, 1, n) = drafts /\ n \in 0..Len(drafts)
    BY <1>1, <2>1, SubSeqFull
  <2>3. PICK R : R = Recorded(L, SubSeq(drafts, 1, n))
    OBVIOUS
  <2>4. /\ R \in Ledgers /\ R.mem = Grown(L.mem, drafts, n) /\ (n = 0 => R = L)
        /\ Linked(L) => Linked(R) /\ (Readable(R.lines) => n = 0 \/ R.lines = R.mem)
    BY <2>2, <2>3, RecordedFacts
  <2>5. o.ledger = R /\ o.ok = TRUE
    BY <1>2, <2>2, <2>3
  <2>. QED BY <2>1, <2>2, <2>4, <2>5
<1>3. ASSUME NEW k \in DOMAIN drafts, NEW how \in Faults,
             o = [ledger |-> Rejected(L, drafts, k, how), ok |-> FALSE]
      PROVE  /\ o.ok = FALSE /\ o.ledger \in Ledgers
             /\ k - 1 \in 0..Len(drafts)
             /\ o.ledger.mem = Grown(L.mem, drafts, k - 1)
             /\ Linked(L) =>
                   /\ Linked(o.ledger)
                   /\ Readable(o.ledger.lines) =>
                         \/ o.ledger.lines = L.lines
                         \/ \E n \in 0..Len(drafts) : o.ledger.lines = Grown(L.mem, drafts, n)
  <2>1. k \in 1..Len(drafts) /\ how \in {"nothing", "torn", "whole"}
    BY <1>1 DEF LedgerAssumption
  <2>2. o.ledger = Rejected(L, drafts, k, how) /\ o.ok = FALSE
    BY <1>3
  <2>3. k - 1 \in 0..Len(drafts)
    BY <2>1, <1>1
  <2>. QED BY <2>1, <2>2, <2>3, RejectedFacts
<1>4. \/ o = [ledger |-> Recorded(L, drafts), ok |-> TRUE]
      \/ \E k \in DOMAIN drafts, how \in Faults :
            o = [ledger |-> Rejected(L, drafts, k, how), ok |-> FALSE]
  BY DEF Outcomes
<1>. QED BY <1>2, <1>3, <1>4

-----------------------------------------------------------------------------
(* What the operations record *)

\* Some writes, in some order.
LEMMA WritesListed ==
  ASSUME NEW S, IsFiniteSet(S), \A x \in S : x \in Event /\ x.kind = "write",
         NEW drafts, drafts = SetToSeq(S)
  PROVE  /\ Batch(drafts)
         /\ \A k \in 1..Len(drafts) : drafts[k] \in S
         /\ \A x \in S : \E k \in 1..Len(drafts) : drafts[k] = x
<1>1. /\ drafts \in Seq(S)
      /\ \A k \in DOMAIN drafts : drafts[k] \in S
      /\ \A x \in S : \E k \in DOMAIN drafts : drafts[k] = x
  BY SetToSeqLists
<1>2. DOMAIN drafts = 1..Len(drafts) /\ Len(drafts) \in Nat
  BY <1>1
<1>3. \A k \in 1..Len(drafts) : drafts[k] \in Event /\ drafts[k].kind = "write"
  BY <1>1, <1>2
<1>4. drafts \in Seq(Event)
  BY <1>1, <1>2, <1>3
<1>. QED BY <1>1, <1>2, <1>3, <1>4 DEF Batch

\* Writes of some files are finitely many events.
LEMMA WritesOfFiles ==
  ASSUME LedgerAssumption, NEW F \in SUBSET Files, NEW h \in [F -> Hashes],
         NEW S, \A x : x \in S <=> \E f \in F : x = WriteOf(f, h[f])
  PROVE  IsFiniteSet(S) /\ \A x \in S : x \in Event /\ x.kind = "write"
<1>1. PICK g : g = [f \in F |-> WriteOf(f, h[f])]
  OBVIOUS
<1>2. g \in [F -> S] /\ \A x \in S : \E f \in F : g[f] = x
  BY <1>1
<1>3. g \in Surjection(F, S)
  BY <1>2 DEF Surjection
<1>4. IsFiniteSet(F)
  BY FS_Subset DEF LedgerAssumption
<1>5. IsFiniteSet(S)
  BY <1>3, <1>4, FS_Surjection
<1>6. ASSUME NEW f \in F PROVE WriteOf(f, h[f]) \in Event /\ WriteOf(f, h[f]).kind = "write"
  <2>1. f \in Files /\ h[f] \in Hashes
    OBVIOUS
  <2>2. WriteOf(f, h[f]) \in WriteEvent
    BY <2>1 DEF WriteOf, WriteEvent
  <2>. QED BY <2>2 DEF WriteOf, Event
<1>. QED BY <1>5, <1>6

LEMMA SingleBatch ==
  ASSUME NEW d \in Event
  PROVE  Batch(<<d>>) /\ Len(<<d>>) = 1 /\ <<d>>[1] = d /\ 1..Len(<<d>>) = {1}
BY DEF Batch

LEMMA NoDrafts == Batch(<<>>) /\ Len(<<>>) = 0
BY DEF Batch

\* A scan records a write of every file that is not as last seen.
LEMMA ScanRecords ==
  ASSUME LedgerAssumption, Types, NEW o \in Scans
  PROVE  \E drafts :
            /\ Batch(drafts) /\ o \in Outcomes(ledger, drafts)
            /\ \A k \in 1..Len(drafts) : \E f \in Changed : drafts[k] = WriteOf(f, ScanHash(disk[f]))
            /\ \A f \in Changed : \E k \in 1..Len(drafts) : drafts[k] = WriteOf(f, ScanHash(disk[f]))
<1>1. PICK F, S : F = Changed /\ S = {WriteOf(f, ScanHash(disk[f])) : f \in Changed}
  OBVIOUS
<1>2. PICK h : h = [f \in F |-> ScanHash(disk[f])]
  OBVIOUS
<1>3. F \in SUBSET Files
  BY <1>1 DEF Changed
<1>4. h \in [F -> Hashes]
  BY <1>2, <1>3 DEF Types, ScanHash, Hashes
<1>5. \A x : x \in S <=> \E f \in F : x = WriteOf(f, h[f])
  BY <1>1, <1>2
<1>6. IsFiniteSet(S) /\ \A x \in S : x \in Event /\ x.kind = "write"
  BY <1>3, <1>4, <1>5, WritesOfFiles
<1>7. PICK drafts : drafts = SetToSeq(S)
  OBVIOUS
<1>8. /\ Batch(drafts)
      /\ \A k \in 1..Len(drafts) : drafts[k] \in S
      /\ \A x \in S : \E k \in 1..Len(drafts) : drafts[k] = x
  BY <1>6, <1>7, WritesListed
<1>9. o \in Outcomes(ledger, drafts)
  BY <1>1, <1>7 DEF Scans
<1>10. \A k \in 1..Len(drafts) : \E f \in Changed : drafts[k] = WriteOf(f, ScanHash(disk[f]))
  BY <1>1, <1>8
<1>11. \A f \in Changed : \E k \in 1..Len(drafts) : drafts[k] = WriteOf(f, ScanHash(disk[f]))
  BY <1>1, <1>8
<1>. QED BY <1>8, <1>9, <1>10, <1>11

\* The drafts of a step that records: a write, a check, or a scan.
LEMMA WriteDraft ==
  ASSUME Types, NEW f \in Files
  PROVE  WriteOf(f, disk[f]) \in Event
<1>1. disk[f] \in Hashes
  BY DEF Types, Hashes
<1>. QED BY <1>1 DEF WriteOf, WriteEvent, Event

LEMMA CheckDraft ==
  ASSUME Types, NEW c \in Checks
  PROVE  CheckOf(c, passed[c]) \in Event
<1>1. passed[c] \in BOOLEAN
  BY DEF Types
<1>. QED BY <1>1 DEF CheckOf, CheckEvent, Event

\* A step that records keeps the order of memory and file.
LEMMA RecordingStep ==
  ASSUME LedgerAssumption, BaseInv, up = "up", NEW drafts, Batch(drafts),
         NEW o \in Outcomes(ledger, drafts), Becomes(o)
  PROVE  /\ ledger' \in Ledgers /\ failures' \in Nat
         /\ Ordered(ledger'.mem) /\ (Readable(ledger'.lines) => Ordered(ledger'.lines))
         /\ Linked(ledger')
<1>1. ledger \in Ledgers /\ Ordered(ledger.mem) /\ failures \in Nat
      /\ (Readable(ledger.lines) => Ordered(ledger.lines)) /\ Linked(ledger)
  BY DEF BaseInv, Types
<1>2. /\ o.ok \in BOOLEAN /\ o.ledger \in Ledgers
      /\ \E n \in 0..Len(drafts) : o.ledger.mem = Grown(ledger.mem, drafts, n)
      /\ Linked(o.ledger)
      /\ Readable(o.ledger.lines) =>
            \/ o.ledger.lines = ledger.lines
            \/ \E n \in 0..Len(drafts) : o.ledger.lines = Grown(ledger.mem, drafts, n)
  BY <1>1, OutcomeFacts
<1>3. ledger' = o.ledger /\ failures' \in Nat
  BY <1>1, <1>2 DEF Becomes
<1>4. \A n \in 0..Len(drafts) : Ordered(Grown(ledger.mem, drafts, n))
  <2>1. ledger.mem \in Seq(Event)
    BY <1>1 DEF Ledgers
  <2>. QED BY <1>1, <2>1, GrownFacts
<1>5. Ordered(ledger'.mem) /\ (Readable(ledger'.lines) => Ordered(ledger'.lines))
  BY <1>1, <1>2, <1>3, <1>4
<1>. QED BY <1>2, <1>3, <1>5

-----------------------------------------------------------------------------
(* BaseInv is inductive *)

LEMMA ReadableIsTyped ==
  ASSUME NEW s \in Seq(Event \union {Garbled}), Readable(s)
  PROVE  s \in Seq(Event)
<1>1. s \o <<>> = s /\ <<>> \in Seq(Event \union {Garbled})
  BY ConcatEmptySeq
<1>2. Readable(s \o <<>>)
  BY <1>1
<1>. QED BY <1>1, <1>2, ReadablePrefix

LEMMA EmptyLog == <<>> \in Seq(Event) /\ Ordered(<<>>) /\ Len(<<>>) = 0
BY DEF Ordered

LEMMA LedgerFields ==
  ASSUME NEW L \in Ledgers
  PROVE  /\ L.mem \in Seq(Event) /\ L.lines \in Seq(Event \union {Garbled}) /\ L.torn \in BOOLEAN
         /\ [L EXCEPT !.mem = <<>>] \in Ledgers
         /\ [L EXCEPT !.mem = <<>>].mem = <<>>
         /\ [L EXCEPT !.mem = <<>>].lines = L.lines
         /\ [L EXCEPT !.mem = <<>>].torn = L.torn
<1>1. L.mem \in Seq(Event) /\ L.lines \in Seq(Event \union {Garbled}) /\ L.torn \in BOOLEAN
  BY DEF Ledgers
<1>2. <<>> \in Seq(Event)
  BY EmptyLog
<1>. QED BY <1>1, <1>2 DEF Ledgers

\* A write of no draft, or of one, is a batch.
LEMMA WriteRecords ==
  ASSUME Types, NEW f \in Files
  PROVE  \E drafts :
            /\ drafts = IF disk[f] = Missing THEN <<>> ELSE <<WriteOf(f, disk[f])>>
            /\ Batch(drafts)
            /\ \A k \in 1..Len(drafts) : drafts[k] = WriteOf(f, disk[f]) /\ disk[f] # Missing
<1>1. CASE disk[f] = Missing
  BY <1>1, NoDrafts
<1>2. CASE disk[f] # Missing
  <2>1. WriteOf(f, disk[f]) \in Event
    BY WriteDraft
  <2>2. PICK d : d = WriteOf(f, disk[f])
    OBVIOUS
  <2>3. Batch(<<d>>) /\ 1..Len(<<d>>) = {1} /\ <<d>>[1] = d
    BY <2>1, <2>2, SingleBatch
  <2>4. \A k \in 1..Len(<<d>>) : <<d>>[k] = d
    BY <2>3
  <2>. QED BY <1>2, <2>2, <2>3, <2>4
<1>. QED BY <1>1, <1>2

LEMMA PendingEvents ==
  ASSUME LedgerAssumption, Types
  PROVE  \A draft \in Pending : draft \in Event
<1>1. \A w \in Writers : Target[w] \in Files
  BY DEF LedgerAssumption
<1>2. \A w \in Writers : WriteOf(Target[w], disk[Target[w]]) \in Event
  BY <1>1, WriteDraft
<1>3. \A c \in Checks : CheckOf(c, passed[c]) \in Event
  BY CheckDraft
<1>. QED BY <1>2, <1>3 DEF Pending

\* Dying leaves the file as it was, or with the line of a call that was recording.
LEMMA CrashFacts ==
  ASSUME LedgerAssumption, BaseInv, Crash
  PROVE  /\ ledger' \in Ledgers /\ ledger'.mem = <<>>
         /\ Readable(ledger'.lines) =>
               \/ ledger'.lines = ledger.lines
               \/ \E draft \in Pending : /\ Batch(<<draft>>)
                                         /\ \E n \in 0..1 : ledger'.lines = Grown(ledger.mem, <<draft>>, n)
         /\ Readable(ledger'.lines) => Ordered(ledger'.lines)
<1>1. /\ Types /\ ledger \in Ledgers /\ Ordered(ledger.mem) /\ Linked(ledger)
      /\ Readable(ledger.lines) => Ordered(ledger.lines)
  BY DEF BaseInv, Types, Crash
<1>2. \/ ledger' = [ledger EXCEPT !.mem = <<>>]
      \/ \E draft \in Pending, how \in {"torn", "whole"} :
            ledger' = [Rejected(ledger, <<draft>>, 1, how) EXCEPT !.mem = <<>>]
  BY DEF Crash
<1>3. CASE ledger' = [ledger EXCEPT !.mem = <<>>]
  BY <1>1, <1>3, LedgerFields
<1>4. ASSUME NEW draft \in Pending, NEW how \in {"torn", "whole"},
             NEW left, left = Rejected(ledger, <<draft>>, 1, how)
      PROVE  /\ Batch(<<draft>>)
             /\ left \in Ledgers
             /\ Readable(left.lines) =>
                   \/ left.lines = ledger.lines
                   \/ \E n \in 0..1 : left.lines = Grown(ledger.mem, <<draft>>, n)
             /\ Readable(left.lines) => Ordered(left.lines)
  <2>1. draft \in Event
    BY <1>1, PendingEvents
  <2>2. Batch(<<draft>>) /\ Len(<<draft>>) = 1 /\ 1 \in 1..Len(<<draft>>)
    BY <2>1, SingleBatch
  <2>3. how \in {"nothing", "torn", "whole"}
    OBVIOUS
  <2>4. /\ left \in Ledgers
        /\ Readable(left.lines) =>
              \/ left.lines = ledger.lines
              \/ \E n \in 0..Len(<<draft>>) : left.lines = Grown(ledger.mem, <<draft>>, n)
    <3>1. PICK drafts, k : drafts = <<draft>> /\ k = 1
      OBVIOUS
    <3>2. Batch(drafts) /\ k \in 1..Len(drafts) /\ left = Rejected(ledger, drafts, k, how)
      BY <3>1, <2>2, <1>4
    <3>3. ledger \in Ledgers /\ Ordered(ledger.mem) /\ Linked(ledger)
      BY <1>1
    <3>4. /\ left \in Ledgers
          /\ Readable(left.lines) =>
                \/ left.lines = ledger.lines
                \/ \E n \in 0..Len(drafts) : left.lines = Grown(ledger.mem, drafts, n)
      BY <3>2, <3>3, <2>3, RejectedFacts
    <3>. QED BY <3>1, <3>4
  <2>5. ledger.mem \in Seq(Event)
    BY <1>1, LedgerFields
  <2>6. \A n \in 0..Len(<<draft>>) : Ordered(Grown(ledger.mem, <<draft>>, n))
    BY <1>1, <2>2, <2>5, GrownFacts
  <2>7. Readable(left.lines) => Ordered(left.lines)
    BY <1>1, <2>4, <2>6
  <2>. QED BY <2>2, <2>4, <2>7
<1>5. ASSUME NEW draft \in Pending, NEW how \in {"torn", "whole"},
             ledger' = [Rejected(ledger, <<draft>>, 1, how) EXCEPT !.mem = <<>>]
      PROVE  /\ ledger' \in Ledgers /\ ledger'.mem = <<>>
             /\ Batch(<<draft>>)
             /\ Readable(ledger'.lines) =>
                   \/ ledger'.lines = ledger.lines
                   \/ \E n \in 0..1 : ledger'.lines = Grown(ledger.mem, <<draft>>, n)
             /\ Readable(ledger'.lines) => Ordered(ledger'.lines)
  <2>1. PICK left : left = Rejected(ledger, <<draft>>, 1, how)
    OBVIOUS
  <2>2. /\ Batch(<<draft>>)
        /\ left \in Ledgers
        /\ Readable(left.lines) =>
              \/ left.lines = ledger.lines
              \/ \E n \in 0..1 : left.lines = Grown(ledger.mem, <<draft>>, n)
        /\ Readable(left.lines) => Ordered(left.lines)
    BY <2>1, <1>4
  <2>3. ledger' = [left EXCEPT !.mem = <<>>]
    BY <2>1, <1>5
  <2>4. ledger' \in Ledgers /\ ledger'.mem = <<>> /\ ledger'.lines = left.lines
    BY <2>2, <2>3, LedgerFields
  <2>. QED BY <2>2, <2>4
<1>. QED BY <1>2, <1>3, <1>5

\* Opening replays the file if it can be read, and records what has diverged.
LEMMA OpenFacts ==
  ASSUME LedgerAssumption, BaseInv, Open
  PROVE  \E L, drafts, o :
            /\ L \in Ledgers /\ Ordered(L.mem) /\ Linked(L) /\ L.lines = ledger.lines /\ ~ L.torn
            /\ L.mem = IF Readable(ledger.lines) THEN ledger.lines ELSE <<>>
            /\ Batch(drafts) /\ o \in Outcomes(L, drafts)
            /\ \A k \in 1..Len(drafts) : \E f \in Diverged(L.mem) : drafts[k] = WriteOf(f, disk[f])
            /\ \A f \in Diverged(L.mem) : \E k \in 1..Len(drafts) : drafts[k] = WriteOf(f, disk[f])
            /\ ledger' = IF o.ok THEN o.ledger ELSE [o.ledger EXCEPT !.mem = <<>>]
            /\ failures' = IF o.ok THEN failures ELSE failures + 1
            /\ up' = IF ~Readable(ledger.lines) THEN "corrupt" ELSE IF o.ok THEN "up" ELSE "down"
            /\ opened' = IF o.ok THEN Len(L.mem) ELSE opened
<1>1. PICK L : L = Loaded(ledger)
  OBVIOUS
<1>2. /\ Types /\ ledger \in Ledgers
      /\ Readable(ledger.lines) => Ordered(ledger.lines)
  BY DEF BaseInv, Types
<1>3. /\ L.mem = IF Readable(ledger.lines) THEN ledger.lines ELSE <<>>
      /\ L.lines = ledger.lines /\ L.torn = FALSE
      /\ L = [mem |-> L.mem, lines |-> L.lines, torn |-> L.torn]
  BY <1>1 DEF Loaded
<1>4. L.mem \in Seq(Event) /\ Ordered(L.mem)
  BY <1>2, <1>3, ReadableIsTyped, LedgerFields, EmptyLog
<1>5. L \in Ledgers
  <2>1. L.lines \in Seq(Event \union {Garbled}) /\ L.torn \in BOOLEAN
    BY <1>2, <1>3, LedgerFields
  <2>2. L = [mem |-> L.mem, lines |-> L.lines, torn |-> L.torn]
    BY <1>3
  <2>. QED BY <2>1, <2>2, <1>4 DEF Ledgers
<1>6. Linked(L)
  BY <1>3 DEF Linked
<1>7. PICK F, S, drafts : /\ F = Diverged(L.mem) /\ S = {WriteOf(f, disk[f]) : f \in F}
                          /\ drafts = SetToSeq(S)
  OBVIOUS
<1>8. \E o \in Outcomes(L, drafts) :
         /\ ledger' = IF o.ok THEN o.ledger ELSE [o.ledger EXCEPT !.mem = <<>>]
         /\ failures' = IF o.ok THEN failures ELSE failures + 1
         /\ up' = IF ~Readable(L.lines) THEN "corrupt" ELSE IF o.ok THEN "up" ELSE "down"
         /\ opened' = IF o.ok THEN Len(L.mem) ELSE opened
  BY <1>1, <1>7 DEF Open
<1>9. F \in SUBSET Files
  BY <1>7 DEF Diverged
<1>10. PICK h : h = [f \in F |-> disk[f]]
  OBVIOUS
<1>11. h \in [F -> Hashes]
  BY <1>2, <1>9, <1>10 DEF Types, Hashes
<1>12. \A x : x \in S <=> \E f \in F : x = WriteOf(f, h[f])
  BY <1>7, <1>10
<1>13. IsFiniteSet(S) /\ \A x \in S : x \in Event /\ x.kind = "write"
  BY <1>9, <1>11, <1>12, WritesOfFiles
<1>14. /\ Batch(drafts)
       /\ \A k \in 1..Len(drafts) : drafts[k] \in S
       /\ \A x \in S : \E k \in 1..Len(drafts) : drafts[k] = x
  <2>1. drafts = SetToSeq(S)
    BY <1>7
  <2>. QED BY <2>1, <1>13, WritesListed
<1>15. ASSUME NEW k \in 1..Len(drafts)
       PROVE  \E f \in Diverged(L.mem) : drafts[k] = WriteOf(f, disk[f])
  <2>1. F = Diverged(L.mem) /\ S = {WriteOf(f, disk[f]) : f \in F}
    BY <1>7
  <2>2. drafts[k] \in S
    BY <1>14
  <2>. QED BY <2>1, <2>2
<1>16. \A f \in Diverged(L.mem) : \E k \in 1..Len(drafts) : drafts[k] = WriteOf(f, disk[f])
  BY <1>7, <1>14
<1>. QED BY <1>3, <1>4, <1>5, <1>6, <1>8, <1>14, <1>15, <1>16

\* Nothing diverges from an empty history.
LEMMA NothingDiverged == Diverged(<<>>) = {}
<1>1. \A f \in Files : WritesTo(<<>>, {f}) = {}
  BY EmptyLog DEF WritesTo
<1>. QED BY <1>1 DEF Diverged

LEMMA OpenKeepsOrder ==
  ASSUME LedgerAssumption, BaseInv, Open
  PROVE  /\ ledger' \in Ledgers /\ failures' \in Nat /\ opened' \in Nat
         /\ up' \in {"up", "down", "corrupt"}
         /\ Ordered(ledger'.mem) /\ (Readable(ledger'.lines) => Ordered(ledger'.lines))
         /\ up' = "up" => Linked(ledger')
         /\ up' # "up" => ledger'.mem = <<>>
<1>1. PICK L, drafts, o :
         /\ L \in Ledgers /\ Ordered(L.mem) /\ Linked(L) /\ L.lines = ledger.lines
         /\ L.mem = IF Readable(ledger.lines) THEN ledger.lines ELSE <<>>
         /\ Batch(drafts) /\ o \in Outcomes(L, drafts)
         /\ \A k \in 1..Len(drafts) : \E f \in Diverged(L.mem) : drafts[k] = WriteOf(f, disk[f])
         /\ ledger' = IF o.ok THEN o.ledger ELSE [o.ledger EXCEPT !.mem = <<>>]
         /\ failures' = IF o.ok THEN failures ELSE failures + 1
         /\ up' = IF ~Readable(ledger.lines) THEN "corrupt" ELSE IF o.ok THEN "up" ELSE "down"
         /\ opened' = IF o.ok THEN Len(L.mem) ELSE opened
  BY OpenFacts
<1>2. /\ o.ok \in BOOLEAN /\ o.ledger \in Ledgers
      /\ \E n \in 0..Len(drafts) : o.ledger.mem = Grown(L.mem, drafts, n)
      /\ Linked(o.ledger)
      /\ Readable(o.ledger.lines) =>
            \/ o.ledger.lines = L.lines
            \/ \E n \in 0..Len(drafts) : o.ledger.lines = Grown(L.mem, drafts, n)
  BY <1>1, OutcomeFacts
<1>3. L.mem \in Seq(Event) /\ failures \in Nat /\ opened \in Nat
      /\ (Readable(ledger.lines) => Ordered(ledger.lines))
  BY <1>1, LedgerFields DEF BaseInv, Types
<1>4. \A n \in 0..Len(drafts) : Ordered(Grown(L.mem, drafts, n))
  BY <1>1, <1>3, GrownFacts
<1>5. ledger' \in Ledgers /\ ledger'.lines = o.ledger.lines
      /\ ledger'.mem = IF o.ok THEN o.ledger.mem ELSE <<>>
  BY <1>1, <1>2, LedgerFields
<1>6. Ordered(ledger'.mem) /\ (Readable(ledger'.lines) => Ordered(ledger'.lines))
  BY <1>1, <1>2, <1>3, <1>4, <1>5, EmptyLog
<1>7. up' = "up" => Linked(ledger')
  BY <1>1, <1>2
<1>8. ASSUME up' # "up" PROVE ledger'.mem = <<>>
  <2>1. CASE ~ o.ok
    BY <2>1, <1>5
  <2>2. CASE o.ok /\ ~ Readable(ledger.lines)
    <3>1. L.mem = <<>> /\ Diverged(L.mem) = {}
      BY <2>2, <1>1, NothingDiverged
    <3>2. Len(drafts) = 0
      <4>1. Len(drafts) \in Nat /\ ~ (1 \in 1..Len(drafts))
        BY <1>1, <3>1 DEF Batch
      <4>. QED BY <4>1
    <3>3. PICK n \in 0..Len(drafts) : o.ledger.mem = Grown(L.mem, drafts, n)
      BY <1>2
    <3>4. n = 0
      BY <3>2
    <3>5. Len(o.ledger.mem) = Len(L.mem) + n /\ o.ledger.mem \in Seq(Event)
      <4>1. \A m \in 0..Len(drafts) : /\ Len(Grown(L.mem, drafts, m)) = Len(L.mem) + m
                                      /\ Grown(L.mem, drafts, m) \in Seq(Event)
        <5>1. L.mem \in Seq(Event) /\ Ordered(L.mem) /\ Batch(drafts)
          BY <1>1, <1>3
        <5>. QED BY <5>1, GrownFacts
      <4>. QED BY <4>1, <3>3
    <3>6. Len(o.ledger.mem) = 0
      BY <3>1, <3>4, <3>5, EmptyLog
    <3>7. o.ledger.mem = <<>>
      BY <3>5, <3>6
    <3>. QED BY <3>7, <2>2, <1>5
  <2>. QED BY <2>1, <2>2, <1>1, <1>2, <1>8
<1>9. opened' \in Nat /\ failures' \in Nat /\ up' \in {"up", "down", "corrupt"}
  BY <1>1, <1>2, <1>3
<1>. QED BY <1>5, <1>6, <1>7, <1>8, <1>9

LEMMA ScanStep ==
  ASSUME LedgerAssumption, BaseInv, up = "up", NEW o \in Scans, NEW enable \in BOOLEAN,
         Scanned(o, enable)
  PROVE  /\ ledger' \in Ledgers /\ failures' \in Nat /\ o.ok \in BOOLEAN
         /\ Ordered(ledger'.mem) /\ (Readable(ledger'.lines) => Ordered(ledger'.lines))
         /\ Linked(ledger')
         /\ sources' \in [Files -> Nat] \union {NoScan}
<1>1. Types /\ Becomes(o)
  BY DEF BaseInv, Scanned
<1>2. PICK drafts : Batch(drafts) /\ o \in Outcomes(ledger, drafts)
  BY <1>1, ScanRecords
<1>3. sources' \in {sources, disk}
  BY DEF Scanned
<1>4. ledger \in Ledgers /\ Ordered(ledger.mem)
  BY DEF BaseInv, Types
<1>5. o.ok \in BOOLEAN
  BY <1>2, <1>4, OutcomeFacts
<1>. QED BY <1>1, <1>2, <1>3, <1>5, RecordingStep DEF Types

LEMMA WriteStep ==
  ASSUME LedgerAssumption, BaseInv, NEW w \in Writers, RecordWrite(w)
  PROVE  \E drafts, o :
            /\ Batch(drafts) /\ o \in Outcomes(ledger, drafts) /\ Becomes(o)
            /\ \A k \in 1..Len(drafts) : /\ drafts[k] = WriteOf(Target[w], disk[Target[w]])
                                         /\ disk[Target[w]] # Missing
<1>1. Target[w] \in Files /\ Types
  BY DEF LedgerAssumption, BaseInv
<1>2. PICK drafts :
         /\ drafts = IF disk[Target[w]] = Missing THEN <<>> ELSE <<WriteOf(Target[w], disk[Target[w]])>>
         /\ Batch(drafts)
         /\ \A k \in 1..Len(drafts) : /\ drafts[k] = WriteOf(Target[w], disk[Target[w]])
                                      /\ disk[Target[w]] # Missing
  BY <1>1, WriteRecords
<1>3. PICK o \in Outcomes(ledger, drafts) : Becomes(o)
  BY <1>2 DEF RecordWrite
<1>. QED BY <1>2, <1>3

LEMMA CheckStep ==
  ASSUME LedgerAssumption, BaseInv, NEW c \in Checks, RecordCheck(c)
  PROVE  \E drafts, o :
            /\ Batch(drafts) /\ o \in Outcomes(ledger, drafts) /\ Becomes(o)
            /\ Len(drafts) = 1 /\ drafts[1] = CheckOf(c, passed[c])
            /\ Goto(c, IF o.ok \/ by[c] # "observe" THEN "done" ELSE "background")
<1>1. CheckOf(c, passed[c]) \in Event
  BY CheckDraft DEF BaseInv
<1>2. PICK d : d = CheckOf(c, passed[c])
  OBVIOUS
<1>3. Batch(<<d>>) /\ Len(<<d>>) = 1 /\ <<d>>[1] = d
  BY <1>1, <1>2, SingleBatch
<1>4. \E o \in Outcomes(ledger, <<d>>) :
         Becomes(o) /\ Goto(c, IF o.ok \/ by[c] # "observe" THEN "done" ELSE "background")
  BY <1>2 DEF RecordCheck
<1>. QED BY <1>2, <1>3, <1>4

LEMMA BaseInit == Init => BaseInv
<1>1. SUFFICES ASSUME Init PROVE BaseInv
  OBVIOUS
<1>2. ledger = [mem |-> <<>>, lines |-> <<>>, torn |-> FALSE]
  BY <1>1 DEF Init
<1>3. ledger.mem = <<>> /\ ledger.lines = <<>> /\ ledger \in Ledgers
  BY <1>2 DEF Ledgers
<1>4. Types
  <2>1. disk \in [Files -> Nat] /\ saw \in [Checks -> [Files -> Nat] \union {NoScan}]
    BY <1>1 DEF Init, Original
  <2>. QED BY <1>1, <1>3, <2>1 DEF Init, Types, Active
<1>5. Linked(ledger)
  BY <1>3 DEF Linked
<1>. QED BY <1>1, <1>3, <1>4, <1>5, EmptyLog DEF BaseInv, Init

LEMMA BaseStep ==
  ASSUME LedgerAssumption, BaseInv, [Next]_vars
  PROVE  BaseInv'
<1>1. /\ Types /\ Ordered(ledger.mem) /\ (Readable(ledger.lines) => Ordered(ledger.lines))
      /\ (up = "up" => Linked(ledger)) /\ (up # "up" => ledger.mem = <<>>)
  BY DEF BaseInv
<1>. USE DEF Goto, world, calls, process
<1>2. ASSUME UNCHANGED <<ledger, up>>, Types' PROVE BaseInv'
  <2>1. ledger' = ledger /\ up' = up
    BY <1>2
  <2>. QED BY <1>1, <1>2, <2>1 DEF BaseInv
<1>3. ASSUME up = "up", up' = "up", Types', Ordered(ledger'.mem), Linked(ledger'),
             Readable(ledger'.lines) => Ordered(ledger'.lines)
      PROVE  BaseInv'
  BY <1>3 DEF BaseInv
<1>4. ASSUME NEW f \in Files, Edit(f) \/ Delete(f) PROVE BaseInv'
  <2>1. CASE Edit(f)
    <3>1. Types' /\ UNCHANGED <<ledger, up>>
      BY <1>1, <2>1 DEF Types, Edit, Change
    <3>. QED BY <3>1, <1>2
  <2>2. CASE Delete(f)
    <3>1. Types' /\ UNCHANGED <<ledger, up>>
      BY <1>1, <2>2 DEF Types, Delete, Change, Missing
    <3>. QED BY <3>1, <1>2
  <2>. QED BY <1>4, <2>1, <2>2
<1>5. ASSUME NEW w \in Writers, WriteFile(w) PROVE BaseInv'
  <2>1. Target[w] \in Files
    BY DEF LedgerAssumption
  <2>2. Types' /\ UNCHANGED <<ledger, up>>
    BY <1>1, <1>5, <2>1 DEF Types, WriteFile, Change
  <2>. QED BY <2>2, <1>2
<1>6. ASSUME NEW w \in Writers, RecordWrite(w) PROVE BaseInv'
  <2>1. PICK drafts, o : Batch(drafts) /\ o \in Outcomes(ledger, drafts) /\ Becomes(o)
    BY <1>6, WriteStep
  <2>2. up = "up" /\ up' = "up"
    BY <1>6 DEF RecordWrite
  <2>3. /\ ledger' \in Ledgers /\ failures' \in Nat
        /\ Ordered(ledger'.mem) /\ (Readable(ledger'.lines) => Ordered(ledger'.lines))
        /\ Linked(ledger')
    BY <2>1, <2>2, RecordingStep
  <2>4. Types'
    BY <1>1, <1>6, <2>3 DEF Types, RecordWrite
  <2>. QED BY <2>2, <2>3, <2>4, <1>3
<1>7. ASSUME NEW o \in Scans, NEW enable \in BOOLEAN, Scanned(o, enable), up = "up", up' = "up",
             UNCHANGED <<disk, opened, saw, passed, changes, crashes>>,
             stage' \in [Writers \union Checks -> {"idle", "written", "done"} \union Active],
             by' \in [Checks -> {"shell", "await", "observe"}],
             o.ok \in BOOLEAN /\ (ledger' \in Ledgers /\ Ordered(ledger'.mem)) => started' \in [Checks -> Nat]
      PROVE  BaseInv'
  <2>1. /\ ledger' \in Ledgers /\ failures' \in Nat /\ o.ok \in BOOLEAN
        /\ Ordered(ledger'.mem) /\ (Readable(ledger'.lines) => Ordered(ledger'.lines))
        /\ Linked(ledger')
        /\ sources' \in [Files -> Nat] \union {NoScan}
    BY <1>7, ScanStep
  <2>2. Types'
    BY <1>1, <1>7, <2>1 DEF Types
  <2>. QED BY <1>7, <2>1, <2>2, <1>3
<1>8. ASSUME NEW c \in Checks, Begin(c) PROVE BaseInv'
  <2>1. PICK o \in Scans : /\ Scanned(o, TRUE)
                           /\ Goto(c, IF o.ok THEN "running" ELSE "done")
                           /\ started' = [started EXCEPT ![c] = IF o.ok THEN Revision(o.ledger.mem) ELSE 0]
    BY <1>8 DEF Begin
  <2>2. up = "up" /\ up' = "up" /\ UNCHANGED <<disk, opened, saw, passed, changes, crashes, by>>
    BY <1>8 DEF Begin, Free
  <2>3. stage' \in [Writers \union Checks -> {"idle", "written", "done"} \union Active]
        /\ by' \in [Checks -> {"shell", "await", "observe"}]
    BY <1>1, <2>1, <2>2 DEF Types, Active
  <2>4. ASSUME o.ok \in BOOLEAN, ledger' \in Ledgers, Ordered(ledger'.mem)
        PROVE  started' \in [Checks -> Nat]
    <3>1. o.ledger = ledger'
      BY <2>1 DEF Scanned, Becomes
    <3>2. Revision(o.ledger.mem) \in Nat
      BY <3>1, <2>4, LedgerFields, LogFacts
    <3>. QED BY <3>2, <2>1, <1>1 DEF Types
  <2>. QED BY <2>1, <2>2, <2>3, <2>4, <1>7
<1>9. ASSUME NEW c \in Checks, ExitScan(c) PROVE BaseInv'
  <2>1. PICK o \in Scans : Scanned(o, FALSE) /\ Goto(c, IF o.ok THEN "scanned" ELSE "done")
    BY <1>9 DEF ExitScan
  <2>2. up = "up" /\ up' = "up"
        /\ UNCHANGED <<disk, opened, saw, passed, changes, crashes, by, started>>
    BY <1>9 DEF ExitScan
  <2>3. stage' \in [Writers \union Checks -> {"idle", "written", "done"} \union Active]
        /\ by' \in [Checks -> {"shell", "await", "observe"}] /\ started' \in [Checks -> Nat]
    BY <1>1, <2>1, <2>2 DEF Types, Active
  <2>. QED BY <2>1, <2>2, <2>3, <1>7
<1>10. ASSUME NEW c \in Checks, NEW tool \in {"await", "observe"}, Collect(c, tool) PROVE BaseInv'
  <2>1. PICK o \in Scans : Scanned(o, FALSE) /\ Goto(c, IF o.ok THEN "scanned" ELSE "background")
    BY <1>10 DEF Collect
  <2>2. up = "up" /\ up' = "up" /\ by' = [by EXCEPT ![c] = tool]
        /\ UNCHANGED <<disk, opened, saw, passed, changes, crashes, started>>
    BY <1>10 DEF Collect, Free
  <2>3. stage' \in [Writers \union Checks -> {"idle", "written", "done"} \union Active]
        /\ by' \in [Checks -> {"shell", "await", "observe"}] /\ started' \in [Checks -> Nat]
    BY <1>1, <2>1, <2>2 DEF Types, Active
  <2>. QED BY <2>1, <2>2, <2>3, <1>7
<1>11. ASSUME NEW c \in Checks, Kill(c) PROVE BaseInv'
  <2>1. PICK o \in Scans : Scanned(o, FALSE) /\ Goto(c, IF o.ok THEN "done" ELSE "background")
    BY <1>11 DEF Kill
  <2>2. up = "up" /\ up' = "up"
        /\ UNCHANGED <<disk, opened, saw, passed, changes, crashes, by, started>>
    BY <1>11 DEF Kill, Free
  <2>3. stage' \in [Writers \union Checks -> {"idle", "written", "done"} \union Active]
        /\ by' \in [Checks -> {"shell", "await", "observe"}] /\ started' \in [Checks -> Nat]
    BY <1>1, <2>1, <2>2 DEF Types, Active
  <2>. QED BY <2>1, <2>2, <2>3, <1>7
<1>12. ASSUME Assess PROVE BaseInv'
  <2>1. PICK o \in Scans : Scanned(o, FALSE)
    BY <1>12 DEF Assess
  <2>2. up = "up" /\ up' = "up"
        /\ UNCHANGED <<disk, opened, saw, passed, changes, crashes, by, started, stage>>
    BY <1>12 DEF Assess, Free
  <2>3. stage' \in [Writers \union Checks -> {"idle", "written", "done"} \union Active]
        /\ by' \in [Checks -> {"shell", "await", "observe"}] /\ started' \in [Checks -> Nat]
    BY <1>1, <2>2 DEF Types
  <2>. QED BY <2>1, <2>2, <2>3, <1>7
<1>13. ASSUME NEW c \in Checks, Detach(c) \/ Exits(c) \/ Judge(c) PROVE BaseInv'
  <2>1. Undisturbed(c) \in BOOLEAN
    BY DEF Undisturbed
  <2>2. Types' /\ UNCHANGED <<ledger, up>>
    <3>1. CASE Detach(c)
      BY <1>1, <3>1 DEF Types, Detach, Active
    <3>2. CASE Exits(c)
      BY <1>1, <3>2 DEF Types, Exits
    <3>3. CASE Judge(c)
      BY <1>1, <2>1, <3>3 DEF Types, Judge, Active
    <3>. QED BY <1>13, <3>1, <3>2, <3>3
  <2>. QED BY <2>2, <1>2
<1>14. ASSUME NEW c \in Checks, RecordCheck(c) PROVE BaseInv'
  <2>1. PICK drafts, o : /\ Batch(drafts) /\ o \in Outcomes(ledger, drafts) /\ Becomes(o)
                         /\ Goto(c, IF o.ok \/ by[c] # "observe" THEN "done" ELSE "background")
    BY <1>14, CheckStep
  <2>2. up = "up" /\ up' = "up" /\ UNCHANGED <<sources, disk, changes, by, started, saw, passed, opened, crashes>>
    BY <1>14 DEF RecordCheck
  <2>3. /\ ledger' \in Ledgers /\ failures' \in Nat
        /\ Ordered(ledger'.mem) /\ (Readable(ledger'.lines) => Ordered(ledger'.lines))
        /\ Linked(ledger')
    BY <2>1, <2>2, RecordingStep
  <2>4. Types'
    BY <1>1, <2>1, <2>2, <2>3 DEF Types, Active
  <2>. QED BY <2>2, <2>3, <2>4, <1>3
<1>15. ASSUME Crash PROVE BaseInv'
  <2>1. /\ ledger' \in Ledgers /\ ledger'.mem = <<>>
        /\ Readable(ledger'.lines) => Ordered(ledger'.lines)
    BY <1>15, CrashFacts
  <2>2. up' = "down"
    BY <1>15 DEF Crash
  <2>3. Types'
    BY <1>1, <1>15, <2>1 DEF Types, Crash
  <2>. QED BY <2>1, <2>2, <2>3, EmptyLog DEF BaseInv
<1>16. ASSUME Open PROVE BaseInv'
  <2>1. /\ ledger' \in Ledgers /\ failures' \in Nat /\ opened' \in Nat
        /\ up' \in {"up", "down", "corrupt"}
        /\ Ordered(ledger'.mem) /\ (Readable(ledger'.lines) => Ordered(ledger'.lines))
        /\ up' = "up" => Linked(ledger')
        /\ up' # "up" => ledger'.mem = <<>>
    BY <1>16, OpenKeepsOrder
  <2>2. Types'
    BY <1>1, <1>16, <2>1 DEF Types, Open
  <2>. QED BY <2>1, <2>2 DEF BaseInv
<1>17. ASSUME UNCHANGED vars PROVE BaseInv'
  <2>1. Types' /\ UNCHANGED <<ledger, up>>
    BY <1>1, <1>17 DEF Types, vars
  <2>. QED BY <2>1, <1>2
<1>. QED BY <1>4, <1>5, <1>6, <1>8, <1>9, <1>10, <1>11, <1>12, <1>13, <1>14, <1>15, <1>16, <1>17 DEF Next

\* For any number of calls in flight: what Ledger.Record gives to events keeps memory in
\* order, so does replaying the file (FileLedgerStore.Load, Reduce), and the file holds
\* at most one line that memory does not (Ledger.appendLocked fails after the write).
THEOREM Invariance == Spec => []BaseInv
<1>1. LedgerAssumption
  BY LedgerAssumption
<1>2. BaseInv /\ [Next]_vars => BaseInv'
  BY <1>1, BaseStep
<1>. QED BY <1>2, BaseInit, PTL DEF Spec

-----------------------------------------------------------------------------
(* What a failing append can do to the file, and nothing else *)

\* What a step may do to the file.
DurableStep ==
    /\ Leftover' => Leftover \/ failures' > failures
    /\ Readable(ledger.lines) /\ ~Readable(ledger'.lines) => Leftover

\* The file is memory.
Clean(L) == L \in Ledgers /\ Ordered(L.mem) /\ L.lines = L.mem /\ ~ L.torn

\* What is recorded of some drafts reaches memory and the file alike.
LEMMA CleanRecorded ==
  ASSUME NEW L, Clean(L), NEW drafts, Batch(drafts),
         NEW n \in 0..Len(drafts), NEW R, R = Recorded(L, SubSeq(drafts, 1, n))
  PROVE  Clean(R) /\ R.mem = Grown(L.mem, drafts, n)
<1>1. L \in Ledgers /\ Ordered(L.mem) /\ L.lines = L.mem /\ ~ L.torn
  BY DEF Clean
<1>2. /\ R \in Ledgers
      /\ R.mem = Grown(L.mem, drafts, n)
      /\ n = 0 => R = L
      /\ n > 0 => ~ R.torn /\ (~ L.torn /\ L.lines = L.mem => R.lines = R.mem)
  BY <1>1, RecordedFacts
<1>3. R.lines = R.mem /\ ~ R.torn
  <2>1. n = 0 \/ n > 0
    BY DEF Batch
  <2>. QED BY <2>1, <1>1, <1>2
<1>4. Ordered(R.mem)
  <2>1. L.mem \in Seq(Event)
    BY <1>1, LedgerFields
  <2>. QED BY <2>1, <1>1, <1>2, GrownFacts
<1>. QED BY <1>2, <1>3, <1>4 DEF Clean

\* A file that is what memory holds can be read.
LEMMA CleanReadable ==
  ASSUME NEW L, Clean(L)
  PROVE  Readable(L.lines)
<1>1. L.mem \in Seq(Event)
  BY LedgerFields DEF Clean
<1>. QED BY <1>1, OrderedReadable DEF Clean

\* An append that fails on a file that is memory leaves a file that can be read.
LEMMA CleanRejected ==
  ASSUME NEW L, Clean(L), NEW drafts, Batch(drafts), NEW k \in 1..Len(drafts),
         NEW how \in {"nothing", "torn", "whole"}, NEW R, R = Rejected(L, drafts, k, how)
  PROVE  R \in Ledgers /\ Readable(R.lines)
<1>1. L \in Ledgers /\ Ordered(L.mem) /\ L.mem \in Seq(Event)
  BY LedgerFields DEF Clean
<1>2. k - 1 \in 0..Len(drafts) /\ k \in 0..Len(drafts)
  BY DEF Batch
<1>3. R \in Ledgers
  BY <1>1, RejectedFacts
<1>4. PICK B : B = Recorded(L, SubSeq(drafts, 1, k - 1))
  OBVIOUS
<1>5. Clean(B) /\ B.mem = Grown(L.mem, drafts, k - 1)
  BY <1>2, <1>4, CleanRecorded
<1>6. B \in Ledgers /\ B.lines = B.mem /\ ~ B.torn /\ B.mem \in Seq(Event) /\ Readable(B.lines)
  BY <1>5, LedgerFields, CleanReadable DEF Clean
<1>7. CASE how = "nothing"
  BY <1>3, <1>4, <1>6, <1>7 DEF Rejected
<1>8. CASE how = "torn"
  <2>1. R = [B EXCEPT !.torn = TRUE]
    BY <1>4, <1>8 DEF Rejected
  <2>2. R.lines = B.lines
    BY <2>1, <1>6 DEF Ledgers
  <2>. QED BY <2>2, <1>3, <1>6
<1>9. CASE how = "whole"
  <2>1. PICK e : e = Assigned(L.mem, drafts, k)
    OBVIOUS
  <2>2. e \in Event
    BY <2>1, <1>1, AssignedFacts
  <2>3. R = Persisted(B, <<e>>)
    BY <2>1, <1>4, <1>9 DEF Rejected
  <2>4. Lines(B, <<e>>) = [i \in 1..1 |-> <<e>>[i]]
    BY <1>6 DEF Lines
  <2>5. Lines(B, <<e>>) = <<e>>
    BY <2>4
  <2>6. R.lines = B.mem \o <<e>>
    BY <2>3, <2>5, <1>6 DEF Persisted, Ledgers
  <2>7. R.lines = Append(B.mem, e)
    BY <2>6, <2>2, <1>6, AppendIsConcat
  <2>8. R.lines = Grown(L.mem, drafts, k)
    BY <2>1, <2>7, <1>1, <1>5, GrownNext
  <2>9. Grown(L.mem, drafts, k) \in Seq(Event) /\ Ordered(Grown(L.mem, drafts, k))
    BY <1>1, <1>2, GrownFacts
  <2>. QED BY <2>8, <2>9, <1>3, OrderedReadable
<1>. QED BY <1>7, <1>8, <1>9

\* However recording some drafts ends on a file that is memory, the file can be read,
\* and is memory again unless it ended with an error.
LEMMA CleanOutcome ==
  ASSUME LedgerAssumption, NEW L, Clean(L), NEW drafts, Batch(drafts),
         NEW o \in Outcomes(L, drafts)
  PROVE  Readable(o.ledger.lines) /\ (o.ok => Clean(o.ledger))
<1>1. drafts \in Seq(Event) /\ Len(drafts) \in Nat /\ DOMAIN drafts = 1..Len(drafts)
  BY DEF Batch
<1>2. CASE o = [ledger |-> Recorded(L, drafts), ok |-> TRUE]
  <2>1. SubSeq(drafts, 1, Len(drafts)) = drafts /\ Len(drafts) \in 0..Len(drafts)
    BY <1>1, SubSeqFull
  <2>2. o.ledger = Recorded(L, SubSeq(drafts, 1, Len(drafts)))
    BY <1>2, <2>1
  <2>3. Clean(o.ledger)
    BY <2>1, <2>2, CleanRecorded
  <2>. QED BY <2>3, CleanReadable
<1>3. ASSUME NEW k \in DOMAIN drafts, NEW how \in Faults,
             o = [ledger |-> Rejected(L, drafts, k, how), ok |-> FALSE]
      PROVE  Readable(o.ledger.lines) /\ ~ o.ok
  <2>1. how \in {"nothing", "torn", "whole"} /\ k \in 1..Len(drafts)
    BY <1>1 DEF LedgerAssumption
  <2>2. PICK R : R = Rejected(L, drafts, k, how)
    OBVIOUS
  <2>3. Readable(R.lines)
    BY <2>1, <2>2, CleanRejected
  <2>. QED BY <2>2, <2>3, <1>3
<1>4. \/ o = [ledger |-> Recorded(L, drafts), ok |-> TRUE]
      \/ \E k \in DOMAIN drafts, how \in Faults :
            o = [ledger |-> Rejected(L, drafts, k, how), ok |-> FALSE]
  BY DEF Outcomes
<1>. QED BY <1>2, <1>3, <1>4

\* Where nothing is left over the file is memory.
LEMMA NothingLeft ==
  ASSUME BaseInv, up = "up", ~ Leftover
  PROVE  Clean(ledger)
BY DEF BaseInv, Types, Leftover, Clean

\* What is recorded on a file without a leftover leaves one only if an append failed, and
\* a readable file then too.
LEMMA DurableRecording ==
  ASSUME LedgerAssumption, BaseInv, up = "up", up' = up,
         NEW drafts, Batch(drafts), NEW o \in Outcomes(ledger, drafts), Becomes(o)
  PROVE  DurableStep
<1>1. CASE Leftover
  BY <1>1 DEF DurableStep
<1>2. CASE ~ Leftover
  <2>1. Readable(o.ledger.lines) /\ (o.ok => Clean(o.ledger))
    BY <1>2, NothingLeft, CleanOutcome
  <2>2. /\ ledger' = o.ledger
        /\ failures' = IF o.ok THEN failures ELSE failures + 1
        /\ failures \in Nat
    BY DEF Becomes, BaseInv, Types
  <2>3. o.ok => ~ Leftover'
    BY <2>1, <2>2 DEF Clean, Leftover
  <2>4. ~ o.ok => failures' > failures
    BY <2>2
  <2>. QED BY <2>1, <2>2, <2>3, <2>4 DEF DurableStep
<1>. QED BY <1>1, <1>2

\* A crash, also inside an append, leaves no leftover and a file that can be read.
LEMMA DurableCrash ==
  ASSUME LedgerAssumption, BaseInv, Crash
  PROVE  DurableStep
<1>1. up = "up" /\ up' = "down" /\ Types
  BY DEF Crash, BaseInv
<1>2. ~ Leftover'
  BY <1>1 DEF Leftover
<1>3. ASSUME ~ Leftover, Readable(ledger.lines) PROVE Readable(ledger'.lines)
  <2>1. Clean(ledger) /\ ledger \in Ledgers
    BY <1>1, <1>3, NothingLeft DEF Types
  <2>2. CASE ledger' = [ledger EXCEPT !.mem = <<>>]
    BY <2>1, <2>2, <1>3, LedgerFields
  <2>3. ASSUME NEW draft \in Pending, NEW how \in {"torn", "whole"},
               ledger' = [Rejected(ledger, <<draft>>, 1, how) EXCEPT !.mem = <<>>]
        PROVE  Readable(ledger'.lines)
    <3>1. draft \in Event
      BY <1>1, PendingEvents
    <3>2. PICK R, drafts, k : /\ drafts = <<draft>> /\ k = 1
                              /\ R = Rejected(ledger, drafts, k, how)
      OBVIOUS
    <3>3. Batch(drafts) /\ k \in 1..Len(drafts) /\ how \in {"nothing", "torn", "whole"}
      BY <3>1, <3>2, SingleBatch
    <3>4. R \in Ledgers /\ Readable(R.lines)
      BY <3>2, <3>3, <2>1, CleanRejected
    <3>5. ledger' = [R EXCEPT !.mem = <<>>]
      BY <3>2, <2>3
    <3>. QED BY <3>4, <3>5, LedgerFields
  <2>. QED BY <2>2, <2>3 DEF Crash
<1>. QED BY <1>2, <1>3 DEF DurableStep

\* An opening takes up what it read, and leaves no leftover unless an append failed.
LEMMA DurableOpen ==
  ASSUME LedgerAssumption, BaseInv, Open
  PROVE  DurableStep
<1>1. PICK L, drafts, o :
         /\ L \in Ledgers /\ Ordered(L.mem) /\ L.lines = ledger.lines /\ ~ L.torn
         /\ L.mem = IF Readable(ledger.lines) THEN ledger.lines ELSE <<>>
         /\ Batch(drafts) /\ o \in Outcomes(L, drafts)
         /\ ledger' = IF o.ok THEN o.ledger ELSE [o.ledger EXCEPT !.mem = <<>>]
         /\ up' = IF ~Readable(ledger.lines) THEN "corrupt" ELSE IF o.ok THEN "up" ELSE "down"
  BY OpenFacts
<1>2. CASE ~ Readable(ledger.lines)
  BY <1>1, <1>2 DEF DurableStep, Leftover
<1>3. CASE Readable(ledger.lines)
  <2>1. Clean(L)
    BY <1>1, <1>3 DEF Clean
  <2>2. Readable(o.ledger.lines) /\ (o.ok => Clean(o.ledger))
    BY <1>1, <2>1, CleanOutcome
  <2>3. o.ledger \in Ledgers /\ o.ok \in BOOLEAN
    BY <1>1, OutcomeFacts
  <2>4. ledger'.lines = o.ledger.lines
    BY <1>1, <2>3, LedgerFields
  <2>5. o.ok => ~ Leftover'
    BY <1>1, <2>2 DEF Clean, Leftover
  <2>6. ~ o.ok => ~ Leftover'
    BY <1>1, <1>3 DEF Leftover
  <2>. QED BY <2>2, <2>4, <2>5, <2>6, <2>3 DEF DurableStep
<1>. QED BY <1>2, <1>3

\* Recording, crashes and openings are the only steps that touch the file.
LEMMA EveryStepDurable ==
  ASSUME LedgerAssumption, BaseInv, [Next]_vars
  PROVE  DurableStep
<1>1. ASSUME UNCHANGED <<ledger, up>> PROVE DurableStep
  BY <1>1 DEF DurableStep, Leftover
<1>2. ASSUME NEW w \in Writers, RecordWrite(w) PROVE DurableStep
  <2>1. PICK drafts, o : Batch(drafts) /\ o \in Outcomes(ledger, drafts) /\ Becomes(o)
    BY <1>2, WriteStep
  <2>2. up = "up" /\ up' = up
    BY <1>2 DEF RecordWrite, process
  <2>. QED BY <2>1, <2>2, DurableRecording
<1>3. ASSUME NEW o \in Scans, Becomes(o), up = "up", up' = up PROVE DurableStep
  <2>1. PICK drafts : Batch(drafts) /\ o \in Outcomes(ledger, drafts)
    BY ScanRecords DEF BaseInv
  <2>. QED BY <2>1, <1>3, DurableRecording
<1>4. ASSUME NEW c \in Checks,
             \/ Begin(c) \/ ExitScan(c) \/ Kill(c)
             \/ \E tool \in {"await", "observe"} : Collect(c, tool)
      PROVE  DurableStep
  <2>1. up = "up" /\ up' = up
    BY <1>4 DEF Begin, ExitScan, Kill, Collect, Free, process
  <2>2. \E o \in Scans : Becomes(o)
    BY <1>4 DEF Begin, ExitScan, Kill, Collect, Scanned
  <2>. QED BY <2>1, <2>2, <1>3
<1>5. ASSUME Assess PROVE DurableStep
  <2>1. up = "up" /\ up' = up /\ \E o \in Scans : Becomes(o)
    BY <1>5 DEF Assess, Free, process, Scanned
  <2>. QED BY <2>1, <1>3
<1>6. ASSUME NEW c \in Checks, RecordCheck(c) PROVE DurableStep
  <2>1. PICK drafts, o : Batch(drafts) /\ o \in Outcomes(ledger, drafts) /\ Becomes(o)
    BY <1>6, CheckStep
  <2>2. up = "up" /\ up' = up
    BY <1>6 DEF RecordCheck, process
  <2>. QED BY <2>1, <2>2, DurableRecording
<1>7. ASSUME NEW f \in Files, Edit(f) \/ Delete(f) PROVE DurableStep
  BY <1>7, <1>1 DEF Edit, Delete, process
<1>8. ASSUME NEW w \in Writers, WriteFile(w) PROVE DurableStep
  BY <1>8, <1>1 DEF WriteFile, process
<1>9. ASSUME NEW c \in Checks, Detach(c) \/ Exits(c) \/ Judge(c) PROVE DurableStep
  BY <1>9, <1>1 DEF Detach, Exits, Judge, process
<1>10. ASSUME UNCHANGED vars PROVE DurableStep
  BY <1>10, <1>1 DEF vars, process
<1>. QED
  BY <1>2, <1>4, <1>5, <1>6, <1>7, <1>8, <1>9, <1>10, DurableCrash, DurableOpen DEF Next

\* Memory is the beginning of a file that can be read.
LEMMA HeldInFile ==
  ASSUME BaseInv, up = "up", Readable(ledger.lines)
  PROVE  IsPrefix(ledger.mem, ledger.lines) /\ Len(ledger.lines) <= Len(ledger.mem) + 1
<1>1. ledger \in Ledgers /\ Linked(ledger)
  BY DEF BaseInv, Types
<1>2. PICK m \in Seq(Event) : m = ledger.mem
  BY <1>1, LedgerFields
<1>3. CASE ledger.lines = ledger.mem
  BY <1>2, <1>3 DEF IsPrefix
<1>4. ASSUME NEW e \in Event, ledger.lines = Append(ledger.mem, e)
      PROVE  IsPrefix(ledger.mem, ledger.lines) /\ Len(ledger.lines) <= Len(ledger.mem) + 1
  <2>1. Len(Append(m, e)) = Len(m) + 1 /\ Len(m) \in Nat
    BY AppendProperties
  <2>2. SubSeq(Append(m, e), 1, Len(m)) = SubSeq(m, 1, Len(m))
    <3>1. \A i \in 1..Len(m) : Append(m, e)[i] = m[i]
      BY AppendProperties
    <3>. QED BY <2>1, <3>1 DEF SubSeq
  <2>. QED BY <2>1, <2>2, <1>2, <1>4 DEF IsPrefix
<1>. QED BY <1>1, <1>3, <1>4 DEF Linked

\* Whatever bytes a failing append leaves (fileLedgerSink.AppendEvent), memory is the
\* beginning of every file that can be read, and the only way to a file that cannot is an
\* append made by the process that left them (Ledger.appendLocked, FileLedgerStore.Load).
THEOREM DurabilityCorrectness == Spec => DurableHistory
<1>1. LedgerAssumption
  BY LedgerAssumption
<1>2. BaseInv => (up = "up" /\ Readable(ledger.lines) =>
        IsPrefix(ledger.mem, ledger.lines) /\ Len(ledger.lines) <= Len(ledger.mem) + 1)
  BY HeldInFile
<1>3. BaseInv /\ [Next]_vars => DurableStep
  BY <1>1, EveryStepDurable
<1>4. BaseInv /\ [Next]_vars =>
        [/\ Leftover' => Leftover \/ failures' > failures
         /\ Readable(ledger.lines) /\ ~Readable(ledger'.lines) => Leftover]_vars
  BY <1>3 DEF DurableStep
<1>. QED BY <1>2, <1>4, Invariance, PTL DEF Spec, DurableHistory

-----------------------------------------------------------------------------
(* FreshInv: what the checks of a task with one call in flight have seen *)

\* With calls side by side, a check is judged on one state of the ledger and recorded
\* in another that a write has reached: MCRacedEvidence shows what is lost.
OneLane == Lanes = 1

\* With the contents d: f had the content h, and will never have it again.
Past(d, f, h) ==
    \/ h = DeletedHash
    \/ h # Missing /\ (d[f] = Missing \/ h < d[f])

Was(d, f, h) == h = d[f] \/ Past(d, f, h)

\* What the checks ran on being s, check c ran on the content h of f, or h is past.
Saw(d, s, c, f, h) == s[c][f] = h \/ Past(d, f, h)

PassedCheck(e) == e.kind = "check" /\ e.passed

Wrote(log, j, files) == j \in 1..Len(log) /\ log[j].kind = "write" /\ log[j].file \in files

Truthful(d, s, e) ==
    /\ e.kind = "write" => Was(d, e.file, e.hash)
    /\ e.kind = "check" => s[e.check] # NoScan

\* A passed check saw what a history says of the files it covers.
Backed(d, s, e, log) ==
    PassedCheck(e) =>
        \A j \in 1..Len(log) :
            Wrote(log, j, Covers[e.check]) => Saw(d, s, e.check, log[j].file, log[j].hash)

Sound(d, s, log) ==
    /\ \A i \in 1..Len(log) : Truthful(d, s, log[i])
    /\ \A i, j \in 1..Len(log) :
          j < i /\ PassedCheck(log[i]) /\ Wrote(log, j, Covers[log[i].check])
          => Saw(d, s, log[i].check, log[j].file, log[j].hash)

Contents ==
    /\ \A f \in Files : disk[f] <= changes + 1
    /\ \A f \in Files : sources[f] # Unknown => Was(disk, f, sources[f])

History ==
    /\ Sound(disk, saw, ledger.mem)
    /\ Readable(ledger.lines) => Sound(disk, saw, ledger.lines)

Quiet == up # "up" => \A x \in Writers \union Checks : stage[x] \in {"idle", "done"}

OneInFlight == \A x, y \in InFlight : x = y

Watching == \A f \in Files : sources[f] # Unknown

\* Since check c ran: each change is found by the next scan, or is recorded behind
\* the start of c; what was recorded before the start, c has seen.
Followed(c) ==
    /\ \A f \in Covers[c] :
          \/ saw[c][f] = disk[f]
          \/ f \in Changed
          \/ \E j \in 1..Len(ledger.mem) :
                Wrote(ledger.mem, j, {f}) /\ ledger.mem[j].rev > started[c]
    /\ \A j \in 1..Len(ledger.mem) :
          Wrote(ledger.mem, j, Covers[c]) /\ ledger.mem[j].rev <= started[c]
          => Saw(disk, saw, c, ledger.mem[j].file, ledger.mem[j].hash)

Following(c) ==
    /\ Watching
    /\ started[c] <= Revision(ledger.mem)
    /\ saw[c] # NoScan => Followed(c)

CallInv(c) ==
    /\ stage[c] = "idle" => saw[c] = NoScan
    /\ stage[c] \in {"scanned", "judged"} => saw[c] # NoScan
    /\ stage[c] \in Active => Following(c)
    /\ stage[c] = "judged" => (passed[c] => Undisturbed(c))

\* The same for a check recorded since the ledger was opened.
Covered(c, i) ==
    /\ Watching
    /\ \A f \in Covers[c] :
          \/ saw[c][f] = disk[f]
          \/ f \in Changed
          \/ \E j \in 1..Len(ledger.mem) : j > i /\ Wrote(ledger.mem, j, {f})

EvidenceInv ==
    \A i \in 1..Len(ledger.mem) :
        i > opened /\ PassedCheck(ledger.mem[i]) => Covered(ledger.mem[i].check, i)

FreshInv ==
    /\ Contents
    /\ History
    /\ Quiet
    /\ OneInFlight
    /\ \A c \in Checks : CallInv(c)
    /\ EvidenceInv

-----------------------------------------------------------------------------
(* Histories stay sound *)

LEMMA WritesAre ==
  ASSUME NEW log \in Seq(Event), NEW files, NEW j
  PROVE  j \in WritesTo(log, files) <=> Wrote(log, j, files)
<1>1. DOMAIN log = 1..Len(log)
  OBVIOUS
<1>. QED BY <1>1 DEF WritesTo, Wrote

\* No content of a file that was current or past stops being one of the two.
Later(d, e) ==
    \A f \in Files, h \in Hashes :
        (Was(d, f, h) => Was(e, f, h)) /\ (Past(d, f, h) => Past(e, f, h))

LEMMA WroteFacts ==
  ASSUME NEW log \in Seq(Event), NEW files, NEW j, Wrote(log, j, files)
  PROVE  /\ j \in 1..Len(log) /\ log[j] \in Event /\ log[j].kind = "write"
         /\ log[j].file \in Files /\ log[j].file \in files /\ log[j].hash \in Hashes
         /\ log[j].rev \in Nat
<1>1. j \in 1..Len(log) /\ log[j].kind = "write" /\ log[j].file \in files
  BY DEF Wrote
<1>2. log[j] \in Event
  BY <1>1
<1>. QED BY <1>1, <1>2, EventFacts

LEMMA SoundLater ==
  ASSUME NEW d, NEW e, Later(d, e), NEW s, NEW t,
         \A c \in Checks : s[c] # NoScan => t[c] = s[c],
         NEW log \in Seq(Event), Sound(d, s, log)
  PROVE  Sound(e, t, log)
<1>1. \A i \in 1..Len(log) : log[i] \in Event /\ Truthful(d, s, log[i])
  <2>1. \A i \in 1..Len(log) : log[i] \in Event
    OBVIOUS
  <2>. QED BY <2>1 DEF Sound
<1>2. ASSUME NEW i \in 1..Len(log) PROVE Truthful(e, t, log[i])
  <2>1. log[i] \in Event /\ Truthful(d, s, log[i])
    BY <1>1
  <2>2. /\ log[i].kind = "write" => log[i].file \in Files /\ log[i].hash \in Hashes
        /\ log[i].kind = "check" => log[i].check \in Checks
    BY <2>1, EventFacts
  <2>. QED BY <2>1, <2>2 DEF Truthful, Later
<1>3. ASSUME NEW i \in 1..Len(log), NEW j \in 1..Len(log), j < i,
             PassedCheck(log[i]), Wrote(log, j, Covers[log[i].check])
      PROVE  Saw(e, t, log[i].check, log[j].file, log[j].hash)
  <2>1. Saw(d, s, log[i].check, log[j].file, log[j].hash)
    BY <1>3 DEF Sound
  <2>2. log[i].kind = "check" /\ log[i] \in Event
    BY <1>1, <1>3 DEF PassedCheck
  <2>3. log[i].check \in Checks
    BY <2>2, EventFacts
  <2>4. s[log[i].check] # NoScan
    BY <1>1, <2>2 DEF Truthful
  <2>5. log[j].file \in Files /\ log[j].hash \in Hashes
    BY <1>3, WroteFacts
  <2>. QED BY <2>1, <2>3, <2>4, <2>5 DEF Saw, Later
<1>. QED BY <1>2, <1>3 DEF Sound

\* What Record gives to an event is nothing that soundness tells apart.
LEMMA SameIsTruthful ==
  ASSUME NEW e, NEW r \in Event, SameFact(e, r), NEW d, NEW s, Truthful(d, s, r)
  PROVE  Truthful(d, s, e)
<1>1. r.kind \in {"write", "check"} /\ e.kind = r.kind
  BY EventFacts DEF SameFact
<1>. QED BY <1>1 DEF SameFact, Truthful

LEMMA SamePassed ==
  ASSUME NEW e, NEW r \in Event, SameFact(e, r), PassedCheck(e)
  PROVE  PassedCheck(r) /\ e.check = r.check /\ r.kind = "check"
<1>1. e.kind = "check" /\ r.kind = "check"
  BY DEF SameFact, PassedCheck
<1>2. e.passed = r.passed /\ e.check = r.check
  BY <1>1 DEF SameFact
<1>3. e.passed
  BY DEF PassedCheck
<1>. QED BY <1>1, <1>2, <1>3 DEF PassedCheck

\* The events of a history that has grown.
LEMMA GrownEvents ==
  ASSUME NEW log \in Seq(Event), Ordered(log), NEW drafts, Batch(drafts),
         NEW n \in 0..Len(drafts), NEW new, new = Grown(log, drafts, n)
  PROVE  /\ new \in Seq(Event) /\ Len(new) = Len(log) + n
         /\ Len(log) \in Nat /\ n \in Nat
         /\ \A i \in 1..Len(log) : i \in 1..Len(new) /\ new[i] = log[i]
         /\ \A k \in 1..n : /\ k \in 1..Len(drafts) /\ drafts[k] \in Event
                            /\ Len(log) + k \in 1..Len(new)
                            /\ SameFact(new[Len(log) + k], drafts[k])
                            /\ drafts[k].kind = "write" => new[Len(log) + k].rev > Revision(log)
         /\ \A i \in 1..Len(new) :
               i \in 1..Len(log) \/ (i - Len(log) \in 1..n /\ i = Len(log) + (i - Len(log)))
<1>1. /\ new \in Seq(Event) /\ Len(new) = Len(log) + n
      /\ \A i \in 1..Len(log) : new[i] = log[i]
      /\ \A k \in 1..n : new[Len(log) + k] = Assigned(log, drafts, k)
      /\ \A i \in 1..Len(new) : i \in 1..Len(log) \/ i - Len(log) \in 1..n
  <2>1. /\ Len(new) = Len(log) + n
        /\ \A k \in 1..n : new[Len(log) + k] = Assigned(log, drafts, k)
    BY GrownFacts
  <2>2. \A i \in 1..Len(log) : new[i] = log[i]
    BY GrownFacts
  <2>3. \A i \in 1..Len(new) : i \in 1..Len(log) \/ i - Len(log) \in 1..n
    BY GrownFacts
  <2>4. new \in Seq(Event)
    BY GrownFacts
  <2>. QED BY <2>1, <2>2, <2>3, <2>4
<1>2. Len(log) \in Nat /\ Len(drafts) \in Nat /\ n \in Nat /\ Revision(log) \in Nat
  BY LogFacts DEF Batch
<1>3. \A i \in 1..Len(log) : i \in 1..Len(new)
  BY <1>1, <1>2
<1>4. ASSUME NEW k \in 1..n
      PROVE  /\ k \in 1..Len(drafts) /\ drafts[k] \in Event
             /\ Len(log) + k \in 1..Len(new)
             /\ SameFact(new[Len(log) + k], drafts[k])
             /\ drafts[k].kind = "write" => new[Len(log) + k].rev > Revision(log)
  <2>1. k \in 1..Len(drafts) /\ k \in Nat /\ k >= 1
    BY <1>2
  <2>2. Len(log) + k \in 1..Len(new)
    BY <1>1, <1>2, <2>1
  <2>3. drafts[k] \in Event
    BY <2>1 DEF Batch
  <2>4. /\ SameFact(Assigned(log, drafts, k), drafts[k])
        /\ Assigned(log, drafts, k).rev
              = Revision(log) + (IF drafts[k].kind = "write" THEN k ELSE 0)
    BY <2>1, AssignedFacts
  <2>5. drafts[k].kind = "write" => Assigned(log, drafts, k).rev > Revision(log)
    BY <2>1, <2>4, <1>2
  <2>. QED BY <1>1, <2>1, <2>2, <2>3, <2>4, <2>5
<1>5. ASSUME NEW i \in 1..Len(new), i \notin 1..Len(log)
      PROVE  i - Len(log) \in 1..n /\ i = Len(log) + (i - Len(log))
  BY <1>1, <1>2, <1>5
<1>. QED BY <1>1, <1>2, <1>3, <1>4, <1>5

LEMMA SoundGrown ==
  ASSUME NEW log \in Seq(Event), Ordered(log), NEW drafts, Batch(drafts),
         NEW n \in 0..Len(drafts), NEW d, NEW s, Sound(d, s, log),
         \A k \in 1..Len(drafts) : Truthful(d, s, drafts[k]) /\ Backed(d, s, drafts[k], log)
  PROVE  Sound(d, s, Grown(log, drafts, n))
<1>1. PICK new : new = Grown(log, drafts, n)
  OBVIOUS
<1>2. /\ new \in Seq(Event) /\ Len(new) = Len(log) + n
      /\ Len(log) \in Nat /\ n \in Nat
      /\ \A i \in 1..Len(log) : i \in 1..Len(new) /\ new[i] = log[i]
  BY <1>1, GrownEvents
<1>5. \A k \in 1..n : /\ k \in 1..Len(drafts) /\ drafts[k] \in Event
                      /\ SameFact(new[Len(log) + k], drafts[k])
  BY <1>1, GrownEvents
<1>6. \A i \in 1..Len(new) :
         i \in 1..Len(log) \/ (i - Len(log) \in 1..n /\ i = Len(log) + (i - Len(log)))
  BY <1>1, GrownEvents
<1>3. ASSUME NEW i \in 1..Len(new) PROVE Truthful(d, s, new[i])
  <2>1. CASE i \in 1..Len(log)
    BY <1>2, <2>1 DEF Sound
  <2>2. ASSUME NEW k \in 1..n, i = Len(log) + k PROVE Truthful(d, s, new[i])
    <3>1. drafts[k] \in Event /\ SameFact(new[i], drafts[k]) /\ Truthful(d, s, drafts[k])
      BY <1>5, <2>2
    <3>. QED BY <3>1, SameIsTruthful
  <2>. QED BY <1>6, <2>1, <2>2
<1>4. ASSUME NEW i \in 1..Len(new), NEW j \in 1..Len(new), j < i,
             PassedCheck(new[i]), Wrote(new, j, Covers[new[i].check])
      PROVE  Saw(d, s, new[i].check, new[j].file, new[j].hash)
  <2>1. CASE i \in 1..Len(log)
    <3>1. j \in 1..Len(log) /\ new[i] = log[i]
      BY <1>2, <1>4, <2>1
    <3>2. new[j] = log[j]
      BY <1>2, <3>1
    <3>3. Wrote(log, j, Covers[log[i].check]) /\ PassedCheck(log[i])
      BY <1>4, <3>1, <3>2 DEF Wrote
    <3>4. Saw(d, s, log[i].check, log[j].file, log[j].hash)
      BY <1>4, <2>1, <3>1, <3>3 DEF Sound
    <3>. QED BY <3>1, <3>2, <3>4
  <2>2. ASSUME NEW k \in 1..n, i = Len(log) + k
        PROVE  Saw(d, s, new[i].check, new[j].file, new[j].hash)
    <3>1. k \in 1..Len(drafts) /\ drafts[k] \in Event /\ SameFact(new[i], drafts[k])
      BY <1>5, <2>2
    <3>2. PassedCheck(drafts[k]) /\ new[i].check = drafts[k].check /\ drafts[k].kind = "check"
      BY <3>1, <1>4, SamePassed
    <3>3. Len(drafts) = 1 /\ k = 1
      BY <3>1, <3>2 DEF Batch
    <3>4. j \in 1..Len(log)
      BY <1>2, <1>4, <2>2, <3>3
    <3>5. new[j] = log[j]
      BY <1>2, <3>4
    <3>6. Wrote(log, j, Covers[drafts[k].check])
      BY <1>4, <3>2, <3>4, <3>5 DEF Wrote
    <3>7. Backed(d, s, drafts[k], log)
      BY <3>1
    <3>8. Saw(d, s, drafts[k].check, log[j].file, log[j].hash)
      BY <3>2, <3>4, <3>6, <3>7 DEF Backed
    <3>. QED BY <3>2, <3>5, <3>8
  <2>. QED BY <1>6, <2>1, <2>2
<1>. QED BY <1>1, <1>3, <1>4 DEF Sound

-----------------------------------------------------------------------------
(* A change of a file, and a step that records *)

\* A changed file never gets a content back that it had, so the next scan finds it.
LEMMA Moves ==
  ASSUME Types, Contents, NEW g \in Files, NEW content \in {Missing, changes + 2},
         Change(g, content)
  PROVE  /\ Later(disk, disk')
         /\ \A f \in Files : disk'[f] \in Nat /\ disk'[f] <= changes' + 1
         /\ \A f \in Files : f # g => disk'[f] = disk[f]
         /\ \A h \in Nat : Was(disk, g, h) => h # disk'[g]
<1>1. /\ disk \in [Files -> Nat] /\ changes \in Nat /\ changes' = changes + 1
      /\ disk[g] # Missing /\ disk' = [disk EXCEPT ![g] = content]
  BY DEF Types, Change
<1>2. /\ disk'[g] = content /\ \A f \in Files : f # g => disk'[f] = disk[f]
  BY <1>1
<1>3. disk[g] \in Nat /\ disk[g] <= changes + 1 /\ content \in Nat
  BY <1>1 DEF Contents, Missing
<1>4. \A f \in Files : disk'[f] \in Nat /\ disk'[f] <= changes' + 1
  <2>1. ASSUME NEW f \in Files PROVE disk'[f] \in Nat /\ disk'[f] <= changes' + 1
    <3>1. disk[f] \in Nat /\ disk[f] <= changes + 1
      BY <1>1 DEF Contents
    <3>. QED BY <1>1, <1>2, <1>3, <3>1 DEF Missing
  <2>. QED BY <2>1
<1>5. ASSUME NEW h \in Hashes, Past(disk, g, h) PROVE Past(disk', g, h)
  BY <1>1, <1>2, <1>3, <1>5 DEF Past, Hashes, Missing, DeletedHash
<1>6. ASSUME NEW h \in Hashes, h = disk[g] PROVE Past(disk', g, h)
  BY <1>1, <1>2, <1>3, <1>6 DEF Past, Hashes, Missing, DeletedHash
<1>7. ASSUME NEW f \in Files, NEW h \in Hashes
      PROVE  (Was(disk, f, h) => Was(disk', f, h)) /\ (Past(disk, f, h) => Past(disk', f, h))
  <2>1. CASE f = g
    BY <2>1, <1>5, <1>6 DEF Was
  <2>2. CASE f # g
    BY <2>2, <1>2 DEF Was, Past
  <2>. QED BY <2>1, <2>2
<1>8. ASSUME NEW h \in Nat, Was(disk, g, h) PROVE h # disk'[g]
  BY <1>1, <1>2, <1>3, <1>8 DEF Was, Past, Missing, DeletedHash
<1>. QED BY <1>2, <1>4, <1>7, <1>8 DEF Later

LEMMA StaysLater == \A d : Later(d, d)
BY DEF Later

LEMMA WorldStep ==
  ASSUME BaseInv, FreshInv, NEW g \in Files, NEW content \in {Missing, changes + 2},
         Change(g, content), UNCHANGED <<ledger, sources, opened, started, saw>>
  PROVE  /\ Contents' /\ History' /\ EvidenceInv'
         /\ \A c \in Checks : Following(c) => Following(c)'
<1>1. Types /\ Contents /\ History /\ EvidenceInv /\ ledger \in Ledgers
      /\ (Readable(ledger.lines) => ledger.lines \in Seq(Event)) /\ ledger.mem \in Seq(Event)
  BY LedgerFields, ReadableIsTyped DEF BaseInv, Types, FreshInv
<1>2. ledger' = ledger /\ sources' = sources /\ opened' = opened /\ started' = started /\ saw' = saw
  OBVIOUS
<1>3. /\ Later(disk, disk')
      /\ \A f \in Files : disk'[f] \in Nat /\ disk'[f] <= changes' + 1
      /\ \A f \in Files : f # g => disk'[f] = disk[f]
      /\ \A h \in Nat : Was(disk, g, h) => h # disk'[g]
  BY <1>1, Moves
<1>4. \A c \in Checks : saw[c] # NoScan => saw'[c] = saw[c]
  BY <1>2
<1>5. Sound(disk', saw', ledger.mem)
  BY <1>1, <1>3, <1>4, SoundLater DEF History
<1>6. Readable(ledger.lines) => Sound(disk', saw', ledger.lines)
  BY <1>1, <1>3, <1>4, SoundLater DEF History
<1>7. History'
  BY <1>2, <1>5, <1>6 DEF History
<1>8. ASSUME NEW f \in Files, sources[f] # Unknown
      PROVE  /\ sources[f] \in Nat /\ sources # NoScan
             /\ Was(disk, f, sources[f]) /\ Was(disk', f, sources[f])
  <2>1. sources # NoScan
    BY <1>8 DEF NoScan
  <2>2. sources[f] \in Nat
    BY <2>1, <1>1 DEF Types
  <2>3. Was(disk, f, sources[f])
    BY <1>1, <1>8 DEF Contents
  <2>. QED BY <2>1, <2>2, <2>3, <1>3 DEF Later, Hashes
<1>9. Contents'
  BY <1>2, <1>3, <1>8 DEF Contents
<1>10. Watching' <=> Watching
  BY <1>2 DEF Watching
<1>11. ASSUME Watching, NEW f \in Files
       PROVE  disk'[f] = disk[f] \/ f \in Changed'
  <2>1. CASE f = g
    <3>1. sources[g] \in Nat /\ sources # NoScan /\ Was(disk, g, sources[g])
      BY <1>8, <1>11 DEF Watching
    <3>2. sources[g] # disk'[g]
      BY <3>1, <1>3
    <3>. QED BY <2>1, <3>1, <3>2, <1>2 DEF Changed, NoScan
  <2>. QED BY <2>1, <1>3
<1>12. ASSUME Watching, NEW f \in Changed
       PROVE  f \in Changed'
  <2>1. f \in Files /\ sources # NoScan /\ disk[f] # sources[f]
    BY DEF Changed
  <2>2. CASE f = g
    <3>1. sources[g] \in Nat /\ Was(disk, g, sources[g])
      BY <1>8, <1>12 DEF Watching
    <3>2. sources[g] # disk'[g]
      BY <3>1, <1>3
    <3>. QED BY <2>1, <2>2, <3>2, <1>2 DEF Changed, NoScan
  <2>3. CASE f # g
    BY <2>1, <2>3, <1>2, <1>3 DEF Changed, NoScan
  <2>. QED BY <2>2, <2>3
<1>13. \A c \in Checks : Covers[c] \subseteq Files
  BY LedgerAssumption DEF LedgerAssumption
<1>14. ASSUME NEW c \in Checks, Following(c) PROVE Following(c)'
  <2>1. Watching /\ started[c] <= Revision(ledger.mem)
    BY <1>14 DEF Following
  <2>2. ASSUME saw[c] # NoScan PROVE Followed(c)'
    <3>1. Followed(c)
      BY <1>14, <2>2 DEF Following
    <3>2. ASSUME NEW f \in Covers[c]
          PROVE  \/ saw[c][f] = disk'[f]
                 \/ f \in Changed'
                 \/ \E j \in 1..Len(ledger.mem) :
                       Wrote(ledger.mem, j, {f}) /\ ledger.mem[j].rev > started[c]
      <4>1. f \in Files
        BY <1>13
      <4>. QED BY <4>1, <3>1, <2>1, <1>11, <1>12 DEF Followed
    <3>3. ASSUME NEW j \in 1..Len(ledger.mem),
                 Wrote(ledger.mem, j, Covers[c]), ledger.mem[j].rev <= started[c]
          PROVE  Saw(disk', saw, c, ledger.mem[j].file, ledger.mem[j].hash)
      <4>1. Saw(disk, saw, c, ledger.mem[j].file, ledger.mem[j].hash)
        BY <3>1, <3>3 DEF Followed
      <4>2. ledger.mem[j].file \in Files /\ ledger.mem[j].hash \in Hashes
        BY <1>1, <3>3, WroteFacts
      <4>. QED BY <4>1, <4>2, <1>3 DEF Saw, Later
    <3>. QED BY <3>2, <3>3, <1>2 DEF Followed
  <2>. QED BY <2>1, <2>2, <1>2, <1>10 DEF Following
<1>15. ASSUME NEW i \in 1..Len(ledger.mem), i > opened, PassedCheck(ledger.mem[i])
       PROVE  Covered(ledger.mem[i].check, i)'
  <2>1. PICK c \in Checks : c = ledger.mem[i].check
    <3>1. ledger.mem[i] \in Event
      BY <1>1
    <3>. QED BY <3>1, <1>15, EventFacts DEF PassedCheck
  <2>2. Covered(c, i)
    BY <1>1, <1>15, <2>1 DEF EvidenceInv
  <2>3. ASSUME NEW f \in Covers[c]
        PROVE  \/ saw[c][f] = disk'[f]
               \/ f \in Changed'
               \/ \E j \in 1..Len(ledger.mem) : j > i /\ Wrote(ledger.mem, j, {f})
    <3>1. f \in Files
      BY <1>13
    <3>. QED BY <3>1, <2>2, <1>11, <1>12 DEF Covered
  <2>4. Covered(c, i)'
    BY <2>2, <2>3, <1>2, <1>10 DEF Covered
  <2>5. c = ledger'.mem[i].check
    BY <1>2, <2>1
  <2>. QED BY <1>2, <2>1, <2>4
<1>16. EvidenceInv'
  BY <1>2, <1>15 DEF EvidenceInv
<1>. QED BY <1>7, <1>9, <1>14, <1>16

LEMMA Records ==
  ASSUME LedgerAssumption, BaseInv, FreshInv, up = "up", NEW drafts, Batch(drafts),
         NEW o \in Outcomes(ledger, drafts), Becomes(o),
         UNCHANGED <<disk, changes, saw, opened>>,
         \A k \in 1..Len(drafts) :
            Truthful(disk, saw, drafts[k]) /\ Backed(disk, saw, drafts[k], ledger.mem),
         \A k \in 1..Len(drafts) : PassedCheck(drafts[k]) =>
            /\ sources' = sources /\ Watching
            /\ \A f \in Covers[drafts[k].check] :
                  saw[drafts[k].check][f] = disk[f] \/ f \in Changed,
         \/ sources' = sources
         \/ /\ sources' = disk /\ o.ok
            /\ \A f \in Changed : \E k \in 1..Len(drafts) : drafts[k] = WriteOf(f, ScanHash(disk[f]))
  PROVE  /\ Contents' /\ History' /\ EvidenceInv'
         /\ \A c \in Checks : Following(c) /\ started'[c] = started[c] => Following(c)'
<1>1. /\ Types /\ Contents /\ History /\ EvidenceInv
      /\ ledger \in Ledgers /\ Ordered(ledger.mem) /\ Linked(ledger)
      /\ ledger.mem \in Seq(Event)
  BY LedgerFields DEF BaseInv, Types, FreshInv
<1>2. ledger' = o.ledger /\ disk' = disk /\ changes' = changes /\ saw' = saw /\ opened' = opened
  BY DEF Becomes
<1>3. /\ \E n \in 0..Len(drafts) :
            o.ledger.mem = Grown(ledger.mem, drafts, n) /\ (o.ok => n = Len(drafts))
      /\ Readable(o.ledger.lines) =>
            \/ o.ledger.lines = ledger.lines
            \/ \E n \in 0..Len(drafts) : o.ledger.lines = Grown(ledger.mem, drafts, n)
  BY <1>1, OutcomeFacts
<1>4. PICK n \in 0..Len(drafts) :
         ledger'.mem = Grown(ledger.mem, drafts, n) /\ (o.ok => n = Len(drafts))
  BY <1>2, <1>3
<1>5. PICK mem, new : mem = ledger.mem /\ new = ledger'.mem
  OBVIOUS
<1>6. mem \in Seq(Event) /\ Ordered(mem) /\ new = Grown(mem, drafts, n)
  BY <1>1, <1>4, <1>5
<1>7. /\ new \in Seq(Event) /\ Len(new) = Len(mem) + n
      /\ Len(mem) \in Nat /\ n \in Nat
      /\ \A i \in 1..Len(mem) : i \in 1..Len(new) /\ new[i] = mem[i]
  BY <1>6, GrownEvents
<1>8. \A k \in 1..n : /\ k \in 1..Len(drafts) /\ drafts[k] \in Event
                      /\ Len(mem) + k \in 1..Len(new)
                      /\ SameFact(new[Len(mem) + k], drafts[k])
                      /\ drafts[k].kind = "write" => new[Len(mem) + k].rev > Revision(mem)
  BY <1>6, GrownEvents
<1>9. \A i \in 1..Len(new) :
         i \in 1..Len(mem) \/ (i - Len(mem) \in 1..n /\ i = Len(mem) + (i - Len(mem)))
  BY <1>6, GrownEvents
<1>10. \A m \in 0..Len(drafts) : Sound(disk, saw, Grown(mem, drafts, m))
  <2>1. Sound(disk, saw, mem)
    BY <1>1, <1>5 DEF History
  <2>2. \A k \in 1..Len(drafts) : Truthful(disk, saw, drafts[k]) /\ Backed(disk, saw, drafts[k], mem)
    BY <1>5
  <2>3. ASSUME NEW m \in 0..Len(drafts) PROVE Sound(disk, saw, Grown(mem, drafts, m))
    BY <2>1, <2>2, <1>6, SoundGrown
  <2>. QED BY <2>3
<1>11. History'
  BY <1>1, <1>2, <1>3, <1>4, <1>5, <1>10 DEF History
<1>12. Contents'
  <2>1. \A f \in Files : Was(disk, f, disk[f])
    BY DEF Was
  <2>2. sources' \in {sources, disk}
    OBVIOUS
  <2>. QED BY <1>1, <1>2, <2>1, <2>2 DEF Contents
<1>13. Watching => Watching'
  <2>1. \A f \in Files : disk[f] # Unknown
    BY <1>1 DEF Types, Unknown
  <2>2. sources' \in {sources, disk}
    OBVIOUS
  <2>. QED BY <2>1, <2>2 DEF Watching
<1>14. ASSUME NEW files, NEW j \in 1..Len(mem)
       PROVE  Wrote(new, j, files) <=> Wrote(mem, j, files)
  BY <1>7 DEF Wrote
<1>15. ASSUME NEW files, NEW j \in 1..Len(new), Wrote(new, j, files), j \notin 1..Len(mem)
       PROVE  new[j].rev > Revision(mem)
  <2>1. PICK k \in 1..n : j = Len(mem) + k
    BY <1>9, <1>15
  <2>2. drafts[k] \in Event /\ SameFact(new[j], drafts[k]) /\ new[j].kind = "write"
    BY <1>8, <1>15, <2>1 DEF Wrote
  <2>3. drafts[k].kind = "write"
    BY <2>2 DEF SameFact
  <2>. QED BY <1>8, <2>1, <2>3
<1>16. ASSUME NEW f \in Changed, f \notin Changed'
       PROVE  \E j \in 1..Len(new) : /\ j > Len(mem) /\ Wrote(new, j, {f})
                                     /\ new[j].rev > Revision(mem)
  <2>1. sources' # sources
    BY <1>2, <1>16 DEF Changed, NoScan
  <2>2. o.ok /\ \E k \in 1..Len(drafts) : drafts[k] = WriteOf(f, ScanHash(disk[f]))
    BY <2>1
  <2>3. n = Len(drafts)
    BY <1>4, <2>2
  <2>4. PICK k \in 1..n : drafts[k] = WriteOf(f, ScanHash(disk[f]))
    BY <2>2, <2>3
  <2>5. drafts[k].kind = "write" /\ drafts[k].file = f
    BY <2>4 DEF WriteOf
  <2>6. PICK j \in 1..Len(new) : j = Len(mem) + k
    BY <1>8
  <2>7. SameFact(new[j], drafts[k]) /\ new[j].rev > Revision(mem)
    BY <1>8, <2>5, <2>6
  <2>8. new[j].kind = "write" /\ new[j].file = f
    BY <2>5, <2>7 DEF SameFact
  <2>9. j > Len(mem)
    BY <1>7, <2>6
  <2>. QED BY <2>7, <2>8, <2>9 DEF Wrote
<1>17. Revision(mem) \in Nat /\ Revision(new) \in Nat /\ Revision(mem) <= Revision(new)
  <2>1. Ordered(new) /\ Revision(mem) <= Revision(new)
    BY <1>6, GrownFacts
  <2>. QED BY <2>1, <1>6, <1>7, LogFacts
<1>18. ASSUME NEW c \in Checks, Following(c), started'[c] = started[c] PROVE Following(c)'
  <2>1. Watching' /\ started[c] \in Nat /\ started[c] <= Revision(mem)
    BY <1>1, <1>5, <1>13, <1>18 DEF Following, Types
  <2>2. ASSUME saw[c] # NoScan PROVE Followed(c)'
    <3>1. Followed(c)
      BY <1>18, <2>2 DEF Following
    <3>2. ASSUME NEW f \in Covers[c]
          PROVE  \/ saw[c][f] = disk[f]
                 \/ f \in Changed'
                 \/ \E j \in 1..Len(new) : Wrote(new, j, {f}) /\ new[j].rev > started[c]
      <4>1. CASE saw[c][f] = disk[f]
        BY <4>1
      <4>2. CASE f \in Changed /\ f \notin Changed'
        <5>1. PICK j \in 1..Len(new) : Wrote(new, j, {f}) /\ new[j].rev > Revision(mem)
          BY <1>16, <4>2
        <5>2. new[j].rev \in Nat
          BY <1>7, <5>1, WroteFacts
        <5>. QED BY <5>1, <5>2, <2>1, <1>17
      <4>3. ASSUME NEW j \in 1..Len(mem), Wrote(mem, j, {f}), mem[j].rev > started[c]
            PROVE  j \in 1..Len(new) /\ Wrote(new, j, {f}) /\ new[j].rev > started[c]
        BY <1>7, <1>14, <4>3
      <4>. QED BY <3>1, <1>5, <4>1, <4>2, <4>3 DEF Followed
    <3>3. ASSUME NEW j \in 1..Len(new), Wrote(new, j, Covers[c]), new[j].rev <= started[c]
          PROVE  Saw(disk, saw, c, new[j].file, new[j].hash)
      <4>1. new[j].rev \in Nat
        BY <1>7, <3>3, WroteFacts
      <4>2. j \in 1..Len(mem)
        <5>1. SUFFICES ASSUME j \notin 1..Len(mem) PROVE FALSE
          OBVIOUS
        <5>2. new[j].rev > Revision(mem)
          BY <1>15, <3>3, <5>1
        <5>. QED BY <5>2, <4>1, <3>3, <2>1, <1>17
      <4>3. Wrote(mem, j, Covers[c]) /\ new[j] = mem[j]
        BY <1>7, <1>14, <3>3, <4>2
      <4>. QED BY <4>2, <4>3, <3>1, <3>3, <1>5 DEF Followed
    <3>. QED BY <3>2, <3>3, <1>2, <1>5, <1>18 DEF Followed
  <2>3. started[c] <= Revision(new)
    BY <2>1, <1>17
  <2>. QED BY <2>1, <2>2, <2>3, <1>2, <1>5, <1>18 DEF Following
<1>19. ASSUME NEW i \in 1..Len(new), i > opened, PassedCheck(new[i])
       PROVE  Covered(new[i].check, i)'
  <2>1. PICK c \in Checks : c = new[i].check
    <3>1. new[i] \in Event
      BY <1>7
    <3>. QED BY <3>1, <1>19, EventFacts DEF PassedCheck
  <2>2. CASE i \in 1..Len(mem)
    <3>1. new[i] = mem[i]
      BY <1>7, <2>2
    <3>2. Covered(c, i)
      BY <1>1, <1>5, <1>19, <2>1, <2>2, <3>1 DEF EvidenceInv
    <3>3. ASSUME NEW f \in Covers[c]
          PROVE  \/ saw[c][f] = disk[f]
                 \/ f \in Changed'
                 \/ \E j \in 1..Len(new) : j > i /\ Wrote(new, j, {f})
      <4>1. CASE saw[c][f] = disk[f]
        BY <4>1
      <4>2. CASE f \in Changed /\ f \notin Changed'
        <5>1. PICK j \in 1..Len(new) : j > Len(mem) /\ Wrote(new, j, {f})
          BY <1>16, <4>2
        <5>2. j > i
          BY <5>1, <2>2, <1>7
        <5>. QED BY <5>1, <5>2
      <4>3. ASSUME NEW j \in 1..Len(mem), j > i, Wrote(mem, j, {f})
            PROVE  j \in 1..Len(new) /\ j > i /\ Wrote(new, j, {f})
        BY <1>7, <1>14, <4>3
      <4>. QED BY <3>2, <1>5, <4>1, <4>2, <4>3 DEF Covered
    <3>4. Watching'
      BY <3>2, <1>13 DEF Covered
    <3>. QED BY <3>3, <3>4, <2>1, <1>2, <1>5 DEF Covered
  <2>3. CASE i \notin 1..Len(mem)
    <3>1. PICK k \in 1..n : i = Len(mem) + k
      BY <1>9, <2>3
    <3>2. k \in 1..Len(drafts) /\ drafts[k] \in Event /\ SameFact(new[i], drafts[k])
      BY <1>8, <3>1
    <3>3. PassedCheck(drafts[k]) /\ drafts[k].check = c
      BY <3>2, <1>19, <2>1, SamePassed
    <3>4. /\ sources' = sources /\ Watching
          /\ \A f \in Covers[c] : saw[c][f] = disk[f] \/ f \in Changed
      BY <3>2, <3>3
    <3>5. Changed' = Changed
      BY <3>4, <1>2 DEF Changed, NoScan
    <3>. QED BY <3>4, <3>5, <1>2, <1>13, <2>1 DEF Covered
  <2>. QED BY <2>2, <2>3
<1>20. EvidenceInv'
  BY <1>2, <1>5, <1>19 DEF EvidenceInv
<1>. QED BY <1>11, <1>12, <1>18, <1>20

-----------------------------------------------------------------------------
(* The calls in flight *)

LEMMA Alone ==
  ASSUME LedgerAssumption, OneLane, Free
  PROVE  InFlight = {} /\ up = "up"
<1>1. InFlight \subseteq Writers \union Checks
  BY DEF InFlight
<1>2. IsFiniteSet(InFlight)
  <2>1. IsFiniteSet(Writers \union Checks)
    BY FS_Union DEF LedgerAssumption
  <2>. QED BY <1>1, <2>1, FS_Subset
<1>3. Cardinality(InFlight) < 1 /\ up = "up"
  BY DEF Free, OneLane
<1>4. Cardinality(InFlight) \in Nat
  BY <1>2, FS_CardinalityType
<1>5. Cardinality(InFlight) = 0
  BY <1>3, <1>4
<1>. QED BY <1>2, <1>3, <1>5, FS_EmptySet

\* A call takes a step, and is alone in flight when it does.
LEMMA CallSteps ==
  ASSUME Types, OneInFlight, \A c \in Checks : CallInv(c),
         NEW x \in Writers \union Checks, NEW to, Goto(x, to), x \in InFlight \/ InFlight = {},
         \A c \in Checks : Following(c) /\ started'[c] = started[c] => Following(c)',
         \A c \in Checks : c # x =>
            saw'[c] = saw[c] /\ passed'[c] = passed[c] /\ started'[c] = started[c]
  PROVE  /\ OneInFlight'
         /\ \A c \in Checks : c # x => CallInv(c)'
         /\ x \in Checks => stage'[x] = to
<1>1. stage' = [stage EXCEPT ![x] = to] /\ DOMAIN stage = Writers \union Checks
  BY DEF Goto, Types
<1>2. \A y \in Writers \union Checks : y # x => stage'[y] = stage[y]
  BY <1>1
<1>3. \A y \in InFlight' : y = x
  <2>1. ASSUME NEW y \in InFlight', y # x PROVE FALSE
    <3>1. y \in InFlight
      BY <1>2, <2>1 DEF InFlight
    <3>. QED BY <3>1, <2>1 DEF OneInFlight
  <2>. QED BY <2>1
<1>4. OneInFlight'
  BY <1>3 DEF OneInFlight
<1>5. ASSUME NEW c \in Checks, c # x PROVE CallInv(c)'
  <2>1. stage'[c] = stage[c] /\ saw'[c] = saw[c] /\ started'[c] = started[c] /\ CallInv(c)
    BY <1>2, <1>5
  <2>2. stage[c] # "judged"
    <3>1. stage[c] = "judged" => c \in InFlight
      BY DEF InFlight
    <3>. QED BY <3>1, <1>5 DEF OneInFlight
  <2>3. stage[c] \in Active => Following(c)'
    BY <2>1 DEF CallInv
  <2>. QED BY <2>1, <2>2, <2>3 DEF CallInv
<1>6. x \in Checks => stage'[x] = to
  BY <1>1
<1>. QED BY <1>4, <1>5, <1>6

\* Nothing is asked of a call that is over.
LEMMA CallOver ==
  ASSUME NEW c \in Checks, stage'[c] \in {"written", "done"}
  PROVE  CallInv(c)'
BY DEF CallInv, Active

(* What is recorded is sound *)

LEMMA WriteIsSound ==
  ASSUME NEW d, NEW s, NEW f, NEW h, Was(d, f, h), NEW log
  PROVE  /\ Truthful(d, s, WriteOf(f, h)) /\ Backed(d, s, WriteOf(f, h), log)
         /\ ~ PassedCheck(WriteOf(f, h))
<1>1. PICK e : e = WriteOf(f, h)
  OBVIOUS
<1>2. e.kind = "write" /\ e.file = f /\ e.hash = h
  BY <1>1 DEF WriteOf
<1>3. ~ PassedCheck(e)
  BY <1>2 DEF PassedCheck
<1>4. Truthful(d, s, e)
  BY <1>2 DEF Truthful
<1>. QED BY <1>1, <1>3, <1>4 DEF Backed

\* The verdict of Judge on a check still holds of the history it is recorded in.
LEMMA CheckIsSound ==
  ASSUME BaseInv, FreshInv, NEW c \in Checks, stage[c] = "judged",
         NEW e, e = CheckOf(c, passed[c])
  PROVE  /\ Truthful(disk, saw, e) /\ Backed(disk, saw, e, ledger.mem) /\ e.check = c
         /\ PassedCheck(e) =>
               /\ Watching
               /\ \A f \in Covers[c] : saw[c][f] = disk[f] \/ f \in Changed
<1>1. e.kind = "check" /\ e.check = c /\ e.passed = passed[c]
  BY DEF CheckOf
<1>2. CallInv(c) /\ ledger.mem \in Seq(Event) /\ started[c] \in Nat
  BY LedgerFields DEF FreshInv, BaseInv, Types
<1>3. saw[c] # NoScan /\ Following(c)
  BY <1>2 DEF CallInv, Active
<1>4. Truthful(disk, saw, e)
  BY <1>1, <1>3 DEF Truthful
<1>5. PassedCheck(e) => Undisturbed(c)
  <2>1. PassedCheck(e) => passed[c]
    BY <1>1 DEF PassedCheck
  <2>. QED BY <2>1, <1>2 DEF CallInv
<1>6. Watching /\ Followed(c)
  BY <1>3 DEF Following
<1>7. ASSUME PassedCheck(e), NEW j \in 1..Len(ledger.mem), Wrote(ledger.mem, j, Covers[c])
      PROVE  ledger.mem[j].rev <= started[c]
  <2>1. j \in WritesTo(ledger.mem, Covers[c])
    BY <1>2, <1>7, WritesAre
  <2>. QED BY <2>1, <1>5, <1>7 DEF Undisturbed
<1>8. Backed(disk, saw, e, ledger.mem)
  BY <1>1, <1>6, <1>7 DEF Backed, Followed
<1>9. ASSUME PassedCheck(e), NEW f \in Covers[c]
      PROVE  saw[c][f] = disk[f] \/ f \in Changed
  <2>1. ASSUME NEW j \in 1..Len(ledger.mem), Wrote(ledger.mem, j, {f}), ledger.mem[j].rev > started[c]
        PROVE  FALSE
    <3>1. Wrote(ledger.mem, j, Covers[c])
      BY <2>1 DEF Wrote
    <3>2. ledger.mem[j].rev <= started[c] /\ ledger.mem[j].rev \in Nat
      BY <1>2, <1>7, <1>9, <3>1, WroteFacts
    <3>. QED BY <3>2, <2>1, <1>2
  <2>. QED BY <2>1, <1>6 DEF Followed
<1>. QED BY <1>1, <1>4, <1>6, <1>8, <1>9

LEMMA PendingIsSound ==
  ASSUME LedgerAssumption, BaseInv, FreshInv, NEW draft \in Pending
  PROVE  Truthful(disk, saw, draft) /\ Backed(disk, saw, draft, ledger.mem)
<1>1. ASSUME NEW w \in Writers, draft = WriteOf(Target[w], disk[Target[w]])
      PROVE  Truthful(disk, saw, draft) /\ Backed(disk, saw, draft, ledger.mem)
  <2>1. Was(disk, Target[w], disk[Target[w]])
    BY DEF Was
  <2>. QED BY <2>1, <1>1, WriteIsSound
<1>2. ASSUME NEW c \in Checks, stage[c] = "judged", draft = CheckOf(c, passed[c])
      PROVE  Truthful(disk, saw, draft) /\ Backed(disk, saw, draft, ledger.mem)
  BY <1>2, CheckIsSound
<1>. QED BY <1>1, <1>2 DEF Pending

\* A scan keeps what the checks have seen.
LEMMA ScanKeeps ==
  ASSUME LedgerAssumption, BaseInv, FreshInv, up = "up", NEW o \in Scans,
         NEW enable \in BOOLEAN, Scanned(o, enable), UNCHANGED <<disk, changes, saw, opened>>
  PROVE  /\ Contents' /\ History' /\ EvidenceInv'
         /\ \A c \in Checks : Following(c) /\ started'[c] = started[c] => Following(c)'
<1>1. PICK drafts :
         /\ Batch(drafts) /\ o \in Outcomes(ledger, drafts)
         /\ \A k \in 1..Len(drafts) : \E f \in Changed : drafts[k] = WriteOf(f, ScanHash(disk[f]))
         /\ \A f \in Changed : \E k \in 1..Len(drafts) : drafts[k] = WriteOf(f, ScanHash(disk[f]))
  BY ScanRecords DEF BaseInv
<1>2. ASSUME NEW k \in 1..Len(drafts)
      PROVE  /\ Truthful(disk, saw, drafts[k]) /\ Backed(disk, saw, drafts[k], ledger.mem)
             /\ ~ PassedCheck(drafts[k])
  <2>1. PICK f : drafts[k] = WriteOf(f, ScanHash(disk[f]))
    BY <1>1
  <2>2. Was(disk, f, ScanHash(disk[f]))
    BY DEF Was, Past, ScanHash
  <2>3. PICK h : h = ScanHash(disk[f])
    OBVIOUS
  <2>4. /\ Truthful(disk, saw, WriteOf(f, h)) /\ Backed(disk, saw, WriteOf(f, h), ledger.mem)
        /\ ~ PassedCheck(WriteOf(f, h))
    BY <2>2, <2>3, WriteIsSound
  <2>. QED BY <2>1, <2>3, <2>4
<1>3. Becomes(o) /\ (sources' = sources \/ (sources' = disk /\ o.ok))
  BY DEF Scanned
<1>4. /\ Batch(drafts) /\ o \in Outcomes(ledger, drafts) /\ Becomes(o)
      /\ \A k \in 1..Len(drafts) :
            Truthful(disk, saw, drafts[k]) /\ Backed(disk, saw, drafts[k], ledger.mem)
      /\ \A k \in 1..Len(drafts) : ~ PassedCheck(drafts[k])
      /\ \/ sources' = sources
         \/ /\ sources' = disk /\ o.ok
            /\ \A f \in Changed : \E k \in 1..Len(drafts) : drafts[k] = WriteOf(f, ScanHash(disk[f]))
  BY <1>1, <1>2, <1>3
<1>. QED BY <1>4, Records

-----------------------------------------------------------------------------
(* FreshInv is inductive *)

LEMMA FreshInit == Init => FreshInv
<1>1. SUFFICES ASSUME Init PROVE FreshInv
  OBVIOUS
<1>2. /\ ledger.mem = <<>> /\ ledger.lines = <<>> /\ sources = NoScan /\ up = "up" /\ changes = 0
      /\ disk = [f \in Files |-> Original] /\ saw = [c \in Checks |-> NoScan]
      /\ stage = [x \in Writers \union Checks |-> "idle"]
  BY <1>1 DEF Init
<1>3. Contents
  BY <1>2 DEF Contents, NoScan, Original
<1>4. Sound(disk, saw, <<>>) /\ Len(ledger.mem) = 0
  BY <1>2, EmptyLog DEF Sound
<1>5. History /\ EvidenceInv
  BY <1>2, <1>4 DEF History, EvidenceInv
<1>6. InFlight = {}
  BY <1>2 DEF InFlight
<1>7. \A c \in Checks : CallInv(c)
  BY <1>2 DEF CallInv, Active
<1>. QED BY <1>2, <1>3, <1>5, <1>6, <1>7 DEF FreshInv, OneInFlight, Quiet

\* A step that leaves the ledger, the files and what was seen of them alone.
LEMMA NothingRecorded ==
  ASSUME FreshInv, UNCHANGED <<disk, changes, ledger, sources, opened, saw>>
  PROVE  /\ Contents' /\ History' /\ EvidenceInv'
         /\ \A c \in Checks : Following(c) /\ started'[c] = started[c] => Following(c)'
<1>1. /\ disk' = disk /\ changes' = changes /\ ledger' = ledger /\ sources' = sources
      /\ opened' = opened /\ saw' = saw
  OBVIOUS
<1>2. Changed' = Changed /\ (Watching' <=> Watching)
  BY <1>1 DEF Changed, NoScan, Watching
<1>3. Contents' /\ History'
  BY <1>1 DEF FreshInv, Contents, History
<1>4. EvidenceInv'
  BY <1>1, <1>2 DEF FreshInv, EvidenceInv, Covered
<1>5. ASSUME NEW c \in Checks, Following(c), started'[c] = started[c] PROVE Following(c)'
  BY <1>1, <1>2, <1>5 DEF Following, Followed
<1>. QED BY <1>3, <1>4, <1>5

LEMMA EditFresh ==
  ASSUME BaseInv, FreshInv, NEW f \in Files, Edit(f) \/ Delete(f)
  PROVE  FreshInv'
<1>1. PICK content \in {Missing, changes + 2} : Change(f, content)
  BY DEF Edit, Delete
<1>2. UNCHANGED <<ledger, sources, opened, started, saw, stage, passed, up>>
  BY DEF Edit, Delete, calls, process
<1>3. /\ Contents' /\ History' /\ EvidenceInv'
      /\ \A c \in Checks : Following(c) => Following(c)'
  BY <1>1, <1>2, WorldStep
<1>4. Quiet' /\ OneInFlight'
  BY <1>2 DEF FreshInv, Quiet, OneInFlight, InFlight
<1>5. ASSUME NEW c \in Checks PROVE CallInv(c)'
  <2>1. CallInv(c)
    BY DEF FreshInv
  <2>2. stage'[c] = stage[c] /\ saw'[c] = saw[c] /\ passed'[c] = passed[c]
    BY <1>2
  <2>3. Undisturbed(c)' <=> Undisturbed(c)
    BY <1>2 DEF Undisturbed
  <2>. QED BY <2>1, <2>2, <2>3, <1>3 DEF CallInv
<1>. QED BY <1>3, <1>4, <1>5 DEF FreshInv

LEMMA WriteFileFresh ==
  ASSUME LedgerAssumption, OneLane, BaseInv, FreshInv, NEW w \in Writers, WriteFile(w)
  PROVE  FreshInv'
<1>1. Target[w] \in Files /\ Change(Target[w], changes + 2) /\ Goto(w, "written") /\ Free
  BY DEF WriteFile, LedgerAssumption
<1>2. UNCHANGED <<ledger, sources, opened, started, saw, passed, up>>
  BY DEF WriteFile, process
<1>3. /\ Contents' /\ History' /\ EvidenceInv'
      /\ \A c \in Checks : Following(c) => Following(c)'
  <2>1. PICK g \in Files, content \in {Missing, changes + 2} : Change(g, content)
    BY <1>1
  <2>. QED BY <2>1, <1>2, WorldStep
<1>4. InFlight = {} /\ up = "up"
  BY <1>1, Alone
<1>5. Types /\ OneInFlight /\ \A c \in Checks : CallInv(c)
  BY DEF BaseInv, FreshInv
<1>6. /\ OneInFlight'
      /\ \A c \in Checks : c # w => CallInv(c)'
      /\ w \in Checks => stage'[w] = "written"
  <2>1. w \in Writers \union Checks
    OBVIOUS
  <2>2. \A c \in Checks : Following(c) /\ started'[c] = started[c] => Following(c)'
    BY <1>3
  <2>3. \A c \in Checks : c # w =>
           saw'[c] = saw[c] /\ passed'[c] = passed[c] /\ started'[c] = started[c]
    BY <1>2
  <2>. QED BY <1>1, <1>4, <1>5, <2>1, <2>2, <2>3, CallSteps
<1>7. \A c \in Checks : CallInv(c)'
  BY <1>6, CallOver
<1>8. Quiet'
  BY <1>2, <1>4 DEF Quiet
<1>. QED BY <1>3, <1>6, <1>7, <1>8 DEF FreshInv

\* A call that recorded, or did nothing to the ledger.
LEMMA CallFresh ==
  ASSUME LedgerAssumption, BaseInv, FreshInv, up = "up", up' = "up",
         NEW x \in Writers \union Checks, NEW to, Goto(x, to), x \in InFlight \/ InFlight = {},
         Contents' /\ History' /\ EvidenceInv',
         \A c \in Checks : Following(c) /\ started'[c] = started[c] => Following(c)',
         \A c \in Checks : c # x =>
            saw'[c] = saw[c] /\ passed'[c] = passed[c] /\ started'[c] = started[c],
         x \in Checks => CallInv(x)'
  PROVE  FreshInv'
<1>1. Types /\ OneInFlight /\ \A c \in Checks : CallInv(c)
  BY DEF BaseInv, FreshInv
<1>2. OneInFlight' /\ \A c \in Checks : c # x => CallInv(c)'
  BY <1>1, CallSteps
<1>3. \A c \in Checks : CallInv(c)'
  BY <1>2
<1>4. Quiet'
  BY DEF Quiet
<1>. QED BY <1>2, <1>3, <1>4 DEF FreshInv

LEMMA RecordWriteFresh ==
  ASSUME LedgerAssumption, BaseInv, FreshInv, NEW w \in Writers, RecordWrite(w)
  PROVE  FreshInv'
<1>1. PICK drafts, o :
         /\ Batch(drafts) /\ o \in Outcomes(ledger, drafts) /\ Becomes(o)
         /\ \A k \in 1..Len(drafts) : drafts[k] = WriteOf(Target[w], disk[Target[w]])
  BY WriteStep
<1>2. /\ up = "up" /\ up' = "up" /\ Goto(w, "done") /\ stage[w] = "written"
      /\ UNCHANGED <<sources, disk, changes, started, saw, passed, opened>>
  BY DEF RecordWrite, world, process
<1>3. PICK e : e = WriteOf(Target[w], disk[Target[w]])
  OBVIOUS
<1>4. Truthful(disk, saw, e) /\ Backed(disk, saw, e, ledger.mem) /\ ~ PassedCheck(e)
  <2>1. Was(disk, Target[w], disk[Target[w]])
    BY DEF Was
  <2>. QED BY <2>1, <1>3, WriteIsSound
<1>5. /\ Contents' /\ History' /\ EvidenceInv'
      /\ \A c \in Checks : Following(c) /\ started'[c] = started[c] => Following(c)'
  <2>1. \A k \in 1..Len(drafts) :
           Truthful(disk, saw, drafts[k]) /\ Backed(disk, saw, drafts[k], ledger.mem)
    BY <1>1, <1>3, <1>4
  <2>2. \A k \in 1..Len(drafts) : ~ PassedCheck(drafts[k])
    BY <1>1, <1>3, <1>4
  <2>3. Batch(drafts) /\ o \in Outcomes(ledger, drafts) /\ Becomes(o)
    BY <1>1
  <2>. QED BY <2>1, <2>2, <2>3, <1>2, Records
<1>6. w \in InFlight /\ w \in Writers \union Checks
  BY <1>2 DEF InFlight
<1>7. w \in Checks => CallInv(w)'
  <2>1. w \in Checks => stage'[w] = "done"
    BY <1>2 DEF Goto, BaseInv, Types
  <2>. QED BY <2>1, CallOver
<1>8. \A c \in Checks : c # w =>
         saw'[c] = saw[c] /\ passed'[c] = passed[c] /\ started'[c] = started[c]
  BY <1>2
<1>. QED BY <1>2, <1>5, <1>6, <1>7, <1>8, CallFresh

LEMMA BeginFresh ==
  ASSUME LedgerAssumption, OneLane, BaseInv, FreshInv, NEW c \in Checks, Begin(c)
  PROVE  FreshInv'
<1>1. PICK o \in Scans : /\ Scanned(o, TRUE)
                         /\ Goto(c, IF o.ok THEN "running" ELSE "done")
                         /\ started' = [started EXCEPT ![c] = IF o.ok THEN Revision(o.ledger.mem) ELSE 0]
  BY DEF Begin
<1>2. /\ stage[c] = "idle" /\ Free
      /\ UNCHANGED <<disk, changes, saw, passed, opened, up>>
  BY DEF Begin, world, process
<1>3. InFlight = {} /\ up = "up" /\ up' = "up"
  BY <1>2, Alone
<1>4. /\ Contents' /\ History' /\ EvidenceInv'
      /\ \A k \in Checks : Following(k) /\ started'[k] = started[k] => Following(k)'
  BY <1>1, <1>2, <1>3, ScanKeeps
<1>5. Types /\ CallInv(c)
  BY DEF BaseInv, FreshInv
<1>6. stage'[c] = (IF o.ok THEN "running" ELSE "done") /\ started'[c] = IF o.ok THEN Revision(o.ledger.mem) ELSE 0
  BY <1>1, <1>5 DEF Goto, Types
<1>7. saw'[c] = NoScan
  BY <1>2, <1>5 DEF CallInv
<1>8. ASSUME o.ok PROVE CallInv(c)'
  <2>1. sources' = disk /\ ledger' = o.ledger /\ stage'[c] = "running"
    BY <1>1, <1>6, <1>8 DEF Scanned, Becomes
  <2>2. Watching'
    BY <2>1, <1>5 DEF Watching, Types, Unknown
  <2>3. /\ ledger'.mem \in Seq(Event) /\ Ordered(ledger'.mem)
    <3>1. ledger' \in Ledgers /\ Ordered(ledger'.mem)
      BY <1>1, <1>3, ScanStep
    <3>. QED BY <3>1, LedgerFields
  <2>4. started'[c] = Revision(ledger'.mem) /\ Revision(ledger'.mem) \in Nat
    BY <2>1, <2>3, <1>6, <1>8, LogFacts
  <2>5. Following(c)'
    <3>1. started'[c] <= Revision(ledger'.mem)
      BY <2>4
    <3>. QED BY <2>2, <3>1, <1>7 DEF Following, NoScan
  <2>6. stage'[c] = "running"
    BY <2>1
  <2>. QED BY <2>5, <2>6 DEF CallInv
<1>9. ASSUME ~ o.ok PROVE CallInv(c)'
  <2>1. stage'[c] = "done"
    BY <1>6, <1>9
  <2>. QED BY <2>1, CallOver
<1>10. \A k \in Checks : k # c =>
          saw'[k] = saw[k] /\ passed'[k] = passed[k] /\ started'[k] = started[k]
  <2>1. PICK r : started' = [started EXCEPT ![c] = r]
    BY <1>1
  <2>2. \A k \in Checks : k # c => started'[k] = started[k]
    BY <2>1, <1>5 DEF Types
  <2>. QED BY <2>2, <1>2
<1>11. CallInv(c)' /\ c \in Writers \union Checks
  BY <1>8, <1>9
<1>. QED BY <1>1, <1>3, <1>4, <1>10, <1>11, CallFresh

\* The scan after the command, and the scans of await_shell, kill_shell and an assessment.
LEMMA ScanCallFresh ==
  ASSUME LedgerAssumption, BaseInv, FreshInv, NEW c \in Checks, up = "up",
         c \in InFlight \/ InFlight = {}, stage[c] \in Active,
         NEW o \in Scans, Scanned(o, FALSE),
         NEW to \in {"scanned", "background", "done"}, Goto(c, to), to = "scanned" => saw[c] # NoScan,
         UNCHANGED <<disk, changes, started, saw, passed, opened, up>>
  PROVE  FreshInv'
<1>1. /\ Contents' /\ History' /\ EvidenceInv'
      /\ \A k \in Checks : Following(k) /\ started'[k] = started[k] => Following(k)'
  BY ScanKeeps
<1>2. Types /\ CallInv(c)
  BY DEF BaseInv, FreshInv
<1>3. stage'[c] = to /\ saw' = saw /\ started' = started /\ up' = "up"
  BY <1>2 DEF Goto, Types
<1>4. Following(c)'
  BY <1>1, <1>2, <1>3 DEF CallInv
<1>5. CallInv(c)'
  BY <1>3, <1>4 DEF CallInv, NoScan
<1>6. \A k \in Checks : k # c =>
         saw'[k] = saw[k] /\ passed'[k] = passed[k] /\ started'[k] = started[k]
  BY <1>3
<1>7. c \in Writers \union Checks
  OBVIOUS
<1>. QED BY <1>1, <1>3, <1>5, <1>6, <1>7, CallFresh

LEMMA ScansFresh ==
  ASSUME LedgerAssumption, OneLane, BaseInv, FreshInv, NEW c \in Checks,
         ExitScan(c) \/ Kill(c) \/ \E tool \in {"await", "observe"} : Collect(c, tool)
  PROVE  FreshInv'
<1>1. CASE ExitScan(c)
  <2>1. PICK o \in Scans : Scanned(o, FALSE) /\ Goto(c, IF o.ok THEN "scanned" ELSE "done")
    BY <1>1 DEF ExitScan
  <2>2. /\ stage[c] = "running" /\ up = "up" /\ saw[c] # NoScan
        /\ UNCHANGED <<disk, changes, started, saw, passed, opened, up>>
    BY <1>1 DEF ExitScan, world, process
  <2>3. c \in InFlight /\ stage[c] \in Active
    BY <2>2 DEF InFlight, Active
  <2>4. PICK to \in {"scanned", "background", "done"} : to = IF o.ok THEN "scanned" ELSE "done"
    OBVIOUS
  <2>. QED BY <2>1, <2>2, <2>3, <2>4, ScanCallFresh
<1>2. CASE Kill(c)
  <2>1. PICK o \in Scans : Scanned(o, FALSE) /\ Goto(c, IF o.ok THEN "done" ELSE "background")
    BY <1>2 DEF Kill
  <2>2. /\ stage[c] = "background" /\ Free
        /\ UNCHANGED <<disk, changes, started, saw, passed, opened, up>>
    BY <1>2 DEF Kill, world, process
  <2>3. InFlight = {} /\ up = "up" /\ stage[c] \in Active
    BY <2>2, Alone DEF Active
  <2>4. PICK to \in {"scanned", "background", "done"} : to = (IF o.ok THEN "done" ELSE "background") /\ to # "scanned"
    OBVIOUS
  <2>. QED BY <2>1, <2>2, <2>3, <2>4, ScanCallFresh
<1>3. ASSUME NEW tool \in {"await", "observe"}, Collect(c, tool) PROVE FreshInv'
  <2>1. PICK o \in Scans : Scanned(o, FALSE) /\ Goto(c, IF o.ok THEN "scanned" ELSE "background")
    BY <1>3 DEF Collect
  <2>2. /\ stage[c] = "background" /\ Free /\ saw[c] # NoScan
        /\ UNCHANGED <<disk, changes, started, saw, passed, opened, up>>
    BY <1>3 DEF Collect, world, process
  <2>3. InFlight = {} /\ up = "up" /\ stage[c] \in Active
    BY <2>2, Alone DEF Active
  <2>4. PICK to \in {"scanned", "background", "done"} : to = IF o.ok THEN "scanned" ELSE "background"
    OBVIOUS
  <2>. QED BY <2>1, <2>2, <2>3, <2>4, ScanCallFresh
<1>. QED BY <1>1, <1>2, <1>3

LEMMA AssessFresh ==
  ASSUME LedgerAssumption, OneLane, BaseInv, FreshInv, Assess
  PROVE  FreshInv'
<1>1. PICK o \in Scans : Scanned(o, FALSE)
  BY DEF Assess
<1>2. Free /\ UNCHANGED <<disk, changes, stage, started, saw, passed, opened, up>>
  BY DEF Assess, world, calls, process
<1>3. InFlight = {} /\ up = "up"
  BY <1>2, Alone
<1>4. /\ Contents' /\ History' /\ EvidenceInv'
      /\ \A k \in Checks : Following(k) /\ started'[k] = started[k] => Following(k)'
  BY <1>1, <1>2, <1>3, ScanKeeps
<1>5. OneInFlight' /\ Quiet'
  BY <1>2, <1>3 DEF OneInFlight, InFlight, Quiet
<1>6. ASSUME NEW c \in Checks PROVE CallInv(c)'
  <2>1. CallInv(c) /\ stage'[c] = stage[c] /\ saw'[c] = saw[c] /\ started'[c] = started[c]
    BY <1>2 DEF FreshInv
  <2>2. stage[c] # "judged"
    BY <1>3 DEF InFlight
  <2>3. stage[c] \in Active => Following(c)'
    BY <2>1, <1>4 DEF CallInv
  <2>. QED BY <2>1, <2>2, <2>3 DEF CallInv, NoScan
<1>. QED BY <1>4, <1>5, <1>6 DEF FreshInv

LEMMA DetachFresh ==
  ASSUME LedgerAssumption, BaseInv, FreshInv, NEW c \in Checks, Detach(c)
  PROVE  FreshInv'
<1>1. /\ stage[c] = "running" /\ up = "up" /\ up' = "up" /\ Goto(c, "background")
      /\ UNCHANGED <<disk, changes, ledger, sources, opened, started, saw, passed>>
  BY DEF Detach, world, process
<1>2. /\ Contents' /\ History' /\ EvidenceInv'
      /\ \A k \in Checks : Following(k) /\ started'[k] = started[k] => Following(k)'
  BY <1>1, NothingRecorded
<1>3. c \in InFlight /\ CallInv(c) /\ Types /\ c \in Writers \union Checks
  BY <1>1 DEF InFlight, FreshInv, BaseInv
<1>4. stage'[c] = "background"
  BY <1>1, <1>3 DEF Goto, Types
<1>5. Following(c)'
  BY <1>1, <1>2, <1>3 DEF CallInv, Active
<1>6. CallInv(c)'
  BY <1>4, <1>5 DEF CallInv
<1>7. \A k \in Checks : k # c =>
         saw'[k] = saw[k] /\ passed'[k] = passed[k] /\ started'[k] = started[k]
  BY <1>1
<1>. QED BY <1>1, <1>2, <1>3, <1>6, <1>7, CallFresh

LEMMA JudgeFresh ==
  ASSUME LedgerAssumption, BaseInv, FreshInv, NEW c \in Checks, Judge(c)
  PROVE  FreshInv'
<1>1. /\ stage[c] = "scanned" /\ up = "up" /\ up' = "up" /\ Goto(c, "judged")
      /\ passed' = [passed EXCEPT ![c] = Undisturbed(c)]
      /\ UNCHANGED <<disk, changes, ledger, sources, opened, started, saw>>
  BY DEF Judge, world, process
<1>2. /\ Contents' /\ History' /\ EvidenceInv'
      /\ \A k \in Checks : Following(k) /\ started'[k] = started[k] => Following(k)'
  BY <1>1, NothingRecorded
<1>3. c \in InFlight /\ CallInv(c) /\ Types /\ c \in Writers \union Checks
  BY <1>1 DEF InFlight, FreshInv, BaseInv
<1>4. stage'[c] = "judged" /\ saw'[c] = saw[c] /\ passed'[c] = Undisturbed(c)
  BY <1>1, <1>3 DEF Goto, Types
<1>5. Following(c)' /\ saw'[c] # NoScan
  BY <1>1, <1>2, <1>3 DEF CallInv, Active
<1>6. Undisturbed(c)' <=> Undisturbed(c)
  BY <1>1 DEF Undisturbed
<1>7. passed'[c] => Undisturbed(c)'
  BY <1>4, <1>6
<1>8. CallInv(c)'
  BY <1>4, <1>5, <1>7 DEF CallInv, NoScan
<1>9. \A k \in Checks : k # c =>
         saw'[k] = saw[k] /\ passed'[k] = passed[k] /\ started'[k] = started[k]
  BY <1>1, <1>3 DEF Types
<1>. QED BY <1>1, <1>2, <1>3, <1>8, <1>9, CallFresh

LEMMA RecordCheckFresh ==
  ASSUME LedgerAssumption, BaseInv, FreshInv, NEW c \in Checks, RecordCheck(c)
  PROVE  FreshInv'
<1>1. PICK drafts, o :
         /\ Batch(drafts) /\ o \in Outcomes(ledger, drafts) /\ Becomes(o)
         /\ Len(drafts) = 1 /\ drafts[1] = CheckOf(c, passed[c])
         /\ Goto(c, IF o.ok \/ by[c] # "observe" THEN "done" ELSE "background")
  BY CheckStep
<1>2. /\ stage[c] = "judged" /\ up = "up" /\ up' = "up"
      /\ UNCHANGED <<sources, disk, changes, started, saw, passed, opened>>
  BY DEF RecordCheck, world, process
<1>3. PICK e : e = CheckOf(c, passed[c])
  OBVIOUS
<1>4. /\ Truthful(disk, saw, e) /\ Backed(disk, saw, e, ledger.mem) /\ e.check = c
      /\ PassedCheck(e) =>
            /\ Watching
            /\ \A f \in Covers[c] : saw[c][f] = disk[f] \/ f \in Changed
  BY <1>2, <1>3, CheckIsSound
<1>5. \A k \in 1..Len(drafts) : drafts[k] = e
  BY <1>1, <1>3
<1>6. /\ Contents' /\ History' /\ EvidenceInv'
      /\ \A k \in Checks : Following(k) /\ started'[k] = started[k] => Following(k)'
  <2>1. \A k \in 1..Len(drafts) :
           Truthful(disk, saw, drafts[k]) /\ Backed(disk, saw, drafts[k], ledger.mem)
    BY <1>4, <1>5
  <2>2. \A k \in 1..Len(drafts) : PassedCheck(drafts[k]) =>
           /\ sources' = sources /\ Watching
           /\ \A f \in Covers[drafts[k].check] :
                 saw[drafts[k].check][f] = disk[f] \/ f \in Changed
    BY <1>2, <1>4, <1>5
  <2>3. Batch(drafts) /\ o \in Outcomes(ledger, drafts) /\ Becomes(o)
    BY <1>1
  <2>. QED BY <2>1, <2>2, <2>3, <1>2, Records
<1>7. c \in InFlight /\ CallInv(c) /\ Types /\ c \in Writers \union Checks
  BY <1>2 DEF InFlight, FreshInv, BaseInv
<1>8. PICK to \in {"background", "done"} : Goto(c, to)
  BY <1>1
<1>9. stage'[c] = to
  BY <1>7, <1>8 DEF Goto, Types
<1>10. Following(c)'
  BY <1>2, <1>6, <1>7 DEF CallInv, Active
<1>11. CallInv(c)'
  BY <1>9, <1>10 DEF CallInv
<1>12. \A k \in Checks : k # c =>
          saw'[k] = saw[k] /\ passed'[k] = passed[k] /\ started'[k] = started[k]
  BY <1>2
<1>. QED BY <1>2, <1>6, <1>7, <1>8, <1>11, <1>12, CallFresh

LEMMA ExitsFresh ==
  ASSUME BaseInv, FreshInv, NEW c \in Checks, Exits(c)
  PROVE  FreshInv'
<1>1. /\ saw[c] = NoScan /\ stage[c] \in {"running", "background"} /\ up' = up
      /\ saw' = [saw EXCEPT ![c] = disk]
      /\ UNCHANGED <<disk, changes, ledger, sources, opened, started, passed, stage>>
  BY DEF Exits, world, process
<1>2. /\ Types /\ Contents /\ History /\ EvidenceInv
      /\ \A k \in Checks : CallInv(k)
      /\ ledger.mem \in Seq(Event)
      /\ Readable(ledger.lines) => ledger.lines \in Seq(Event)
  <2>1. Types /\ ledger \in Ledgers
    BY DEF BaseInv, Types
  <2>. QED BY <2>1, LedgerFields, ReadableIsTyped DEF FreshInv
<1>3. saw'[c] = disk /\ \A k \in Checks : k # c => saw'[k] = saw[k]
  BY <1>1, <1>2 DEF Types
<1>4. \A k \in Checks : saw[k] # NoScan => saw'[k] = saw[k]
  BY <1>1, <1>3
<1>5. Sound(disk, saw', ledger.mem)
  BY <1>2, <1>4, StaysLater, SoundLater DEF History
<1>6. Readable(ledger.lines) => Sound(disk, saw', ledger.lines)
  BY <1>2, <1>4, StaysLater, SoundLater DEF History
<1>7. Contents' /\ History'
  BY <1>1, <1>2, <1>5, <1>6 DEF Contents, History
<1>8. Changed' = Changed /\ (Watching' <=> Watching) /\ NoScan' = NoScan
  BY <1>1 DEF Changed, NoScan, Watching
<1>9. ASSUME NEW i \in 1..Len(ledger.mem), i > opened, PassedCheck(ledger.mem[i])
      PROVE  Covered(ledger.mem[i].check, i)'
  <2>1. ledger.mem[i] \in Event /\ ledger.mem[i].kind = "check"
    BY <1>2, <1>9 DEF PassedCheck
  <2>2. PICK k \in Checks : k = ledger.mem[i].check
    BY <2>1, EventFacts
  <2>3. saw[k] # NoScan
    BY <1>2, <2>1, <2>2 DEF History, Sound, Truthful
  <2>4. saw'[k] = saw[k] /\ k = ledger'.mem[i].check
    BY <1>1, <1>4, <2>2, <2>3
  <2>5. Covered(k, i)
    BY <1>2, <1>9, <2>2 DEF EvidenceInv
  <2>6. Covered(k, i)'
    BY <1>1, <1>8, <2>4, <2>5 DEF Covered
  <2>. QED BY <2>4, <2>6
<1>10. EvidenceInv'
  BY <1>1, <1>9 DEF EvidenceInv
<1>11. ASSUME NEW k \in Checks PROVE CallInv(k)'
  <2>1. stage'[k] = stage[k] /\ started'[k] = started[k] /\ passed'[k] = passed[k] /\ CallInv(k)
    BY <1>1, <1>2
  <2>2. Undisturbed(k)' <=> Undisturbed(k)
    BY <1>1 DEF Undisturbed
  <2>3. CASE k = c
    <3>1. Following(c)
      BY <1>1, <1>2 DEF CallInv, Active
    <3>2. ASSUME NEW j \in 1..Len(ledger.mem), Wrote(ledger.mem, j, Covers[c])
          PROVE  Saw(disk, saw', c, ledger.mem[j].file, ledger.mem[j].hash)
      <4>1. ledger.mem[j].kind = "write"
        BY <3>2 DEF Wrote
      <4>2. Was(disk, ledger.mem[j].file, ledger.mem[j].hash)
        BY <4>1, <1>2 DEF History, Sound, Truthful
      <4>. QED BY <4>2, <1>3 DEF Was, Saw
    <3>3. Followed(c)'
      BY <3>2, <1>1, <1>3 DEF Followed
    <3>4. Following(c)'
      BY <3>1, <3>3, <1>1, <1>8 DEF Following
    <3>5. stage'[c] \in {"running", "background"}
      BY <1>1
    <3>. QED BY <2>3, <3>4, <3>5 DEF CallInv
  <2>4. CASE k # c
    <3>1. saw'[k] = saw[k]
      BY <1>3, <2>4
    <3>2. Following(k) => Following(k)'
      BY <3>1, <1>1, <1>8 DEF Following, Followed, Saw
    <3>. QED BY <2>1, <2>2, <3>1, <3>2, <1>8 DEF CallInv
  <2>. QED BY <2>3, <2>4
<1>12. Quiet' /\ OneInFlight'
  BY <1>1 DEF FreshInv, Quiet, OneInFlight, InFlight
<1>. QED BY <1>7, <1>10, <1>11, <1>12 DEF FreshInv

LEMMA CrashFresh ==
  ASSUME LedgerAssumption, BaseInv, FreshInv, Crash
  PROVE  FreshInv'
<1>1. /\ sources' = NoScan /\ up' = "down"
      /\ stage' = [x \in DOMAIN stage |-> IF stage[x] = "idle" THEN "idle" ELSE "done"]
      /\ UNCHANGED <<disk, changes, saw, opened>>
  BY DEF Crash, world
<1>2. /\ Types /\ Contents /\ History /\ \A c \in Checks : CallInv(c)
      /\ ledger.mem \in Seq(Event) /\ Ordered(ledger.mem)
  BY LedgerFields DEF BaseInv, Types, FreshInv
<1>3. /\ ledger'.mem = <<>>
      /\ Readable(ledger'.lines) =>
            \/ ledger'.lines = ledger.lines
            \/ \E draft \in Pending : /\ Batch(<<draft>>)
                                      /\ \E n \in 0..1 : ledger'.lines = Grown(ledger.mem, <<draft>>, n)
  BY CrashFacts
<1>4. ASSUME NEW draft \in Pending, Batch(<<draft>>), NEW n \in 0..1
      PROVE  Sound(disk, saw, Grown(ledger.mem, <<draft>>, n))
  <2>1. PICK drafts : drafts = <<draft>>
    OBVIOUS
  <2>2. Batch(drafts) /\ Len(drafts) = 1 /\ \A k \in 1..Len(drafts) : drafts[k] = draft
    BY <1>4, <2>1
  <2>3. Truthful(disk, saw, draft) /\ Backed(disk, saw, draft, ledger.mem)
    BY PendingIsSound
  <2>4. /\ \A k \in 1..Len(drafts) :
              Truthful(disk, saw, drafts[k]) /\ Backed(disk, saw, drafts[k], ledger.mem)
        /\ n \in 0..Len(drafts) /\ Sound(disk, saw, ledger.mem)
    BY <1>2, <2>2, <2>3 DEF History
  <2>. QED BY <1>2, <2>1, <2>2, <2>4, SoundGrown
<1>5. Readable(ledger'.lines) => Sound(disk, saw, ledger'.lines)
  <2>1. CASE ledger'.lines = ledger.lines
    BY <1>2, <2>1 DEF History
  <2>. QED BY <2>1, <1>3, <1>4
<1>6. Sound(disk, saw, <<>>)
  BY EmptyLog DEF Sound
<1>7. History'
  BY <1>1, <1>3, <1>5, <1>6 DEF History
<1>8. Contents'
  BY <1>1, <1>2 DEF Contents, NoScan
<1>9. EvidenceInv'
  BY <1>3, EmptyLog DEF EvidenceInv
<1>10. \A x \in Writers \union Checks :
          stage'[x] = (IF stage[x] = "idle" THEN "idle" ELSE "done")
  BY <1>1, <1>2 DEF Types
<1>11. ASSUME NEW x \in Writers \union Checks
       PROVE  stage'[x] \in {"idle", "done"} /\ (stage'[x] = "idle" => stage[x] = "idle")
  BY <1>10
<1>12. Quiet' /\ OneInFlight'
  BY <1>11 DEF Quiet, OneInFlight, InFlight
<1>13. \A c \in Checks : CallInv(c)'
  BY <1>1, <1>2, <1>11 DEF CallInv, Active, NoScan
<1>. QED BY <1>7, <1>8, <1>9, <1>12, <1>13 DEF FreshInv

\* Opening replays a sound history, and records only writes of what the files hold.
LEMMA OpenIsSound ==
  ASSUME LedgerAssumption, BaseInv, FreshInv, NEW L \in Ledgers, Ordered(L.mem),
         L.lines = ledger.lines,
         L.mem = IF Readable(ledger.lines) THEN ledger.lines ELSE <<>>,
         NEW drafts, Batch(drafts),
         \A k \in 1..Len(drafts) : \E f \in Diverged(L.mem) : drafts[k] = WriteOf(f, disk[f]),
         NEW n \in 0..Len(drafts)
  PROVE  /\ Sound(disk, saw, Grown(L.mem, drafts, n))
         /\ \A k \in 1..Len(drafts) : ~ PassedCheck(drafts[k])
<1>1. Sound(disk, saw, L.mem)
  <2>1. Sound(disk, saw, <<>>)
    BY EmptyLog DEF Sound
  <2>. QED BY <2>1 DEF FreshInv, History
<1>2. ASSUME NEW k \in 1..Len(drafts)
      PROVE  /\ Truthful(disk, saw, drafts[k]) /\ Backed(disk, saw, drafts[k], L.mem)
             /\ ~ PassedCheck(drafts[k])
  <2>1. PICK f : drafts[k] = WriteOf(f, disk[f])
    OBVIOUS
  <2>2. PICK h : h = disk[f]
    OBVIOUS
  <2>3. Was(disk, f, h)
    BY <2>2 DEF Was
  <2>4. /\ Truthful(disk, saw, WriteOf(f, h)) /\ Backed(disk, saw, WriteOf(f, h), L.mem)
        /\ ~ PassedCheck(WriteOf(f, h))
    BY <2>3, WriteIsSound
  <2>. QED BY <2>1, <2>2, <2>4
<1>3. L.mem \in Seq(Event)
  BY LedgerFields
<1>4. Sound(disk, saw, Grown(L.mem, drafts, n))
  <2>1. \A k \in 1..Len(drafts) :
           Truthful(disk, saw, drafts[k]) /\ Backed(disk, saw, drafts[k], L.mem)
    BY <1>2
  <2>. QED BY <2>1, <1>1, <1>3, SoundGrown
<1>. QED BY <1>2, <1>4

LEMMA OpenFresh ==
  ASSUME LedgerAssumption, BaseInv, FreshInv, Open
  PROVE  FreshInv'
<1>1. PICK L, drafts, o :
         /\ L \in Ledgers /\ Ordered(L.mem) /\ Linked(L) /\ L.lines = ledger.lines
         /\ L.mem = IF Readable(ledger.lines) THEN ledger.lines ELSE <<>>
         /\ Batch(drafts) /\ o \in Outcomes(L, drafts)
         /\ \A k \in 1..Len(drafts) : \E f \in Diverged(L.mem) : drafts[k] = WriteOf(f, disk[f])
         /\ ledger' = IF o.ok THEN o.ledger ELSE [o.ledger EXCEPT !.mem = <<>>]
         /\ opened' = IF o.ok THEN Len(L.mem) ELSE opened
  BY OpenFacts
<1>2. up = "down" /\ UNCHANGED <<sources, disk, changes, stage, started, saw, passed>>
  BY DEF Open, world, calls
<1>3. /\ Types /\ Contents /\ History /\ Quiet /\ OneInFlight /\ \A c \in Checks : CallInv(c)
      /\ L.mem \in Seq(Event)
  BY <1>1, LedgerFields DEF BaseInv, FreshInv
<1>4. /\ o.ok \in BOOLEAN /\ o.ledger \in Ledgers
      /\ \E n \in 0..Len(drafts) : o.ledger.mem = Grown(L.mem, drafts, n)
      /\ Readable(o.ledger.lines) =>
            \/ o.ledger.lines = L.lines
            \/ \E n \in 0..Len(drafts) : o.ledger.lines = Grown(L.mem, drafts, n)
  BY <1>1, OutcomeFacts
<1>5. \A n \in 0..Len(drafts) : Sound(disk, saw, Grown(L.mem, drafts, n))
  <2>1. ASSUME NEW n \in 0..Len(drafts) PROVE Sound(disk, saw, Grown(L.mem, drafts, n))
    BY <1>1, OpenIsSound
  <2>. QED BY <2>1
<1>6. /\ ledger'.lines = o.ledger.lines
      /\ ledger'.mem = IF o.ok THEN o.ledger.mem ELSE <<>>
  BY <1>1, <1>4, LedgerFields
<1>7. Sound(disk, saw, <<>>) /\ Len(<<>>) = 0
  BY EmptyLog DEF Sound
<1>8. Sound(disk, saw, ledger'.mem)
  BY <1>4, <1>5, <1>6, <1>7
<1>9. ASSUME Readable(ledger'.lines) PROVE Sound(disk, saw, ledger'.lines)
  <2>1. CASE ledger'.lines = ledger.lines
    BY <1>3, <1>9, <2>1 DEF History
  <2>. QED BY <2>1, <1>1, <1>4, <1>5, <1>6, <1>9
<1>10. History' /\ Contents'
  BY <1>2, <1>3, <1>8, <1>9 DEF History, Contents
<1>11. ASSUME NEW i \in 1..Len(ledger'.mem), i > opened', PassedCheck(ledger'.mem[i])
       PROVE  FALSE
  <2>1. o.ok
    BY <1>6, <1>7, <1>11
  <2>2. opened' = Len(L.mem)
    BY <1>1, <2>1
  <2>3. PICK n \in 0..Len(drafts) : ledger'.mem = Grown(L.mem, drafts, n)
    BY <1>4, <1>6, <2>1
  <2>4. PICK log, new : log = L.mem /\ new = Grown(log, drafts, n) /\ new = ledger'.mem
    BY <2>3
  <2>5. log \in Seq(Event) /\ Ordered(log) /\ Batch(drafts) /\ new = Grown(log, drafts, n)
    BY <1>1, <1>3, <2>4
  <2>6. \A k \in 1..n : /\ k \in 1..Len(drafts) /\ drafts[k] \in Event
                        /\ SameFact(new[Len(log) + k], drafts[k])
    BY <2>5, GrownEvents
  <2>7. \A m \in 1..Len(new) :
           m \in 1..Len(log) \/ (m - Len(log) \in 1..n /\ m = Len(log) + (m - Len(log)))
    BY <2>5, GrownEvents
  <2>8. i \notin 1..Len(log)
    BY <1>11, <2>2, <2>4, <2>5
  <2>9. PICK k \in 1..n : i = Len(log) + k
    BY <1>11, <2>4, <2>7, <2>8
  <2>10. drafts[k] \in Event /\ SameFact(new[i], drafts[k]) /\ PassedCheck(new[i])
    BY <1>11, <2>4, <2>6, <2>9
  <2>11. PassedCheck(drafts[k])
    BY <2>10, SamePassed
  <2>12. ~ PassedCheck(drafts[k])
    BY <1>1, <2>6, OpenIsSound
  <2>. QED BY <2>11, <2>12
<1>12. EvidenceInv'
  BY <1>11 DEF EvidenceInv
<1>13. Quiet' /\ OneInFlight'
  BY <1>2, <1>3 DEF Quiet, OneInFlight, InFlight
<1>14. ASSUME NEW c \in Checks PROVE CallInv(c)'
  <2>1. CallInv(c) /\ stage[c] \in {"idle", "done"} /\ stage'[c] = stage[c] /\ saw'[c] = saw[c]
    BY <1>2, <1>3 DEF Quiet
  <2>. QED BY <2>1 DEF CallInv, Active, NoScan
<1>. QED BY <1>10, <1>12, <1>13, <1>14 DEF FreshInv

LEMMA FreshStep ==
  ASSUME LedgerAssumption, OneLane, BaseInv, FreshInv, [Next]_vars
  PROVE  FreshInv'
<1>1. ASSUME NEW f \in Files, Edit(f) \/ Delete(f) PROVE FreshInv'
  BY <1>1, EditFresh
<1>2. ASSUME NEW w \in Writers, WriteFile(w) \/ RecordWrite(w) PROVE FreshInv'
  BY <1>2, WriteFileFresh, RecordWriteFresh
<1>3. ASSUME NEW c \in Checks, Begin(c) \/ Detach(c) \/ Exits(c) \/ Judge(c) \/ RecordCheck(c)
      PROVE  FreshInv'
  BY <1>3, BeginFresh, DetachFresh, ExitsFresh, JudgeFresh, RecordCheckFresh
<1>4. ASSUME NEW c \in Checks,
             ExitScan(c) \/ Kill(c) \/ \E tool \in {"await", "observe"} : Collect(c, tool)
      PROVE  FreshInv'
  BY <1>4, ScansFresh
<1>5. ASSUME UNCHANGED vars PROVE FreshInv'
  <2>1. /\ UNCHANGED <<disk, changes, ledger, sources, opened, saw>>
        /\ UNCHANGED <<stage, started, passed, up>>
    BY <1>5 DEF vars, world, calls, process
  <2>2. /\ Contents' /\ History' /\ EvidenceInv'
        /\ \A c \in Checks : Following(c) /\ started'[c] = started[c] => Following(c)'
    BY <2>1, NothingRecorded
  <2>3. Quiet' /\ OneInFlight'
    BY <2>1 DEF FreshInv, Quiet, OneInFlight, InFlight
  <2>4. ASSUME NEW c \in Checks PROVE CallInv(c)'
    <3>1. CallInv(c) /\ stage'[c] = stage[c] /\ saw'[c] = saw[c] /\ passed'[c] = passed[c]
          /\ started'[c] = started[c]
      BY <2>1 DEF FreshInv
    <3>2. Undisturbed(c)' <=> Undisturbed(c)
      BY <2>1 DEF Undisturbed
    <3>. QED BY <3>1, <3>2, <2>2 DEF CallInv, NoScan
  <2>. QED BY <2>2, <2>3, <2>4 DEF FreshInv
<1>. QED BY <1>1, <1>2, <1>3, <1>4, <1>5, AssessFresh, CrashFresh, OpenFresh DEF Next

LEMMA FreshInvariance == OneLane => (Spec => []FreshInv)
<1>1. SUFFICES ASSUME OneLane PROVE Spec => []FreshInv
  OBVIOUS
<1>2. LedgerAssumption
  BY LedgerAssumption
<1>3. BaseInv /\ FreshInv /\ [Next]_vars => FreshInv'
  BY <1>1, <1>2, FreshStep
<1>. QED BY <1>3, FreshInit, Invariance, PTL DEF Spec

LEMMA FreshEvidence ==
  ASSUME LedgerAssumption, BaseInv, FreshInv
  PROVE  EvidenceIsFresh
<1>1. ledger.mem \in Seq(Event) /\ EvidenceInv /\ DOMAIN ledger.mem = 1..Len(ledger.mem)
  <2>1. ledger.mem \in Seq(Event)
    BY LedgerFields DEF BaseInv, Types
  <2>. QED BY <2>1 DEF FreshInv
<1>2. ASSUME NEW i \in Current(ledger.mem), i > opened,
             NEW f \in Covers[ledger.mem[i].check]
      PROVE  saw[ledger.mem[i].check][f] = disk[f] \/ f \in Changed
  <2>1. PICK c : c = ledger.mem[i].check
    OBVIOUS
  <2>2. /\ i \in 1..Len(ledger.mem) /\ ledger.mem[i].kind = "check" /\ ledger.mem[i].passed
        /\ \A j \in WritesTo(ledger.mem, Covers[c]) : j < i
    BY <1>1, <2>1 DEF Current
  <2>3. PassedCheck(ledger.mem[i])
    BY <2>2 DEF PassedCheck
  <2>4. Covered(c, i)
    BY <1>1, <1>2, <2>1, <2>2, <2>3 DEF EvidenceInv
  <2>5. ASSUME NEW j \in 1..Len(ledger.mem), j > i, Wrote(ledger.mem, j, {f}) PROVE FALSE
    <3>1. Wrote(ledger.mem, j, Covers[c])
      BY <2>1, <2>5, <1>2 DEF Wrote
    <3>2. j < i
      BY <3>1, <1>1, <2>2, WritesAre
    <3>. QED BY <3>2, <2>2, <2>5, <1>1
  <2>. QED BY <1>2, <2>1, <2>4, <2>5 DEF Covered
<1>. QED BY <1>2 DEF EvidenceIsFresh

\* Evidence a task with one call in flight reports as current holds of the files as
\* they are (Reduce, recordCommandEvidenceAt), but for a change the next scan finds
\* (refreshSourceChanges), whatever failing appends and crashes leave in the file.
THEOREM EvidenceCorrectness == OneLane => (Spec => []EvidenceIsFresh)
<1>1. LedgerAssumption
  BY LedgerAssumption
<1>2. BaseInv /\ FreshInv => EvidenceIsFresh
  BY <1>1, FreshEvidence
<1>. QED BY <1>2, Invariance, FreshInvariance, PTL

\* Opening the ledger again.
Reopens == up = "down" /\ up' = "up"

LEMMA OnlyOpenReopens ==
  ASSUME [Next]_vars, Reopens
  PROVE  Open
<1>. USE DEF Reopens, process
<1>1. ASSUME NEW f \in Files, Edit(f) \/ Delete(f) PROVE FALSE
  BY <1>1 DEF Edit, Delete
<1>2. ASSUME NEW w \in Writers, WriteFile(w) \/ RecordWrite(w) PROVE FALSE
  BY <1>2 DEF WriteFile, RecordWrite
<1>3. ASSUME NEW c \in Checks, Begin(c) \/ Detach(c) \/ Exits(c) \/ Judge(c) \/ RecordCheck(c)
      PROVE  FALSE
  BY <1>3 DEF Begin, Detach, Exits, Judge, RecordCheck
<1>4. ASSUME NEW c \in Checks,
             ExitScan(c) \/ Kill(c) \/ \E tool \in {"await", "observe"} : Collect(c, tool)
      PROVE  FALSE
  BY <1>4 DEF ExitScan, Kill, Collect
<1>5. ASSUME Assess \/ Crash PROVE FALSE
  BY <1>5 DEF Assess, Crash
<1>6. ASSUME UNCHANGED vars PROVE FALSE
  BY <1>6 DEF vars
<1>. QED BY <1>1, <1>2, <1>3, <1>4, <1>5, <1>6 DEF Next

LEMMA ReopenedStep ==
  ASSUME LedgerAssumption, BaseInv, FreshInv, Open, up' = "up",
         NEW i \in Current(ledger'.mem), NEW f \in Covers[ledger'.mem[i].check],
         WritesTo(ledger'.mem, {f}) # {}
  PROVE  saw[ledger'.mem[i].check][f] = disk[f]
<1>1. PICK L, drafts, o :
         /\ L \in Ledgers /\ Ordered(L.mem) /\ Linked(L) /\ L.lines = ledger.lines
         /\ L.mem = IF Readable(ledger.lines) THEN ledger.lines ELSE <<>>
         /\ Batch(drafts) /\ o \in Outcomes(L, drafts)
         /\ \A k \in 1..Len(drafts) : \E g \in Diverged(L.mem) : drafts[k] = WriteOf(g, disk[g])
         /\ \A g \in Diverged(L.mem) : \E k \in 1..Len(drafts) : drafts[k] = WriteOf(g, disk[g])
         /\ ledger' = IF o.ok THEN o.ledger ELSE [o.ledger EXCEPT !.mem = <<>>]
         /\ up' = IF ~Readable(ledger.lines) THEN "corrupt" ELSE IF o.ok THEN "up" ELSE "down"
  BY OpenFacts
<1>2. Types /\ L.mem \in Seq(Event)
  BY <1>1, LedgerFields DEF BaseInv
<1>3. o.ok
  BY <1>1
<1>4. PICK n \in 0..Len(drafts) : o.ledger.mem = Grown(L.mem, drafts, n) /\ n = Len(drafts)
  <2>1. \E n \in 0..Len(drafts) :
           o.ledger.mem = Grown(L.mem, drafts, n) /\ (o.ok => n = Len(drafts))
    BY <1>1, OutcomeFacts
  <2>. QED BY <2>1, <1>3
<1>5. PICK log, new, c : /\ log = L.mem /\ new = Grown(log, drafts, n) /\ new = ledger'.mem
                         /\ c = new[i].check
  BY <1>1, <1>3, <1>4
<1>6. log \in Seq(Event) /\ Ordered(log) /\ Batch(drafts) /\ new = Grown(log, drafts, n)
  BY <1>1, <1>2, <1>5
<1>7. /\ new \in Seq(Event) /\ Len(new) = Len(log) + n
      /\ Len(log) \in Nat /\ n \in Nat
      /\ \A m \in 1..Len(log) : m \in 1..Len(new) /\ new[m] = log[m]
  BY <1>6, GrownEvents
<1>8. \A k \in 1..n : /\ k \in 1..Len(drafts) /\ drafts[k] \in Event
                      /\ Len(log) + k \in 1..Len(new)
                      /\ SameFact(new[Len(log) + k], drafts[k])
  BY <1>6, GrownEvents
<1>9. \A m \in 1..Len(new) :
         m \in 1..Len(log) \/ (m - Len(log) \in 1..n /\ m = Len(log) + (m - Len(log)))
  BY <1>6, GrownEvents
<1>10. /\ Sound(disk, saw, new)
       /\ \A k \in 1..Len(drafts) : ~ PassedCheck(drafts[k])
  BY <1>1, <1>5, OpenIsSound
<1>11. /\ i \in 1..Len(new) /\ PassedCheck(new[i]) /\ f \in Covers[c]
       /\ \A j \in WritesTo(new, Covers[c]) : j < i
  <2>1. i \in DOMAIN new /\ new[i].kind = "check" /\ new[i].passed
        /\ \A j \in WritesTo(new, Covers[c]) : j < i
    BY <1>5 DEF Current
  <2>. QED BY <2>1, <1>5, <1>7 DEF PassedCheck
<1>12. c \in Checks /\ f \in Files /\ disk[f] \in Nat
  <2>1. new[i] \in Event
    BY <1>7, <1>11
  <2>2. c \in Checks
    BY <2>1, <1>5, <1>11, EventFacts DEF PassedCheck
  <2>. QED BY <2>2, <1>2, <1>11 DEF LedgerAssumption, Types
<1>13. ASSUME NEW j \in 1..Len(new), Wrote(new, j, {f}) PROVE Wrote(new, j, Covers[c]) /\ j < i
  <2>1. Wrote(new, j, Covers[c])
    BY <1>11, <1>13 DEF Wrote
  <2>. QED BY <2>1, <1>7, <1>11, WritesAre
<1>14. i \in 1..Len(log)
  <2>1. SUFFICES ASSUME i \notin 1..Len(log) PROVE FALSE
    OBVIOUS
  <2>2. PICK k \in 1..n : i = Len(log) + k
    BY <1>9, <1>11, <2>1
  <2>3. drafts[k] \in Event /\ SameFact(new[i], drafts[k]) /\ PassedCheck(new[i])
    BY <1>8, <1>11, <2>2
  <2>4. PassedCheck(drafts[k])
    BY <2>3, SamePassed
  <2>. QED BY <2>4, <1>8, <1>10
<1>15. PICK j \in 1..Len(log) : Wrote(log, j, {f})
  <2>1. PICK j \in WritesTo(new, {f}) : TRUE
    BY <1>5
  <2>2. Wrote(new, j, {f}) /\ j \in 1..Len(new)
    BY <1>7, <2>1, WritesAre DEF Wrote
  <2>3. j < i
    BY <1>13, <2>2
  <2>4. j \in 1..Len(log)
    BY <1>7, <1>14, <2>2, <2>3
  <2>. QED BY <1>7, <2>2, <2>4 DEF Wrote
<1>16. f \notin Diverged(log)
  <2>1. SUFFICES ASSUME f \in Diverged(log) PROVE FALSE
    OBVIOUS
  <2>2. PICK k \in 1..n : drafts[k] = WriteOf(f, disk[f])
    BY <1>1, <1>4, <1>5, <2>1
  <2>3. drafts[k].kind = "write" /\ drafts[k].file = f
    BY <2>2 DEF WriteOf
  <2>4. PICK m \in 1..Len(new) : m = Len(log) + k
    BY <1>8
  <2>5. SameFact(new[m], drafts[k])
    BY <1>8, <2>4
  <2>6. new[m].kind = "write" /\ new[m].file = f
    BY <2>3, <2>5 DEF SameFact
  <2>7. m < i
    BY <1>13, <2>6 DEF Wrote
  <2>. QED BY <2>4, <2>7, <1>7, <1>14
<1>17. PICK T : T = WritesTo(log, {f})
  OBVIOUS
<1>18. T # {} /\ T \subseteq 0..Len(log) /\ T \subseteq 1..Len(log)
  <2>1. j \in T
    BY <1>6, <1>15, <1>17, WritesAre
  <2>2. \A m \in T : m \in 1..Len(log)
    BY <1>6, <1>17, WritesAre DEF Wrote
  <2>. QED BY <2>1, <2>2
<1>19. PICK last \in T : last = Max(T)
  BY <1>7, <1>18, MaxIsGreatest
<1>20. log[last].hash = disk[f]
  <2>1. LastHash(log, f) = disk[f]
    BY <1>12, <1>16, <1>17, <1>18 DEF Diverged
  <2>. QED BY <2>1, <1>17, <1>19 DEF LastHash
<1>21. Wrote(log, last, {f}) /\ last \in 1..Len(log)
  BY <1>6, <1>17, <1>18, <1>19, WritesAre
<1>22. /\ last \in 1..Len(new) /\ new[last] = log[last] /\ log[last].file = f
       /\ Wrote(new, last, {f})
  BY <1>7, <1>21 DEF Wrote
<1>23. Wrote(new, last, Covers[c]) /\ last < i
  BY <1>13, <1>22
<1>24. Saw(disk, saw, c, f, disk[f])
  BY <1>5, <1>10, <1>11, <1>20, <1>22, <1>23 DEF Sound
<1>25. ~ Past(disk, f, disk[f])
  BY <1>12 DEF Past, DeletedHash
<1>. QED BY <1>5, <1>24, <1>25 DEF Saw

\* Opening a task again reports as current no passed check that ran on another
\* content of a covered file than the file has, of the files the task wrote
\* (openTaskRuntime, reconcileExternalChanges), for a task with one call in flight.
THEOREM ReopenedCorrectness == OneLane => (Spec => ReopenedEvidenceIsFresh)
<1>1. LedgerAssumption
  BY LedgerAssumption
<1>2. ASSUME BaseInv, FreshInv, [Next]_vars
      PROVE  [up = "down" /\ up' = "up" =>
                \A i \in Current(ledger'.mem) :
                    LET c == ledger'.mem[i].check
                    IN  \A f \in Covers[c] :
                            WritesTo(ledger'.mem, {f}) # {} => saw[c][f] = disk[f]]_vars
  BY <1>1, <1>2, OnlyOpenReopens, ReopenedStep DEF Reopens
<1>. QED BY <1>2, Invariance, FreshInvariance, PTL DEF Spec, ReopenedEvidenceIsFresh

=============================================================================
