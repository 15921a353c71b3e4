---------------------------- MODULE IndexProofs ----------------------------
(***************************************************************************)
(* Theorems about the index engine and the index store, for any paths,     *)
(* commits, batches and caps.  IndexEngine: the types of its state, and    *)
(* of which paths its metadata can become untrue, in which steps.          *)
(* IndexStore: a segment's file stays as long as a reader or               *)
(* the current snapshot can need it, and none stays behind that the store  *)
(* has let go of; every snapshot shows each path once; and the store       *)
(* implements a published index.  The invariants are IndexInvariants'.     *)
(***************************************************************************)
EXTENDS IndexEngine, IndexInvariants, SequenceTheorems, FiniteSetTheorems, TLAPS

-----------------------------------------------------------------------------
\* Types.

\* Sets of paths have a size, which grows by at most one with a path.
LEMMA PathSets ==
    ASSUME NEW S \in SUBSET Paths
    PROVE  /\ IsFiniteSet(S) /\ Cardinality(S) \in Nat
           /\ \A p \in Paths : Cardinality(S \cup {p}) \in Cardinality(S) .. Cardinality(S) + 1
<1>1. IsFiniteSet(S)
  BY FilesAssumption, FS_Subset DEF FilesAssumption
<1>2. ASSUME NEW p \in Paths
      PROVE  Cardinality(S \cup {p}) = IF p \in S THEN Cardinality(S) ELSE Cardinality(S) + 1
  BY <1>1, FS_AddElement
<1> QED
  BY <1>1, <1>2, FS_CardinalityType

\* Metadata with at most MaxTouched paths.
SmallMetas == {m \in Metas : Cardinality(m.touched) <= MaxTouched}

\* How metadata is made of its fields.
LEMMA MetaFields ==
    ASSUME NEW complete \in BOOLEAN, NEW commit \in Commits \cup {None},
           NEW touched \in SUBSET Paths, NEW over \in BOOLEAN, Cardinality(touched) <= MaxTouched
    PROVE  [complete |-> complete, commit |-> commit, touched |-> touched, overflow |-> over] \in SmallMetas
<1> DEFINE m == [complete |-> complete, commit |-> commit, touched |-> touched, overflow |-> over]
<1>1. m \in Metas
  BY DEF Metas
<1>2. m.touched = touched
  OBVIOUS
<1> HIDE DEF m
<1>3. m \in SmallMetas
  BY <1>1, <1>2 DEF SmallMetas
<1> QED
  BY <1>3 DEF m

\* appendTouched with its cap keeps the metadata small.
LEMMA StagedType ==
    ASSUME meta \in SmallMetas, NEW paths \in SUBSET Paths
    PROVE  Staged(paths) \in SmallMetas
<1> DEFINE touched == meta.touched \cup paths
           over == Cardinality(touched) > MaxTouched
           kept == IF over THEN {} ELSE touched
<1>1. touched \in SUBSET Paths
  BY DEF SmallMetas, Metas
<1>2. Cardinality({}) = 0 /\ Cardinality(touched) \in Nat
  BY <1>1, PathSets, FS_EmptySet
<1>3. kept \in SUBSET Paths /\ Cardinality(kept) <= MaxTouched
  BY <1>1, <1>2, EngineAssumption DEF EngineAssumption
<1>4. meta.complete \in BOOLEAN /\ meta.commit \in Commits \cup {None} /\ meta.overflow \in BOOLEAN
  BY DEF SmallMetas, Metas
<1>5. (meta.overflow \/ over) \in BOOLEAN
  OBVIOUS
<1>6. Staged(paths) = [complete |-> meta.complete, commit |-> meta.commit,
                       touched |-> kept, overflow |-> meta.overflow \/ over]
  BY DEF Staged
<1> HIDE DEF kept, over
<1> QED
  BY <1>3, <1>4, <1>5, <1>6, MetaFields

\* The metadata of a reconcile is small whatever git listed.
LEMMA NewMetaType ==
    ASSUME pass \in Passes, NEW touched \in Kept(pass.listed)
    PROVE  NewMeta(touched) \in SmallMetas /\ Known(touched) \subseteq Paths
<1>1. touched \subseteq Paths /\ pass.listed \subseteq Paths /\ pass.head \in Commits \cup {None}
  BY DEF Kept, Passes
<1>2. Cardinality(pass.listed) \in Nat /\ Cardinality({}) = 0
  BY <1>1, PathSets, FS_EmptySet
<1>3. Cardinality(touched) <= MaxTouched
  BY <1>2, EngineAssumption DEF EngineAssumption, Kept
<1>4. Known(touched) \subseteq Paths /\ Cardinality(Known(touched)) <= MaxTouched
  BY <1>1, <1>2, <1>3, EngineAssumption DEF EngineAssumption, Known
<1>5. TRUE \in BOOLEAN /\ FALSE \in BOOLEAN
  OBVIOUS
<1> QED
  BY <1>1, <1>4, <1>5, MetaFields, Zenon DEF NewMeta

TypeInv == TypeOK /\ meta \in SmallMetas /\ saved \in SmallMetas

\* Initially.
LEMMA TypeInit ==
    Init => TypeInv
<1> SUFFICES ASSUME Init PROVE TypeInv
  OBVIOUS
<1>1. Cardinality({}) = 0
  BY FS_EmptySet
<1>2. Cardinality({}) <= MaxTouched /\ Cardinality({}) <= MaxDirty
  BY <1>1, EngineAssumption DEF EngineAssumption
<1>3. NoMeta \in SmallMetas
  BY <1>2, MetaFields, Zenon DEF NoMeta
<1> QED
  BY <1>2, <1>3, FilesAssumption, EngineAssumption
  DEF FilesAssumption, EngineAssumption, Init, TypeInv, TypeOK, SmallMetas

\* What a pass starts with.
LEMMA PassTypes ==
    ASSUME TypeInv
    PROVE  /\ Modified \subseteq Paths
           /\ \A c, d : Differ(c, d) \subseteq Paths
           /\ \A mode \in {"git", "list", "update"}, paths \in SUBSET Paths :
                StartPass(mode, paths) => pass' \in Passes
           /\ StartReconcile => pass' \in Passes
<1>1. Modified \subseteq Paths
  BY DEF Modified
<1>2. \A c, d : Differ(c, d) \subseteq Paths
  BY DEF Differ
<1>3. \A mode \in {"git", "list", "update"}, paths \in SUBSET Paths :
        StartPass(mode, paths) => pass' \in Passes
  BY DEF StartPass, Passes, TypeInv, TypeOK
<1>4. StartReconcile => pass' \in Passes
  BY <1>3 DEF StartReconcile
<1> QED
  BY <1>1, <1>2, <1>3, <1>4

\* The user's steps keep the types.
LEMMA TypeUser ==
    ASSUME TypeInv, User
    PROVE  TypeInv'
<1>1. ASSUME NEW new \in [Paths -> Versions], Changes(new), head' \in Commits
      PROVE  TypeInv'
  <2> DEFINE which == {p \in Paths : new[p] # tree[p]}
  <2>1. which \subseteq Paths
    OBVIOUS
  <2>2. pass' \in Passes \cup {Resting}
    <3>1. CASE pass.stage = "none"
      BY <1>1, <3>1 DEF Changes, TypeInv, TypeOK
    <3>2. CASE pass.stage # "none"
      <4>1. pass \in Passes
        BY <3>2 DEF TypeInv, TypeOK, Resting
      <4>2. pass' = [pass EXCEPT !.since = @ \cup which]
        BY <1>1, <3>2 DEF Changes
      <4> QED
        BY <2>1, <4>1, <4>2 DEF Passes
    <3> QED
      BY <3>1, <3>2
  <2>3. queue' \subseteq Paths /\ missed' \subseteq Paths
    BY <1>1, <2>1 DEF Changes, TypeInv, TypeOK
  <2> QED
    BY <1>1, <2>2, <2>3 DEF Changes, TypeInv, TypeOK, stored, SmallMetas
<1>2. ASSUME NEW p \in Paths, NEW v \in Versions, Edit(p, v)
      PROVE  TypeInv'
  <2>1. [tree EXCEPT ![p] = v] \in [Paths -> Versions] /\ head' \in Commits
    BY <1>2 DEF Edit, TypeInv, TypeOK
  <2> QED
    BY <1>1, <1>2, <2>1 DEF Edit
<1>3. ASSUME NEW c \in Commits, Checkout(c)
      PROVE  TypeInv'
  <2>1. [p \in Paths |-> IF p \in Modified THEN tree[p] ELSE Tree[c][p]] \in [Paths -> Versions]
    BY EngineAssumption DEF EngineAssumption, TypeInv, TypeOK
  <2>2. head' \in Commits
    BY <1>3 DEF Checkout
  <2> QED
    BY <1>1, <1>3, <2>1, <2>2 DEF Checkout
<1>4. ASSUME NEW c \in Commits, CommitAll(c)
      PROVE  TypeInv'
  BY <1>4 DEF CommitAll, TypeInv, TypeOK, stored, watcher, SmallMetas
<1> QED
  BY <1>2, <1>3, <1>4 DEF User

\* The steps of a pass keep the types.
LEMMA TypePass ==
    ASSUME TypeInv, PassStep \/ PublishWorkingSet \/ FirstReconcile
    PROVE  TypeInv'
<1> USE DEF TypeInv, TypeOK, stored, watcher, workspace
<1>1. CASE FirstReconcile
  BY <1>1, PassTypes DEF FirstReconcile, SmallMetas
<1>2. CASE ReadHead
  <2>1. pass \in Passes
    BY <1>2 DEF ReadHead, Resting
  <2>2. pass' \in Passes
    BY <1>2, <2>1 DEF ReadHead, Passes
  <2> QED
    BY <1>2, <2>2 DEF ReadHead, SmallMetas
<1>3. CASE ListDirty
  <2>1. pass \in Passes
    BY <1>3 DEF ListDirty, Resting
  <2>2. meta.touched \subseteq Paths
    BY DEF SmallMetas, Metas
  <2> DEFINE looked == IF pass.mode = "list" THEN Paths
                       ELSE Differ(meta.commit, pass.head) \cup Modified \cup meta.touched
  <2>3. looked \in SUBSET Paths /\ Modified \in SUBSET Paths /\ Differ(pass.head, head) \in SUBSET Paths
    BY <2>2, PassTypes
  <2>4. pass' = [pass EXCEPT !.stage = "read", !.listed = Modified,
                             !.raced = Differ(pass.head, head), !.paths = looked]
    BY <1>3 DEF ListDirty
  <2> HIDE DEF looked
  <2>5. pass' \in Passes
    BY <2>1, <2>3, <2>4 DEF Passes
  <2> QED
    BY <1>3, <2>5 DEF ListDirty, SmallMetas
<1>4. CASE ReadFiles
  <2>1. pass \in Passes
    BY <1>4 DEF ReadFiles, Resting
  <2>2. pass' \in Passes
    BY <1>4, <2>1 DEF ReadFiles, Passes
  <2>3. ToStage(pass.mode) \in SUBSET Paths
    BY <2>1 DEF ToStage, Relevant, Passes
  <2>4. meta' \in SmallMetas
    BY <1>4, <2>3, StagedType DEF ReadFiles
  <2> QED
    BY <1>4, <2>2, <2>4 DEF ReadFiles, SmallMetas
<1>5. CASE Publish
  <2>1. pass \in Passes
    BY <1>5 DEF Publish, Resting
  <2>2. pass' \in Passes \cup {Resting}
    BY <1>5, <2>1 DEF Publish, Passes
  <2>3. index' \in [Paths -> Versions]
    BY <1>5, <2>1 DEF Publish, Passes
  <2>4. Unseen \subseteq Paths /\ Written \subseteq Paths
    BY <2>1 DEF Unseen, Written, Passes
  <2>5. published' \in BOOLEAN /\ saved' \in SmallMetas
    BY <1>5 DEF Publish
  <2>6. missed' \subseteq Paths
    BY <1>5, <2>4 DEF Publish
  <2> QED
    BY <1>5, <2>2, <2>3, <2>5, <2>6 DEF Publish, SmallMetas
<1>6. CASE SetMeta
  <2>1. pass \in Passes
    BY <1>6 DEF SetMeta, Resting
  <2>2. PICK touched \in Kept(pass.listed) :
          meta' = NewMeta(touched) /\ saved' = NewMeta(touched)
    BY <1>6 DEF SetMeta
  <2>3. meta' \in SmallMetas /\ saved' \in SmallMetas
    BY <2>1, <2>2, NewMetaType
  <2>4. phase' \in {"down", "opened", "reconciled", "watching"}
    BY <1>6 DEF SetMeta
  <2> QED
    BY <1>6, <2>3, <2>4 DEF SetMeta, SmallMetas
<1>7. CASE PublishWorkingSet
  <2>1. pass \in Passes
    BY <1>7 DEF PublishWorkingSet, Resting
  <2>2. index' \in [Paths -> Versions]
    BY <1>7, <2>1 DEF PublishWorkingSet, Passes
  <2>3. NoMeta \in SmallMetas
    <3>1. Cardinality({}) <= MaxTouched
      BY FS_EmptySet, EngineAssumption DEF EngineAssumption
    <3> QED
      BY <3>1, MetaFields, Zenon DEF NoMeta
  <2> QED
    BY <1>7, <2>2, <2>3 DEF PublishWorkingSet, SmallMetas
<1> QED
  BY <1>1, <1>2, <1>3, <1>4, <1>5, <1>6, <1>7 DEF PassStep

\* Failing steps keep the types.
LEMMA TypeFaults ==
    ASSUME TypeInv, Faults
    PROVE  TypeInv'
<1> USE DEF TypeInv, TypeOK, stored, watcher, workspace, Fault
<1>1. CASE HeadFails
  <2>1. pass \in Passes
    BY <1>1 DEF HeadFails, Resting
  <2>2. pass' \in Passes
    BY <1>1, <2>1 DEF HeadFails, Passes
  <2> QED
    BY <1>1, <2>2 DEF HeadFails, SmallMetas
<1>2. CASE DirtyFails
  <2>1. pass \in Passes
    BY <1>2 DEF DirtyFails, Resting
  <2>2. pass' \in Passes
    BY <1>2, <2>1, PassTypes DEF DirtyFails, Passes
  <2> QED
    BY <1>2, <2>2 DEF DirtyFails, SmallMetas
<1>3. CASE PassFails
  <2>1. pass \in Passes
    BY <1>3 DEF PassFails, Resting
  <2>2. missed' \subseteq Paths
    BY <1>3, <2>1 DEF PassFails, Passes
  <2> QED
    BY <1>3, <2>2 DEF PassFails, SmallMetas
<1>4. CASE SetMetaFails
  <2>1. pass \in Passes
    BY <1>4 DEF SetMetaFails, Resting
  <2>2. PICK touched \in Kept(pass.listed) :
          meta' = NewMeta(touched) /\ saved' \in {saved, NewMeta(touched)}
    BY <1>4 DEF SetMetaFails
  <2>3. meta' \in SmallMetas /\ saved' \in SmallMetas
    BY <2>1, <2>2, NewMetaType
  <2> QED
    BY <1>4, <2>3 DEF SetMetaFails, SmallMetas
<1>5. CASE LoseEvents
  BY <1>5 DEF LoseEvents, SmallMetas
<1> QED
  BY <1>1, <1>2, <1>3, <1>4, <1>5 DEF Faults

\* The watcher's steps, stops and starts keep the types.
LEMMA TypeWatcher ==
    ASSUME TypeInv, Watch \/ ReceiveLoss \/ Flush \/ Stop \/ Open \/ \E p \in Paths : Receive(p)
    PROVE  TypeInv'
<1> USE DEF TypeInv, TypeOK, stored, watcher, workspace
<1>1. CASE Watch
  BY <1>1 DEF Watch, SmallMetas
<1>2. CASE ReceiveLoss
  BY <1>2 DEF ReceiveLoss, SmallMetas
<1>3. CASE Flush
  <2>1. pass' \in Passes
    BY <1>3, PassTypes DEF Flush
  <2>2. Cardinality(dirty') <= MaxDirty
    BY <1>3, FS_EmptySet, EngineAssumption DEF EngineAssumption, Flush
  <2> QED
    BY <1>3, <2>1, <2>2 DEF Flush, SmallMetas
<1>4. ASSUME NEW p \in Paths, Receive(p)
      PROVE  TypeInv'
  <2>1. Cardinality(dirty) \in Nat /\ Cardinality(dirty \cup {p}) \in Nat
        /\ Cardinality(dirty \cup {p}) <= Cardinality(dirty) + 1
    BY PathSets
  <2>2. dirty' \subseteq Paths /\ Cardinality(dirty') <= MaxDirty
    BY <1>4, <2>1, EngineAssumption DEF EngineAssumption, Receive, Adds
  <2>3. overflow' \in BOOLEAN
    BY <1>4 DEF Receive, Adds
  <2> QED
    BY <1>4, <2>2, <2>3 DEF Receive, SmallMetas
<1>5. CASE Stop
  <2>1. Cardinality({}) <= MaxTouched /\ Cardinality({}) <= MaxDirty
    BY FS_EmptySet, EngineAssumption DEF EngineAssumption
  <2>2. NoMeta \in SmallMetas
    BY <2>1, MetaFields, Zenon DEF NoMeta
  <2>3. meta' \in SmallMetas /\ meta' \in Metas
    BY <1>5, <2>2 DEF Stop, SmallMetas
  <2>4. dirty' = {} /\ Cardinality(dirty') <= MaxDirty
    BY <1>5, <2>1 DEF Stop
  <2>5. stops' \in Nat /\ pass' = Resting /\ phase' = "down"
    BY <1>5 DEF Stop
  <2>6. saved' = saved
    BY <1>5 DEF Stop
  <2> QED
    BY <1>5, <2>3, <2>4, <2>5, <2>6 DEF Stop
<1>6. CASE Open
  BY <1>6 DEF Open, SmallMetas
<1> QED
  BY <1>1, <1>2, <1>3, <1>4, <1>5, <1>6

\* Every step of the engine keeps the types.
LEMMA TypeStep ==
    TypeInv /\ [Next]_vars => TypeInv'
<1> SUFFICES ASSUME TypeInv, [Next]_vars PROVE TypeInv'
  OBVIOUS
<1>1. CASE Next
  BY <1>1, TypeUser, TypePass, TypeFaults, TypeWatcher DEF Next
<1>2. CASE UNCHANGED vars
  BY <1>2 DEF vars, TypeInv, TypeOK, workspace, stored, watcher, SmallMetas
<1> QED
  BY <1>1, <1>2

\* The types of the engine's and the watcher's state, and the caps of the touched
\* paths (engine.go:599) and of the burst (watch.go:193).
THEOREM TypeCorrectness ==
    Spec => []TypeOK
<1>1. TypeInv => TypeOK
  BY DEF TypeInv
<1> QED
  BY <1>1, TypeInit, TypeStep, PTL DEF Spec

-----------------------------------------------------------------------------
\* What the metadata vouches for.

\* Paths that git listed, failed to list, or listed of another commit.
Shown == pass.listed \cup pass.unlisted \cup pass.raced

PathsOfPass ==
    pass.stage \in {"head", "dirty"} \/ (pass.stage # "none" /\ pass.mode = "list") => pass.paths = Paths

HeadOfPass ==
    /\ pass.stage = "head" => pass.head = None
    /\ pass.stage = "dirty" => pass.head # None

StagesOfUpdate == pass.stage # "none" /\ pass.mode = "update" => pass.stage \in {"read", "publish"}

\* A git reconcile trusts the metadata, and leaves out only what the two commits share.
GitTrusts ==
    pass.stage # "none" /\ pass.mode = "git" =>
        /\ Vouches(meta)
        /\ pass.stage \in {"read", "publish", "meta"} =>
             /\ pass.head # None
             /\ \A p \in Paths \ pass.paths :
                  p \notin meta.touched /\ Tree[meta.commit][p] = Tree[pass.head][p]

\* What git did not show has the content of its commit, in the tree and as it is read.
UnshownIsCommitted ==
    pass.stage = "read" /\ pass.head # None =>
        \A p \in Paths : p \in Shown \cup pass.since \/ tree[p] = Tree[pass.head][p]

ReadIsCommitted ==
    pass.stage \in {"publish", "meta"} /\ pass.head # None =>
        \A p \in pass.paths : p \in Shown \/ pass.read[p] = Tree[pass.head][p]

\* An update that will change a path has staged it.
UpdateIsStaged ==
    pass.stage = "publish" /\ pass.mode = "update" =>
        meta.overflow \/ \A p \in pass.paths : index[p] = pass.read[p] \/ p \in meta.touched

PassIsIndexed == pass.stage = "meta" => \A p \in pass.paths : index[p] = pass.read[p]

PassInv ==
    /\ PathsOfPass /\ HeadOfPass /\ StagesOfUpdate /\ GitTrusts
    /\ UnshownIsCommitted /\ ReadIsCommitted /\ UpdateIsStaged /\ PassIsIndexed

DownRests == phase = "down" => pass = Resting

IInv == TypeInv /\ PassInv /\ DownRests

\* A resting engine has no pass to say anything about.
LEMMA RestingPass ==
    /\ pass = Resting => PassInv
    /\ pass' = Resting => PassInv'
<1> USE DEF Resting, PassInv, PathsOfPass, HeadOfPass, StagesOfUpdate, GitTrusts,
            UnshownIsCommitted, ReadIsCommitted, UpdateIsStaged, PassIsIndexed
<1>1. pass = Resting => PassInv
  OBVIOUS
<1>2. pass' = Resting => PassInv'
  OBVIOUS
<1> QED
  BY <1>1, <1>2

\* The invariant about passes holds of a new engine.
LEMMA CoverInit ==
    Init => IInv
<1> SUFFICES ASSUME Init PROVE IInv
  OBVIOUS
<1>1. pass = Resting
  BY DEF Init
<1> QED
  BY <1>1, TypeInit, RestingPass DEF IInv, DownRests

\* The user's steps: what changes in the tree is known to the pass.
LEMMA CoverUser ==
    ASSUME IInv, User
    PROVE  IInv'
<1>1. TypeInv'
  BY TypeUser DEF IInv
<1>2. index' = index /\ meta' = meta /\ saved' = saved /\ phase' = phase
  BY DEF User, Edit, Checkout, CommitAll, Changes, stored, watcher
<1>4. PassInv' /\ DownRests'
  <2>1. ASSUME NEW new, Changes(new)
        PROVE  PassInv' /\ DownRests'
    <3>1. CASE pass.stage = "none"
      <4>1. pass = Resting /\ pass' = pass
        BY <2>1, <3>1 DEF Changes, IInv, TypeInv, TypeOK, Passes
      <4> QED
        BY <4>1, RestingPass DEF DownRests
    <3>2. CASE pass.stage # "none"
      <4> DEFINE which == {p \in Paths : new[p] # tree[p]}
      <4>1. pass \in Passes /\ pass' = [pass EXCEPT !.since = @ \cup which]
        BY <2>1, <3>2 DEF Changes, IInv, TypeInv, TypeOK, Resting
      <4>2. /\ pass'.stage = pass.stage /\ pass'.mode = pass.mode /\ pass'.head = pass.head
            /\ pass'.listed = pass.listed /\ pass'.unlisted = pass.unlisted
            /\ pass'.paths = pass.paths /\ pass'.read = pass.read /\ pass'.raced = pass.raced
            /\ pass'.since = pass.since \cup which
        BY <4>1 DEF Passes
      <4>3. \A p \in Paths : p \in which \/ tree'[p] = tree[p]
        BY <2>1 DEF Changes
      <4>4. phase # "down"
        BY <3>2 DEF IInv, DownRests, Resting
      <4>5. UnshownIsCommitted'
        BY <4>2, <4>3 DEF IInv, PassInv, UnshownIsCommitted, Shown
      <4> HIDE DEF which
      <4>6. PathsOfPass' /\ HeadOfPass' /\ StagesOfUpdate' /\ GitTrusts' /\ ReadIsCommitted'
            /\ UpdateIsStaged' /\ PassIsIndexed'
        BY <1>2, <4>2 DEF IInv, PassInv, PathsOfPass, HeadOfPass, StagesOfUpdate, GitTrusts,
                          ReadIsCommitted, UpdateIsStaged, PassIsIndexed, Shown, Vouches
      <4> QED
        BY <1>2, <4>4, <4>5, <4>6 DEF PassInv, DownRests
    <3> QED
      BY <3>1, <3>2
  <2>2. ASSUME NEW c \in Commits, CommitAll(c)
        PROVE  PassInv' /\ DownRests'
    BY <1>2, <2>2 DEF CommitAll, IInv, PassInv, PathsOfPass, HeadOfPass, StagesOfUpdate, GitTrusts,
         UnshownIsCommitted, ReadIsCommitted, UpdateIsStaged, PassIsIndexed, Shown, Vouches, DownRests
  <2> QED
    BY <2>1, <2>2 DEF User, Edit, Checkout
<1> QED
  BY <1>1, <1>4 DEF IInv

\* A new pass has looked at nothing.
LEMMA StartCovers ==
    ASSUME IInv, StartReconcile \/ \E paths \in SUBSET Paths : StartPass("update", paths), meta' = meta
    PROVE  PassInv'
<1>1. CASE StartReconcile
  <2>1. PICK mode \in {"git", "list"} :
          StartPass(mode, Paths) /\ (mode = "git" => Vouches(meta))
    BY <1>1 DEF StartReconcile, GitKnows
  <2>2. /\ pass'.stage = "head" /\ pass'.mode = mode /\ pass'.head = None /\ pass'.paths = Paths
    BY <2>1 DEF StartPass
  <2> QED
    BY <2>1, <2>2 DEF PassInv, PathsOfPass, HeadOfPass, StagesOfUpdate, GitTrusts,
         UnshownIsCommitted, ReadIsCommitted, UpdateIsStaged, PassIsIndexed, Vouches
<1>2. ASSUME NEW paths \in SUBSET Paths, StartPass("update", paths)
      PROVE  PassInv'
  <2>1. pass'.stage = "read" /\ pass'.mode = "update" /\ pass'.head = None
    BY <1>2 DEF StartPass
  <2> QED
    BY <2>1 DEF PassInv, PathsOfPass, HeadOfPass, StagesOfUpdate, GitTrusts,
         UnshownIsCommitted, ReadIsCommitted, UpdateIsStaged, PassIsIndexed
<1> QED
  BY <1>1, <1>2

\* Looking at git and reading files changes no index.
LEMMA CoverLooks ==
    ASSUME IInv, FirstReconcile \/ ReadHead \/ ListDirty
    PROVE  IInv'
<1>1. TypeInv'
  BY TypePass DEF IInv, PassStep
<1>2. /\ index' = index /\ meta' = meta /\ saved' = saved /\ phase' = phase
      /\ tree' = tree /\ head' = head
  BY DEF FirstReconcile, ReadHead, ListDirty, stored, workspace
<1>4. phase # "down"
  BY DEF IInv, DownRests, FirstReconcile, ReadHead, ListDirty, Resting
<1>5. CASE FirstReconcile
  <2>1. PassInv'
    BY <1>2, <1>5, StartCovers DEF FirstReconcile
  <2> QED
    BY <1>1, <1>2, <1>4, <2>1 DEF IInv, DownRests
<1>6. CASE ReadHead
  <2>1. pass \in Passes /\ pass.stage = "head" /\ pass' = [pass EXCEPT !.stage = "dirty", !.head = head]
    BY <1>6 DEF ReadHead, IInv, TypeInv, TypeOK, Resting
  <2>2. /\ pass'.stage = "dirty" /\ pass'.head = head /\ pass'.mode = pass.mode
        /\ pass'.paths = pass.paths
    BY <2>1 DEF Passes
  <2>3. head # None
    BY EngineAssumption DEF EngineAssumption, IInv, TypeInv, TypeOK
  <2>4. PassInv'
    BY <1>2, <2>1, <2>2, <2>3 DEF IInv, PassInv, PathsOfPass, HeadOfPass, StagesOfUpdate, GitTrusts,
         UnshownIsCommitted, ReadIsCommitted, UpdateIsStaged, PassIsIndexed, Vouches
  <2> QED
    BY <1>1, <1>2, <1>4, <2>4 DEF IInv, DownRests
<1>7. CASE ListDirty
  <2> DEFINE looked == IF pass.mode = "list" THEN Paths
                       ELSE Differ(meta.commit, pass.head) \cup Modified \cup meta.touched
  <2>1. /\ pass \in Passes /\ pass.stage = "dirty"
        /\ pass' = [pass EXCEPT !.stage = "read", !.listed = Modified,
                                !.raced = Differ(pass.head, head), !.paths = looked]
    BY <1>7 DEF ListDirty, IInv, TypeInv, TypeOK, Resting
  <2>2. /\ pass'.stage = "read" /\ pass'.head = pass.head /\ pass'.mode = pass.mode
        /\ pass'.listed = Modified /\ pass'.raced = Differ(pass.head, head) /\ pass'.paths = looked
    BY <2>1 DEF Passes
  <2>3. pass.head # None /\ pass.mode # "update"
    BY <2>1 DEF IInv, PassInv, HeadOfPass, StagesOfUpdate
  <2>4. PathsOfPass' /\ HeadOfPass' /\ StagesOfUpdate' /\ ReadIsCommitted' /\ UpdateIsStaged' /\ PassIsIndexed'
    BY <2>2 DEF PathsOfPass, HeadOfPass, StagesOfUpdate, ReadIsCommitted, UpdateIsStaged, PassIsIndexed
  <2>5. GitTrusts'
    <3>1. pass.mode = "git" => Vouches(meta)
      BY <2>1 DEF IInv, PassInv, GitTrusts
    <3>2. pass.mode = "git" => \A p \in Paths \ looked :
            p \notin meta.touched /\ Tree[meta.commit][p] = Tree[pass.head][p]
      BY DEF Differ
    <3> HIDE DEF looked
    <3> QED
      BY <1>2, <2>2, <2>3, <3>1, <3>2 DEF GitTrusts, Vouches
  <2>6. UnshownIsCommitted'
    <3>1. \A p \in Paths : p \in Modified \cup Differ(pass.head, head) \/ tree[p] = Tree[pass.head][p]
      BY DEF Modified, Differ
    <3> QED
      BY <1>2, <2>2, <3>1 DEF UnshownIsCommitted, Shown
  <2> QED
    BY <1>1, <1>2, <1>4, <2>4, <2>5, <2>6 DEF IInv, PassInv, DownRests
<1> QED
  BY <1>5, <1>6, <1>7

\* What an update reads, it has staged.
LEMMA CoverReads ==
    ASSUME IInv, ReadFiles
    PROVE  IInv'
<1>1. TypeInv'
  BY TypePass DEF IInv, PassStep
<1>2. /\ index' = index /\ saved' = saved /\ phase' = phase
      /\ tree' = tree /\ head' = head
  BY DEF ReadFiles, stored, workspace
<1>3. /\ pass \in Passes /\ pass.stage = "read"
      /\ pass' = [pass EXCEPT !.stage = "publish", !.read = tree,
                  !.raced = @ \cup (pass.since \cap pass.paths), !.since = @ \ pass.paths]
  BY DEF ReadFiles, IInv, TypeInv, TypeOK, Resting
<1>4. /\ pass'.stage = "publish" /\ pass'.head = pass.head /\ pass'.mode = pass.mode
      /\ pass'.listed = pass.listed /\ pass'.unlisted = pass.unlisted /\ pass'.paths = pass.paths
      /\ pass'.raced = pass.raced \cup (pass.since \cap pass.paths) /\ pass'.read = tree
  BY <1>3 DEF Passes
<1>5. phase # "down"
  BY <1>3 DEF IInv, DownRests, Resting
<1>6. pass.paths \subseteq Paths
  BY <1>3 DEF Passes
<1>7. PathsOfPass' /\ HeadOfPass' /\ StagesOfUpdate' /\ UnshownIsCommitted' /\ PassIsIndexed'
  BY <1>3, <1>4 DEF IInv, PassInv, PathsOfPass, HeadOfPass, StagesOfUpdate, UnshownIsCommitted, PassIsIndexed
<1>8. ReadIsCommitted'
  BY <1>3, <1>4, <1>6 DEF IInv, PassInv, UnshownIsCommitted, ReadIsCommitted, Shown
<1>10. CASE ToStage(pass.mode) = {}
  <2>1. meta' = meta
    BY <1>10 DEF ReadFiles
  <2>2. GitTrusts'
    BY <1>3, <1>4, <2>1 DEF IInv, PassInv, GitTrusts, Vouches
  <2>3. UpdateIsStaged'
    BY <1>2, <1>4, <1>10 DEF UpdateIsStaged, ToStage, Relevant
  <2> QED
    BY <1>1, <1>2, <1>5, <1>7, <1>8, <2>2, <2>3 DEF IInv, PassInv, DownRests
<1>11. CASE ToStage(pass.mode) # {}
  <2>1. pass.mode = "update" /\ meta' = Staged(Relevant(pass.paths))
    BY <1>11 DEF ReadFiles, ToStage
  <2>2. /\ meta'.complete = meta.complete /\ meta'.commit = meta.commit
        /\ meta'.overflow = (meta.overflow \/ Cardinality(meta.touched \cup Relevant(pass.paths)) > MaxTouched)
        /\ meta'.touched = IF Cardinality(meta.touched \cup Relevant(pass.paths)) > MaxTouched
                           THEN {} ELSE meta.touched \cup Relevant(pass.paths)
    BY <2>1 DEF Staged
  <2>3. GitTrusts'
    BY <1>4, <2>1 DEF GitTrusts
  <2>4. meta'.overflow \/ Relevant(pass.paths) \subseteq meta'.touched
    BY <2>2
  <2>5. UpdateIsStaged'
    BY <1>2, <1>4, <2>4 DEF UpdateIsStaged, Relevant
  <2> QED
    BY <1>1, <1>2, <1>5, <1>7, <1>8, <2>3, <2>5 DEF IInv, PassInv, DownRests
<1> QED
  BY <1>10, <1>11

\* What a publication leaves of its pass is indexed as it was read.
LEMMA CoverPublish ==
    ASSUME IInv, Publish
    PROVE  IInv'
<1>1. TypeInv'
  BY TypePass DEF IInv, PassStep
<1>2. /\ pass \in Passes /\ pass.stage = "publish" /\ meta' = meta /\ phase' = phase
      /\ pass.paths \subseteq Paths
      /\ index' = [p \in Paths |-> IF p \in pass.paths THEN pass.read[p] ELSE index[p]]
  BY DEF Publish, IInv, TypeInv, TypeOK, Resting, Passes
<1>6. PassInv' /\ DownRests'
  <2>1. CASE pass.mode = "update"
    <3>1. pass' = Resting
      BY <2>1 DEF Publish
    <3> QED
      BY <3>1, RestingPass DEF DownRests
  <2>2. CASE pass.mode # "update"
    <3>1. pass' = [pass EXCEPT !.stage = "meta"]
      BY <2>2 DEF Publish
    <3>2. /\ pass'.stage = "meta" /\ pass'.head = pass.head /\ pass'.mode = pass.mode
          /\ pass'.listed = pass.listed /\ pass'.unlisted = pass.unlisted /\ pass'.paths = pass.paths
          /\ pass'.raced = pass.raced /\ pass'.read = pass.read
      BY <1>2, <3>1 DEF Passes
    <3>3. phase # "down"
      BY <1>2 DEF IInv, DownRests, Resting
    <3>4. PassIsIndexed'
      BY <1>2, <3>2 DEF PassIsIndexed
    <3>5. PathsOfPass' /\ HeadOfPass' /\ StagesOfUpdate' /\ GitTrusts' /\ UnshownIsCommitted'
          /\ ReadIsCommitted' /\ UpdateIsStaged'
      BY <1>2, <2>2, <3>2 DEF IInv, PassInv, PathsOfPass, HeadOfPass, StagesOfUpdate, GitTrusts,
           UnshownIsCommitted, ReadIsCommitted, UpdateIsStaged, Shown, Vouches
    <3> QED
      BY <1>2, <3>3, <3>4, <3>5 DEF PassInv, DownRests
  <2> QED
    BY <2>1, <2>2
<1> QED
  BY <1>1, <1>6 DEF IInv

\* The metadata of a reconcile, saved or only kept in memory, ends its pass.
LEMMA CoverMeta ==
    ASSUME IInv, SetMeta \/ SetMetaFails
    PROVE  IInv'
<1>1. TypeInv'
  BY TypePass, TypeFaults DEF IInv, PassStep, Faults
<1>2. pass' = Resting
  BY DEF SetMeta, SetMetaFails
<1> QED
  BY <1>1, <1>2, RestingPass DEF IInv, DownRests

\* The working set is published within its pass.
LEMMA CoverWorkingSet ==
    ASSUME IInv, PublishWorkingSet
    PROVE  IInv'
<1>1. TypeInv'
  BY TypePass DEF IInv
<1>3. pass' = pass /\ phase' = phase
      /\ pass.stage = "publish" /\ pass.mode = "list"
  BY DEF PublishWorkingSet
<1>5. PassInv' /\ DownRests'
  BY <1>3 DEF IInv, PassInv, PathsOfPass, HeadOfPass, StagesOfUpdate, GitTrusts, UnshownIsCommitted,
              ReadIsCommitted, UpdateIsStaged, PassIsIndexed, Shown, DownRests
<1> QED
  BY <1>1, <1>5 DEF IInv

\* A failing look at git, or pass.
LEMMA CoverFaults ==
    ASSUME IInv, HeadFails \/ DirtyFails \/ PassFails \/ LoseEvents
    PROVE  IInv'
<1>1. TypeInv'
  BY TypeFaults DEF IInv, Faults
<1>2. /\ index' = index /\ meta' = meta /\ saved' = saved /\ phase' = phase
      /\ tree' = tree /\ head' = head
  BY DEF HeadFails, DirtyFails, PassFails, LoseEvents, stored, workspace
<1>4. CASE HeadFails
  <2>1. pass \in Passes /\ pass.stage = "head" /\ phase # "down"
    BY <1>4 DEF HeadFails, IInv, TypeInv, TypeOK, DownRests, Resting
  <2>2. pass.head = None /\ pass.paths = Paths /\ pass.mode # "update"
    BY <2>1 DEF IInv, PassInv, HeadOfPass, PathsOfPass, StagesOfUpdate
  <2>3. /\ pass'.stage \in {"head", "read"} /\ pass'.head = None /\ pass'.paths = Paths
        /\ pass'.mode = "list"
    BY <1>4, <2>1, <2>2 DEF HeadFails, Passes
  <2> QED
    BY <1>1, <1>2, <2>1, <2>3 DEF IInv, DownRests, PassInv, PathsOfPass, HeadOfPass,
         StagesOfUpdate, GitTrusts, UnshownIsCommitted, ReadIsCommitted, UpdateIsStaged, PassIsIndexed
<1>5. CASE DirtyFails
  <2>1. pass \in Passes /\ pass.stage = "dirty" /\ phase # "down"
    BY <1>5 DEF DirtyFails, IInv, TypeInv, TypeOK, DownRests, Resting
  <2>2. pass.paths = Paths /\ pass.mode # "update"
    BY <2>1 DEF IInv, PassInv, PathsOfPass, StagesOfUpdate
  <2>3. CASE pass.mode = "git"
    <3>1. pass'.stage = "head" /\ pass'.head = None /\ pass'.mode = "list" /\ pass'.paths = Paths
      BY <1>5, <2>1, <2>2, <2>3 DEF DirtyFails, Passes
    <3> QED
      BY <1>1, <1>2, <2>1, <3>1 DEF IInv, DownRests, PassInv, PathsOfPass, HeadOfPass,
           StagesOfUpdate, GitTrusts, UnshownIsCommitted, ReadIsCommitted, UpdateIsStaged, PassIsIndexed
  <2>4. CASE pass.mode # "git"
    <3>1. /\ pass'.stage = "read" /\ pass'.head = pass.head /\ pass'.mode = "list" /\ pass'.paths = Paths
          /\ pass'.unlisted = Modified /\ pass'.raced = Differ(pass.head, head)
      BY <1>5, <2>1, <2>2, <2>4 DEF DirtyFails, Passes
    <3>2. \A p \in Paths : p \in Modified \cup Differ(pass.head, head) \/ tree[p] = Tree[pass.head][p]
      BY DEF Modified, Differ
    <3>3. UnshownIsCommitted'
      BY <1>2, <3>1, <3>2 DEF UnshownIsCommitted, Shown
    <3> QED
      BY <1>1, <1>2, <2>1, <3>1, <3>3 DEF IInv, DownRests, PassInv, PathsOfPass, HeadOfPass,
           StagesOfUpdate, GitTrusts, ReadIsCommitted, UpdateIsStaged, PassIsIndexed
  <2> QED
    BY <2>3, <2>4
<1>6. CASE PassFails
  BY <1>1, <1>6, RestingPass DEF PassFails, IInv, DownRests
<1>7. CASE LoseEvents
  BY <1>1, <1>2, <1>7 DEF LoseEvents, IInv, DownRests, PassInv, PathsOfPass, HeadOfPass,
       StagesOfUpdate, GitTrusts, UnshownIsCommitted, ReadIsCommitted, UpdateIsStaged, PassIsIndexed, Shown,
       Vouches
<1> QED
  BY <1>4, <1>5, <1>6, <1>7

\* The watcher starts passes, a stop ends them, and a start takes what was saved.
LEMMA CoverWatcher ==
    ASSUME IInv, Watch \/ ReceiveLoss \/ Flush \/ Stop \/ Open \/ \E p \in Paths : Receive(p)
    PROVE  IInv'
<1>1. TypeInv'
  BY TypeWatcher DEF IInv
<1>2. index' = index /\ saved' = saved
  BY DEF Watch, ReceiveLoss, Flush, Stop, Open, Receive, stored
<1>4. CASE Watch \/ ReceiveLoss \/ \E p \in Paths : Receive(p)
  <2>1. /\ meta' = meta /\ pass' = pass /\ tree' = tree /\ phase' \in {phase, "watching"}
    BY <1>4 DEF Watch, ReceiveLoss, Receive, workspace
  <2>3. PassInv'
    BY <1>2, <2>1 DEF IInv, PassInv, PathsOfPass, HeadOfPass, StagesOfUpdate, GitTrusts,
         UnshownIsCommitted, ReadIsCommitted, UpdateIsStaged, PassIsIndexed, Shown, Vouches
  <2> QED
    BY <1>1, <2>1, <2>3 DEF IInv, DownRests
<1>5. CASE Flush
  <2>1. meta' = meta /\ phase' = phase /\ phase = "watching"
    BY <1>5 DEF Flush, Waiting
  <2>3. dirty \in SUBSET Paths
    BY DEF IInv, TypeInv, TypeOK
  <2>4. PassInv'
    BY <1>5, <2>1, <2>3, StartCovers DEF Flush
  <2> QED
    BY <1>1, <2>1, <2>4 DEF IInv, DownRests
<1>6. CASE Stop
  <2>1. pass' = Resting
    BY <1>6 DEF Stop
  <2> QED
    BY <1>1, <2>1, RestingPass DEF IInv, DownRests
<1>7. CASE Open
  <2>1. pass' = pass /\ pass = Resting
    BY <1>7 DEF Open, IInv, DownRests
  <2> QED
    BY <1>1, <2>1, RestingPass DEF IInv, DownRests
<1> QED
  BY <1>4, <1>5, <1>6, <1>7

\* Every step of the engine keeps the invariant about passes.
LEMMA CoverStep ==
    IInv /\ [Next]_vars => IInv'
<1> SUFFICES ASSUME IInv, [Next]_vars PROVE IInv'
  OBVIOUS
<1>1. CASE Next
  BY <1>1, CoverUser, CoverLooks, CoverReads, CoverPublish, CoverMeta, CoverWorkingSet,
     CoverFaults, CoverWatcher DEF Next, PassStep, Faults
<1>2. CASE UNCHANGED vars
  <2>1. TypeInv'
    BY <1>2, TypeStep DEF IInv
  <2> QED
    BY <1>2, <2>1 DEF vars, IInv, Vouches, PassInv, PathsOfPass, HeadOfPass,
         StagesOfUpdate, GitTrusts, UnshownIsCommitted, ReadIsCommitted, UpdateIsStaged, PassIsIndexed,
         Shown, DownRests, workspace, stored
<1> QED
  BY <1>1, <1>2

\* The metadata stays true while the index does, or where it vouches for nothing.
LEMMA StaysTrue ==
    ASSUME index' = index, saved' = saved,
           meta' = meta \/ meta' = saved \/ ~Vouches(meta')
    PROVE  Untrue' \subseteq Untrue
<1> SUFFICES ASSUME NEW p \in Untrue' PROVE p \in Untrue
  OBVIOUS
<1>1. PICK m \in {saved', meta'} :
        p \in Paths /\ Vouches(m) /\ p \notin m.touched /\ index'[p] # Tree[m.commit][p]
  BY DEF Untrue
<1>2. m \in {saved, meta}
  BY <1>1
<1> QED
  BY <1>1, <1>2 DEF Untrue

\* Steps that publish nothing and save nothing make no metadata untrue.
LEMMA QuietTruth ==
    ASSUME \/ User \/ FirstReconcile \/ ReadHead \/ ListDirty \/ PublishWorkingSet
           \/ HeadFails \/ DirtyFails \/ PassFails \/ LoseEvents
           \/ Watch \/ ReceiveLoss \/ Flush \/ Stop \/ Open \/ \E p \in Paths : Receive(p)
    PROVE  Untrue' \subseteq Untrue
<1>1. ~Vouches(NoMeta)
  BY DEF Vouches, NoMeta
<1>2. CASE PublishWorkingSet
  <2>1. saved' = NoMeta /\ meta' = NoMeta
    BY <1>2 DEF PublishWorkingSet
  <2> QED
    BY <1>1, <2>1 DEF Untrue
<1>3. CASE ~PublishWorkingSet
  <2>1. index' = index /\ saved' = saved /\ meta' \in {meta, saved, NoMeta}
    BY <1>3 DEF User, Edit, Checkout, CommitAll, Changes, FirstReconcile, ReadHead, ListDirty,
         HeadFails, DirtyFails, PassFails, LoseEvents, Watch, ReceiveLoss, Flush, Stop, Open, Receive, stored
  <2> QED
    BY <1>1, <2>1, StaysTrue
<1> QED
  BY <1>2, <1>3

\* An update that stages what it will change drops no path but with the overflow flag.
LEMMA ReadTruth ==
    ASSUME ReadFiles
    PROVE  Untrue' \subseteq Untrue
<1>1. index' = index /\ saved' = saved
  BY DEF ReadFiles, stored
<1>2. CASE meta' = meta
  BY <1>1, <1>2, StaysTrue
<1>3. CASE meta' # meta
  <2>1. meta' = Staged(ToStage(pass.mode))
    BY <1>3 DEF ReadFiles
  <2>2. Vouches(meta') => Vouches(meta) /\ meta.touched \subseteq meta'.touched /\ meta'.commit = meta.commit
    BY <2>1 DEF Staged, Vouches
  <2> QED
    BY <1>1, <2>2 DEF Untrue
<1> QED
  BY <1>2, <1>3

\* A publication changes what its update has staged, or what its reconcile will save.
LEMMA PublishTruth ==
    ASSUME IInv, Publish
    PROVE  Untrue' \ Untrue \subseteq IF pass.mode = "update" THEN {} ELSE Written
<1>1. /\ meta' = meta /\ saved' \in {saved, meta}
      /\ pass.stage = "publish"
      /\ index' = [p \in Paths |-> IF p \in pass.paths THEN pass.read[p] ELSE index[p]]
  BY DEF Publish
<1>2. \A p \in Paths : p \in Written \/ index'[p] = index[p]
  BY <1>1 DEF Written
<1>3. ASSUME NEW p \in Untrue', p \notin Written
      PROVE  p \in Untrue
  <2>1. PICK m \in {saved', meta'} :
          p \in Paths /\ Vouches(m) /\ p \notin m.touched /\ index'[p] # Tree[m.commit][p]
    BY DEF Untrue
  <2> QED
    BY <1>1, <1>2, <1>3, <2>1 DEF Untrue
<1>4. ASSUME NEW p \in Untrue', pass.mode = "update", p \in Written
      PROVE  p \in Untrue
  <2>1. saved' = meta
    BY <1>4 DEF Publish
  <2>2. p \in Paths /\ Vouches(meta) /\ p \notin meta.touched /\ index'[p] # Tree[meta.commit][p]
    BY <1>1, <2>1 DEF Untrue
  <2>3. index[p] = pass.read[p]
    BY <1>1, <1>4, <2>2 DEF IInv, PassInv, UpdateIsStaged, Vouches, Written
  <2> QED
    BY <1>4, <2>3 DEF Written
<1> QED
  BY <1>3, <1>4

\* The index that a reconcile leaves is what its metadata says, but for what it leaves
\* out and for what it did not look at because the metadata before was untrue of it.
LEMMA MetaTruth ==
    ASSUME IInv, SetMeta \/ SetMetaFails
    PROVE  KeepsTrue
<1>1. pass.stage = "meta" /\ index' = index /\ pass \in Passes
  BY DEF SetMeta, SetMetaFails, IInv, TypeInv, TypeOK, Resting
<1>2. PICK touched \in Kept(pass.listed) :
        meta' = NewMeta(touched) /\ saved' \in {saved, NewMeta(touched)}
  BY DEF SetMeta, SetMetaFails
<1>3. /\ NewMeta(touched).commit = pass.head
      /\ NewMeta(touched).touched = Known(touched)
  BY DEF NewMeta
<1>4. ASSUME NEW p \in Untrue', p \notin LeftOut,
             ~(Vouches(saved') /\ p \notin saved'.touched /\ index'[p] # Tree[saved'.commit][p])
               \/ saved' = meta'
      PROVE  p \notin pass.paths /\ p \in Untrue
  <2>1. p \in Paths /\ Vouches(meta') /\ p \notin meta'.touched /\ index'[p] # Tree[meta'.commit][p]
    BY <1>4 DEF Untrue
  <2>2. pass.head # None /\ p \notin touched /\ index[p] # Tree[pass.head][p]
    BY <1>1, <1>2, <1>3, <2>1 DEF Vouches, Known
  <2>3. p \notin Shown
    BY <1>4, <2>2 DEF LeftOut, Shown, Kept
  <2>4. p \notin pass.paths
    <3> SUFFICES ASSUME p \in pass.paths PROVE FALSE
      OBVIOUS
    <3>1. pass.read[p] = Tree[pass.head][p]
      BY <1>1, <2>2, <2>3 DEF IInv, PassInv, ReadIsCommitted
    <3>2. index[p] = pass.read[p]
      BY <1>1 DEF IInv, PassInv, PassIsIndexed
    <3> QED
      BY <2>2, <3>1, <3>2
  <2>5. pass.mode = "git"
    BY <1>1, <2>1, <2>4 DEF IInv, PassInv, PathsOfPass, StagesOfUpdate, Passes
  <2>6. Vouches(meta) /\ p \notin meta.touched /\ Tree[meta.commit][p] = Tree[pass.head][p]
    BY <1>1, <2>1, <2>4, <2>5 DEF IInv, PassInv, GitTrusts
  <2> QED
    BY <2>1, <2>2, <2>4, <2>6 DEF Untrue
<1>5. ASSUME NEW p \in Untrue', p \notin LeftOut
      PROVE  p \in Untrue
  <2>1. CASE saved' = meta'
    BY <1>4, <1>5, <2>1
  <2>2. CASE saved' # meta'
    <3>1. saved' = saved
      BY <1>2, <2>2
    <3> QED
      BY <1>1, <1>4, <1>5, <3>1 DEF Untrue
  <2> QED
    BY <2>1, <2>2
<1>6. saved' = meta' => Untrue' \cap pass.paths \subseteq LeftOut
  BY <1>4
<1> QED
  BY <1>1, <1>5, <1>6 DEF KeepsTrue

\* Every step makes the metadata untrue of no other path than the property names.
LEMMA EveryStepKeepsTrue ==
    IInv /\ [Next]_vars => [KeepsTrue]_vars
<1> SUFFICES ASSUME IInv, Next PROVE KeepsTrue
  OBVIOUS
<1>1. CASE SetMeta \/ SetMetaFails
  BY <1>1, MetaTruth
<1>2. CASE ~(SetMeta \/ SetMetaFails)
  <2>1. CASE Publish
    <3>1. pass.stage = "publish"
      BY <2>1 DEF Publish
    <3> QED
      BY <1>2, <2>1, <3>1, PublishTruth DEF KeepsTrue
  <2>2. CASE ~Publish
    <3>1. Untrue' \subseteq Untrue
      BY <1>2, <2>2, QuietTruth, ReadTruth DEF Next, PassStep, Faults
    <3> QED
      BY <1>2, <3>1 DEF KeepsTrue
  <2> QED
    BY <2>1, <2>2
<1> QED
  BY <1>1, <1>2

\* The metadata becomes untrue of a path only between the publication of a reconcile and
\* its SetMeta, or with a SetMeta that leaves the path out, whatever the user, a failing
\* step or a stop does between two steps of a pass; and a reconcile that saves its
\* metadata repairs what it looked at (store.go:52, engine.go:380, engine.go:602).
THEOREM CoverageCorrectness ==
    Spec => TouchedCoversIndex
<1>1. IInv /\ [Next]_vars => [KeepsTrue]_vars
  BY EveryStepKeepsTrue
<1> QED
  BY <1>1, CoverInit, CoverStep, PTL DEF Spec, TouchedCoversIndex

-----------------------------------------------------------------------------
\* Numbers and sequences.

\* A set of numbers has a least one.
LEMMA LeastNumber ==
    ASSUME NEW S \in SUBSET Nat, S # {}
    PROVE  \E n \in S : \A m \in S : n <= m
<1> DEFINE R == OpToRel(<, Nat)
<1>1. IsWellFoundedOn(R, Nat)
  BY NatLessThanWellFounded
<1>2. \A x, y \in Nat : x < y => <<x, y>> \in R
  BY DEF OpToRel
<1> HIDE DEF R
<1>3. PICK n \in S : \A m \in S : ~(<<m, n>> \in R)
  BY <1>1, WFMin
<1>4. ASSUME NEW m \in S
      PROVE  n <= m
  <2>1. m \in Nat /\ n \in Nat
    OBVIOUS
  <2>2. ~(<<m, n>> \in R)
    BY <1>3
  <2>3. ~(m < n)
    BY <2>1, <2>2, <1>2
  <2> QED
    BY <2>1, <2>3
<1> QED
  BY <1>4

\* The function that concatenates the sequences ss[1], ss[2], ... exists.
Concatenates(f, ss, n) ==
    f = [i \in 1..n |-> IF i = 1 THEN ss[i] ELSE f[i - 1] \o ss[i]]

\* ... for any number of sequences: n = m + 1 extends the one for m.
LEMMA ConcatenationExists ==
    ASSUME NEW ss, NEW n \in Nat \ {0}
    PROVE  \E f : Concatenates(f, ss, n)
<1> DEFINE Bad == {m \in Nat \ {0} : ~\E f : Concatenates(f, ss, m)}
<1> SUFFICES ASSUME Bad # {} PROVE FALSE
  OBVIOUS
<1>1. PICK m \in Bad : \A k \in Bad : m <= k
  BY LeastNumber
<1>2. m # 1
  <2> DEFINE f == [i \in 1..1 |-> ss[i]]
  <2>1. Concatenates(f, ss, 1)
    BY DEF Concatenates
  <2> QED
    BY <2>1, <1>1
<1>3. m - 1 \in Nat \ {0} /\ m - 1 \notin Bad
  BY <1>1, <1>2
<1>4. PICK g : Concatenates(g, ss, m - 1)
  BY <1>3
<1> DEFINE f == [i \in 1..m |-> IF i = m THEN g[m - 1] \o ss[m] ELSE g[i]]
<1>5. m \in Nat /\ m > 1
  BY <1>1, <1>2
<1>6. \A i \in 1..(m - 1) : f[i] = g[i]
  BY <1>5
<1>7. \A i \in 1..m : f[i] = IF i = 1 THEN ss[i] ELSE f[i - 1] \o ss[i]
  <2> TAKE i \in 1..m
  <2>1. CASE i = m
    <3>1. m \in 1..m /\ m - 1 \in 1..(m - 1)
      BY <1>5
    <3>2. f[m] = g[m - 1] \o ss[m]
      BY <3>1
    <3> HIDE DEF f
    <3>3. f[m - 1] = g[m - 1]
      BY <3>1, <1>6
    <3>4. m # 1
      BY <1>5
    <3>5. f[m] = IF m = 1 THEN ss[m] ELSE f[m - 1] \o ss[m]
      BY <3>2, <3>3, <3>4
    <3> QED
      BY <2>1, <3>5
  <2>2. CASE i # m
    <3>1. i \in 1..(m - 1) /\ (i # 1 => i - 1 \in 1..(m - 1))
      BY <2>2, <1>5
    <3>2. g[i] = IF i = 1 THEN ss[i] ELSE g[i - 1] \o ss[i]
      BY <3>1, <1>4 DEF Concatenates
    <3> HIDE DEF f
    <3> QED
      BY <3>1, <3>2, <1>6
  <2> QED
    BY <2>1, <2>2
<1>8. Concatenates(f, ss, m)
  <2>1. f = [i \in 1..m |-> f[i]]
    OBVIOUS
  <2> HIDE DEF f
  <2> QED
    BY <2>1, <1>7 DEF Concatenates
<1> QED
  BY <1>8, <1>1

\* Which elements of K are in a sequence once.
Once(s, K) == \A i, j \in DOMAIN s : s[i] = s[j] /\ s[i] \in K => i = j

\* Sequences that list different things once concatenate into one that does.
LEMMA OnceConcat ==
    ASSUME NEW S, NEW K, NEW s \in Seq(S), NEW t \in Seq(S), Once(s, K), Once(t, K),
           Range(s) \cap Range(t) \cap K = {}
    PROVE  Once(s \o t, K)
<1>1. \A i \in DOMAIN (s \o t) :
        \/ i \in DOMAIN s /\ (s \o t)[i] = s[i]
        \/ i - Len(s) \in DOMAIN t /\ (s \o t)[i] = t[i - Len(s)] /\ i \in Nat
  OBVIOUS
<1>2. \A i \in DOMAIN s : s[i] \in Range(s)
  BY DEF Range
<1>3. \A i \in DOMAIN t : t[i] \in Range(t)
  BY DEF Range
<1>4. Len(s) \in Nat /\ DOMAIN s = 1..Len(s) /\ DOMAIN t = 1..Len(t) /\ Len(t) \in Nat
  OBVIOUS
<1> QED
  BY <1>1, <1>2, <1>3, <1>4 DEF Once

\* What FlattenSeq returns: a sequence of all the elements, in which an element of K
\* is once that is once in one of the sequences and in none of the others.
LEMMA Flattened ==
    ASSUME NEW S, NEW K, NEW ss \in Seq(Seq(S)), ss # <<>>,
           \A k \in DOMAIN ss : Once(ss[k], K),
           \A j, k \in DOMAIN ss : j # k => Range(ss[j]) \cap Range(ss[k]) \cap K = {}
    PROVE  /\ FlattenSeq(ss) \in Seq(S)
           /\ Range(FlattenSeq(ss)) = UNION {Range(ss[k]) : k \in DOMAIN ss}
           /\ Once(FlattenSeq(ss), K)
<1> DEFINE n == Len(ss)
           f == CHOOSE g : Concatenates(g, ss, n)
           Fine(m) == /\ f[m] \in Seq(S)
                      /\ Range(f[m]) = UNION {Range(ss[k]) : k \in 1..m}
                      /\ Once(f[m], K)
           Bad == {m \in 1..n : ~Fine(m)}
<1>1. n \in Nat \ {0} /\ DOMAIN ss = 1..n
  BY EmptySeq
<1>2. FlattenSeq(ss) = f[n]
  BY <1>1 DEF FlattenSeq, Concatenates
<1> HIDE DEF n
<1>3. Concatenates(f, ss, n)
  BY <1>1, ConcatenationExists
<1> HIDE DEF f
<1>4. Fine(1)
  <2>1. f[1] = ss[1]
    BY <1>1, <1>3 DEF Concatenates
  <2>2. ss[1] \in Seq(S) /\ Once(ss[1], K)
    BY <1>1
  <2>3. UNION {Range(ss[k]) : k \in 1..1} = Range(ss[1])
    <3>1. 1..1 = {1}
      OBVIOUS
    <3>2. \A x : x \in UNION {Range(ss[k]) : k \in {1}} <=> x \in Range(ss[1])
      OBVIOUS
    <3> QED
      BY <3>1, <3>2
  <2> QED
    BY <2>1, <2>2, <2>3
<1>5. ASSUME NEW m \in 2..n, Fine(m - 1)
      PROVE  Fine(m)
  <2>1. m \in DOMAIN ss /\ ss[m] \in Seq(S) /\ Once(ss[m], K)
    <3>1. m \in 1..n
      BY <1>1
    <3>2. m \in DOMAIN ss
      BY <3>1, <1>1
    <3>3. ss[m] \in Seq(S)
      BY <3>2
    <3> QED
      BY <3>2, <3>3
  <2>2. f[m] = f[m - 1] \o ss[m]
    <3>1. m \in 1..n /\ m # 1
      BY <1>1
    <3>2. f = [i \in 1..n |-> IF i = 1 THEN ss[i] ELSE f[i - 1] \o ss[i]]
      BY <1>3 DEF Concatenates
    <3>3. f[m] = IF m = 1 THEN ss[m] ELSE f[m - 1] \o ss[m]
      BY <3>1, <3>2
    <3> QED
      BY <3>1, <3>3
  <2>3. f[m - 1] \in Seq(S) /\ Once(f[m - 1], K)
    BY <1>5
  <2>4. Range(f[m]) = Range(f[m - 1]) \cup Range(ss[m])
    BY <2>1, <2>2, <2>3, RangeConcatenation
  <2>5. Range(f[m - 1]) = UNION {Range(ss[k]) : k \in 1..(m - 1)}
    BY <1>5
  <2>6. Range(f[m - 1]) \cap Range(ss[m]) \cap K = {}
    <3>1. \A k \in 1..(m - 1) : k \in DOMAIN ss /\ k # m
      BY <1>1
    <3>2. \A k \in 1..(m - 1) : Range(ss[k]) \cap Range(ss[m]) \cap K = {}
      BY <3>1, <2>1
    <3> QED
      BY <3>2, <2>5
  <2>7. Once(f[m], K)
    BY <2>1, <2>2, <2>3, <2>6, OnceConcat
  <2>8. f[m] \in Seq(S)
    BY <2>1, <2>2, <2>3
  <2>9. UNION {Range(ss[k]) : k \in 1..m} = (UNION {Range(ss[k]) : k \in 1..(m - 1)}) \cup Range(ss[m])
    <3>1. \A k : k \in 1..m <=> k \in 1..(m - 1) \/ k = m
      BY <1>1
    <3> QED
      BY <3>1
  <2> QED
    BY <2>4, <2>5, <2>7, <2>8, <2>9
<1> HIDE DEF Fine
<1>6. Bad = {}
  <2> SUFFICES ASSUME Bad # {} PROVE FALSE
    OBVIOUS
  <2>1. Bad \in SUBSET Nat
    BY <1>1
  <2>2. PICK m \in Bad : \A k \in Bad : m <= k
    BY <2>1, LeastNumber
  <2>3. m \in 2..n /\ m - 1 \in 1..n /\ m - 1 \notin Bad
    BY <1>1, <1>4, <2>2
  <2> QED
    BY <2>2, <2>3, <1>5
<1>7. Fine(n)
  BY <1>1, <1>6
<1> QED
  BY <1>1, <1>2, <1>7 DEF Fine

\* A function on 1..n is a sequence of n elements.
LEMMA ListIsSeq ==
    ASSUME NEW n \in Nat, NEW f, f = [i \in 1..n |-> f[i]]
    PROVE  /\ f \in Seq(Range(f))
           /\ Len(f) = n
<1>1. \A i \in 1..n : f[i] \in Range(f)
  <2>1. DOMAIN f = 1..n
    OBVIOUS
  <2> QED
    BY <2>1 DEF Range
<1>2. f \in [1..n -> Range(f)]
  BY <1>1
<1> QED
  BY <1>2

\* Split cuts any contents into a list.
LEMMA SplitIsList ==
    ASSUME NEW lo, NEW content, DOMAIN content \in SUBSET Paths
    PROVE  \E n \in Nat : /\ DOMAIN Split(lo, content) = 1..n
                          /\ Split(lo, content) = [i \in 1..n |-> Split(lo, content)[i]]
<1> DEFINE c == Cardinality(DOMAIN content)
           n == (c + ShardFiles - 1) \div ShardFiles
<1>1. c \in Nat
  BY FilesAssumption, FS_Subset, FS_CardinalityType DEF FilesAssumption
<1>2. ShardFiles \in Nat \ {0}
  BY StoreAssumption DEF StoreAssumption
<1> HIDE DEF c
<1>3. n \in Nat
  BY <1>1, <1>2
<1>4. Split(lo, content) = [i \in 1..n |-> Split(lo, content)[i]]
  BY DEF Split, c
<1> HIDE DEF n
<1>5. DOMAIN Split(lo, content) = 1..n
  BY <1>4
<1> QED
  BY <1>3, <1>4, <1>5

\* Segments to write are a draft that keeps nothing.
LEMMA NewShardsDraft ==
    ASSUME NEW parts, NEW n \in Nat, DOMAIN parts = 1..n, NEW gen
    PROVE  /\ Draft(NewShards(parts), gen)
           /\ Old(NewShards(parts)) = {}
           /\ \A p \in Range(NewShards(parts)) : p.fresh
<1> DEFINE pieces == NewShards(parts)
<1>1. pieces = [i \in 1..n |-> pieces[i]]
  BY DEF NewShards
<1>2. \A i \in 1..n : /\ DOMAIN pieces[i] = {"name", "kind", "lo", "content", "fresh"}
                      /\ pieces[i].fresh = TRUE
  BY DEF NewShards
<1> HIDE DEF pieces
<1>3. pieces \in Seq(Range(pieces)) /\ DOMAIN pieces = 1..n
  BY <1>1, ListIsSeq
<1>4. Old(pieces) = {}
  BY <1>2, <1>3 DEF Old
<1>5. \A p \in Range(pieces) : p.fresh
  BY <1>2, <1>3 DEF Range
<1>6. Draft(pieces, gen)
  BY <1>2, <1>3, <1>4 DEF Draft
<1> QED
  BY <1>4, <1>5, <1>6 DEF pieces

\* Names are given in order, so that no two pieces get the same one.
LEMMA NamedDraft ==
    ASSUME NEW pieces, NEW gen \in Nat, Draft(pieces, gen)
    PROVE  LET named == Named(pieces, gen)
           IN /\ DOMAIN named = DOMAIN pieces
              /\ NamesOf(named) \in NameLists
              /\ \A i \in DOMAIN named : named[i].fresh = pieces[i].fresh /\ named[i].fresh \in BOOLEAN
              /\ \A i \in DOMAIN named : named[i].fresh => named[i].name[1] = gen
              /\ OldNames(named) = OldNames(pieces)
<1> DEFINE named == Named(pieces, gen)
           below(i) == {j \in 1..(i - 1) : pieces[j].fresh}
           n == Len(pieces)
<1>1. DOMAIN pieces = 1..n /\ n \in Nat
  BY DEF Draft
<1>2. DOMAIN named = 1..n
  BY <1>1 DEF Named
<1>3. ASSUME NEW i \in 1..n
      PROVE  /\ named[i].fresh = pieces[i].fresh
             /\ pieces[i].fresh => named[i].name = <<gen, "shard", Cardinality(below(i))>>
             /\ ~pieces[i].fresh => named[i].name = pieces[i].name
  <2>1. DOMAIN pieces[i] = {"name", "kind", "lo", "content", "fresh"}
    BY <1>1 DEF Draft
  <2>2. named[i] = IF pieces[i].fresh
                   THEN [pieces[i] EXCEPT !.name = <<gen, "shard", Cardinality(below(i))>>]
                   ELSE pieces[i]
    BY <1>1 DEF Named, Name
  <2> HIDE DEF named, below
  <2> QED
    BY <2>1, <2>2
<1>4. \A i \in 1..n : IsFiniteSet(below(i)) /\ Cardinality(below(i)) \in Nat
  <2> TAKE i \in 1..n
  <2>1. IsFiniteSet(1..(i - 1))
    BY <1>1, FS_Interval
  <2> QED
    BY <2>1, FS_Subset, FS_CardinalityType
<1>5. ASSUME NEW i \in 1..n, NEW j \in 1..n, i < j, pieces[i].fresh
      PROVE  Cardinality(below(i)) < Cardinality(below(j))
  <2>1. below(i) \subseteq below(j) /\ i \in below(j) /\ i \notin below(i)
    BY <1>1, <1>5
  <2>2. Cardinality(below(i)) <= Cardinality(below(j)) /\ Cardinality(below(i)) # Cardinality(below(j))
    BY <2>1, <1>4, FS_Subset
  <2>3. Cardinality(below(i)) \in Nat /\ Cardinality(below(j)) \in Nat
    BY <1>4
  <2> HIDE DEF below
  <2> QED
    BY <2>2, <2>3
<1>6. \A i \in 1..n : pieces[i].fresh \in BOOLEAN
  BY <1>1 DEF Draft
<1> HIDE DEF named, below
<1>7. \A i \in 1..n : ~pieces[i].fresh => named[i].name \in SegNames /\ named[i].name[1] < gen
  BY <1>1, <1>3 DEF Draft, Old
<1>8. ASSUME NEW i \in 1..n, pieces[i].fresh
      PROVE  named[i].name \in SegNames /\ named[i].name[1] = gen
  <2>1. named[i].name = <<gen, "shard", Cardinality(below(i))>>
    BY <1>3, <1>8
  <2>2. Cardinality(below(i)) \in Nat
    BY <1>4
  <2>3. <<gen, "shard", Cardinality(below(i))>> \in SegNames
    BY <2>2 DEF SegNames
  <2> QED
    BY <2>1, <2>3
<1>9. ASSUME NEW i \in 1..n, NEW j \in 1..n, named[i].name = named[j].name
      PROVE  i = j
  <2>1. CASE ~pieces[i].fresh /\ ~pieces[j].fresh
    BY <2>1, <1>1, <1>3, <1>9 DEF Draft, Old
  <2>2. CASE pieces[i].fresh /\ pieces[j].fresh
    <3>1. Cardinality(below(i)) = Cardinality(below(j))
      BY <2>2, <1>3, <1>9
    <3>2. ~(i < j) /\ ~(j < i)
      BY <2>2, <3>1, <1>4, <1>5
    <3> QED
      BY <3>2, <1>1
  <2>3. CASE pieces[i].fresh /\ ~pieces[j].fresh
    BY <2>3, <1>7, <1>8, <1>9
  <2>4. CASE ~pieces[i].fresh /\ pieces[j].fresh
    BY <2>4, <1>7, <1>8, <1>9
  <2> QED
    BY <2>1, <2>2, <2>3, <2>4, <1>6
<1>10. NamesOf(named) \in NameLists
  <2>1. NamesOf(named) = [i \in 1..n |-> named[i].name]
    BY <1>2 DEF NamesOf
  <2>2. \A i \in 1..n : named[i].name \in SegNames
    BY <1>6, <1>7, <1>8
  <2>3. NamesOf(named) \in [1..n -> SegNames]
    BY <2>1, <2>2
  <2>4. NamesOf(named) \in Seq(SegNames) /\ DOMAIN NamesOf(named) = 1..n
    BY <2>3, <1>1
  <2>5. \A i, j \in 1..n : NamesOf(named)[i] = NamesOf(named)[j] => i = j
    BY <2>1, <1>9
  <2> QED
    BY <2>4, <2>5 DEF NameLists
<1>11. OldNames(named) = OldNames(pieces)
  BY <1>1, <1>2, <1>3 DEF OldNames, Old
<1> QED
  BY <1>1, <1>2, <1>3, <1>6, <1>8, <1>10, <1>11 DEF named

\* The first piece starts the path space; without pieces there is an empty one.
LEMMA FromStartDraft ==
    ASSUME NEW pieces, NEW gen, Draft(pieces, gen)
    PROVE  /\ Draft(FromStart(pieces), gen)
           /\ OldNames(FromStart(pieces)) = OldNames(pieces)
<1>1. CASE pieces = <<>>
  <2>1. DOMAIN OneEmptyShard = 1..1
    BY DEF OneEmptyShard
  <2>2. FromStart(pieces) = NewShards(OneEmptyShard)
    BY <1>1 DEF FromStart
  <2>3. Draft(FromStart(pieces), gen) /\ Old(FromStart(pieces)) = {}
    BY <2>1, <2>2, NewShardsDraft
  <2>4. Old(pieces) = {}
    BY <1>1 DEF Old
  <2> QED
    BY <2>3, <2>4 DEF OldNames
<1>2. CASE pieces # <<>>
  <2> DEFINE n == Len(pieces)
             p == FromStart(pieces)
  <2>1. n \in Nat \ {0} /\ DOMAIN pieces = 1..n
    BY <1>2, EmptySeq DEF Draft
  <2>2. p = [pieces EXCEPT ![1].lo = 0]
    BY <1>2 DEF FromStart
  <2>3. \A i \in 1..n : DOMAIN pieces[i] = {"name", "kind", "lo", "content", "fresh"}
    BY <2>1 DEF Draft
  <2> HIDE DEF p
  <2>4. /\ p = [i \in 1..n |-> p[i]]
        /\ \A i \in 1..n : p[i] = IF i = 1 THEN [pieces[1] EXCEPT !.lo = 0] ELSE pieces[i]
    BY <2>1, <2>2
  <2>5. \A i \in 1..n : /\ DOMAIN p[i] = {"name", "kind", "lo", "content", "fresh"}
                        /\ p[i].name = pieces[i].name /\ p[i].fresh = pieces[i].fresh
    BY <2>1, <2>3, <2>4
  <2> HIDE DEF n
  <2>6. p \in Seq(Range(p)) /\ DOMAIN p = 1..n
    BY <2>1, <2>4, ListIsSeq
  <2>7. Old(p) = Old(pieces)
    BY <2>1, <2>5, <2>6 DEF Old
  <2>8. \A i \in Old(p) : p[i].name = pieces[i].name
    BY <2>5, <2>6 DEF Old
  <2>9. OldNames(p) = OldNames(pieces)
    BY <2>7, <2>8 DEF OldNames
  <2>10. Draft(p, gen)
    BY <2>1, <2>5, <2>6, <2>7, <2>8 DEF Draft
  <2> QED
    BY <2>9, <2>10 DEF p
<1> QED
  BY <1>1, <1>2

\* With shards, every path has one.
LEMMA ShardInRange ==
    ASSUME NEW los, los \in Seq(Range(los)), los # <<>>, NEW p
    PROVE  ShardFor(los, p) \in 1..Len(los)
<1> DEFINE n == Len(los)
           below == {k \in DOMAIN los : los[k] <= p}
           c == Cardinality(below)
<1>1. n \in Nat \ {0} /\ DOMAIN los = 1..n
  BY EmptySeq
<1> HIDE DEF n
<1>2. IsFiniteSet(1..n) /\ Cardinality(1..n) = n
  BY <1>1, FS_Interval
<1>3. below \in SUBSET (1..n)
  BY <1>1
<1> HIDE DEF below
<1>4. c \in Nat /\ c <= n
  BY <1>2, <1>3, FS_Subset, FS_CardinalityType
<1>5. ShardFor(los, p) = Max({1, c})
  BY DEF ShardFor, below
<1> HIDE DEF c
<1>6. \E x \in {1, c} : \A y \in {1, c} : x >= y
  BY <1>4
<1>7. Max({1, c}) \in {1, c}
  BY <1>6 DEF Max
<1>8. Max({1, c}) >= 1
  BY <1>6 DEF Max
<1> QED
  BY <1>1, <1>4, <1>5, <1>7, <1>8 DEF n

\* Gathering the records of a shard yields a list of shards to write.
LEMMA RebuiltDraft ==
    ASSUME NEW sn, NEW k, NEW gen
    PROVE  /\ Draft(Rebuilt(sn, k), gen)
           /\ Old(Rebuilt(sn, k)) = {}
           /\ \A p \in Range(Rebuilt(sn, k)) : p.fresh
<1> DEFINE content == Gathered(sn, k)
           parts == Split(IF k = 0 THEN 0 ELSE sn.los[k], content)
<1>1. DOMAIN content \in SUBSET Paths
  BY DEF Gathered
<1> HIDE DEF content
<1>2. PICK n \in Nat : DOMAIN parts = 1..n
  BY <1>1, SplitIsList
<1>3. Rebuilt(sn, k) = NewShards(parts)
  BY DEF Rebuilt, content
<1> HIDE DEF parts
<1> QED
  BY <1>2, <1>3, NewShardsDraft

\* A compaction keeps the segments that it does not replace: what a reader of the
\* next snapshot needs is what stays open (store.go:617).
LEMMA CompactionDraft ==
    ASSUME NEW sn, IsSnapshot(sn), NEW gen \in Nat, \A n \in Range(sn.segs) : n[1] < gen
    PROVE  /\ Draft(Shards(sn), gen)
           /\ Replaced(sn) \subseteq Range(sn.segs)
           /\ OldNames(Shards(sn)) = Range(sn.segs) \ Replaced(sn)
           /\ \A i \in Old(Shards(sn)) : \E k \in DOMAIN sn.los : Shards(sn)[i] = KeptShard(sn, k)
<1> DEFINE n == Len(sn.segs)
           m == Len(sn.los)
           touched == Touched(sn)
<1>1. /\ n \in Nat /\ DOMAIN sn.segs = 1..n
      /\ m \in Nat /\ DOMAIN sn.los = 1..m /\ m <= n
  BY DEF IsSnapshot, NameLists
<1>2. sn.los \in Seq(Range(sn.los))
  BY DEF IsSnapshot
<1>3. \A i \in 1..n : sn.segs[i] \in Range(sn.segs) /\ sn.segs[i] \in SegNames
  <2>1. sn.segs \in Seq(SegNames)
    BY DEF IsSnapshot, NameLists
  <2>2. \A i \in 1..n : sn.segs[i] \in SegNames
    BY <2>1, <1>1
  <2>3. \A i \in 1..n : sn.segs[i] \in Range(sn.segs)
    BY <1>1 DEF Range
  <2> QED
    BY <2>2, <2>3
<1>4. \A i, j \in 1..n : sn.segs[i] = sn.segs[j] => i = j
  BY <1>1 DEF IsSnapshot, NameLists
<1>5. Replaced(sn) = {sn.segs[i] : i \in (touched \ {0}) \cup ((m + 1)..n)}
  BY DEF Replaced
<1>6. Range(sn.segs) = {sn.segs[i] : i \in 1..n}
  BY <1>1 DEF Range
<1>7. CASE sn.los = <<>>
  <2>1. m = 0
    BY <1>7
  <2>2. touched \ {0} = {}
    BY <1>7 DEF Touched, ShardFor
  <2> HIDE DEF touched, n, m
  <2>3. (touched \ {0}) \cup ((m + 1)..n) = 1..n
    BY <2>1, <2>2, <1>1
  <2>4. Replaced(sn) = Range(sn.segs)
    BY <2>3, <1>5, <1>6
  <2>5. Shards(sn) = Rebuilt(sn, 0)
    BY <1>7 DEF Shards
  <2>6. Draft(Shards(sn), gen) /\ Old(Shards(sn)) = {}
    BY <2>5, RebuiltDraft
  <2>7. OldNames(Shards(sn)) = {}
    BY <2>6 DEF OldNames
  <2> QED
    BY <2>4, <2>6, <2>7
<1>8. CASE sn.los # <<>>
  <2>1. m # 0
    BY <1>8, <1>2, EmptySeq
  <2>2. touched \subseteq 1..m
    BY <1>8, <1>2, ShardInRange DEF Touched
  <2> DEFINE parts == [k \in 1..m |-> Compacted(sn, k)]
             S == UNION {Range(parts[k]) : k \in 1..m}
             K == {p \in S : ~p.fresh}
             pieces == Shards(sn)
  <2> HIDE DEF touched, n, m
  <2>3. ASSUME NEW k \in 1..m, k \in touched
        PROVE  /\ parts[k] \in Seq(Range(parts[k]))
               /\ \A p \in Range(parts[k]) : /\ DOMAIN p = {"name", "kind", "lo", "content", "fresh"}
                                             /\ p.fresh = TRUE
    <3>1. parts[k] = Rebuilt(sn, k)
      BY <2>3 DEF Compacted, touched
    <3> HIDE DEF parts
    <3>2. Draft(parts[k], gen) /\ \A p \in Range(parts[k]) : p.fresh
      BY <3>1, RebuiltDraft
    <3>3. \A p \in Range(parts[k]) : /\ DOMAIN p = {"name", "kind", "lo", "content", "fresh"}
                                     /\ p.fresh \in BOOLEAN
      BY <3>2 DEF Draft, Range
    <3>4. parts[k] \in Seq(Range(parts[k]))
      BY <3>2 DEF Draft
    <3> QED
      BY <3>2, <3>3, <3>4
  <2>4. ASSUME NEW k \in 1..m, k \notin touched
        PROVE  /\ parts[k] = <<KeptShard(sn, k)>>
               /\ Range(parts[k]) = {KeptShard(sn, k)}
               /\ parts[k] \in Seq(Range(parts[k]))
    <3>1. parts[k] = <<KeptShard(sn, k)>>
      BY <2>4 DEF Compacted, touched
    <3> HIDE DEF parts
    <3>2. Range(parts[k]) = {KeptShard(sn, k)}
      BY <3>1 DEF Range
    <3> QED
      BY <3>1, <3>2
  <2>5. \A k : /\ DOMAIN KeptShard(sn, k) = {"name", "kind", "lo", "content", "fresh"}
               /\ KeptShard(sn, k).fresh = FALSE /\ KeptShard(sn, k).name = sn.segs[k]
    BY DEF KeptShard
  <2>6. \A j, k \in 1..m : KeptShard(sn, j) = KeptShard(sn, k) => j = k
    BY <2>5, <1>1, <1>4
  <2>7. \A k \in 1..m : Range(parts[k]) \subseteq S
    OBVIOUS
  <2>8. S = UNION {Range(parts[k]) : k \in 1..m}
    OBVIOUS
  <2>9. K = {p \in S : ~p.fresh}
    OBVIOUS
  <2>10. DOMAIN parts = 1..m /\ parts = [k \in 1..m |-> parts[k]]
    OBVIOUS
  <2>11. sn.los # <<>> => pieces = FlattenSeq(parts)
    BY <1>1 DEF Shards, m
  <2> HIDE DEF parts, S, K, pieces
  <2>12. \A k \in 1..m : parts[k] \in Seq(S)
    BY <2>3, <2>4, <2>7, SeqMonotonic
  <2>13. parts \in Seq(Seq(S)) /\ parts # <<>>
    <3>1. parts \in [1..m -> Seq(S)]
      BY <2>10, <2>12
    <3>2. parts \in Seq(Seq(S)) /\ Len(parts) = m
      BY <3>1, <1>1
    <3> QED
      BY <3>2, <2>1, EmptySeq
  <2>14. \A k \in 1..m : k \in touched => Range(parts[k]) \cap K = {}
    BY <2>3, <2>9
  <2>15. \A k \in 1..m : k \notin touched => Range(parts[k]) \cap K = {KeptShard(sn, k)}
    BY <2>4, <2>5, <2>7, <2>9
  <2>16. \A k \in DOMAIN parts : Once(parts[k], K)
    <3> SUFFICES ASSUME NEW k \in 1..m PROVE Once(parts[k], K)
      BY <2>10
    <3>1. CASE k \in touched
      <4>1. \A i \in DOMAIN parts[k] : parts[k][i] \notin K
        BY <3>1, <2>14 DEF Range
      <4> QED
        BY <4>1 DEF Once
    <3>2. CASE k \notin touched
      <4>1. DOMAIN parts[k] = {1}
        BY <3>2, <2>4
      <4> QED
        BY <4>1 DEF Once
    <3> QED
      BY <3>1, <3>2
  <2>17. \A j, k \in DOMAIN parts : j # k => Range(parts[j]) \cap Range(parts[k]) \cap K = {}
    <3> SUFFICES ASSUME NEW j \in 1..m, NEW k \in 1..m, j # k
                 PROVE  (Range(parts[j]) \cap K) \cap (Range(parts[k]) \cap K) = {}
      BY <2>10
    <3>1. KeptShard(sn, j) # KeptShard(sn, k)
      BY <2>6
    <3> QED
      BY <3>1, <2>14, <2>15
  <2>18. /\ pieces \in Seq(S)
         /\ Range(pieces) = UNION {Range(parts[k]) : k \in DOMAIN parts}
         /\ Once(pieces, K)
    BY <2>11, <1>8, <2>13, <2>16, <2>17, Flattened
  <2>19. Range(pieces) = S
    BY <2>8, <2>10, <2>18
  <2>20. pieces \in Seq(Range(pieces)) /\ \A i \in DOMAIN pieces : pieces[i] \in S
    BY <2>18, <2>19 DEF Range
  <2>21. \A p \in S : /\ DOMAIN p = {"name", "kind", "lo", "content", "fresh"}
                      /\ p.fresh \in BOOLEAN
    <3> SUFFICES ASSUME NEW k \in 1..m, NEW p \in Range(parts[k])
                 PROVE  /\ DOMAIN p = {"name", "kind", "lo", "content", "fresh"}
                        /\ p.fresh \in BOOLEAN
      BY <2>8
    <3>1. CASE k \in touched
      <4>1. \A q \in Range(parts[k]) : /\ DOMAIN q = {"name", "kind", "lo", "content", "fresh"}
                                       /\ q.fresh \in BOOLEAN
        BY <3>1, <2>3
      <4> QED
        BY <4>1
    <3>2. CASE k \notin touched
      <4>1. p = KeptShard(sn, k)
        BY <3>2, <2>4
      <4> QED
        BY <4>1, <2>5
    <3> QED
      BY <3>1, <3>2
  <2>22. K = {KeptShard(sn, k) : k \in 1..m \ touched}
    <3>1. \A p : p \in K <=> \E k \in 1..m : p \in Range(parts[k]) \cap K
      BY <2>8, <2>9
    <3>2. \A p : p \in K <=> \E k \in 1..m \ touched : p = KeptShard(sn, k)
      BY <3>1, <2>14, <2>15
    <3> QED
      BY <3>2
  <2>23. \A i \in Old(pieces) : pieces[i] \in K /\ i \in DOMAIN pieces
    BY <2>9, <2>20 DEF Old
  <2>24. \A i \in Old(pieces) : \E k \in 1..m \ touched : pieces[i] = KeptShard(sn, k) /\ pieces[i].name = sn.segs[k]
    BY <2>5, <2>22, <2>23
  <2>25. \A i \in Old(pieces) : pieces[i].name \in SegNames /\ pieces[i].name[1] < gen
    BY <2>24, <1>1, <1>3
  <2>26. ASSUME NEW i \in Old(pieces), NEW j \in Old(pieces), pieces[i].name = pieces[j].name
         PROVE  i = j
    <3>1. PICK k \in 1..m \ touched : pieces[i] = KeptShard(sn, k) /\ pieces[i].name = sn.segs[k]
      BY <2>24
    <3>2. PICK l \in 1..m \ touched : pieces[j] = KeptShard(sn, l) /\ pieces[j].name = sn.segs[l]
      BY <2>24
    <3>3. k = l
      <4>1. sn.segs[k] = sn.segs[l]
        BY <3>1, <3>2, <2>26
      <4>2. k \in 1..n /\ l \in 1..n
        BY <1>1
      <4> QED
        BY <4>1, <4>2, <1>4
    <3>4. pieces[i] = pieces[j] /\ pieces[i] \in K
      BY <3>1, <3>2, <3>3, <2>23
    <3> QED
      BY <3>4, <2>18, <2>23 DEF Once
  <2>27. Draft(pieces, gen)
    BY <2>20, <2>21, <2>25, <2>26 DEF Draft
  <2>28. OldNames(pieces) = {sn.segs[k] : k \in 1..m \ touched}
    <3>1. \A k \in 1..m \ touched : \E i \in Old(pieces) : pieces[i].name = sn.segs[k]
      <4> TAKE k \in 1..m \ touched
      <4>1. KeptShard(sn, k) \in Range(pieces)
        BY <2>22, <2>19, <2>9
      <4>2. PICK i \in DOMAIN pieces : pieces[i] = KeptShard(sn, k)
        BY <4>1 DEF Range
      <4>3. i \in Old(pieces) /\ pieces[i].name = sn.segs[k]
        BY <4>2, <2>5 DEF Old
      <4> QED
        BY <4>3
    <3> QED
      BY <3>1, <2>24 DEF OldNames
  <2>29. Replaced(sn) \subseteq Range(sn.segs)
    BY <1>1, <1>5, <1>6, <2>2
  <2>30. {sn.segs[k] : k \in 1..m \ touched} = Range(sn.segs) \ Replaced(sn)
    <3>1. \A i \in 1..n : i \in (touched \ {0}) \cup ((m + 1)..n) <=> i \notin 1..m \ touched
      BY <1>1, <2>2
    <3>2. \A i \in 1..n : sn.segs[i] \in Replaced(sn) <=> i \in (touched \ {0}) \cup ((m + 1)..n)
      <4>1. (touched \ {0}) \cup ((m + 1)..n) \subseteq 1..n
        BY <1>1, <2>2
      <4> QED
        BY <4>1, <1>4, <1>5
    <3>3. 1..m \ touched \subseteq 1..n
      BY <1>1
    <3> QED
      BY <3>1, <3>2, <3>3, <1>6
  <2>31. \A i \in Old(pieces) : \E k \in DOMAIN sn.los : pieces[i] = KeptShard(sn, k)
    BY <2>24, <1>1
  <2> QED
    BY <2>27, <2>28, <2>29, <2>30, <2>31 DEF pieces
<1> QED
  BY <1>7, <1>8

\* Release gives back one reference.  The last one of a snapshot gives back one of
\* each of its segments, and a segment whose last one it was, and that is retired,
\* is unmapped and removed (snapshot.go:49).
LEMMA Releases ==
    ASSUME NEW all, NEW open, NEW dir, NEW g \in DOMAIN all, Counted(all, open),
           all[g].refs \in Nat \ {0},
           ~(all[g].refs > 1) => \A n \in DOMAIN open : Users(all, n) = {g} => open[n].retired
    PROVE  LET after == Release(all, open, dir, g)
           IN Released(after, all, open, dir) /\ Dropped(after, all, g)
<1> DEFINE names == Range(all[g].segs)
           gone == Unmapped(open, names)
           rest == Without(open, gone)
           after == Release(all, open, dir, g)
<1>1. CASE all[g].refs > 1
  <2> DEFINE left == [all EXCEPT ![g].refs = @ - 1]
  <2>1. after.snaps = left /\ after.segs = open /\ after.files = dir
    BY <1>1 DEF Release
  <2>2. /\ DOMAIN left = DOMAIN all
        /\ \A h \in DOMAIN all : left[h] = IF h = g THEN [all[g] EXCEPT !.refs = @ - 1] ELSE all[h]
    OBVIOUS
  <2> HIDE DEF left, after
  <2>3. DOMAIN all[g] = {"gen", "segs", "los", "route", "refs", "whole"}
    BY DEF Counted, IsSnapshot
  <2>4. \A h \in DOMAIN all :
          /\ left[h].segs = all[h].segs /\ left[h].los = all[h].los
          /\ DOMAIN left[h] = DOMAIN all[h]
          /\ left[h].refs = IF h = g THEN all[h].refs - 1 ELSE all[h].refs
    BY <2>2, <2>3
  <2>5. \A h \in DOMAIN left : IsSnapshot(left[h])
    BY <2>2, <2>4 DEF Counted, IsSnapshot
  <2>6. \A n : Users(left, n) = Users(all, n)
    BY <2>2, <2>4 DEF Users
  <2>7. UNION {Range(left[h].segs) : h \in DOMAIN left} = UNION {Range(all[h].segs) : h \in DOMAIN all}
    BY <2>2, <2>4
  <2>8. Counted(left, open)
    BY <2>2, <2>5, <2>6, <2>7 DEF Counted
  <2> QED
    BY <1>1, <2>1, <2>2, <2>4, <2>8 DEF after, Released, Dropped
<1>2. CASE ~(all[g].refs > 1)
  <2> DEFINE left == Without(all, {g})
             less == [n \in DOMAIN rest |-> IF n \in names THEN [rest[n] EXCEPT !.refs = @ - 1] ELSE rest[n]]
             kept == Without(dir, {n \in gone : ~open[n].keep})
  <2>1. after.snaps = left /\ after.segs = less /\ after.files = kept
    BY <1>2 DEF Release
  <2>2. DOMAIN left = DOMAIN all \ {g} /\ \A h \in DOMAIN left : left[h] = all[h]
    BY DEF Without, Restrict
  <2>3. DOMAIN rest = DOMAIN open \ gone /\ \A n \in DOMAIN rest : rest[n] = open[n]
    BY DEF Without, Restrict
  <2>4. DOMAIN kept = DOMAIN dir \ {n \in gone : ~open[n].keep}
    BY DEF Without, Restrict
  <2>5. gone = {n \in names : open[n].refs = 1 /\ open[n].retired}
    BY DEF Unmapped
  <2> HIDE DEF left, rest, gone
  <2>6. /\ DOMAIN less = DOMAIN open \ gone
        /\ \A n \in DOMAIN less :
             less[n] = IF n \in names THEN [open[n] EXCEPT !.refs = @ - 1] ELSE open[n]
    BY <2>3
  <2> HIDE DEF less, kept, after
  <2>7. \A n \in DOMAIN open : IsSegment(open[n])
    BY DEF Counted
  <2>8. \A n \in DOMAIN less :
          /\ IsSegment(less[n])
          /\ less[n].retired = open[n].retired /\ less[n].keep = open[n].keep
          /\ less[n].refs = IF n \in names THEN open[n].refs - 1 ELSE open[n].refs
    BY <2>6, <2>7 DEF IsSegment
  <2>9. ASSUME NEW n
        PROVE  /\ IsFiniteSet(Users(all, n))
               /\ Cardinality(Users(all, n)) \in Nat
               /\ Users(left, n) = Users(all, n) \ {g}
               /\ Cardinality(Users(left, n)) = IF g \in Users(all, n) THEN Cardinality(Users(all, n)) - 1
                                                ELSE Cardinality(Users(all, n))
    <3>1. Users(all, n) \subseteq DOMAIN all /\ IsFiniteSet(DOMAIN all)
      BY DEF Users, Counted
    <3>2. IsFiniteSet(Users(all, n))
      BY <3>1, FS_Subset
    <3>3. Users(left, n) = Users(all, n) \ {g}
      BY <2>2 DEF Users
    <3>4. Cardinality(Users(all, n) \ {g}) = IF g \in Users(all, n) THEN Cardinality(Users(all, n)) - 1
                                                ELSE Cardinality(Users(all, n))
      BY <3>2, FS_RemoveElement
    <3> QED
      BY <3>2, <3>3, <3>4, FS_CardinalityType
  <2>10. \A n : n \in names <=> g \in Users(all, n)
    BY DEF Users
  <2>11. names \subseteq DOMAIN open
    BY DEF Counted
  <2>12. \A n \in DOMAIN open : open[n].refs = Cardinality(Users(all, n))
    BY DEF Counted
  <2>13. \A n \in gone : Users(all, n) = {g}
    <3> TAKE n \in gone
    <3>1. n \in names /\ n \in DOMAIN open /\ Cardinality(Users(all, n)) = 1
      BY <2>5, <2>11, <2>12
    <3>2. g \in Users(all, n) /\ Cardinality(Users(all, n) \ {g}) = 0
      <4>1. g \in Users(all, n)
        BY <3>1, <2>10
      <4>2. Cardinality(Users(left, n)) = 0 /\ Users(left, n) = Users(all, n) \ {g}
        BY <3>1, <4>1, <2>9
      <4> QED
        BY <4>1, <4>2
    <3>3. IsFiniteSet(Users(all, n) \ {g})
      BY <2>9, FS_RemoveElement
    <3>4. Users(all, n) \ {g} = {}
      BY <3>2, <3>3, FS_EmptySet
    <3> QED
      BY <3>2, <3>4
  <2>14. \A n \in DOMAIN open : Users(all, n) = {g} => n \in gone
    <3> SUFFICES ASSUME NEW n \in DOMAIN open, Users(all, n) = {g} PROVE n \in gone
      OBVIOUS
    <3>1. open[n].retired /\ n \in names
      BY <1>2, <2>10
    <3>2. open[n].refs = 1
      BY <2>12, FS_Singleton
    <3> QED
      BY <3>1, <3>2, <2>5
  <2>15. \A n \in DOMAIN open : n \in gone <=> Users(left, n) = {}
    <3> TAKE n \in DOMAIN open
    <3>1. Users(all, n) # {}
      BY DEF Users, Counted
    <3>2. Users(left, n) = Users(all, n) \ {g}
      BY <2>9
    <3> QED
      BY <3>1, <3>2, <2>13, <2>14
  <2>16. DOMAIN less = UNION {Range(left[h].segs) : h \in DOMAIN left}
    <3>1. \A n : n \in UNION {Range(left[h].segs) : h \in DOMAIN left} <=> Users(left, n) # {}
      BY DEF Users
    <3>2. \A n : Users(left, n) # {} => n \in DOMAIN open
      <4>1. \A n : Users(left, n) \subseteq Users(all, n)
        BY <2>9
      <4>2. \A n : Users(all, n) # {} => n \in DOMAIN open
        BY DEF Users, Counted
      <4> QED
        BY <4>1, <4>2
    <3>3. \A n : n \in DOMAIN less <=> n \in DOMAIN open /\ n \notin gone
      BY <2>6
    <3>4. \A n : n \in DOMAIN less <=> n \in UNION {Range(left[h].segs) : h \in DOMAIN left}
      BY <3>1, <3>2, <3>3, <2>15
    <3> QED
      BY <3>4
  <2>17. \A n \in DOMAIN less : less[n].refs = Cardinality(Users(left, n))
    <3> TAKE n \in DOMAIN less
    <3>1. n \in DOMAIN open
      BY <2>6
    <3> QED
      BY <3>1, <2>8, <2>9, <2>10, <2>12
  <2>18. IsFiniteSet(DOMAIN left) /\ \A h \in DOMAIN left : IsSnapshot(left[h])
    <3>1. IsFiniteSet(DOMAIN all) /\ DOMAIN left \subseteq DOMAIN all
      BY <2>2 DEF Counted
    <3> QED
      BY <3>1, <2>2, FS_Subset DEF Counted
  <2>19. Counted(left, less)
    BY <2>8, <2>16, <2>17, <2>18 DEF Counted
  <2>20. gone = DOMAIN open \ DOMAIN less
    BY <2>5, <2>6, <2>11
  <2>21. {n \in gone : ~open[n].keep} = {n \in DOMAIN open \ DOMAIN less : ~open[n].keep}
    BY <2>20
  <2>22. \A n \in DOMAIN less : n \in DOMAIN open
    BY <2>6
  <2>23. \A h \in DOMAIN left : left[h] = all[h] /\ h # g
    BY <2>2
  <2> QED
    BY <1>2, <2>1, <2>2, <2>4, <2>8, <2>19, <2>21, <2>22, <2>23 DEF after, Released, Dropped
<1> QED
  BY <1>1, <1>2

\* A snapshot more, of open segments and new ones, while others are retired.
LEMMA Publishes ==
    ASSUME NEW all, NEW open, Counted(all, open), NEW gen, gen \notin DOMAIN all,
           NEW sn, IsSnapshot(sn), NEW new, NEW retire,
           DOMAIN new \cap DOMAIN open = {},
           \A n \in DOMAIN new : new[n].refs = 0 /\ ~new[n].retired /\ ~new[n].keep /\ IsSegment(new[n]),
           DOMAIN new \subseteq Range(sn.segs),
           Range(sn.segs) \subseteq (DOMAIN new) \cup DOMAIN open
    PROVE  LET all2 == Over(Only(gen, sn), all)
               open2 == Retain(Retire(Over(new, open), retire), sn)
           IN Extended(all2, open2, all, open, gen, sn, DOMAIN new, retire)
<1> DEFINE all2 == Over(Only(gen, sn), all)
           both == Over(new, open)
           mid == Retire(both, retire)
           open2 == Retain(mid, sn)
<1>1. /\ DOMAIN all2 = (DOMAIN all) \cup {gen}
      /\ all2[gen] = sn /\ \A g \in DOMAIN all : all2[g] = all[g]
  BY DEF Over, Only
<1>2. /\ DOMAIN both = (DOMAIN new) \cup DOMAIN open
      /\ \A n \in DOMAIN new : both[n] = new[n]
      /\ \A n \in DOMAIN open : both[n] = open[n]
  BY DEF Over
<1> HIDE DEF both
<1>3. /\ DOMAIN mid = DOMAIN both
      /\ \A n \in DOMAIN both : mid[n] = IF n \in retire THEN [both[n] EXCEPT !.retired = TRUE] ELSE both[n]
  BY DEF Retire
<1> HIDE DEF mid
<1>4. /\ DOMAIN open2 = DOMAIN mid
      /\ \A n \in DOMAIN mid : open2[n] = IF n \in Range(sn.segs) THEN [mid[n] EXCEPT !.refs = @ + 1] ELSE mid[n]
  BY DEF Retain
<1> HIDE DEF open2, all2
<1>5. \A n \in DOMAIN both : IsSegment(both[n])
  BY <1>2 DEF Counted
<1>6. \A n \in DOMAIN both :
        /\ IsSegment(mid[n]) /\ mid[n].refs = both[n].refs
        /\ mid[n].keep = both[n].keep
        /\ mid[n].retired = (both[n].retired \/ n \in retire)
  <2> TAKE n \in DOMAIN both
  <2>1. CASE n \in retire
    <3>1. mid[n] = [both[n] EXCEPT !.retired = TRUE]
      BY <2>1, <1>3
    <3> QED
      BY <3>1, <2>1, <1>5 DEF IsSegment
  <2>2. CASE n \notin retire
    <3>1. mid[n] = both[n] /\ both[n].retired \in BOOLEAN
      BY <2>2, <1>3, <1>5 DEF IsSegment
    <3> QED
      BY <3>1, <2>2, <1>5
  <2> QED
    BY <2>1, <2>2
<1>7. \A n \in DOMAIN both :
        /\ IsSegment(open2[n])
        /\ open2[n].keep = mid[n].keep /\ open2[n].retired = mid[n].retired
        /\ open2[n].refs = IF n \in Range(sn.segs) THEN mid[n].refs + 1 ELSE mid[n].refs
  <2> TAKE n \in DOMAIN both
  <2>1. CASE n \in Range(sn.segs)
    <3>1. open2[n] = [mid[n] EXCEPT !.refs = @ + 1] /\ IsSegment(mid[n])
      BY <2>1, <1>3, <1>4, <1>6
    <3> QED
      BY <3>1, <2>1 DEF IsSegment
  <2>2. CASE n \notin Range(sn.segs)
    <3>1. open2[n] = mid[n] /\ IsSegment(mid[n])
      BY <2>2, <1>3, <1>4, <1>6
    <3> QED
      BY <3>1, <2>2
  <2> QED
    BY <2>1, <2>2
<1>8. \A n : n \in DOMAIN both => n \in UNION {Range(all2[g].segs) : g \in DOMAIN all2}
  <2> TAKE n
  <2>1. n \in DOMAIN new => n \in Range(all2[gen].segs)
    BY <1>1
  <2>2. n \in DOMAIN open => \E g \in DOMAIN all : n \in Range(all2[g].segs)
    <3>1. n \in DOMAIN open => \E g \in DOMAIN all : n \in Range(all[g].segs)
      BY DEF Counted
    <3> QED
      BY <3>1, <1>1
  <2> QED
    BY <2>1, <2>2, <1>1, <1>2
<1>9. \A n : n \in UNION {Range(all2[g].segs) : g \in DOMAIN all2} => n \in DOMAIN both
  <2> SUFFICES ASSUME NEW g \in DOMAIN all2, NEW n \in Range(all2[g].segs) PROVE n \in DOMAIN both
    OBVIOUS
  <2>1. CASE g = gen
    BY <2>1, <1>1, <1>2
  <2>2. CASE g \in DOMAIN all
    <3>1. n \in Range(all[g].segs)
      BY <2>2, <1>1
    <3>2. n \in DOMAIN open
      BY <2>2, <3>1 DEF Counted
    <3> QED
      BY <3>2, <1>2
  <2> QED
    BY <2>1, <2>2, <1>1
<1>10. DOMAIN open2 = UNION {Range(all2[g].segs) : g \in DOMAIN all2}
  BY <1>3, <1>4, <1>8, <1>9
<1>11. \A n : Users(all2, n) = IF n \in Range(sn.segs) THEN Users(all, n) \cup {gen} ELSE Users(all, n)
  BY <1>1 DEF Users
<1>12. ASSUME NEW n
       PROVE  /\ IsFiniteSet(Users(all, n)) /\ gen \notin Users(all, n)
              /\ Cardinality(Users(all, n)) \in Nat
              /\ Cardinality(Users(all, n) \cup {gen}) = Cardinality(Users(all, n)) + 1
  <2>1. Users(all, n) \subseteq DOMAIN all /\ IsFiniteSet(DOMAIN all)
    BY DEF Users, Counted
  <2>2. IsFiniteSet(Users(all, n)) /\ gen \notin Users(all, n)
    BY <2>1, FS_Subset
  <2> QED
    BY <2>2, FS_AddElement, FS_CardinalityType
<1>13. \A n \in DOMAIN both : mid[n].refs = Cardinality(Users(all, n))
  <2> TAKE n \in DOMAIN both
  <2>1. CASE n \in DOMAIN open
    <3>1. mid[n].refs = open[n].refs
      BY <2>1, <1>2, <1>6
    <3> QED
      BY <2>1, <3>1 DEF Counted
  <2>2. CASE n \in DOMAIN new
    <3>1. mid[n].refs = 0
      BY <2>2, <1>2, <1>6
    <3>2. n \notin DOMAIN open
      BY <2>2
    <3>3. Users(all, n) = {}
      BY <3>2 DEF Users, Counted
    <3> QED
      BY <3>1, <3>3, FS_EmptySet
  <2> QED
    BY <2>1, <2>2, <1>2
<1>14. \A n \in DOMAIN both : open2[n].refs = Cardinality(Users(all2, n))
  BY <1>7, <1>11, <1>12, <1>13
<1>15. IsFiniteSet(DOMAIN all2)
  <2>1. IsFiniteSet(DOMAIN all)
    BY DEF Counted
  <2> QED
    BY <2>1, <1>1, FS_AddElement
<1>16. \A g \in DOMAIN all2 : IsSnapshot(all2[g])
  BY <1>1 DEF Counted
<1>17. Counted(all2, open2)
  BY <1>3, <1>4, <1>7, <1>10, <1>14, <1>15, <1>16 DEF Counted
<1>18. DOMAIN open2 = (DOMAIN new) \cup DOMAIN open
  BY <1>2, <1>3, <1>4
<1>19. \A n \in DOMAIN open : /\ open2[n].retired = (open[n].retired \/ n \in retire)
                              /\ open2[n].keep = open[n].keep
  BY <1>2, <1>6, <1>7
<1>20. \A n \in DOMAIN new : /\ open2[n].retired = (n \in retire)
                             /\ ~open2[n].keep
  <2> TAKE n \in DOMAIN new
  <2>1. /\ open2[n].retired = (new[n].retired \/ n \in retire)
        /\ open2[n].keep = new[n].keep
    BY <1>2, <1>6, <1>7
  <2>2. ~new[n].retired /\ ~new[n].keep
    OBVIOUS
  <2> QED
    BY <2>1, <2>2
<1> QED
  BY <1>1, <1>17, <1>18, <1>19, <1>20 DEF all2, open2, mid, both, Extended

\* A store that is opened has one snapshot, and the segments it lists.
LEMMA Opens ==
    ASSUME NEW gen, NEW sn, IsSnapshot(sn), NEW new, DOMAIN new = Range(sn.segs),
           \A n \in DOMAIN new : new[n].refs = 0 /\ ~new[n].retired /\ ~new[n].keep /\ IsSegment(new[n])
    PROVE  LET open == Retain(new, sn)
           IN /\ Counted(Only(gen, sn), open)
              /\ DOMAIN Only(gen, sn) = {gen} /\ Only(gen, sn)[gen] = sn
              /\ DOMAIN open = Range(sn.segs)
              /\ \A n \in DOMAIN open : ~open[n].retired /\ ~open[n].keep
<1> DEFINE all == Only(gen, sn)
           open == Retain(new, sn)
<1>1. DOMAIN all = {gen} /\ all[gen] = sn
  BY DEF Only
<1>2. DOMAIN open = DOMAIN new /\ \A n \in DOMAIN new : open[n] = [new[n] EXCEPT !.refs = @ + 1]
  BY DEF Retain
<1> HIDE DEF all, open
<1>3. \A n \in DOMAIN new :
        /\ IsSegment(open[n])
        /\ open[n].refs = 1 /\ ~open[n].retired /\ ~open[n].keep
  <2> TAKE n \in DOMAIN new
  <2>1. open[n] = [new[n] EXCEPT !.refs = @ + 1] /\ IsSegment(new[n])
    BY <1>2
  <2>2. new[n].refs = 0 /\ ~new[n].retired /\ ~new[n].keep
    OBVIOUS
  <2> QED
    BY <2>1, <2>2 DEF IsSegment
<1>4. \A n \in DOMAIN new : Users(all, n) = {gen}
  BY <1>1 DEF Users
<1>5. \A n \in DOMAIN new : open[n].refs = Cardinality(Users(all, n))
  BY <1>3, <1>4, FS_Singleton
<1>6. UNION {Range(all[g].segs) : g \in DOMAIN all} = Range(sn.segs)
  BY <1>1
<1>7. IsFiniteSet(DOMAIN all)
  BY <1>1, FS_Singleton
<1>8. Counted(all, open)
  BY <1>1, <1>2, <1>3, <1>5, <1>6, <1>7 DEF Counted
<1> QED
  BY <1>1, <1>2, <1>3, <1>8 DEF all, open

\* A reference more to a snapshot changes nothing else.
LEMMA Shares ==
    ASSUME NEW all, NEW open, Counted(all, open), NEW g \in DOMAIN all
    PROVE  LET more == [all EXCEPT ![g].refs = @ + 1]
           IN /\ Counted(more, open)
              /\ DOMAIN more = DOMAIN all
              /\ \A h \in DOMAIN all :
                   /\ more[h].segs = all[h].segs
                   /\ more[h].refs = IF h = g THEN all[h].refs + 1 ELSE all[h].refs
<1> DEFINE more == [all EXCEPT ![g].refs = @ + 1]
<1>1. /\ DOMAIN more = DOMAIN all
      /\ \A h \in DOMAIN all : more[h] = IF h = g THEN [all[g] EXCEPT !.refs = @ + 1] ELSE all[h]
  OBVIOUS
<1> HIDE DEF more
<1>2. DOMAIN all[g] = {"gen", "segs", "los", "route", "refs", "whole"}
  BY DEF Counted, IsSnapshot
<1>3. \A h \in DOMAIN all :
        /\ more[h].segs = all[h].segs /\ more[h].los = all[h].los
        /\ DOMAIN more[h] = DOMAIN all[h]
        /\ more[h].refs = IF h = g THEN all[h].refs + 1 ELSE all[h].refs
  BY <1>1, <1>2
<1>4. \A h \in DOMAIN more : IsSnapshot(more[h])
  BY <1>1, <1>3 DEF Counted, IsSnapshot
<1>5. \A n : Users(more, n) = Users(all, n)
  BY <1>1, <1>3 DEF Users
<1>6. UNION {Range(more[h].segs) : h \in DOMAIN more} = UNION {Range(all[h].segs) : h \in DOMAIN all}
  BY <1>1, <1>3
<1>7. Counted(more, open)
  BY <1>1, <1>4, <1>5, <1>6 DEF Counted
<1> QED
  BY <1>1, <1>3, <1>7 DEF more

-----------------------------------------------------------------------------
\* The invariant.

\* Readers are finitely many, so their references can be counted.
LEMMA ReadersFinite ==
    ASSUME NEW S \in SUBSET Readers
    PROVE  /\ IsFiniteSet(S)
           /\ Cardinality(S) \in Nat
<1>1. IsFiniteSet(Readers)
  BY StoreAssumption DEF StoreAssumption
<1> QED
  BY <1>1, FS_Subset, FS_CardinalityType

\* The references to a snapshot are its readers and what the writer holds.
LEMMA ReferencesType ==
    ASSUME StoreStates, JobInv
    PROVE  /\ References \in [Nat -> Nat]
           /\ \A g \in Nat : References[g] = Cardinality(Holding(g)) + WriterRefs(g)
           /\ \A g \in Nat : References[g] > 0 <=> (Holding(g) # {} \/ WriterRefs(g) # 0)
           /\ \A g \in Nat : WriterRefs(g) \in {0, 1, 2}
<1>1. \A g \in Nat : IsFiniteSet(Holding(g)) /\ Cardinality(Holding(g)) \in Nat
  BY ReadersFinite DEF Holding
<1>2. \A g \in Nat : WriterRefs(g) \in {0, 1, 2}
  BY DEF WriterRefs
<1>3. \A g \in Nat : Cardinality(Holding(g)) = 0 <=> Holding(g) = {}
  BY <1>1, FS_EmptySet
<1>4. \A g \in Nat : References[g] = Cardinality(Holding(g)) + WriterRefs(g)
  BY DEF References
<1>5. References = [g \in Nat |-> References[g]]
  BY DEF References
<1>6. References \in [Nat -> Nat]
  BY <1>1, <1>2, <1>4, <1>5
<1> QED
  BY <1>1, <1>2, <1>3, <1>4, <1>6

\* The generations that readers use are those that one holds.
LEMMA ReadersUse ==
    ASSUME StoreStates
    PROVE  InUse = {g \in Nat : Holding(g) # {} \/ (up /\ g = cur)}
<1>1. \A g : g \in {held[r] : r \in {q \in Readers : held[q] # None}} <=> g \in Nat /\ Holding(g) # {}
  <2> TAKE g
  <2>1. ASSUME NEW r \in Readers, held[r] # None
        PROVE  held[r] \in Nat /\ r \in Holding(held[r])
    BY <2>1 DEF StoreStates, Holding
  <2>2. ASSUME g \in Nat, NEW r \in Holding(g)
        PROVE  r \in Readers /\ held[r] # None /\ held[r] = g
    BY <2>2, StoreAssumption DEF Holding, StoreAssumption
  <2> QED
    BY <2>1, <2>2
<1>2. cur \in Nat
  BY DEF StoreStates
<1> QED
  BY <1>1, <1>2 DEF InUse

\* Release, seen from the counts.
LEMMA ReleaseTallied ==
    ASSUME NEW all, NEW open, NEW dir, NEW g \in Nat, Counted(all, open),
           NEW refs \in [Nat -> Nat], Tallied(all, refs), refs[g] > 0,
           refs[g] = 1 => \A n \in DOMAIN open : Users(all, n) = {g} => open[n].retired
    PROVE  LET after == Release(all, open, dir, g)
           IN /\ Released(after, all, open, dir)
              /\ Tallied(after.snaps, [refs EXCEPT ![g] = @ - 1])
<1> DEFINE after == Release(all, open, dir, g)
           less == [refs EXCEPT ![g] = @ - 1]
<1>1. g \in DOMAIN all /\ all[g].refs = refs[g] /\ refs[g] \in Nat \ {0}
  BY DEF Tallied
<1>2. ~(all[g].refs > 1) => refs[g] = 1
  BY <1>1
<1>10. /\ all[g].refs \in Nat \ {0}
       /\ ~(all[g].refs > 1) => \A n \in DOMAIN open : Users(all, n) = {g} => open[n].retired
  BY <1>1, <1>2
<1>3. Released(after, all, open, dir) /\ Dropped(after, all, g)
  BY <1>1, <1>10, Releases
<1> HIDE DEF after
<1>4. less \in [Nat -> Int] /\ \A h \in Nat : less[h] = IF h = g THEN refs[h] - 1 ELSE refs[h]
  OBVIOUS
<1> HIDE DEF less
<1>5. DOMAIN all = {h \in Nat : refs[h] > 0} /\ \A h \in DOMAIN all : all[h].refs = refs[h]
  BY DEF Tallied
<1>6. \A h : h \in DOMAIN after.snaps <=> h \in Nat /\ less[h] > 0
  BY <1>1, <1>2, <1>3, <1>4, <1>5 DEF Dropped
<1>7. \A h \in DOMAIN after.snaps : h \in DOMAIN all /\ h \in Nat
  BY <1>3, <1>5 DEF Dropped
<1>8. \A h \in DOMAIN after.snaps : after.snaps[h].refs = less[h]
  BY <1>3, <1>4, <1>5, <1>7 DEF Dropped
<1>9. Tallied(after.snaps, less)
  BY <1>6, <1>8 DEF Tallied
<1> QED
  BY <1>3, <1>9 DEF after, less

-----------------------------------------------------------------------------
\* What the writer plans fits the published snapshot.

\* An overlay stacks one fresh segment of the next generation on what is published.
LEMMA OverlayFits ==
    ASSUME NEW want, NEW whole, NEW batch, NEW names, NEW gen \in Nat
    PROVE  LET top == [name |-> Name(gen, "overlay", 0), kind |-> "overlay", lo |-> 0,
                       content |-> batch, fresh |-> TRUE]
           IN PlanFits([Plan(want, <<top>>, {}, whole) EXCEPT !.stacks = TRUE], names, gen)
<1> DEFINE top == [name |-> Name(gen, "overlay", 0), kind |-> "overlay", lo |-> 0,
                   content |-> batch, fresh |-> TRUE]
           plan == [Plan(want, <<top>>, {}, whole) EXCEPT !.stacks = TRUE]
<1>1. top.name = <<gen, "overlay", 0>> /\ top.fresh /\ top.fresh \in BOOLEAN
  BY DEF Name
<1> HIDE DEF top
<1>2. /\ DOMAIN plan = {"phase", "want", "pieces", "retire", "whole", "written", "stacks", "compacting"}
      /\ plan.written = 0 /\ plan.stacks \in BOOLEAN /\ plan.compacting \in BOOLEAN
      /\ plan.stacks /\ ~plan.compacting
      /\ plan.pieces = <<top>> /\ plan.retire = {}
  BY DEF Plan
<1> HIDE DEF plan
<1>3. /\ DOMAIN plan.pieces = {1} /\ plan.pieces[1] = top
      /\ \A i \in DOMAIN plan.pieces : plan.pieces[i] = top
  BY <1>2
<1>4. NamesOf(plan.pieces) = [i \in {1} |-> <<gen, "overlay", 0>>]
  BY <1>1, <1>3 DEF NamesOf
<1>5. <<gen, "overlay", 0>> \in SegNames /\ <<gen, "overlay", 0>>[1] = gen
  BY DEF SegNames
<1>6. NamesOf(plan.pieces) \in NameLists
  <2> DEFINE s == NamesOf(plan.pieces)
  <2>1. {1} = 1..1
    OBVIOUS
  <2>2. s \in [1..1 -> SegNames] /\ DOMAIN s = {1}
    BY <1>4, <1>5, <2>1
  <2> HIDE DEF s
  <2>3. s \in Seq(SegNames)
    BY <2>2, 1 \in Nat, SeqDef
  <2>4. s \in NameLists
    BY <2>2, <2>3 DEF NameLists
  <2> QED
    BY <2>4 DEF s
<1>7. \A i \in DOMAIN plan.pieces :
        plan.pieces[i].fresh /\ plan.pieces[i].fresh \in BOOLEAN /\ plan.pieces[i].name[1] = gen
  BY <1>1, <1>3, <1>5
<1>8. PlanFits(plan, names, gen)
  BY <1>2, <1>3, <1>6, <1>7 DEF PlanFits
<1> QED
  BY <1>8 DEF plan, top

\* Names are given to a draft; what it keeps is what it does not retire.
LEMMA DraftFits ==
    ASSUME NEW want, NEW whole, NEW pieces, NEW names, NEW retire, NEW gen \in Nat,
           Draft(pieces, gen), retire \subseteq names, OldNames(pieces) = names \ retire
    PROVE  /\ PlanFits(Plan(want, Named(pieces, gen), retire, whole), names, gen)
           /\ PlanFits([Plan(want, Named(pieces, gen), retire, whole) EXCEPT !.compacting = TRUE], names, gen)
<1> DEFINE named == Named(pieces, gen)
           plan == Plan(want, named, retire, whole)
           other == [plan EXCEPT !.compacting = TRUE]
<1>1. /\ DOMAIN named = DOMAIN pieces
      /\ NamesOf(named) \in NameLists
      /\ \A i \in DOMAIN named : named[i].fresh \in BOOLEAN
      /\ \A i \in DOMAIN named : named[i].fresh => named[i].name[1] = gen
      /\ OldNames(named) = OldNames(pieces)
  BY NamedDraft
<1> HIDE DEF named
<1>2. /\ DOMAIN plan = {"phase", "want", "pieces", "retire", "whole", "written", "stacks", "compacting"}
      /\ plan.written = 0 /\ plan.stacks \in BOOLEAN /\ plan.compacting \in BOOLEAN
      /\ ~plan.stacks /\ ~plan.compacting
      /\ plan.pieces = named /\ plan.retire = retire
  BY DEF Plan
<1> HIDE DEF plan
<1>3. /\ DOMAIN other = {"phase", "want", "pieces", "retire", "whole", "written", "stacks", "compacting"}
      /\ other.written = 0 /\ other.stacks \in BOOLEAN /\ other.compacting \in BOOLEAN
      /\ ~other.stacks /\ other.compacting
      /\ other.pieces = named /\ other.retire = retire
  BY <1>2
<1> HIDE DEF other
<1>4. PlanFits(plan, names, gen)
  BY <1>1, <1>2 DEF PlanFits
<1>5. PlanFits(other, names, gen)
  BY <1>1, <1>3 DEF PlanFits
<1> QED
  BY <1>4, <1>5 DEF other, plan, named

\* A base lists the files it was given, or one empty shard.
LEMMA BaseFits ==
    ASSUME NEW build \in Indexes, NEW names, NEW gen \in Nat
    PROVE  LET present == Restrict(build, {p \in Paths : build[p] # Deleted})
               parts == IF present = <<>> THEN OneEmptyShard ELSE Split(0, present)
           IN PlanFits(Plan(build, Named(NewShards(parts), gen), names, TRUE), names, gen)
<1> DEFINE present == Restrict(build, {p \in Paths : build[p] # Deleted})
           parts == IF present = <<>> THEN OneEmptyShard ELSE Split(0, present)
<1>1. DOMAIN present \in SUBSET Paths
  BY DEF Restrict
<1> HIDE DEF present
<1>2. \E n \in Nat : DOMAIN parts = 1..n
  <2>1. DOMAIN OneEmptyShard = 1..1
    BY DEF OneEmptyShard
  <2>2. \E n \in Nat : DOMAIN Split(0, present) = 1..n
    BY <1>1, SplitIsList
  <2> QED
    BY <2>1, <2>2
<1> HIDE DEF parts
<1>3. PICK n \in Nat : DOMAIN parts = 1..n
  BY <1>2
<1>4. Draft(NewShards(parts), gen) /\ Old(NewShards(parts)) = {}
  BY <1>3, NewShardsDraft
<1>5. OldNames(NewShards(parts)) = names \ names
  BY <1>4 DEF OldNames
<1>6. PlanFits(Plan(build, Named(NewShards(parts), gen), names, TRUE), names, gen)
  BY <1>4, <1>5, DraftFits
<1> QED
  BY <1>6 DEF parts, present

\* An import lists the segments of the other checkout, in their order.
LEMMA ImportFits ==
    ASSUME NEW want, NEW names, NEW gen \in Nat
    PROVE  LET pieces == [i \in DOMAIN Prebuilt |->
                   [name |-> Name(gen, "import", i), kind |-> Prebuilt[i].kind, lo |-> Prebuilt[i].lo,
                    content |-> Prebuilt[i].content, fresh |-> TRUE]]
           IN PlanFits(Plan(want, pieces, names, TRUE), names, gen)
<1> DEFINE pieces == [i \in DOMAIN Prebuilt |->
               [name |-> Name(gen, "import", i), kind |-> Prebuilt[i].kind, lo |-> Prebuilt[i].lo,
                content |-> Prebuilt[i].content, fresh |-> TRUE]]
           plan == Plan(want, pieces, names, TRUE)
           n == Len(Prebuilt)
<1>1. n \in Nat /\ DOMAIN Prebuilt = 1..n
  BY StoreAssumption DEF StoreAssumption
<1> HIDE DEF n
<1>2. DOMAIN pieces = 1..n
  BY <1>1
<1>3. \A i \in 1..n : pieces[i].name = <<gen, "import", i>> /\ pieces[i].fresh /\ pieces[i].fresh \in BOOLEAN
  BY <1>1 DEF Name
<1> HIDE DEF pieces
<1>4. \A i \in 1..n : <<gen, "import", i>> \in SegNames /\ <<gen, "import", i>>[1] = gen
  BY <1>1 DEF SegNames
<1>5. NamesOf(pieces) = [i \in 1..n |-> <<gen, "import", i>>]
  BY <1>2, <1>3 DEF NamesOf
<1>6. NamesOf(pieces) \in NameLists
  <2> DEFINE s == NamesOf(pieces)
  <2>1. s \in [1..n -> SegNames] /\ \A i \in 1..n : s[i] = <<gen, "import", i>>
    BY <1>4, <1>5
  <2> HIDE DEF s
  <2>2. s \in Seq(SegNames) /\ DOMAIN s = 1..n
    BY <1>1, <2>1
  <2>3. \A i, j \in 1..n : s[i] = s[j] => i = j
    BY <2>1
  <2>4. s \in NameLists
    BY <2>2, <2>3 DEF NameLists
  <2> QED
    BY <2>4 DEF s
<1>7. OldNames(pieces) = names \ names
  BY <1>2, <1>3 DEF OldNames, Old
<1>8. /\ DOMAIN plan = {"phase", "want", "pieces", "retire", "whole", "written", "stacks", "compacting"}
      /\ plan.written = 0 /\ plan.stacks \in BOOLEAN /\ plan.compacting \in BOOLEAN
      /\ ~plan.stacks /\ ~plan.compacting
      /\ plan.pieces = pieces /\ plan.retire = names
  BY DEF Plan
<1> HIDE DEF plan
<1>9. \A i \in DOMAIN pieces : pieces[i].fresh /\ pieces[i].fresh \in BOOLEAN /\ pieces[i].name[1] = gen
  BY <1>2, <1>3, <1>4
<1>10. PlanFits(plan, names, gen)
  BY <1>6, <1>7, <1>8, <1>9 DEF PlanFits
<1> QED
  BY <1>10 DEF plan, pieces

\* A compaction lists new shards, and keeps those it does not replace.
LEMMA CompactionFits ==
    ASSUME NEW want, NEW whole, NEW sn, IsSnapshot(sn), NEW gen \in Nat,
           \A n \in Range(sn.segs) : n[1] < gen
    PROVE  PlanFits([Plan(want, Named(FromStart(Shards(sn)), gen), Replaced(sn), whole)
                       EXCEPT !.compacting = TRUE], Range(sn.segs), gen)
<1>1. /\ Draft(Shards(sn), gen)
      /\ Replaced(sn) \subseteq Range(sn.segs)
      /\ OldNames(Shards(sn)) = Range(sn.segs) \ Replaced(sn)
  BY CompactionDraft
<1>2. /\ Draft(FromStart(Shards(sn)), gen)
      /\ OldNames(FromStart(Shards(sn))) = OldNames(Shards(sn))
  BY <1>1, FromStartDraft
<1> QED
  BY <1>1, <1>2, DraftFits

-----------------------------------------------------------------------------
\* What the invariant says, for the steps that follow.

\* An open store has the current snapshot, and nothing of the next generation.
LEMMA CurrentSnapshot ==
    ASSUME StoreInv, up
    PROVE  /\ cur \in Nat /\ cur \in DOMAIN snaps /\ cur + 1 \notin DOMAIN snaps
           /\ IsSnapshot(snaps[cur])
           /\ Range(snaps[cur].segs) \subseteq DOMAIN segs
           /\ \A n \in Range(snaps[cur].segs) : n \in SegNames /\ n[1] \in Nat /\ n[1] <= cur
<1>1. StoreStates /\ JobInv /\ SnapshotInv /\ SegmentInv
  BY DEF StoreInv
<1>2. cur \in Nat
  BY <1>1 DEF StoreStates
<1>3. References[cur] > 0
  BY <1>1, <1>2, ReferencesType DEF WriterRefs
<1>4. cur \in DOMAIN snaps /\ \A g \in DOMAIN snaps : g <= cur
  BY <1>1, <1>2, <1>3 DEF SnapshotInv, Tallied
<1>5. IsSnapshot(snaps[cur]) /\ Range(snaps[cur].segs) \subseteq DOMAIN segs
  BY <1>1, <1>4 DEF SegmentInv, Counted
<1>6. \A n \in Range(snaps[cur].segs) : n[1] <= cur
  BY <1>1, <1>5 DEF SegmentInv
<1>7. \A n \in Range(snaps[cur].segs) : n \in SegNames /\ n[1] \in Nat
  <2>1. \A n \in Range(snaps[cur].segs) : n \in SegNames
    BY <1>5 DEF IsSnapshot, NameLists, Range
  <2> QED
    BY <2>1 DEF SegNames
<1> QED
  BY <1>2, <1>4, <1>5, <1>6, <1>7

\* The pieces of a plan are a list.
LEMMA PiecesList ==
    ASSUME NEW pieces, NamesOf(pieces) \in NameLists
    PROVE  \E n \in Nat : DOMAIN pieces = 1..n
<1>1. DOMAIN NamesOf(pieces) = DOMAIN pieces
  BY DEF NamesOf
<1>2. NamesOf(pieces) \in Seq(SegNames)
  BY DEF NameLists
<1> QED
  BY <1>1, <1>2

\* What a job writes is not open yet.
LEMMA NewNamesFresh ==
    ASSUME StoreInv, Planned
    PROVE  /\ up
           /\ \A n \in NewNames : n[1] = cur + 1
           /\ NewNames \cap DOMAIN segs = {}
           /\ WrittenNames \subseteq NewNames
           /\ PlanFits(job, Range(snaps[cur].segs), cur + 1)
           /\ WrittenNames \cap strays = {}
<1>1. JobInv /\ PlanInv /\ SegmentInv /\ StoreStates
  BY DEF StoreInv
<1>2. up
  BY <1>1 DEF JobInv, Planned, Idle
<1>3. PlanFits(job, Range(snaps[cur].segs), cur + 1) /\ WrittenNames \cap strays = {}
  BY <1>1 DEF PlanInv
<1>4. \A n \in NewNames : n[1] = cur + 1
  BY <1>3 DEF NewNames, Fresh, PlanFits
<1>5. \A n \in DOMAIN segs : n[1] <= cur
  BY <1>1, <1>2 DEF SegmentInv
<1>6. cur \in Nat
  BY <1>1 DEF StoreStates
<1>7. NewNames \cap DOMAIN segs = {}
  BY <1>4, <1>5, <1>6
<1>8. WrittenNames \subseteq NewNames
  BY DEF WrittenNames, NewNames
<1> QED
  BY <1>2, <1>3, <1>4, <1>7, <1>8

\* A segment that only an unpublished snapshot uses is retired.
LEMMA OthersRetired ==
    ASSUME NEW all, NEW open, NEW isUp, NEW current, NEW g, ~(isUp /\ g = current),
           isUp => current \in DOMAIN all,
           \A n \in DOMAIN open : open[n].retired <=> ~(isUp /\ n \in Range(all[current].segs))
    PROVE  \A n \in DOMAIN open : Users(all, n) = {g} => open[n].retired
<1> SUFFICES ASSUME NEW n \in DOMAIN open, Users(all, n) = {g}, isUp, n \in Range(all[current].segs)
             PROVE  FALSE
  OBVIOUS
<1>1. current \in Users(all, n)
  BY DEF Users
<1> QED
  BY <1>1

\* Two releases in a row, as Publish does, are one.
LEMMA ReleasedTwice ==
    ASSUME NEW all, NEW open, NEW dir, NEW first, NEW second,
           Released(first, all, open, dir), Released(second, first.snaps, first.segs, first.files)
    PROVE  Released(second, all, open, dir)
<1>1. \A h \in DOMAIN second.snaps : h \in DOMAIN all /\ second.snaps[h].segs = all[h].segs
  BY DEF Released
<1>2. \A n \in DOMAIN second.segs :
         /\ n \in DOMAIN open
         /\ second.segs[n].retired = open[n].retired
         /\ second.segs[n].keep = open[n].keep
  BY DEF Released
<1>3. \A n \in DOMAIN first.segs : n \in DOMAIN open /\ first.segs[n].keep = open[n].keep
  BY DEF Released
<1>4. \A n : n \in DOMAIN second.files <=>
              n \in DOMAIN first.files /\ ~(n \in DOMAIN first.segs \ DOMAIN second.segs /\ ~first.segs[n].keep)
  BY DEF Released
<1>5. \A n : n \in DOMAIN first.files <=>
              n \in DOMAIN dir /\ ~(n \in DOMAIN open \ DOMAIN first.segs /\ ~open[n].keep)
  BY DEF Released
<1>6. \A n \in DOMAIN second.segs : n \in DOMAIN first.segs
  BY DEF Released
<1>7. \A n : n \in DOMAIN second.files <=>
              n \in DOMAIN dir /\ ~(n \in DOMAIN open \ DOMAIN second.segs /\ ~open[n].keep)
  BY <1>3, <1>4, <1>5, <1>6
<1>8. DOMAIN second.files = DOMAIN dir \ {n \in DOMAIN open \ DOMAIN second.segs : ~open[n].keep}
  BY <1>7
<1>9. Counted(second.snaps, second.segs)
  BY DEF Released
<1> QED
  BY <1>1, <1>2, <1>8, <1>9 DEF Released

\* A release removes the files of what it unmaps, and no others.
LEMMA ReleasedFiles ==
    ASSUME NEW all, NEW open, NEW dir, NEW after, Released(after, all, open, dir), NEW others,
           DOMAIN dir = (DOMAIN open) \cup others, others \cap DOMAIN open = {},
           \A n \in DOMAIN open : ~open[n].keep
    PROVE  /\ DOMAIN after.files = (DOMAIN after.segs) \cup others
           /\ others \cap DOMAIN after.segs = {}
<1>1. \A n : n \in DOMAIN after.files <=> n \in DOMAIN dir /\ ~(n \in DOMAIN open \ DOMAIN after.segs)
  BY DEF Released
<1>2. \A n \in DOMAIN after.segs : n \in DOMAIN open
  BY DEF Released
<1>3. \A n : n \in DOMAIN after.files <=> n \in (DOMAIN after.segs) \cup others
  BY <1>1, <1>2
<1> QED
  BY <1>2, <1>3

\* Releases that leave the published snapshot alone.
LEMMA ReleasesSettle ==
    ASSUME StoreInv, UNCHANGED <<up, cur>>, StoreStates', JobInv', NEW dir, NEW after,
           snaps' = after.snaps, segs' = after.segs,
           Released(after, snaps, segs, dir), Tallied(after.snaps, References')
    PROVE  /\ SnapshotInv' /\ SegmentInv'
           /\ up => cur \in DOMAIN snaps /\ cur \in DOMAIN snaps' /\ snaps'[cur].segs = snaps[cur].segs
<1>1. StoreStates /\ SnapshotInv /\ SegmentInv
  BY DEF StoreInv
<1>2. \A h \in DOMAIN snaps' : h \in DOMAIN snaps /\ snaps'[h].segs = snaps[h].segs
  BY DEF Released
<1>3. up => \A g \in DOMAIN snaps' : g <= cur
  BY <1>1, <1>2 DEF SnapshotInv
<1>4. SnapshotInv'
  BY <1>3 DEF SnapshotInv
<1>5. ASSUME up PROVE cur \in DOMAIN snaps'
  <2>1. cur \in Nat
    BY <1>1 DEF StoreStates
  <2> DEFINE H == {r \in Readers : held'[r] = cur}
  <2>2. Cardinality(H) \in Nat
    BY ReadersFinite
  <2>3. WriterRefs(cur)' \in {1, 2}
    BY <1>5 DEF WriterRefs
  <2>4. References'[cur] = Cardinality(H) + WriterRefs(cur)'
    BY <2>1 DEF References, Holding
  <2>5. References'[cur] > 0
    BY <2>2, <2>3, <2>4
  <2> QED
    BY <2>1, <2>5 DEF Tallied
<1>6. up => cur \in DOMAIN snaps /\ cur \in DOMAIN snaps' /\ snaps'[cur].segs = snaps[cur].segs
  BY <1>2, <1>5
<1>7. \A n \in DOMAIN segs' :
        /\ n \in DOMAIN segs
        /\ segs'[n].retired = segs[n].retired /\ segs'[n].keep = segs[n].keep
  BY DEF Released
<1>8. \A n \in DOMAIN segs' :
        /\ segs'[n].retired <=> ~(up' /\ n \in Range(snaps'[cur'].segs))
        /\ up' => ~segs'[n].keep /\ n[1] <= cur'
  BY <1>1, <1>6, <1>7 DEF SegmentInv
<1>9. Counted(snaps', segs')
  BY DEF Released
<1>10. SegmentInv'
  BY <1>8, <1>9 DEF SegmentInv
<1> QED
  BY <1>4, <1>6, <1>10

-----------------------------------------------------------------------------
\* The invariant holds of a new store, and every step keeps it.

\* A store starts empty, with the snapshot of generation 0 in use.
LEMMA StoreInitially ==
    ASSUME StoreInit
    PROVE  StoreInv
<1>1. /\ NoSnapshot.segs = <<>> /\ NoSnapshot.los = <<>> /\ NoSnapshot.refs = 1
      /\ DOMAIN NoSnapshot = {"gen", "segs", "los", "route", "refs", "whole"}
  BY DEF NoSnapshot, NewSnapshot
<1>2. Range(<<>>) = {} /\ <<>> \in NameLists
  BY DEF Range, NameLists
<1>3. IsSnapshot(NoSnapshot)
  <2>1. <<>> \in Seq({})
    OBVIOUS
  <2> QED
    BY <1>1, <1>2, <2>1 DEF IsSnapshot
<1>4. /\ up = TRUE /\ cur = 0 /\ segs = <<>> /\ files = <<>> /\ strays = {}
      /\ DOMAIN snaps = {0} /\ snaps[0] = NoSnapshot
      /\ job.phase = "idle" /\ job = Idle
  BY DEF StoreInit, Only, Idle
<1>5. StoreStates
  BY DEF StoreInit, StoreStates
<1>6. SnapshotInv
  <2>1. \A g \in Nat : Holding(g) = {}
    BY StoreAssumption DEF StoreInit, Holding, StoreAssumption
  <2>2. \A g \in Nat : WriterRefs(g) = IF g = 0 THEN 1 ELSE 0
    BY <1>4 DEF WriterRefs, Planned
  <2>3. \A g \in Nat : References[g] = IF g = 0 THEN 1 ELSE 0
    BY <2>1, <2>2, FS_EmptySet DEF References
  <2>4. DOMAIN snaps = {g \in Nat : References[g] > 0}
    <3>1. \A g \in Nat : References[g] > 0 <=> g = 0
      BY <2>3
    <3> QED
      BY <3>1, <1>4
  <2>5. \A g \in DOMAIN snaps : snaps[g].refs = References[g]
    BY <2>3, <1>1, <1>4
  <2>6. Tallied(snaps, References)
    BY <2>4, <2>5 DEF Tallied
  <2> QED
    BY <2>6, <1>4 DEF SnapshotInv
<1>7. SegmentInv
  <2>1. DOMAIN segs = {}
    BY <1>4
  <2>2. UNION {Range(snaps[g].segs) : g \in DOMAIN snaps} = {}
    BY <1>1, <1>2, <1>4
  <2>3. IsFiniteSet(DOMAIN snaps)
    BY <1>4, FS_Singleton
  <2> QED
    BY <1>3, <1>4, <2>1, <2>2, <2>3 DEF SegmentInv, Counted
<1>8. FileInv /\ PlanInv /\ JobInv
  BY <1>4 DEF FileInv, PlanInv, JobInv, Planned
<1>9. ManifestInv
  <2>1. manifest.gen = 0 /\ manifest.entries = <<>>
    BY DEF StoreInit, NoManifest
  <2>2. NamesOf(<<>>) = <<>>
    BY DEF NamesOf
  <2>3. Names(<<>>) = {}
    BY DEF Names
  <2> QED
    BY <1>2, <2>1, <2>2, <2>3 DEF ManifestInv
<1> QED
  BY <1>5, <1>6, <1>7, <1>8, <1>9 DEF StoreInv

\* A job that fits the published snapshot begins.
LEMMA StoreBegins ==
    ASSUME StoreInv, Starts, Begin(job'), job'.phase = "write", job'.written = 0,
           PlanFits(job', Range(snaps[cur].segs), cur + 1),
           snaps' = IF job'.compacting THEN [snaps EXCEPT ![cur].refs = @ + 1] ELSE snaps
    PROVE  StoreInv'
<1>1. /\ up /\ up' = up /\ cur' = cur /\ segs' = segs /\ held' = held
      /\ files' = files /\ manifest' = manifest /\ strays' = strays
      /\ job = Idle /\ job.phase = "idle"
  BY DEF Starts, Begin, disk, Idle
<1>2. StoreStates /\ SnapshotInv /\ SegmentInv /\ FileInv /\ ManifestInv /\ JobInv
  BY DEF StoreInv
<1>3. cur \in Nat /\ cur \in DOMAIN snaps
  BY <1>1, CurrentSnapshot
<1>4. job'.compacting \in BOOLEAN
  BY DEF PlanFits
<1>5. StoreStates' /\ ManifestInv'
  BY <1>1, <1>2 DEF StoreStates, ManifestInv
<1>6. JobInv'
  BY <1>1, <1>4 DEF JobInv
<1>7. /\ Counted(snaps', segs) /\ DOMAIN snaps' = DOMAIN snaps
      /\ \A h \in DOMAIN snaps :
           /\ snaps'[h].segs = snaps[h].segs
           /\ snaps'[h].refs = IF h = cur /\ job'.compacting THEN snaps[h].refs + 1 ELSE snaps[h].refs
  <2>1. CASE job'.compacting
    <3>1. Counted(snaps, segs)
      BY <1>2 DEF SegmentInv
    <3> DEFINE more == [snaps EXCEPT ![cur].refs = @ + 1]
    <3>2. /\ Counted(more, segs) /\ DOMAIN more = DOMAIN snaps
          /\ \A h \in DOMAIN snaps :
               /\ more[h].segs = snaps[h].segs
               /\ more[h].refs = IF h = cur THEN snaps[h].refs + 1 ELSE snaps[h].refs
      BY <3>1, <1>3, Shares
    <3>3. snaps' = more
      BY <2>1
    <3> HIDE DEF more
    <3> QED
      BY <2>1, <3>2, <3>3
  <2>2. CASE ~job'.compacting
    BY <2>2, <1>2 DEF SegmentInv
  <2> QED
    BY <2>1, <2>2
<1>8. SnapshotInv'
  <2>1. \A g \in Nat : /\ WriterRefs(g) = IF g = cur THEN 1 ELSE 0
                       /\ WriterRefs(g)' = IF g = cur THEN (IF job'.compacting THEN 2 ELSE 1) ELSE 0
    BY <1>1 DEF WriterRefs, Planned
  <2>2. \A g \in Nat : /\ References[g] = Cardinality(Holding(g)) + WriterRefs(g)
                       /\ References'[g] = Cardinality(Holding(g)) + WriterRefs(g)'
    BY <1>1 DEF References, Holding
  <2>3. \A g \in Nat : Cardinality(Holding(g)) \in Nat
    BY ReadersFinite DEF Holding
  <2>4. \A g \in Nat : References'[g] = IF g = cur /\ job'.compacting THEN References[g] + 1 ELSE References[g]
    BY <2>1, <2>2, <2>3
  <2>5. \A g \in Nat : References[g] \in Nat /\ (References'[g] > 0 <=> References[g] > 0)
    BY <2>1, <2>2, <2>3
  <2>6. DOMAIN snaps = {g \in Nat : References[g] > 0} /\ \A g \in DOMAIN snaps : snaps[g].refs = References[g]
    BY <1>2 DEF SnapshotInv, Tallied
  <2>7. DOMAIN snaps' = {g \in Nat : References'[g] > 0}
    BY <2>5, <2>6, <1>7
  <2>8. \A g \in DOMAIN snaps' : snaps'[g].refs = References'[g]
    BY <2>4, <2>6, <1>7
  <2> QED
    BY <2>7, <2>8, <1>1, <1>2, <1>7 DEF SnapshotInv, Tallied
<1>9. SegmentInv'
  BY <1>1, <1>2, <1>3, <1>7 DEF SegmentInv
<1>10. WrittenNames' = {}
  <2>1. PICK n \in Nat : DOMAIN job'.pieces = 1..n
    BY PiecesList DEF PlanFits
  <2>2. Fresh' \subseteq 1..n
    BY <2>1 DEF Fresh
  <2>3. {j \in Fresh' : j <= job'.written} = {}
    BY <2>2
  <2> QED
    BY <2>3 DEF WrittenNames
<1>11. FileInv'
  BY <1>1, <1>2, <1>10 DEF FileInv, Planned
<1>12. PlanInv'
  BY <1>1, <1>3, <1>7, <1>10 DEF PlanInv
<1> QED
  BY <1>5, <1>6, <1>8, <1>9, <1>11, <1>12 DEF StoreInv

\* WriteOverlay begins with the plan of one segment.
LEMMA StoreOverlay ==
    ASSUME StoreInv, NEW batch \in Batches, Overlay(batch)
    PROVE  StoreInv'
<1> DEFINE sn == snaps[cur]
           top == [name |-> Name(cur + 1, "overlay", 0), kind |-> "overlay", lo |-> 0,
                   content |-> batch, fresh |-> TRUE]
           plan == [Plan(Changed(batch), <<top>>, {}, sn.whole) EXCEPT !.stacks = TRUE]
<1>1. Starts /\ Begin(plan) /\ snaps' = snaps
  BY DEF Overlay
<1>2. plan.phase = "write" /\ plan.written = 0 /\ ~plan.compacting
  BY DEF Plan
<1>3. up /\ cur \in Nat
  BY <1>1, CurrentSnapshot DEF Starts
<1>4. PlanFits(plan, Range(snaps[cur].segs), cur + 1)
  BY <1>3, OverlayFits
<1> HIDE DEF plan
<1>5. job' = plan
  BY <1>1 DEF Begin
<1>6. Begin(job')
  BY <1>1, <1>5
<1> QED
  BY <1>1, <1>2, <1>4, <1>5, <1>6, StoreBegins

\* WriteBase begins with the plan of new shards, which retires all others.
LEMMA StoreBase ==
    ASSUME StoreInv, NEW build \in Builds, Base(build)
    PROVE  StoreInv'
<1> DEFINE present == Restrict(build, {p \in Paths : build[p] # Deleted})
           parts == IF present = <<>> THEN OneEmptyShard ELSE Split(0, present)
           plan == Plan(build, Named(NewShards(parts), cur + 1), Range(snaps[cur].segs), TRUE)
<1>1. Starts /\ Begin(plan) /\ snaps' = snaps
  BY DEF Base
<1>2. plan.phase = "write" /\ plan.written = 0 /\ ~plan.compacting
  BY DEF Plan
<1>3. up /\ cur \in Nat /\ build \in Indexes
  BY <1>1, CurrentSnapshot, StoreAssumption DEF Starts, StoreAssumption
<1>4. PlanFits(plan, Range(snaps[cur].segs), cur + 1)
  BY <1>3, cur + 1 \in Nat, BaseFits, ZenonT(30)
<1> HIDE DEF plan
<1>5. job' = plan
  BY <1>1 DEF Begin
<1>6. Begin(job')
  BY <1>1, <1>5
<1> QED
  BY <1>1, <1>2, <1>4, <1>5, <1>6, StoreBegins

\* ImportPrebuilt begins with the plan of the imported segments.
LEMMA StoreImport ==
    ASSUME StoreInv, Import
    PROVE  StoreInv'
<1> DEFINE pieces == [i \in DOMAIN Prebuilt |->
                [name |-> Name(cur + 1, "import", i), kind |-> Prebuilt[i].kind, lo |-> Prebuilt[i].lo,
                 content |-> Prebuilt[i].content, fresh |-> TRUE]]
           plan == Plan(Source, pieces, Range(snaps[cur].segs), TRUE)
<1>1. Starts /\ Begin(plan) /\ snaps' = snaps
  BY DEF Import
<1>2. plan.phase = "write" /\ plan.written = 0 /\ ~plan.compacting
  BY DEF Plan
<1>3. up /\ cur \in Nat
  BY <1>1, CurrentSnapshot DEF Starts
<1>4. PlanFits(plan, Range(snaps[cur].segs), cur + 1)
  BY <1>3, cur + 1 \in Nat, ImportFits, ZenonT(30)
<1> HIDE DEF plan
<1>5. job' = plan
  BY <1>1 DEF Begin
<1>6. Begin(job')
  BY <1>1, <1>5
<1> QED
  BY <1>1, <1>2, <1>4, <1>5, <1>6, StoreBegins

\* Compact begins with the plan that keeps the shards no overlay touches.
LEMMA StoreCompact ==
    ASSUME StoreInv, Compact
    PROVE  StoreInv'
<1> DEFINE sn == snaps[cur]
           plan == [Plan(View(segs, sn), Named(FromStart(Shards(sn)), cur + 1), Replaced(sn), sn.whole)
                      EXCEPT !.compacting = TRUE]
<1>1. Starts /\ Begin(plan) /\ snaps' = [snaps EXCEPT ![cur].refs = @ + 1]
  BY DEF Compact
<1>2. plan.phase = "write" /\ plan.written = 0 /\ plan.compacting
  BY DEF Plan
<1>3. up
  BY <1>1 DEF Starts
<1>4. cur + 1 \in Nat /\ IsSnapshot(sn) /\ \A n \in Range(sn.segs) : n[1] < cur + 1
  BY <1>3, CurrentSnapshot
<1>5. PlanFits(plan, Range(sn.segs), cur + 1)
  BY <1>4, CompactionFits
<1> HIDE DEF plan
<1>6. job' = plan
  BY <1>1 DEF Begin
<1>7. Begin(job')
  BY <1>1, <1>6
<1> QED
  BY <1>1, <1>2, <1>5, <1>6, <1>7, StoreBegins

\* The entries of a manifest, as names.
LEMMA EntryNames ==
    ASSUME NEW entries
    PROVE  Names(entries) = Range(NamesOf(entries))
BY DEF Names, NamesOf, Range

\* The manifest entries of a snapshot name its segments, in their order.
LEMMA SnapshotEntries ==
    ASSUME NEW sn, IsSnapshot(sn)
    PROVE  /\ NamesOf(Entries(sn)) = sn.segs
           /\ Entries(sn) \in Seq(Range(Entries(sn))) /\ Len(Entries(sn)) = Len(sn.segs)
           /\ \A i \in DOMAIN sn.segs : Entries(sn)[i].name = sn.segs[i]
<1> DEFINE n == Len(sn.segs)
           e == Entries(sn)
<1>1. n \in Nat /\ DOMAIN sn.segs = 1..n /\ sn.segs = [i \in 1..n |-> sn.segs[i]]
  BY DEF IsSnapshot, NameLists
<1> HIDE DEF n
<1>2. e = [i \in 1..n |-> e[i]] /\ \A i \in 1..n : e[i].name = sn.segs[i]
  BY <1>1 DEF Entries
<1> HIDE DEF e
<1>3. e \in Seq(Range(e)) /\ Len(e) = n
  BY <1>1, <1>2, ListIsSeq
<1>4. NamesOf(e) = [i \in 1..n |-> sn.segs[i]]
  <2>1. DOMAIN e = 1..n
    BY <1>2
  <2>2. NamesOf(e) = [i \in 1..n |-> e[i].name]
    BY <2>1 DEF NamesOf
  <2> QED
    BY <2>2, <1>2
<1> QED
  BY <1>1, <1>2, <1>3, <1>4 DEF e, n

\* A publication that replaces segments lists what it keeps and what it wrote.
LEMMA PlanNames ==
    ASSUME StoreInv, Planned, ~job.stacks
    PROVE  Range(NamesOf(job.pieces)) = (Range(snaps[cur].segs) \ job.retire) \cup NewNames
<1>1. PlanFits(job, Range(snaps[cur].segs), cur + 1)
  BY NewNamesFresh
<1>2. OldNames(job.pieces) = Range(snaps[cur].segs) \ job.retire
  BY <1>1 DEF PlanFits
<1>3. \A i \in DOMAIN job.pieces : job.pieces[i].fresh \in BOOLEAN
  BY <1>1 DEF PlanFits
<1>4. Range(NamesOf(job.pieces)) = {job.pieces[i].name : i \in DOMAIN job.pieces}
  BY DEF NamesOf, Range
<1>5. {job.pieces[i].name : i \in DOMAIN job.pieces} = OldNames(job.pieces) \cup NewNames
  BY <1>3 DEF OldNames, Old, NewNames, Fresh
<1> QED
  BY <1>2, <1>4, <1>5

\* One that adds a segment writes nothing else.
LEMMA StackedPiece ==
    ASSUME StoreInv, Planned, job.stacks
    PROVE  /\ NewNames = {job.pieces[1].name} /\ DOMAIN job.pieces = {1} /\ job.retire = {}
           /\ job.pieces[1].name \in SegNames /\ job.pieces[1].name[1] = cur + 1
           /\ Append(snaps[cur].segs, job.pieces[1].name) \in NameLists
           /\ Range(Append(snaps[cur].segs, job.pieces[1].name)) = Range(snaps[cur].segs) \cup NewNames
<1> DEFINE top == job.pieces[1].name
           s == snaps[cur].segs
           n == Len(s)
<1>1. PlanFits(job, Range(snaps[cur].segs), cur + 1) /\ up
  BY NewNamesFresh
<1>2. DOMAIN job.pieces = {1} /\ job.pieces[1].fresh /\ job.retire = {}
  BY <1>1 DEF PlanFits
<1>3. NewNames = {top}
  BY <1>2 DEF NewNames, Fresh
<1>4. top \in SegNames
  <2>1. NamesOf(job.pieces) \in Seq(SegNames)
    BY <1>1 DEF PlanFits, NameLists
  <2>2. NamesOf(job.pieces) = [i \in {1} |-> job.pieces[i].name]
    BY <1>2 DEF NamesOf
  <2>3. NamesOf(job.pieces)[1] = top /\ 1 \in DOMAIN NamesOf(job.pieces)
    BY <2>2
  <2> QED
    BY <2>1, <2>3
<1>5. top[1] = cur + 1
  BY <1>3, NewNamesFresh
<1>6. s \in Seq(SegNames) /\ \A i, j \in DOMAIN s : s[i] = s[j] => i = j
  BY <1>1, CurrentSnapshot DEF IsSnapshot, NameLists
<1>7. \A m \in Range(s) : m[1] <= cur
  BY <1>1, CurrentSnapshot
<1>8. cur \in Nat
  BY <1>1, CurrentSnapshot
<1>9. top \notin Range(s)
  BY <1>5, <1>7, <1>8
<1> HIDE DEF top, s
<1>10. n \in Nat /\ DOMAIN s = 1..n
  BY <1>6
<1>11. /\ Append(s, top) \in Seq(SegNames) /\ DOMAIN Append(s, top) = 1..(n + 1)
       /\ \A i \in 1..n : Append(s, top)[i] = s[i]
       /\ Append(s, top)[n + 1] = top
  BY <1>4, <1>6
<1>12. \A i \in 1..n : s[i] \in Range(s) /\ s[i] # top
  BY <1>9, <1>10 DEF Range
<1> HIDE DEF n
<1>13. \A i \in 1..(n + 1) : i \in 1..n \/ i = n + 1
  BY <1>10
<1>14. \A i, j \in 1..(n + 1) : Append(s, top)[i] = Append(s, top)[j] => i = j
  BY <1>6, <1>10, <1>11, <1>12, <1>13
<1>15. Append(s, top) \in NameLists
  BY <1>11, <1>14 DEF NameLists
<1>16. Range(Append(s, top)) = Range(s) \cup {top}
  <2>1. \A x : x \in Range(Append(s, top)) <=> \E i \in 1..(n + 1) : x = Append(s, top)[i]
    BY <1>11 DEF Range
  <2>2. \A x : x \in Range(s) <=> \E i \in 1..n : x = s[i]
    BY <1>10 DEF Range
  <2>3. n + 1 \in 1..(n + 1) /\ \A i \in 1..n : i \in 1..(n + 1)
    BY <1>10
  <2>4. \A x : x \in Range(Append(s, top)) <=> x \in Range(s) \cup {top}
    BY <2>1, <2>2, <2>3, <1>11, <1>13
  <2> QED
    BY <2>4
<1> QED
  BY <1>2, <1>3, <1>4, <1>5, <1>15, <1>16 DEF top, s

\* A sequence is a function of its positions.
LEMMA SeqIsList ==
    ASSUME NEW S, NEW f \in Seq(S)
    PROVE  f = [i \in DOMAIN f |-> f[i]]
OBVIOUS

\* A sequence with one element more.
LEMMA OneMore ==
    ASSUME NEW S, NEW e \in Seq(S), NEW t \in Seq(S), NEW n \in Nat, Len(e) = n, Len(t) = 1
    PROVE  /\ DOMAIN (e \o t) = 1..(n + 1)
           /\ \A i \in 1..n : (e \o t)[i] = e[i]
           /\ (e \o t)[n + 1] = t[1]
<1>1. e \o t \in Seq(S) /\ Len(e \o t) = n + 1
  <2>1. e \o t \in Seq(S)
    BY ConcatProperties
  <2>2. Len(e \o t) = Len(e) + Len(t)
    BY ConcatProperties
  <2> QED
    BY <2>1, <2>2
<1>2. \A i \in 1..(n + 1) : (e \o t)[i] = IF i <= n THEN e[i] ELSE t[i - n]
  <2>1. \A i \in 1..(Len(e) + Len(t)) : (e \o t)[i] = IF i <= Len(e) THEN e[i] ELSE t[i - Len(e)]
    BY ConcatProperties
  <2> QED
    BY <2>1
<1>3. DOMAIN (e \o t) = 1..(n + 1)
  BY <1>1
<1>4. \A i \in 1..n : i \in 1..(n + 1) /\ i <= n
  OBVIOUS
<1>5. n + 1 \in 1..(n + 1) /\ ~(n + 1 <= n) /\ n + 1 - n = 1
  OBVIOUS
<1> QED
  BY <1>2, <1>3, <1>4, <1>5

\* What the manifest names next.
LEMMA NextEntries ==
    ASSUME StoreInv, Planned
    PROVE  /\ NamesOf(NewEntries) \in NameLists
           /\ \A n \in Names(NewEntries) : n[1] <= cur + 1
           /\ Names(NewEntries) = (Range(snaps[cur].segs) \ job.retire) \cup NewNames
           /\ job.stacks =>
                LET n == Len(snaps[cur].segs)
                IN /\ DOMAIN NewEntries = 1..(n + 1)
                   /\ \A i \in 1..n : NewEntries[i] = Entries(snaps[cur])[i]
                   /\ NewEntries[n + 1] = EntriesOf(job.pieces)[1]
<1>1. PlanFits(job, Range(snaps[cur].segs), cur + 1) /\ up /\ \A n \in NewNames : n[1] = cur + 1
  BY NewNamesFresh
<1>2. cur \in Nat /\ IsSnapshot(snaps[cur]) /\ \A n \in Range(snaps[cur].segs) : n[1] \in Nat /\ n[1] <= cur
  BY <1>1, CurrentSnapshot
<1>3. \A n \in Range(snaps[cur].segs) \cup NewNames : n[1] <= cur + 1
  BY <1>1, <1>2
<1>4. NamesOf(EntriesOf(job.pieces)) = NamesOf(job.pieces)
  BY DEF NamesOf, EntriesOf
<1>5. CASE ~job.stacks
  <2>1. NewEntries = EntriesOf(job.pieces)
    BY <1>5 DEF NewEntries
  <2>2. NamesOf(NewEntries) \in NameLists
    BY <2>1, <1>1, <1>4 DEF PlanFits
  <2>3. Names(NewEntries) = (Range(snaps[cur].segs) \ job.retire) \cup NewNames
    BY <1>5, <2>1, <1>4, EntryNames, PlanNames
  <2> QED
    BY <2>2, <2>3, <1>3, <1>5
<1>6. CASE job.stacks
  <2> DEFINE e == Entries(snaps[cur])
             t == EntriesOf(job.pieces)
             s == snaps[cur].segs
             top == job.pieces[1].name
             n == Len(s)
  <2>1. NewEntries = e \o t
    BY <1>6 DEF NewEntries
  <2>2. /\ e \in Seq(Range(e)) /\ Len(e) = n /\ DOMAIN s = 1..n /\ n \in Nat
        /\ \A i \in 1..n : e[i].name = s[i]
    <3>1. s \in Seq(SegNames)
      BY <1>2 DEF IsSnapshot, NameLists
    <3>2. DOMAIN s = 1..n /\ n \in Nat
      BY <3>1
    <3>3. e \in Seq(Range(e)) /\ Len(e) = n /\ \A i \in DOMAIN s : e[i].name = s[i]
      BY <1>2, SnapshotEntries
    <3> QED
      BY <3>2, <3>3
  <2>3. DOMAIN job.pieces = {1} /\ NewNames = {top} /\ job.retire = {}
    BY <1>6, StackedPiece
  <2>4. t = [i \in 1..1 |-> t[i]] /\ t[1].name = top
    BY <2>3 DEF EntriesOf
  <2>5. Append(s, top) \in NameLists /\ Range(Append(s, top)) = Range(s) \cup NewNames
    BY <1>6, StackedPiece
  <2> HIDE DEF e, t, top
  <2>6. t \in Seq(Range(t)) /\ Len(t) = 1
    BY <2>4, ListIsSeq
  <2>7. s \in Seq(SegNames)
    BY <1>2 DEF IsSnapshot, NameLists
  <2> HIDE DEF s, n
  <2>8. /\ DOMAIN (e \o t) = 1..(n + 1)
        /\ \A i \in 1..n : (e \o t)[i] = e[i]
        /\ (e \o t)[n + 1] = t[1]
    <3> DEFINE U == Range(e) \cup Range(t)
    <3>1. e \in Seq(U) /\ t \in Seq(U)
      BY <2>2, <2>6, SeqMonotonic
    <3> HIDE DEF U
    <3> QED
      BY <2>2, <2>6, <3>1, OneMore
  <2>9. /\ DOMAIN Append(s, top) = 1..(n + 1)
        /\ \A i \in 1..n : Append(s, top)[i] = s[i]
        /\ Append(s, top)[n + 1] = top
    BY <2>2, <2>7 DEF n
  <2>10. \A i \in 1..(n + 1) : (e \o t)[i].name = Append(s, top)[i]
    <3> TAKE i \in 1..(n + 1)
    <3>1. i \in 1..n \/ i = n + 1
      BY <2>2
    <3> QED
      BY <3>1, <2>2, <2>4, <2>8, <2>9
  <2>11. NamesOf(e \o t) = [i \in 1..(n + 1) |-> (e \o t)[i].name]
    BY <2>8 DEF NamesOf
  <2>12. Append(s, top) = [i \in 1..(n + 1) |-> Append(s, top)[i]]
    <3>1. Append(s, top) \in Seq(SegNames)
      BY <2>5 DEF NameLists
    <3> QED
      BY <3>1, <2>9, SeqIsList
  <2>13. NamesOf(e \o t) = Append(s, top)
    BY <2>10, <2>11, <2>12
  <2>14. Names(NewEntries) = Range(s) \cup NewNames
    BY <2>1, <2>5, <2>13, EntryNames
  <2>15. Names(NewEntries) = (Range(s) \ job.retire) \cup NewNames
    BY <2>3, <2>14
  <2>16. NamesOf(NewEntries) \in NameLists
    BY <2>1, <2>5, <2>13
  <2> QED
    BY <2>1, <2>8, <2>14, <2>15, <2>16, <1>3 DEF s, n, e, t
<1>7. job.stacks \in BOOLEAN
  BY <1>1 DEF PlanFits
<1> QED
  BY <1>5, <1>6

\* A segment more is on disk, and a stray file of its name is replaced.
LEMMA StoreWriteSegment ==
    ASSUME StoreInv, NEW i \in Fresh, WriteSegment(i)
    PROVE  StoreInv'
<1> DEFINE name == job.pieces[i].name
<1>1. /\ job.phase = "write" /\ i > job.written
      /\ \A j \in Fresh : j > job.written => i <= j
      /\ files' = Over(Only(name, job.pieces[i].content), files)
      /\ strays' = strays \ {name}
      /\ job' = [job EXCEPT !.written = i]
      /\ manifest' = manifest /\ held' = held
      /\ up' = up /\ cur' = cur /\ snaps' = snaps /\ segs' = segs
  BY DEF WriteSegment, NextPiece, memory
<1>2. Planned
  BY <1>1 DEF Planned
<1>3. StoreStates /\ SnapshotInv /\ SegmentInv /\ FileInv /\ PlanInv /\ JobInv /\ ManifestInv
  BY DEF StoreInv
<1>4. /\ up /\ PlanFits(job, Range(snaps[cur].segs), cur + 1)
      /\ NewNames \cap DOMAIN segs = {} /\ WrittenNames \cap strays = {}
  BY <1>2, NewNamesFresh
<1>5. /\ job'.written = i /\ job'.phase = job.phase /\ job'.pieces = job.pieces
      /\ job'.retire = job.retire /\ job'.stacks = job.stacks /\ job'.compacting = job.compacting
      /\ DOMAIN job' = DOMAIN job
  BY <1>1, <1>4 DEF PlanFits
<1>6. Fresh' = Fresh /\ NewNames' = NewNames
  BY <1>5 DEF Fresh, NewNames
<1>7. \A j \in Fresh : j \in Nat
  <2>1. PICK n \in Nat : DOMAIN job.pieces = 1..n
    BY <1>4, PiecesList DEF PlanFits
  <2> QED
    BY <2>1 DEF Fresh
<1>8. job.written \in Nat
  BY <1>4 DEF PlanFits
<1>9. WrittenNames' = WrittenNames \cup {name}
  <2>1. {j \in Fresh : j <= i} = {j \in Fresh : j <= job.written} \cup {i}
    <3>1. \A j \in Fresh : j <= i <=> j <= job.written \/ j = i
      BY <1>1, <1>7, <1>8
    <3> QED
      BY <3>1
  <2>2. WrittenNames' = {job.pieces[j].name : j \in {k \in Fresh : k <= i}}
    BY <1>5, <1>6 DEF WrittenNames
  <2> QED
    BY <2>1, <2>2 DEF WrittenNames
<1>10. StoreStates' /\ ManifestInv'
  BY <1>1, <1>3 DEF StoreStates, ManifestInv
<1>11. JobInv'
  BY <1>1, <1>3, <1>4, <1>5 DEF JobInv, PlanFits
<1>12. SnapshotInv'
  <2>1. \A g \in Nat : WriterRefs(g)' = WriterRefs(g) /\ Holding(g)' = Holding(g)
    BY <1>1, <1>5 DEF WriterRefs, Planned, Holding
  <2>2. References' = References
    BY <2>1 DEF References
  <2> QED
    BY <1>1, <1>3, <2>2 DEF SnapshotInv
<1>13. SegmentInv'
  BY <1>1, <1>3 DEF SegmentInv
<1>14. FileInv'
  <2>1. strays \cap DOMAIN segs = {} /\ DOMAIN files = (DOMAIN segs) \cup strays \cup WrittenNames
    BY <1>2, <1>3, <1>4 DEF FileInv
  <2>2. DOMAIN files' = {name} \cup DOMAIN files
    BY <1>1 DEF Over, Only
  <2>3. name \notin DOMAIN segs
    BY <1>4 DEF NewNames
  <2>4. DOMAIN files' = (DOMAIN segs) \cup strays' \cup WrittenNames'
    BY <1>1, <1>9, <2>1, <2>2
  <2>5. Planned'
    BY <1>1, <1>5 DEF Planned
  <2> QED
    BY <1>1, <2>1, <2>4, <2>5 DEF FileInv
<1>15. PlanInv'
  <2>1. PlanFits(job', Range(snaps[cur].segs), cur + 1)
    BY <1>4, <1>5, <1>7 DEF PlanFits
  <2>2. WrittenNames' \cap strays' = {}
    BY <1>1, <1>4, <1>9
  <2> QED
    BY <1>1, <1>5, <2>1, <2>2 DEF PlanInv
<1> QED
  BY <1>10, <1>11, <1>12, <1>13, <1>14, <1>15 DEF StoreInv

\* writeManifest replaces the published manifest, and changes nothing in memory.
LEMMA StorePublishManifest ==
    ASSUME StoreInv, PublishManifest
    PROVE  StoreInv'
<1>1. /\ job.phase = "write" /\ \A i \in Fresh : i <= job.written
      /\ manifest' = [gen |-> cur + 1, entries |-> NewEntries, whole |-> job.whole]
      /\ job' = [job EXCEPT !.phase = "swap"]
      /\ files' = files /\ strays' = strays /\ held' = held
      /\ up' = up /\ cur' = cur /\ snaps' = snaps /\ segs' = segs
  BY DEF PublishManifest, AllWritten, memory
<1>2. Planned
  BY <1>1 DEF Planned
<1>3. StoreStates /\ SnapshotInv /\ SegmentInv /\ FileInv /\ PlanInv /\ JobInv
  BY DEF StoreInv
<1>4. up /\ PlanFits(job, Range(snaps[cur].segs), cur + 1)
  BY <1>2, NewNamesFresh
<1>5. /\ job'.written = job.written /\ job'.phase = "swap" /\ job'.pieces = job.pieces
      /\ job'.retire = job.retire /\ job'.stacks = job.stacks /\ job'.compacting = job.compacting
      /\ DOMAIN job' = DOMAIN job
  BY <1>1, <1>4 DEF PlanFits
<1>6. Fresh' = Fresh /\ NewNames' = NewNames /\ WrittenNames' = WrittenNames
  BY <1>5 DEF Fresh, NewNames, WrittenNames
<1>7. StoreStates' /\ SegmentInv'
  BY <1>1, <1>3 DEF StoreStates, SegmentInv
<1>8. JobInv'
  BY <1>1, <1>4, <1>5 DEF JobInv, PlanFits
<1>9. SnapshotInv'
  <2>1. \A g \in Nat : WriterRefs(g)' = WriterRefs(g) /\ Holding(g)' = Holding(g)
    BY <1>1, <1>5 DEF WriterRefs, Planned, Holding
  <2>2. References' = References
    BY <2>1 DEF References
  <2> QED
    BY <1>1, <1>3, <2>2 DEF SnapshotInv
<1>10. FileInv'
  BY <1>1, <1>2, <1>3, <1>5, <1>6 DEF FileInv, Planned
<1>11. PlanInv'
  <2>1. PlanFits(job', Range(snaps[cur].segs), cur + 1)
    BY <1>4, <1>5 DEF PlanFits
  <2> QED
    BY <1>1, <1>2, <1>3, <1>5, <1>6, <2>1 DEF PlanInv
<1>12. ManifestInv'
  <2>1. cur \in Nat
    BY <1>3 DEF StoreStates
  <2>2. manifest'.gen = cur + 1 /\ manifest'.entries = NewEntries
    BY <1>1
  <2> QED
    BY <1>2, <2>1, <2>2, NextEntries DEF ManifestInv
<1> QED
  BY <1>7, <1>8, <1>9, <1>10, <1>11, <1>12 DEF StoreInv

\* SetMeta publishes the segments of the current snapshot again.
LEMMA StoreSaveMeta ==
    ASSUME StoreInv, SaveMeta
    PROVE  StoreInv'
<1>1. /\ up /\ manifest' = [gen |-> cur, entries |-> Entries(snaps[cur]), whole |-> snaps[cur].whole]
      /\ files' = files /\ strays' = strays /\ held' = held /\ job' = job
      /\ up' = up /\ cur' = cur /\ snaps' = snaps /\ segs' = segs /\ job = Idle
  BY DEF SaveMeta, memory
<1>2. StoreStates /\ SnapshotInv /\ SegmentInv /\ FileInv /\ PlanInv /\ JobInv
  BY DEF StoreInv
<1>3. cur \in Nat /\ IsSnapshot(snaps[cur]) /\ \A n \in Range(snaps[cur].segs) : n[1] <= cur
  BY <1>1, CurrentSnapshot
<1>4. manifest'.gen = cur /\ manifest'.entries = Entries(snaps[cur])
  BY <1>1
<1>5. NamesOf(manifest'.entries) = snaps[cur].segs
  BY <1>3, <1>4, SnapshotEntries
<1>6. ManifestInv'
  <2>1. Names(manifest'.entries) = Range(snaps[cur].segs)
    BY <1>5, EntryNames
  <2> QED
    BY <1>3, <1>4, <1>5, <2>1 DEF ManifestInv, IsSnapshot
<1>7. SnapshotInv'
  <2>1. References' = References
    BY <1>1 DEF References, Holding, WriterRefs, Planned
  <2> QED
    BY <1>1, <1>2, <2>1 DEF SnapshotInv
<1>8. StoreStates' /\ SegmentInv' /\ JobInv'
  BY <1>1, <1>2 DEF StoreStates, SegmentInv, JobInv
<1>9. ~Planned /\ ~Planned'
  BY <1>1 DEF Planned, Idle
<1>10. FileInv' /\ PlanInv'
  BY <1>1, <1>2, <1>9 DEF FileInv, PlanInv
<1> QED
  BY <1>6, <1>7, <1>8, <1>10 DEF StoreInv

\* Snapshot gives the reader a reference to the current snapshot.
LEMMA StoreSnapshot ==
    ASSUME StoreInv, NEW r \in Readers, Snapshot(r)
    PROVE  StoreInv'
<1>1. /\ up /\ held[r] = None
      /\ held' = [held EXCEPT ![r] = cur]
      /\ snaps' = [snaps EXCEPT ![cur].refs = @ + 1]
      /\ files' = files /\ manifest' = manifest /\ strays' = strays
      /\ up' = up /\ cur' = cur /\ segs' = segs /\ job' = job
  BY DEF Snapshot, disk
<1>2. StoreStates /\ SnapshotInv /\ SegmentInv /\ FileInv /\ PlanInv /\ JobInv /\ ManifestInv
  BY DEF StoreInv
<1>3. cur \in Nat /\ cur \in DOMAIN snaps
  BY <1>1, CurrentSnapshot
<1>4. /\ Counted(snaps', segs) /\ DOMAIN snaps' = DOMAIN snaps
      /\ \A h \in DOMAIN snaps :
           /\ snaps'[h].segs = snaps[h].segs
           /\ snaps'[h].refs = IF h = cur THEN snaps[h].refs + 1 ELSE snaps[h].refs
  <2> DEFINE more == [snaps EXCEPT ![cur].refs = @ + 1]
  <2>1. Counted(snaps, segs)
    BY <1>2 DEF SegmentInv
  <2>2. /\ Counted(more, segs) /\ DOMAIN more = DOMAIN snaps
        /\ \A h \in DOMAIN snaps :
             /\ more[h].segs = snaps[h].segs
             /\ more[h].refs = IF h = cur THEN snaps[h].refs + 1 ELSE snaps[h].refs
    BY <2>1, <1>3, Shares
  <2>3. snaps' = more
    BY <1>1
  <2> HIDE DEF more
  <2> QED
    BY <2>2, <2>3
<1>5. held \in [Readers -> Nat \cup {None}] /\ None \notin Nat
  BY <1>2, StoreAssumption DEF StoreStates, StoreAssumption
<1>6. StoreStates'
  BY <1>1, <1>2, <1>3 DEF StoreStates
<1>7. SnapshotInv'
  <2>1. \A q \in Readers : held'[q] = IF q = r THEN cur ELSE held[q]
    BY <1>1, <1>5
  <2>2. \A g \in Nat : Holding(g)' = IF g = cur THEN Holding(g) \cup {r} ELSE Holding(g)
    BY <2>1, <1>1, <1>5 DEF Holding
  <2>3. r \notin Holding(cur)
    BY <1>1, <1>3, <1>5 DEF Holding
  <2>4. \A g \in Nat : IsFiniteSet(Holding(g)) /\ Cardinality(Holding(g)) \in Nat
    BY ReadersFinite DEF Holding
  <2>5. Cardinality(Holding(cur) \cup {r}) = Cardinality(Holding(cur)) + 1
    BY <2>3, <2>4, <1>3, FS_AddElement
  <2>6. \A g \in Nat : WriterRefs(g)' = WriterRefs(g) /\ WriterRefs(g) \in {0, 1, 2}
    BY <1>1 DEF WriterRefs, Planned
  <2>7. WriterRefs(cur) # 0
    BY <1>1 DEF WriterRefs
  <2>8. \A g \in Nat : /\ References[g] = Cardinality(Holding(g)) + WriterRefs(g)
                       /\ References'[g] = Cardinality(Holding(g)') + WriterRefs(g)'
    BY DEF References
  <2>9. \A g \in Nat : References'[g] = IF g = cur THEN References[g] + 1 ELSE References[g]
    <3> TAKE g \in Nat
    <3>1. CASE g = cur
      <4>1. Holding(g)' = Holding(cur) \cup {r}
        BY <3>1, <2>2
      <4>2. References'[g] = Cardinality(Holding(cur) \cup {r}) + WriterRefs(g)
        BY <4>1, <2>6, <2>8
      <4>3. References[g] = Cardinality(Holding(cur)) + WriterRefs(g)
        BY <3>1, <2>8
      <4>4. Cardinality(Holding(cur)) \in Nat /\ WriterRefs(g) \in Nat
        BY <1>3, <2>4, <2>6
      <4> QED
        BY <3>1, <4>2, <4>3, <4>4, <2>5
    <3>2. CASE g # cur
      <4>1. Holding(g)' = Holding(g)
        BY <3>2, <2>2
      <4> QED
        BY <3>2, <4>1, <2>6, <2>8
    <3> QED
      BY <3>1, <3>2
  <2>10. \A g \in Nat : References[g] \in Nat
    BY <2>4, <2>6, <2>8
  <2>11. DOMAIN snaps = {g \in Nat : References[g] > 0} /\ \A g \in DOMAIN snaps : snaps[g].refs = References[g]
    BY <1>2 DEF SnapshotInv, Tallied
  <2>12. \A g \in Nat : References'[g] > 0 <=> References[g] > 0
    BY <2>9, <2>10, <2>11, <1>3
  <2>13. DOMAIN snaps' = {g \in Nat : References'[g] > 0}
    BY <2>11, <2>12, <1>4
  <2>14. \A g \in DOMAIN snaps' : snaps'[g].refs = References'[g]
    BY <2>9, <2>11, <1>4
  <2> QED
    BY <2>13, <2>14, <1>1, <1>2, <1>4 DEF SnapshotInv, Tallied
<1>8. SegmentInv'
  BY <1>1, <1>2, <1>3, <1>4 DEF SegmentInv
<1>9. JobInv' /\ ManifestInv'
  BY <1>1, <1>2 DEF JobInv, ManifestInv
<1>10. FileInv'
  BY <1>1, <1>2 DEF FileInv, Planned, WrittenNames, Fresh
<1>11. PlanInv'
  <2>1. Planned' = Planned /\ WrittenNames' = WrittenNames /\ Fresh' = Fresh
    BY <1>1 DEF Planned, WrittenNames, Fresh
  <2>2. snaps'[cur].segs = snaps[cur].segs
    BY <1>3, <1>4
  <2> QED
    BY <1>1, <1>2, <2>1, <2>2 DEF PlanInv
<1> QED
  BY <1>6, <1>7, <1>8, <1>9, <1>10, <1>11 DEF StoreInv

\* A reader gives back its snapshot, whoever else has it and whatever was published
\* in the meantime.
LEMMA StoreDone ==
    ASSUME StoreInv, NEW r \in Readers, Done(r)
    PROVE  StoreInv'
<1> DEFINE g == held[r]
           after == Release(snaps, segs, files, g)
<1>1. /\ g # None
      /\ snaps' = after.snaps /\ segs' = after.segs /\ files' = after.files
      /\ held' = [held EXCEPT ![r] = None]
      /\ manifest' = manifest /\ strays' = strays
      /\ up' = up /\ cur' = cur /\ job' = job
  BY DEF Done
<1>2. StoreStates /\ SnapshotInv /\ SegmentInv /\ FileInv /\ PlanInv /\ JobInv /\ ManifestInv
  BY DEF StoreInv
<1>3. held \in [Readers -> Nat \cup {None}] /\ None \notin Nat
  BY <1>2, StoreAssumption DEF StoreStates, StoreAssumption
<1>4. g \in Nat
  BY <1>1, <1>3
<1>5. StoreStates' /\ JobInv' /\ ManifestInv'
  BY <1>1, <1>2 DEF StoreStates, JobInv, ManifestInv
<1>6. /\ References \in [Nat -> Nat]
      /\ \A h \in Nat : References[h] = Cardinality(Holding(h)) + WriterRefs(h)
      /\ \A h \in Nat : WriterRefs(h) \in {0, 1, 2}
  BY <1>2, ReferencesType
<1>7. \A h \in Nat : IsFiniteSet(Holding(h)) /\ Cardinality(Holding(h)) \in Nat
  BY ReadersFinite DEF Holding
<1>8. r \in Holding(g)
  BY DEF Holding
<1> HIDE DEF g, after
<1>9. /\ Cardinality(Holding(g) \ {r}) = Cardinality(Holding(g)) - 1
      /\ Cardinality(Holding(g) \ {r}) \in Nat
  BY <1>4, <1>7, <1>8, FS_RemoveElement, FS_CardinalityType
<1>10. References' = [References EXCEPT ![g] = @ - 1]
  <2>1. \A q \in Readers : held'[q] = IF q = r THEN None ELSE held[q]
    BY <1>1, <1>3
  <2>2. \A h \in Nat : Holding(h)' = IF h = g THEN Holding(h) \ {r} ELSE Holding(h)
    <3> TAKE h \in Nat
    <3>1. h # None
      BY <1>3
    <3> QED
      BY <2>1, <3>1 DEF Holding, g
  <2>3. \A h \in Nat : WriterRefs(h)' = WriterRefs(h)
    BY <1>1 DEF WriterRefs, Planned
  <2>4. \A h \in Nat : References'[h] = Cardinality(Holding(h)') + WriterRefs(h)'
    BY DEF References
  <2>5. ASSUME NEW h \in Nat
        PROVE  References'[h] = IF h = g THEN References[h] - 1 ELSE References[h]
    <3>1. CASE h = g
      <4>1. References'[h] = Cardinality(Holding(g) \ {r}) + WriterRefs(h)
        BY <3>1, <2>2, <2>3, <2>4
      <4>2. References[h] = Cardinality(Holding(g)) + WriterRefs(h)
        BY <3>1, <1>6
      <4>3. Cardinality(Holding(g)) \in Nat /\ WriterRefs(h) \in Nat
        BY <1>4, <1>6, <1>7
      <4> QED
        BY <3>1, <4>1, <4>2, <4>3, <1>9
    <3>2. CASE h # g
      BY <3>2, <1>6, <2>2, <2>3, <2>4
    <3> QED
      BY <3>1, <3>2
  <2>6. References' = [h \in Nat |-> References'[h]]
    BY DEF References
  <2> QED
    BY <2>5, <2>6, <1>6
<1>11. References[g] > 0 /\ (References[g] = 1 => WriterRefs(g) = 0)
  <2>1. Cardinality(Holding(g)) >= 1
    BY <1>4, <1>7, <1>9
  <2>2. References[g] = Cardinality(Holding(g)) + WriterRefs(g) /\ WriterRefs(g) \in {0, 1, 2}
    BY <1>4, <1>6
  <2>3. Cardinality(Holding(g)) \in Nat
    BY <1>4, <1>7
  <2> QED
    BY <2>1, <2>2, <2>3
<1>12. References[g] = 1 => \A n \in DOMAIN segs : Users(snaps, n) = {g} => segs[n].retired
  <2> SUFFICES ASSUME References[g] = 1
               PROVE  \A n \in DOMAIN segs : Users(snaps, n) = {g} => segs[n].retired
    OBVIOUS
  <2>1. ~(up /\ g = cur)
    BY <1>11 DEF WriterRefs
  <2>2. up => cur \in DOMAIN snaps
    BY CurrentSnapshot
  <2>3. \A n \in DOMAIN segs : segs[n].retired <=> ~(up /\ n \in Range(snaps[cur].segs))
    BY <1>2 DEF SegmentInv
  <2> QED
    BY <2>1, <2>2, <2>3, OthersRetired
<1>13. Counted(snaps, segs) /\ Tallied(snaps, References)
  BY <1>2 DEF SegmentInv, SnapshotInv
<1>14. Released(after, snaps, segs, files) /\ Tallied(after.snaps, References')
  BY <1>4, <1>6, <1>10, <1>11, <1>12, <1>13, ReleaseTallied DEF after
<1>15. /\ SnapshotInv' /\ SegmentInv'
       /\ up => cur \in DOMAIN snaps /\ cur \in DOMAIN snaps' /\ snaps'[cur].segs = snaps[cur].segs
  BY <1>1, <1>5, <1>14, ReleasesSettle
<1>16. Planned' = Planned /\ WrittenNames' = WrittenNames /\ Fresh' = Fresh
  BY <1>1 DEF Planned, WrittenNames, Fresh
<1>17. FileInv'
  <2> SUFFICES ASSUME up PROVE FileInv'
    BY <1>1 DEF FileInv
  <2> DEFINE others == strays \cup (IF Planned THEN WrittenNames ELSE {})
  <2>1. strays \cap DOMAIN segs = {} /\ DOMAIN files = (DOMAIN segs) \cup others
    BY <1>2 DEF FileInv
  <2>2. Planned => WrittenNames \cap DOMAIN segs = {}
    BY NewNamesFresh
  <2>3. \A n \in DOMAIN segs : ~segs[n].keep
    BY <1>2 DEF SegmentInv
  <2>4. others \cap DOMAIN segs = {}
    BY <2>1, <2>2
  <2> HIDE DEF others
  <2>5. DOMAIN after.files = (DOMAIN after.segs) \cup others /\ others \cap DOMAIN after.segs = {}
    BY <1>14, <2>1, <2>3, <2>4, ReleasedFiles
  <2> QED
    BY <1>1, <1>16, <2>5 DEF FileInv, others
<1>18. PlanInv'
  <2>1. Planned => up
    BY NewNamesFresh
  <2> QED
    BY <1>1, <1>2, <1>15, <1>16, <2>1 DEF PlanInv
<1> QED
  BY <1>5, <1>15, <1>17, <1>18 DEF StoreInv

\* A job that fails leaves the store as it found it, but for a stray file.
LEMMA FailsKeep ==
    ASSUME StoreInv, job.phase = "write", NEW left, Fails(left), ManifestInv',
           strays' = strays \cup DOMAIN left, \A n \in DOMAIN left : n[1] = cur + 1
    PROVE  StoreInv'
<1> DEFINE rest == Without(files, WrittenNames)
           after == IF job.compacting THEN Release(snaps, segs, rest, cur)
                    ELSE [snaps |-> snaps, segs |-> segs, files |-> rest]
<1>1. /\ job' = Idle /\ snaps' = after.snaps /\ segs' = after.segs
      /\ files' = Over(left, after.files)
      /\ up' = up /\ cur' = cur /\ held' = held
  BY DEF Fails
<1>2. StoreStates /\ SnapshotInv /\ SegmentInv /\ FileInv /\ PlanInv /\ JobInv
  BY DEF StoreInv
<1>3. Planned
  BY DEF Planned
<1>4. /\ up /\ PlanFits(job, Range(snaps[cur].segs), cur + 1)
      /\ WrittenNames \cap DOMAIN segs = {} /\ WrittenNames \cap strays = {}
  BY <1>3, NewNamesFresh
<1>5. cur \in Nat
  BY <1>2 DEF StoreStates
<1>6. StoreStates' /\ JobInv'
  BY <1>1, <1>2 DEF StoreStates, JobInv
<1>7. DOMAIN rest = (DOMAIN segs) \cup strays
  <2>1. DOMAIN files = (DOMAIN segs) \cup strays \cup WrittenNames
    BY <1>2, <1>3, <1>4 DEF FileInv
  <2>2. DOMAIN rest = DOMAIN files \ WrittenNames
    BY DEF Without, Restrict
  <2> QED
    BY <2>1, <2>2, <1>4
<1> HIDE DEF rest
<1>8. /\ References \in [Nat -> Nat]
      /\ \A h \in Nat : References[h] = Cardinality(Holding(h)) + WriterRefs(h)
      /\ \A h \in Nat : WriterRefs(h) \in {0, 1, 2}
  BY <1>2, ReferencesType
<1>9. \A h \in Nat : /\ WriterRefs(h) = IF h = cur THEN (IF job.compacting THEN 2 ELSE 1) ELSE 0
                     /\ WriterRefs(h)' = IF h = cur THEN 1 ELSE 0
                     /\ Holding(h)' = Holding(h)
  BY <1>1, <1>4 DEF WriterRefs, Planned, Idle, Holding
<1>10. \A h \in Nat : Cardinality(Holding(h)) \in Nat
  BY ReadersFinite DEF Holding
<1>11. References' = [h \in Nat |-> References'[h]] /\ References = [h \in Nat |-> References[h]]
  BY DEF References
<1>12. \A h \in Nat : References'[h] = Cardinality(Holding(h)) + WriterRefs(h)'
  BY <1>9 DEF References
<1>13. Counted(snaps, segs) /\ Tallied(snaps, References)
  BY <1>2 DEF SegmentInv, SnapshotInv
<1>14. Released(after, snaps, segs, rest) /\ Tallied(after.snaps, References')
  <2>1. CASE job.compacting
    <3>1. \A h \in Nat : References'[h] = IF h = cur THEN References[h] - 1 ELSE References[h]
      BY <2>1, <1>8, <1>9, <1>10, <1>12
    <3>2. References' = [References EXCEPT ![cur] = @ - 1]
      BY <3>1, <1>8, <1>11
    <3>3. References[cur] > 1 /\ References[cur] \in Nat
      BY <2>1, <1>5, <1>8, <1>9, <1>10
    <3>4. References[cur] > 0 /\ References[cur] # 1
      BY <3>3
    <3>5. after = Release(snaps, segs, rest, cur)
      BY <2>1
    <3> DEFINE given == Release(snaps, segs, rest, cur)
               less == [References EXCEPT ![cur] = @ - 1]
    <3>6. References[cur] = 1 => \A n \in DOMAIN segs : Users(snaps, n) = {cur} => segs[n].retired
      BY <3>4
    <3>7. Released(given, snaps, segs, rest) /\ Tallied(given.snaps, less)
      BY <1>5, <1>8, <1>13, <3>4, <3>6, ReleaseTallied
    <3> HIDE DEF given, less
    <3>8. after = given /\ References' = less
      BY <3>2, <3>5 DEF given, less
    <3> HIDE DEF after
    <3> QED
      BY <3>7, <3>8
  <2>2. CASE ~job.compacting
    <3>1. \A h \in Nat : References'[h] = References[h]
      BY <2>2, <1>8, <1>9, <1>12
    <3>2. References' = References
      BY <3>1, <1>11
    <3>3. after.snaps = snaps /\ after.segs = segs /\ after.files = rest
      BY <2>2
    <3> QED
      BY <3>2, <3>3, <1>13 DEF Released
  <2> QED
    BY <2>1, <2>2
<1> HIDE DEF after
<1>15. SnapshotInv' /\ SegmentInv'
  BY <1>1, <1>6, <1>14, ReleasesSettle
<1>16. FileInv'
  <2>1. strays \cap DOMAIN segs = {}
    BY <1>2, <1>4 DEF FileInv
  <2>2. \A n \in DOMAIN segs : ~segs[n].keep /\ n[1] <= cur
    BY <1>2, <1>4 DEF SegmentInv
  <2>3. DOMAIN after.files = (DOMAIN after.segs) \cup strays /\ strays \cap DOMAIN after.segs = {}
    BY <1>7, <1>14, <2>1, <2>2, ReleasedFiles
  <2>4. DOMAIN after.segs \subseteq DOMAIN segs
    BY <1>14 DEF Released
  <2>5. DOMAIN left \cap DOMAIN segs' = {}
    BY <1>1, <1>5, <2>2, <2>4
  <2>6. DOMAIN files' = (DOMAIN left) \cup DOMAIN after.files
    BY <1>1 DEF Over
  <2>7. ~Planned'
    BY <1>1 DEF Planned, Idle
  <2> QED
    BY <1>1, <2>3, <2>5, <2>6, <2>7 DEF FileInv
<1>17. PlanInv'
  BY <1>1 DEF PlanInv, Planned, Idle
<1> QED
  BY <1>6, <1>15, <1>16, <1>17 DEF StoreInv

\* A failed segment write leaves the file or not, and gives the job up.
LEMMA StoreWriteFails ==
    ASSUME StoreInv, NEW i \in Fresh, WriteFails(i)
    PROVE  StoreInv'
<1> DEFINE piece == job.pieces[i]
           left == Only(piece.name, piece.content)
<1>1. job.phase = "write" /\ manifest' = manifest
  BY DEF WriteFails, NextPiece
<1>2. ManifestInv'
  BY <1>1 DEF StoreInv, ManifestInv
<1>3. CASE Fails(<<>>) /\ UNCHANGED strays
  <2>1. DOMAIN <<>> = {}
    OBVIOUS
  <2>2. strays' = strays \cup DOMAIN <<>> /\ \A n \in DOMAIN <<>> : n[1] = cur + 1
    BY <1>3, <2>1
  <2> QED
    BY <1>1, <1>2, <1>3, <2>2, FailsKeep
<1>4. CASE Fails(left) /\ strays' = strays \cup {piece.name}
  <2>1. DOMAIN left = {piece.name}
    BY DEF Only
  <2>2. piece.name[1] = cur + 1
    BY <1>1, NewNamesFresh DEF Planned, NewNames
  <2> HIDE DEF left, piece
  <2>3. strays' = strays \cup DOMAIN left /\ \A n \in DOMAIN left : n[1] = cur + 1
    BY <1>4, <2>1, <2>2
  <2> QED
    BY <1>1, <1>2, <1>4, <2>3, FailsKeep
<1> QED
  BY <1>3, <1>4 DEF WriteFails

\* A failed manifest write gives the new segments up.
LEMMA StoreManifestFails ==
    ASSUME StoreInv, ManifestFails
    PROVE  StoreInv'
<1>1. /\ job.phase = "write" /\ Fails(<<>>) /\ strays' = strays
      /\ manifest' \in {manifest, [gen |-> cur + 1, entries |-> NewEntries, whole |-> FALSE]}
  BY DEF ManifestFails, AllWritten
<1>2. Planned /\ cur \in Nat
  BY <1>1 DEF Planned, StoreInv, StoreStates
<1>3. ManifestInv'
  <2>1. CASE manifest' = manifest
    BY <2>1 DEF StoreInv, ManifestInv
  <2>2. CASE manifest' = [gen |-> cur + 1, entries |-> NewEntries, whole |-> FALSE]
    <3>1. manifest'.gen = cur + 1 /\ manifest'.entries = NewEntries
      BY <2>2
    <3> QED
      BY <1>2, <3>1, NextEntries DEF ManifestInv
  <2> QED
    BY <1>1, <2>1, <2>2
<1>4. DOMAIN <<>> = {}
  OBVIOUS
<1>5. strays' = strays \cup DOMAIN <<>> /\ \A n \in DOMAIN <<>> : n[1] = cur + 1
  BY <1>1, <1>4
<1> QED
  BY <1>1, <1>3, <1>5, FailsKeep

\* What newSnapshot and withOverlay build.
LEMMA NewSnapshotFacts ==
    ASSUME NEW open, NEW gen, NEW entries, NEW whole, NamesOf(entries) \in NameLists
    PROVE  Lists(NewSnapshot(open, gen, NamesOf(entries), LosOf(entries), whole), gen, NamesOf(entries))
<1> DEFINE sn == NewSnapshot(open, gen, NamesOf(entries), LosOf(entries), whole)
           count == ShardCount(entries)
<1>1. PICK n \in Nat : DOMAIN entries = 1..n
  BY PiecesList
<1>2. Len(NamesOf(entries)) = n
  BY <1>1 DEF NamesOf
<1>3. count \in Nat /\ count <= n
  <2>1. IsFiniteSet(1..n) /\ Cardinality(1..n) = n
    BY FS_Interval
  <2> DEFINE shards == {i \in DOMAIN entries : entries[i].kind = "shard"}
  <2>2. shards \subseteq 1..n
    BY <1>1
  <2>3. count = Cardinality(shards)
    BY DEF ShardCount
  <2> HIDE DEF shards, count
  <2> QED
    BY <2>1, <2>2, <2>3, FS_Subset, FS_CardinalityType
<1>4. LosOf(entries) = [i \in 1..count |-> LosOf(entries)[i]]
  BY DEF LosOf
<1> HIDE DEF count
<1>5. LosOf(entries) \in Seq(Range(LosOf(entries))) /\ Len(LosOf(entries)) = count
  BY <1>3, <1>4, ListIsSeq
<1>6. /\ DOMAIN sn = {"gen", "segs", "los", "route", "refs", "whole"}
      /\ sn.gen = gen /\ sn.segs = NamesOf(entries) /\ sn.los = LosOf(entries) /\ sn.refs = 1
  BY DEF NewSnapshot
<1> HIDE DEF sn
<1>7. IsSnapshot(sn)
  BY <1>2, <1>3, <1>5, <1>6 DEF IsSnapshot
<1> QED
  <2>1. Lists(sn, gen, NamesOf(entries))
    BY <1>6, <1>7 DEF Lists
  <2> QED
    BY <2>1 DEF sn

\* withOverlay appends one segment to those of the snapshot below.
LEMMA WithOverlayFacts ==
    ASSUME NEW open, NEW old, IsSnapshot(old), NEW gen, NEW top, Append(old.segs, top) \in NameLists
    PROVE  Lists(WithOverlay(open, old, gen, top), gen, Append(old.segs, top))
<1> DEFINE bare == [old EXCEPT !.gen = gen, !.segs = Append(@, top), !.refs = 1]
           sn == WithOverlay(open, old, gen, top)
<1>1. DOMAIN old = {"gen", "segs", "los", "route", "refs", "whole"}
  BY DEF IsSnapshot
<1>2. /\ DOMAIN bare = {"gen", "segs", "los", "route", "refs", "whole"}
      /\ bare.gen = gen /\ bare.segs = Append(old.segs, top) /\ bare.los = old.los /\ bare.refs = 1
  BY <1>1
<1>3. sn = [bare EXCEPT !.route = Apply(open, bare, Len(bare.segs))]
  BY DEF WithOverlay
<1> HIDE DEF sn, bare
<1>4. /\ DOMAIN sn = {"gen", "segs", "los", "route", "refs", "whole"}
      /\ sn.gen = gen /\ sn.segs = Append(old.segs, top) /\ sn.los = old.los /\ sn.refs = 1
  BY <1>2, <1>3
<1>5. old.segs \in Seq(SegNames) /\ old.los \in Seq(Range(old.los)) /\ Len(old.los) <= Len(old.segs)
  BY DEF IsSnapshot, NameLists
<1>6. Len(Append(old.segs, top)) = Len(old.segs) + 1
  BY <1>5
<1>7. Len(old.los) <= Len(old.segs) + 1
  <2>1. Len(old.los) \in Nat /\ Len(old.segs) \in Nat
    BY <1>5
  <2> QED
    BY <2>1, <1>5
<1>8. IsSnapshot(sn)
  BY <1>4, <1>5, <1>6, <1>7 DEF IsSnapshot
<1> QED
  <2>1. Lists(sn, gen, Append(old.segs, top))
    BY <1>4, <1>8 DEF Lists
  <2> QED
    BY <2>1 DEF sn

\* The snapshot is replaced: what the new one no longer lists is retired, and the
\* previous one is still there for its readers (store.go:680).
LEMMA StoreSwap ==
    ASSUME StoreInv, Swap
    PROVE  StoreInv'
<1> DEFINE new == [n \in NewNames |-> Opened(files[n])]
           open == Retire(Over(new, segs), job.retire)
           sn == Published(open)
<1>1. /\ job.phase = "swap"
      /\ segs' = Retain(open, sn)
      /\ snaps' = Over(Only(sn.gen, sn), snaps)
      /\ cur' = sn.gen
      /\ job' = [job EXCEPT !.phase = "release"]
      /\ files' = files /\ manifest' = manifest /\ strays' = strays /\ up' = up /\ held' = held
  BY DEF Swap, disk
<1>2. StoreStates /\ SnapshotInv /\ SegmentInv /\ FileInv /\ PlanInv /\ JobInv /\ ManifestInv
  BY DEF StoreInv
<1>3. Planned
  BY <1>1 DEF Planned
<1>4. /\ up /\ PlanFits(job, Range(snaps[cur].segs), cur + 1)
      /\ NewNames \cap DOMAIN segs = {} /\ WrittenNames \cap strays = {}
      /\ \A n \in NewNames : n[1] = cur + 1
  BY <1>3, NewNamesFresh
<1>5. /\ cur \in Nat /\ cur \in DOMAIN snaps /\ cur + 1 \notin DOMAIN snaps
      /\ IsSnapshot(snaps[cur])
      /\ Range(snaps[cur].segs) \subseteq DOMAIN segs
      /\ \A n \in Range(snaps[cur].segs) : n \in SegNames /\ n[1] \in Nat /\ n[1] <= cur
  BY <1>4, CurrentSnapshot
<1>6. WrittenNames = NewNames
  BY <1>1, <1>2, <1>3 DEF PlanInv, WrittenNames, NewNames
<1>7. job.retire \subseteq Range(snaps[cur].segs) /\ job.compacting \in BOOLEAN /\ job.stacks \in BOOLEAN
  BY <1>4 DEF PlanFits
<1>8. /\ DOMAIN new = NewNames
      /\ \A n \in NewNames : new[n].refs = 0 /\ ~new[n].retired /\ ~new[n].keep /\ IsSegment(new[n])
  BY DEF Opened, IsSegment
<1>9. /\ IsSnapshot(sn) /\ sn.gen = cur + 1 /\ sn.refs = 1
      /\ Range(sn.segs) = (Range(snaps[cur].segs) \ job.retire) \cup NewNames
  <2>1. CASE job.stacks
    <3> DEFINE top == job.pieces[1].name
    <3>1. sn = WithOverlay(open, snaps[cur], cur + 1, top)
      BY <2>1 DEF Published
    <3> HIDE DEF open, sn
    <3>2. /\ Append(snaps[cur].segs, top) \in NameLists /\ job.retire = {}
          /\ Range(Append(snaps[cur].segs, top)) = Range(snaps[cur].segs) \cup NewNames
      BY <2>1, <1>3, StackedPiece
    <3> HIDE DEF top, new
    <3>3. /\ IsSnapshot(sn) /\ sn.gen = cur + 1 /\ sn.refs = 1
          /\ sn.segs = Append(snaps[cur].segs, top)
      <4>1. IsSnapshot(snaps[cur]) /\ Append(snaps[cur].segs, top) \in NameLists
        BY <3>2, <1>5
      <4>2. Lists(WithOverlay(open, snaps[cur], cur + 1, top), cur + 1, Append(snaps[cur].segs, top))
        BY <4>1, WithOverlayFacts
      <4> QED
        BY <4>2, <3>1 DEF Lists
    <3>4. Range(sn.segs) = Range(snaps[cur].segs) \cup NewNames
      BY <3>2, <3>3
    <3>5. Range(snaps[cur].segs) \ job.retire = Range(snaps[cur].segs)
      BY <3>2
    <3> QED
      BY <3>3, <3>4, <3>5
  <2>2. CASE ~job.stacks
    <3>1. sn = NewSnapshot(open, cur + 1, NamesOf(job.pieces), LosOf(job.pieces), job.whole)
      BY <2>2 DEF Published
    <3> HIDE DEF open, sn
    <3>2. NamesOf(job.pieces) \in NameLists
      BY <1>4 DEF PlanFits
    <3>3. /\ IsSnapshot(sn) /\ sn.gen = cur + 1 /\ sn.refs = 1
          /\ sn.segs = NamesOf(job.pieces)
      <4>1. Lists(NewSnapshot(open, cur + 1, NamesOf(job.pieces), LosOf(job.pieces), job.whole),
                  cur + 1, NamesOf(job.pieces))
        BY <3>2, NewSnapshotFacts
      <4> QED
        BY <4>1, <3>1 DEF Lists
    <3>4. Range(NamesOf(job.pieces)) = (Range(snaps[cur].segs) \ job.retire) \cup NewNames
      BY <2>2, <1>3, PlanNames
    <3> QED
      BY <3>3, <3>4
  <2> QED
    BY <2>1, <2>2, <1>7
<1> HIDE DEF sn, new
<1>10. Counted(snaps, segs)
  BY <1>2 DEF SegmentInv
<1>11. Extended(snaps', segs', snaps, segs, cur + 1, sn, NewNames, job.retire)
  <2> DEFINE all2 == Over(Only(cur + 1, sn), snaps)
             open2 == Retain(Retire(Over(new, segs), job.retire), sn)
  <2>1. DOMAIN new \cap DOMAIN segs = {}
    BY <1>4, <1>8
  <2>2. DOMAIN new \subseteq Range(sn.segs)
    BY <1>8, <1>9
  <2>3. Range(sn.segs) \subseteq (DOMAIN new) \cup DOMAIN segs
    BY <1>5, <1>8, <1>9
  <2>4. \A n \in DOMAIN new : new[n].refs = 0 /\ ~new[n].retired /\ ~new[n].keep /\ IsSegment(new[n])
    BY <1>8
  <2>5. Extended(all2, open2, snaps, segs, cur + 1, sn, DOMAIN new, job.retire)
    BY <1>5, <1>9, <1>10, <2>1, <2>2, <2>3, <2>4, Publishes
  <2>6. snaps' = all2 /\ segs' = open2
    BY <1>1, <1>9
  <2> HIDE DEF all2, open2
  <2> QED
    BY <2>5, <2>6, <1>8
<1>18. /\ Counted(snaps', segs')
       /\ DOMAIN snaps' = (DOMAIN snaps) \cup {cur + 1}
       /\ snaps'[cur + 1] = sn /\ \A g \in DOMAIN snaps : snaps'[g] = snaps[g]
       /\ DOMAIN segs' = NewNames \cup DOMAIN segs
  BY <1>11 DEF Extended
<1>19. \A n \in DOMAIN segs : /\ segs'[n].retired <=> segs[n].retired \/ n \in job.retire
                             /\ segs'[n].keep = segs[n].keep
  BY <1>11 DEF Extended
<1>20. \A n \in NewNames : (segs'[n].retired <=> n \in job.retire) /\ ~segs'[n].keep
  BY <1>11 DEF Extended
<1>12. cur' = cur + 1 /\ cur' \in Nat
  BY <1>1, <1>5, <1>9
<1>13. job'.phase = "release" /\ job'.compacting = job.compacting
  BY <1>1, <1>4 DEF PlanFits
<1>14. StoreStates' /\ JobInv' /\ ManifestInv'
  BY <1>1, <1>2, <1>4, <1>5, <1>7, <1>12, <1>13 DEF StoreStates, JobInv, ManifestInv
<1>15. SnapshotInv'
  <2>1. \A g \in Nat : /\ WriterRefs(g) = IF g = cur THEN (IF job.compacting THEN 2 ELSE 1) ELSE 0
                       /\ WriterRefs(g)' = IF g = cur + 1 THEN 1
                                           ELSE IF g = cur THEN (IF job.compacting THEN 2 ELSE 1) ELSE 0
    BY <1>1, <1>3, <1>4, <1>5, <1>12, <1>13 DEF WriterRefs, Planned
  <2>2. \A g \in Nat : Cardinality(Holding(g)) \in Nat /\ Holding(g)' = Holding(g)
    BY <1>1, ReadersFinite DEF Holding
  <2>3. \A g \in Nat : /\ References[g] = Cardinality(Holding(g)) + WriterRefs(g)
                       /\ References'[g] = Cardinality(Holding(g)) + WriterRefs(g)'
    BY <2>2 DEF References
  <2>4. DOMAIN snaps = {g \in Nat : References[g] > 0} /\ \A g \in DOMAIN snaps : snaps[g].refs = References[g]
    BY <1>2 DEF SnapshotInv, Tallied
  <2>5. cur + 1 \in Nat /\ ~(References[cur + 1] > 0)
    BY <1>5, <2>4
  <2>6. Cardinality(Holding(cur + 1)) = 0
    <3>1. References[cur + 1] = Cardinality(Holding(cur + 1))
      BY <1>5, <2>1, <2>2, <2>3, <2>5
    <3> QED
      BY <3>1, <2>2, <2>5
  <2>7. References'[cur + 1] = 1
    BY <2>1, <2>3, <2>5, <2>6
  <2>8. \A g \in Nat : g # cur + 1 => References'[g] = References[g]
    BY <1>5, <2>1, <2>3
  <2>9. DOMAIN snaps' = {g \in Nat : References'[g] > 0}
    <3>1. \A g \in Nat : References'[g] > 0 <=> g \in DOMAIN snaps \/ g = cur + 1
      BY <2>4, <2>5, <2>7, <2>8
    <3> QED
      BY <3>1, <1>18, <2>4, <2>5
  <2>10. \A g \in DOMAIN snaps' : snaps'[g].refs = References'[g]
    BY <1>5, <1>9, <1>18, <2>4, <2>7, <2>8
  <2>11. \A g \in DOMAIN snaps' : g <= cur'
    BY <1>2, <1>4, <1>5, <1>18, <1>12, <2>4 DEF SnapshotInv
  <2> QED
    BY <2>9, <2>10, <2>11 DEF SnapshotInv, Tallied
<1>16. SegmentInv'
  <2>1. snaps'[cur'] = sn /\ up'
    BY <1>1, <1>4, <1>18, <1>12
  <2>2. ASSUME NEW n \in DOMAIN segs
        PROVE  /\ segs'[n].retired <=> ~(n \in Range(sn.segs))
               /\ ~segs'[n].keep /\ n[1] <= cur + 1
    <3>1. /\ segs[n].retired <=> ~(n \in Range(snaps[cur].segs))
          /\ ~segs[n].keep /\ n[1] <= cur
      BY <1>2, <1>4 DEF SegmentInv
    <3>2. n \notin NewNames
      BY <1>4
    <3>3. n \in Range(sn.segs) <=> n \in Range(snaps[cur].segs) /\ n \notin job.retire
      BY <3>2, <1>9
    <3>4. segs'[n].retired <=> ~(n \in Range(sn.segs))
      BY <3>1, <3>3, <1>19
    <3>5. n[1] <= cur + 1
      <4>1. n \in SegNames
        <5>1. PICK g \in DOMAIN snaps : n \in Range(snaps[g].segs)
          BY <1>10 DEF Counted
        <5>2. snaps[g].segs \in Seq(SegNames)
          BY <1>10 DEF Counted, IsSnapshot, NameLists
        <5> QED
          BY <5>1, <5>2 DEF Range
      <4>2. n[1] \in Nat
        BY <4>1 DEF SegNames
      <4> QED
        BY <3>1, <4>2, <1>5
    <3> QED
      BY <3>1, <3>4, <3>5, <1>19
  <2>3. ASSUME NEW n \in NewNames
        PROVE  /\ segs'[n].retired <=> ~(n \in Range(sn.segs))
               /\ ~segs'[n].keep /\ n[1] <= cur + 1
    <3>1. n \notin job.retire
      BY <1>4, <1>5, <1>7
    <3>2. n \in Range(sn.segs)
      BY <1>9
    <3>3. n[1] = cur + 1 /\ cur + 1 \in Nat
      BY <1>4, <1>5
    <3> QED
      BY <3>1, <3>2, <3>3, <1>20
  <2>4. \A n \in DOMAIN segs' : /\ segs'[n].retired <=> ~(n \in Range(sn.segs))
                                /\ ~segs'[n].keep /\ n[1] <= cur + 1
    BY <2>2, <2>3, <1>18
  <2> QED
    BY <2>1, <2>4, <1>18, <1>12 DEF SegmentInv
<1>17. FileInv' /\ PlanInv'
  <2>1. ~Planned'
    BY <1>13 DEF Planned
  <2>2. strays \cap DOMAIN segs = {} /\ DOMAIN files = (DOMAIN segs) \cup strays \cup NewNames
    BY <1>2, <1>3, <1>4, <1>6 DEF FileInv
  <2>3. strays \cap NewNames = {}
    BY <1>4, <1>6
  <2> QED
    BY <2>1, <2>2, <2>3, <1>1, <1>18 DEF FileInv, PlanInv
<1> QED
  BY <1>14, <1>15, <1>16, <1>17 DEF StoreInv

\* The previous snapshot loses the store's reference, and the compaction's.
LEMMA StoreReleasePrevious ==
    ASSUME StoreInv, ReleasePrevious
    PROVE  StoreInv'
<1> DEFINE g == cur - 1
           first == Release(snaps, segs, files, g)
           second == Release(first.snaps, first.segs, first.files, g)
           after == IF job.compacting THEN second ELSE first
           less == [References EXCEPT ![g] = @ - 1]
<1>1. /\ job.phase = "release" /\ job' = Idle
      /\ snaps' = after.snaps /\ segs' = after.segs /\ files' = after.files
      /\ manifest' = manifest /\ strays' = strays /\ up' = up /\ cur' = cur /\ held' = held
  BY DEF ReleasePrevious
<1>2. StoreStates /\ SnapshotInv /\ SegmentInv /\ FileInv /\ JobInv /\ ManifestInv
  BY DEF StoreInv
<1>3. up /\ cur \in Nat /\ cur > 0 /\ job.compacting \in BOOLEAN
  BY <1>1, <1>2 DEF JobInv, StoreStates, Idle
<1>4. g \in Nat /\ g # cur
  BY <1>3
<1>5. StoreStates' /\ JobInv' /\ ManifestInv'
  BY <1>1, <1>2 DEF StoreStates, JobInv, ManifestInv
<1>6. /\ References \in [Nat -> Nat]
      /\ \A h \in Nat : References[h] = Cardinality(Holding(h)) + WriterRefs(h)
  BY <1>2, ReferencesType
<1>7. \A h \in Nat : /\ WriterRefs(h) = IF h = cur THEN 1
                                        ELSE IF h = g THEN (IF job.compacting THEN 2 ELSE 1) ELSE 0
                     /\ WriterRefs(h)' = IF h = cur THEN 1 ELSE 0
                     /\ Holding(h)' = Holding(h)
  BY <1>1, <1>3 DEF WriterRefs, Planned, Idle, Holding
<1>8. \A h \in Nat : Cardinality(Holding(h)) \in Nat
  BY ReadersFinite DEF Holding
<1>9. References' = [h \in Nat |-> References'[h]]
  BY DEF References
<1>10. \A h \in Nat : References'[h] = Cardinality(Holding(h)) + WriterRefs(h)'
  BY <1>7 DEF References
<1>11. Counted(snaps, segs) /\ Tallied(snaps, References)
  BY <1>2 DEF SegmentInv, SnapshotInv
<1>12. \A n \in DOMAIN segs : segs[n].retired <=> ~(up /\ n \in Range(snaps[cur].segs))
  BY <1>2 DEF SegmentInv
<1> HIDE DEF g, first, second, after, less
<1>13. References[g] > 0 /\ (job.compacting => References[g] > 1)
  BY <1>4, <1>6, <1>7, <1>8
<1>14. cur \in DOMAIN snaps /\ References[cur] > 0
  BY <1>3, <1>6, <1>7, <1>8, CurrentSnapshot
<1>15. \A n \in DOMAIN segs : Users(snaps, n) = {g} => segs[n].retired
  BY <1>4, <1>12, <1>14, OthersRetired
<1>16. Released(first, snaps, segs, files) /\ Tallied(first.snaps, less)
  BY <1>4, <1>6, <1>11, <1>13, <1>15, ReleaseTallied DEF first, less
<1>17. less \in [Nat -> Nat] /\ \A h \in Nat : less[h] = IF h = g THEN References[h] - 1 ELSE References[h]
  <2>1. \A h \in Nat : less[h] = IF h = g THEN References[h] - 1 ELSE References[h]
    BY <1>6 DEF less
  <2>2. \A h \in Nat : less[h] \in Nat
    BY <2>1, <1>6, <1>13
  <2>3. less = [h \in Nat |-> less[h]]
    BY <1>6 DEF less
  <2> QED
    BY <2>1, <2>2, <2>3
<1>18. Released(after, snaps, segs, files) /\ Tallied(after.snaps, References')
  <2>1. CASE ~job.compacting
    <3>1. ASSUME NEW h \in Nat
          PROVE  References'[h] = less[h]
      <4>1. /\ References[h] = Cardinality(Holding(h)) + WriterRefs(h)
            /\ References'[h] = Cardinality(Holding(h)) + WriterRefs(h)'
        BY <1>6, <1>10
      <4>2. /\ WriterRefs(h) = IF h \in {cur, g} THEN 1 ELSE 0
            /\ WriterRefs(h)' = IF h = cur THEN 1 ELSE 0
        BY <1>7, <2>1
      <4>3. Cardinality(Holding(h)) \in Nat /\ (less[h] = IF h = g THEN References[h] - 1 ELSE References[h])
        BY <1>8, <1>17
      <4> QED
        BY <4>1, <4>2, <4>3, <1>4
    <3>2. References' = less
      BY <3>1, <1>9, <1>17
    <3>3. after = first
      BY <2>1 DEF after
    <3> QED
      BY <3>2, <3>3, <1>16
  <2>2. CASE job.compacting
    <3> DEFINE least == [less EXCEPT ![g] = @ - 1]
    <3>1. \A h \in Nat : least[h] = IF h = g THEN less[h] - 1 ELSE less[h]
      BY <1>17
    <3>2. least = [h \in Nat |-> least[h]]
      BY <1>17
    <3> HIDE DEF least
    <3>3. ASSUME NEW h \in Nat
          PROVE  References'[h] = least[h]
      <4>1. /\ References[h] = Cardinality(Holding(h)) + WriterRefs(h)
            /\ References'[h] = Cardinality(Holding(h)) + WriterRefs(h)'
        BY <1>6, <1>10
      <4>2. /\ WriterRefs(h) = IF h = cur THEN 1 ELSE IF h = g THEN 2 ELSE 0
            /\ WriterRefs(h)' = IF h = cur THEN 1 ELSE 0
        BY <1>7, <2>2
      <4>3. Cardinality(Holding(h)) \in Nat /\ (less[h] = IF h = g THEN References[h] - 1 ELSE References[h])
        BY <1>8, <1>17
      <4>4. least[h] = IF h = g THEN less[h] - 1 ELSE less[h]
        BY <3>1
      <4> QED
        BY <4>1, <4>2, <4>3, <4>4, <1>4
    <3>4. References' = least
      BY <3>2, <3>3, <1>9
    <3>5. less[g] > 0
      BY <2>2, <1>4, <1>6, <1>13, <1>17
    <3>6. Counted(first.snaps, first.segs)
      BY <1>16 DEF Released
    <3>7. cur \in DOMAIN first.snaps /\ first.snaps[cur].segs = snaps[cur].segs
      <4>1. less[cur] > 0
        BY <1>3, <1>4, <1>14, <1>17
      <4>2. cur \in DOMAIN first.snaps
        BY <1>3, <1>16, <4>1 DEF Tallied
      <4> QED
        BY <4>2, <1>16 DEF Released
    <3>8. \A n \in DOMAIN first.segs : first.segs[n].retired <=> ~(up /\ n \in Range(first.snaps[cur].segs))
      BY <3>7, <1>12, <1>16 DEF Released
    <3>9. \A n \in DOMAIN first.segs : Users(first.snaps, n) = {g} => first.segs[n].retired
      BY <3>7, <3>8, <1>4, OthersRetired
    <3>10. Released(second, first.snaps, first.segs, first.files) /\ Tallied(second.snaps, least)
      BY <3>5, <3>6, <3>9, <1>4, <1>16, <1>17, ReleaseTallied DEF second, least
    <3>11. Released(second, snaps, segs, files)
      BY <3>10, <1>16, ReleasedTwice
    <3>12. after = second
      BY <2>2 DEF after
    <3> QED
      BY <3>4, <3>10, <3>11, <3>12
  <2> QED
    BY <2>1, <2>2, <1>3
<1>19. SnapshotInv' /\ SegmentInv'
  BY <1>1, <1>5, <1>18, ReleasesSettle
<1>20. ~Planned /\ ~Planned'
  BY <1>1 DEF Planned, Idle
<1>21. FileInv'
  <2>1. strays \cap DOMAIN segs = {} /\ DOMAIN files = (DOMAIN segs) \cup strays
    BY <1>2, <1>3, <1>20 DEF FileInv
  <2>2. \A n \in DOMAIN segs : ~segs[n].keep
    BY <1>2, <1>3 DEF SegmentInv
  <2>3. DOMAIN after.files = (DOMAIN after.segs) \cup strays /\ strays \cap DOMAIN after.segs = {}
    BY <1>18, <2>1, <2>2, ReleasedFiles
  <2> QED
    BY <1>1, <1>20, <2>3 DEF FileInv
<1>22. PlanInv'
  BY <1>20 DEF PlanInv
<1> QED
  BY <1>5, <1>19, <1>21, <1>22 DEF StoreInv

\* The published segments are retired and kept, for readers who still hold them.
LEMMA StoreClose ==
    ASSUME StoreInv, Close
    PROVE  StoreInv'
<1> DEFINE names == Range(snaps[cur].segs)
           keeping == [n \in DOMAIN segs |->
                IF n \in names THEN [segs[n] EXCEPT !.keep = TRUE, !.retired = TRUE] ELSE segs[n]]
           after == Release(snaps, keeping, files, cur)
           less == [References EXCEPT ![cur] = @ - 1]
<1>1. /\ up /\ job = Idle /\ job' = Idle
      /\ snaps' = after.snaps /\ segs' = after.segs
      /\ manifest' = manifest /\ up' = FALSE /\ cur' = 0 /\ held' = held
  BY DEF Close
<1>2. StoreStates /\ SnapshotInv /\ SegmentInv /\ FileInv /\ JobInv /\ ManifestInv
  BY DEF StoreInv
<1>3. cur \in Nat
  BY <1>2 DEF StoreStates
<1>4. StoreStates' /\ JobInv' /\ ManifestInv'
  BY <1>1, <1>2 DEF StoreStates, JobInv, ManifestInv
<1>5. Counted(snaps, segs) /\ Tallied(snaps, References)
  BY <1>2 DEF SegmentInv, SnapshotInv
<1>6. \A n \in DOMAIN segs : IsSegment(segs[n]) /\ (segs[n].retired <=> n \notin names)
  BY <1>1, <1>2 DEF SegmentInv, Counted
<1> HIDE DEF names
<1>7. DOMAIN keeping = DOMAIN segs
      /\ \A n \in DOMAIN segs : keeping[n] =
           IF n \in names THEN [segs[n] EXCEPT !.keep = TRUE, !.retired = TRUE] ELSE segs[n]
  OBVIOUS
<1> HIDE DEF keeping, after, less
<1>8. \A n \in DOMAIN segs : /\ IsSegment(keeping[n]) /\ keeping[n].retired
                             /\ keeping[n].refs = segs[n].refs
  <2> TAKE n \in DOMAIN segs
  <2>1. CASE n \in names
    <3>1. keeping[n] = [segs[n] EXCEPT !.keep = TRUE, !.retired = TRUE]
      BY <2>1, <1>7
    <3> QED
      BY <3>1, <1>6 DEF IsSegment
  <2>2. CASE n \notin names
    BY <2>2, <1>6, <1>7
  <2> QED
    BY <2>1, <2>2
<1>9. Counted(snaps, keeping)
  BY <1>5, <1>7, <1>8 DEF Counted
<1>10. /\ References \in [Nat -> Nat]
       /\ \A h \in Nat : References[h] = Cardinality(Holding(h)) + WriterRefs(h)
  BY <1>2, ReferencesType
<1>11. \A h \in Nat : /\ WriterRefs(h) = IF h = cur THEN 1 ELSE 0
                      /\ WriterRefs(h)' = 0
                      /\ Holding(h)' = Holding(h)
  BY <1>1 DEF WriterRefs, Planned, Idle, Holding
<1>12. \A h \in Nat : Cardinality(Holding(h)) \in Nat
  BY ReadersFinite DEF Holding
<1>13. References' = [h \in Nat |-> References'[h]]
  BY DEF References
<1>14. \A h \in Nat : References'[h] = Cardinality(Holding(h)) + WriterRefs(h)'
  BY <1>11 DEF References
<1>15. References' = less
  <2>1. \A h \in Nat : References'[h] = IF h = cur THEN References[h] - 1 ELSE References[h]
    BY <1>10, <1>11, <1>12, <1>14
  <2>2. less = [h \in Nat |-> IF h = cur THEN References[h] - 1 ELSE References[h]]
    BY <1>10 DEF less
  <2> QED
    BY <2>1, <2>2, <1>13
<1>16. References[cur] > 0
  BY <1>3, <1>10, <1>11, <1>12
<1>17. \A n \in DOMAIN keeping : Users(snaps, n) = {cur} => keeping[n].retired
  BY <1>7, <1>8
<1>18. Released(after, snaps, keeping, files) /\ Tallied(after.snaps, References')
  BY <1>3, <1>5, <1>9, <1>10, <1>15, <1>16, <1>17, ReleaseTallied DEF after, less
<1>19. SnapshotInv'
  BY <1>1, <1>18 DEF SnapshotInv
<1>20. SegmentInv'
  <2>1. Counted(snaps', segs')
    BY <1>1, <1>18 DEF Released
  <2>2. \A n \in DOMAIN segs' : segs'[n].retired
    BY <1>1, <1>7, <1>8, <1>18 DEF Released
  <2> QED
    BY <1>1, <2>1, <2>2 DEF SegmentInv
<1>21. FileInv' /\ PlanInv'
  BY <1>1 DEF FileInv, PlanInv, Planned, Idle
<1> QED
  BY <1>4, <1>19, <1>20, <1>21 DEF StoreInv

\* A crash leaves the directory alone and empties the memory.
LEMMA StoreCrash ==
    ASSUME StoreInv, Crash
    PROVE  StoreInv'
<1>1. /\ up' = FALSE /\ cur' = 0 /\ snaps' = <<>> /\ segs' = <<>>
      /\ held' = [r \in Readers |-> None] /\ job' = Idle /\ manifest' = manifest
  BY DEF Crash
<1>2. StoreStates' /\ ManifestInv' /\ JobInv' /\ FileInv' /\ PlanInv'
  BY <1>1 DEF StoreInv, StoreStates, ManifestInv, JobInv, FileInv, PlanInv, Planned, Idle
<1>3. DOMAIN snaps' = {} /\ DOMAIN segs' = {}
  BY <1>1
<1>4. SnapshotInv'
  <2>1. \A g \in Nat : Holding(g)' = {} /\ WriterRefs(g)' = 0
    BY <1>1, StoreAssumption DEF Holding, WriterRefs, StoreAssumption
  <2>2. \A g \in Nat : References'[g] = 0
    BY <2>1, FS_EmptySet DEF References
  <2>3. {g \in Nat : References'[g] > 0} = {}
    BY <2>2
  <2> QED
    BY <1>1, <1>3, <2>3 DEF SnapshotInv, Tallied
<1>5. SegmentInv'
  <2>1. IsFiniteSet({})
    BY FS_EmptySet
  <2>2. UNION {Range(snaps'[g].segs) : g \in DOMAIN snaps'} = {}
    BY <1>3
  <2> QED
    BY <1>1, <1>3, <2>1, <2>2 DEF SegmentInv, Counted
<1> QED
  BY <1>2, <1>4, <1>5 DEF StoreInv

\* A store that opens has the snapshot of its manifest, or an empty one, and no file
\* that nothing names.
LEMMA StoreOpen ==
    ASSUME StoreInv, OpenStore
    PROVE  StoreInv'
<1> DEFINE open == OpenSegs(manifest, files)
           sn == Load(manifest, open)
           usable == Loadable(manifest, files)
           names == Names(manifest.entries)
<1>1. /\ ~up /\ (\A r \in Readers : held[r] = None)
      /\ snaps' = Only(sn.gen, sn) /\ cur' = sn.gen /\ segs' = Retain(open, sn)
      /\ manifest' = (IF usable THEN manifest ELSE NoManifest)
      /\ files' = (IF usable THEN Restrict(files, names) ELSE <<>>)
      /\ strays' = {} /\ up' = TRUE /\ held' = held /\ job' = job
  BY DEF OpenStore
<1>2. StoreStates /\ JobInv /\ ManifestInv
  BY DEF StoreInv
<1>3. job = Idle /\ job.phase = "idle"
  BY <1>1, <1>2 DEF JobInv, Idle
<1>4. /\ manifest.gen \in Nat /\ NamesOf(manifest.entries) \in NameLists
      /\ \A n \in names : n[1] <= manifest.gen
      /\ names = Range(NamesOf(manifest.entries))
  BY <1>2, EntryNames DEF ManifestInv
<1> HIDE DEF names
<1>5. DOMAIN open = (IF usable THEN names ELSE {})
  BY DEF OpenSegs, names
<1>6. \A n \in DOMAIN open : open[n].refs = 0 /\ ~open[n].retired /\ ~open[n].keep /\ IsSegment(open[n])
  <2>1. CASE usable
    <3>1. \A n \in DOMAIN open : open[n] = Opened(files[n])
      BY <2>1 DEF OpenSegs, names
    <3>2. \A c : Opened(c).refs = 0 /\ ~Opened(c).retired /\ ~Opened(c).keep /\ IsSegment(Opened(c))
      BY DEF Opened, IsSegment
    <3> HIDE DEF open
    <3> QED
      BY <3>1, <3>2
  <2>2. CASE ~usable
    BY <2>2, <1>5
  <2> QED
    BY <2>1, <2>2
<1>7. open # <<>> => usable
  BY DEF OpenSegs
<1> HIDE DEF open, usable
<1>8. DOMAIN <<>> = {} /\ Range(<<>>) = {}
  BY DEF Range
<1>9. /\ IsSnapshot(NoSnapshot) /\ NoSnapshot.gen = 0 /\ NoSnapshot.refs = 1 /\ NoSnapshot.segs = <<>>
  <2>1. /\ NoSnapshot.segs = <<>> /\ NoSnapshot.los = <<>> /\ NoSnapshot.refs = 1 /\ NoSnapshot.gen = 0
        /\ DOMAIN NoSnapshot = {"gen", "segs", "los", "route", "refs", "whole"}
    BY DEF NoSnapshot, NewSnapshot
  <2>2. <<>> \in NameLists
    BY DEF NameLists
  <2>3. <<>> \in Seq(Range(<<>>)) /\ Len(<<>>) <= Len(<<>>)
    BY <1>8
  <2> QED
    BY <2>1, <2>2, <2>3 DEF IsSnapshot
<1>10. /\ IsSnapshot(sn) /\ sn.refs = 1 /\ sn.gen \in Nat
       /\ Range(sn.segs) = DOMAIN open
       /\ \A n \in DOMAIN open : n[1] <= sn.gen
  <2>1. CASE open = <<>>
    <3>1. sn = NoSnapshot
      BY <2>1 DEF Load
    <3> HIDE DEF sn
    <3> QED
      BY <2>1, <3>1, <1>8, <1>9
  <2>2. CASE open # <<>>
    <3>1. sn = NewSnapshot(open, manifest.gen, NamesOf(manifest.entries), LosOf(manifest.entries), manifest.whole)
      BY <2>2 DEF Load
    <3> HIDE DEF sn
    <3>2. /\ IsSnapshot(sn) /\ sn.gen = manifest.gen /\ sn.refs = 1
          /\ sn.segs = NamesOf(manifest.entries)
      <4>1. Lists(NewSnapshot(open, manifest.gen, NamesOf(manifest.entries), LosOf(manifest.entries),
                              manifest.whole), manifest.gen, NamesOf(manifest.entries))
        BY <1>4, NewSnapshotFacts
      <4> QED
        BY <4>1, <3>1 DEF Lists
    <3> QED
      BY <2>2, <3>2, <1>4, <1>5, <1>7
  <2> QED
    BY <2>1, <2>2
<1> HIDE DEF sn
<1>11. /\ Counted(Only(sn.gen, sn), Retain(open, sn))
       /\ DOMAIN Only(sn.gen, sn) = {sn.gen} /\ Only(sn.gen, sn)[sn.gen] = sn
       /\ DOMAIN Retain(open, sn) = Range(sn.segs)
       /\ \A n \in DOMAIN Retain(open, sn) : ~Retain(open, sn)[n].retired /\ ~Retain(open, sn)[n].keep
  BY <1>6, <1>10, Opens
<1>12. /\ Counted(snaps', segs') /\ DOMAIN snaps' = {sn.gen} /\ snaps'[sn.gen] = sn
       /\ DOMAIN segs' = Range(sn.segs)
       /\ \A n \in DOMAIN segs' : ~segs'[n].retired /\ ~segs'[n].keep
  BY <1>1, <1>11
<1>13. StoreStates' /\ JobInv'
  BY <1>1, <1>2, <1>3, <1>10 DEF StoreStates, JobInv
<1>14. ManifestInv'
  <2>1. CASE usable
    BY <2>1, <1>1, <1>2 DEF ManifestInv
  <2>2. CASE ~usable
    <3>1. manifest'.gen = 0 /\ manifest'.entries = <<>>
      BY <2>2, <1>1 DEF NoManifest
    <3>2. NamesOf(<<>>) = <<>> /\ Names(<<>>) = {} /\ <<>> \in NameLists
      BY DEF NamesOf, Names, NameLists
    <3> QED
      BY <3>1, <3>2 DEF ManifestInv
  <2> QED
    BY <2>1, <2>2
<1>15. SnapshotInv'
  <2>1. \A g \in Nat : Holding(g)' = {} /\ WriterRefs(g)' = IF g = sn.gen THEN 1 ELSE 0
    BY <1>1, <1>3, StoreAssumption DEF Holding, WriterRefs, Planned, StoreAssumption
  <2>2. \A g \in Nat : References'[g] = IF g = sn.gen THEN 1 ELSE 0
    BY <2>1, FS_EmptySet DEF References
  <2>3. DOMAIN snaps' = {g \in Nat : References'[g] > 0}
    <3>1. \A g \in Nat : References'[g] > 0 <=> g = sn.gen
      BY <2>2
    <3> QED
      BY <3>1, <1>10, <1>12
  <2>4. \A g \in DOMAIN snaps' : snaps'[g].refs = References'[g] /\ g <= cur'
    BY <2>2, <1>1, <1>10, <1>12
  <2> QED
    BY <2>3, <2>4 DEF SnapshotInv, Tallied
<1>16. SegmentInv'
  BY <1>1, <1>10, <1>12 DEF SegmentInv
<1>17. FileInv' /\ PlanInv'
  <2>1. ~Planned'
    BY <1>1, <1>3 DEF Planned
  <2>2. DOMAIN files' = DOMAIN open
    <3>1. DOMAIN Restrict(files, names) = names
      BY DEF Restrict
    <3> QED
      BY <3>1, <1>1, <1>5, <1>8
  <2> QED
    BY <2>1, <2>2, <1>1, <1>10, <1>12 DEF FileInv, PlanInv
<1> QED
  BY <1>13, <1>14, <1>15, <1>16, <1>17 DEF StoreInv

\* The invariant speaks of the variables only.
LEMMA StoreStutters ==
    ASSUME StoreInv, UNCHANGED storeVars
    PROVE  StoreInv'
<1>1. /\ files' = files /\ manifest' = manifest /\ strays' = strays
      /\ up' = up /\ cur' = cur /\ snaps' = snaps /\ segs' = segs /\ held' = held /\ job' = job
  BY DEF storeVars, disk, memory
<1>2. /\ References' = References /\ Planned' = Planned /\ WrittenNames' = WrittenNames /\ Fresh' = Fresh
  BY <1>1 DEF References, Holding, WriterRefs, Planned, WrittenNames, Fresh
<1> QED
  BY <1>1, <1>2 DEF StoreInv, StoreStates, SnapshotInv, SegmentInv, FileInv, PlanInv, JobInv, ManifestInv

\* Every step keeps the invariant.
LEMMA StoreStep ==
    ASSUME StoreInv, [StoreNext]_storeVars
    PROVE  StoreInv'
<1>1. ASSUME OpenStore PROVE StoreInv'
  BY <1>1, StoreOpen
<1>2. ASSUME Compact PROVE StoreInv'
  BY <1>2, StoreCompact
<1>3. ASSUME Import PROVE StoreInv'
  BY <1>3, StoreImport
<1>4. ASSUME NEW b \in Batches, Overlay(b) PROVE StoreInv'
  BY <1>4, StoreOverlay
<1>5. ASSUME NEW b \in Builds, Base(b) PROVE StoreInv'
  BY <1>5, StoreBase
<1>6. ASSUME NEW i \in Fresh, WriteSegment(i) PROVE StoreInv'
  BY <1>6, StoreWriteSegment
<1>7. ASSUME NEW i \in Fresh, WriteFails(i) PROVE StoreInv'
  BY <1>7, StoreWriteFails
<1>8. ASSUME PublishManifest PROVE StoreInv'
  BY <1>8, StorePublishManifest
<1>9. ASSUME ManifestFails PROVE StoreInv'
  BY <1>9, StoreManifestFails
<1>10. ASSUME Swap PROVE StoreInv'
  BY <1>10, StoreSwap
<1>11. ASSUME ReleasePrevious PROVE StoreInv'
  BY <1>11, StoreReleasePrevious
<1>12. ASSUME SaveMeta PROVE StoreInv'
  BY <1>12, StoreSaveMeta
<1>13. ASSUME Close PROVE StoreInv'
  BY <1>13, StoreClose
<1>14. ASSUME Crash PROVE StoreInv'
  BY <1>14, StoreCrash
<1>15. ASSUME NEW r \in Readers, Snapshot(r) PROVE StoreInv'
  BY <1>15, StoreSnapshot
<1>16. ASSUME NEW r \in Readers, Done(r) PROVE StoreInv'
  BY <1>16, StoreDone
<1>17. ASSUME UNCHANGED storeVars PROVE StoreInv'
  BY <1>17, StoreStutters
<1> QED
  BY <1>1, <1>2, <1>3, <1>4, <1>5, <1>6, <1>7, <1>8, <1>9, <1>10, <1>11, <1>12, <1>13, <1>14,
     <1>15, <1>16, <1>17 DEF StoreNext

\* The inductive invariant of the store.
LEMMA StoreInvariant == StoreSpec => []StoreInv
<1>1. StoreInit => StoreInv
  BY StoreInitially
<1>2. StoreInv /\ [StoreNext]_storeVars => StoreInv'
  BY StoreStep
<1> QED
  BY <1>1, <1>2, PTL DEF StoreSpec

\* The generations in use are in memory: a reference is what keeps a snapshot.
LEMMA InUseTallied ==
    ASSUME StoreInv
    PROVE  InUse \subseteq DOMAIN snaps /\ (job = Idle => DOMAIN snaps = InUse)
<1>1. StoreStates /\ JobInv /\ SnapshotInv
  BY DEF StoreInv
<1>2. InUse = {g \in Nat : Holding(g) # {} \/ (up /\ g = cur)}
  BY <1>1, ReadersUse
<1>3. DOMAIN snaps = {g \in Nat : References[g] > 0}
  BY <1>1 DEF SnapshotInv, Tallied
<1>4. \A g \in Nat : References[g] > 0 <=> Holding(g) # {} \/ WriterRefs(g) # 0
  BY <1>1, ReferencesType
<1>5. \A g \in Nat : up /\ g = cur => WriterRefs(g) # 0
  BY DEF WriterRefs
<1>6. job = Idle => \A g \in Nat : WriterRefs(g) # 0 => up /\ g = cur
  BY DEF WriterRefs, Idle
<1>7. InUse \subseteq DOMAIN snaps
  BY <1>2, <1>3, <1>4, <1>5
<1>8. job = Idle => DOMAIN snaps = InUse
  BY <1>2, <1>3, <1>4, <1>5, <1>6
<1> QED
  BY <1>7, <1>8

\* snapshot.go:18: a segment is released once it is retired and no snapshot uses it.
\* Whatever is published, compacted, imported, failed or closed meanwhile, the
\* segments of a snapshot that a reader holds stay mapped until the reader is done.
THEOREM ReaderCorrectness == StoreSpec => []SegmentsOutliveReaders
<1>1. StoreInv => SegmentsOutliveReaders
  <2> SUFFICES ASSUME StoreInv PROVE SegmentsOutliveReaders
    OBVIOUS
  <2>1. InUse \subseteq DOMAIN snaps
    BY InUseTallied
  <2>2. DOMAIN segs = UNION {Range(snaps[g].segs) : g \in DOMAIN snaps}
    BY DEF StoreInv, SegmentInv, Counted
  <2> QED
    BY <2>1, <2>2 DEF SegmentsOutliveReaders, SegmentsOf
<1> QED
  BY <1>1, StoreInvariant, PTL

\* segRef.release, Snapshot.Release and the failure paths of publish: between jobs
\* the snapshots in memory, the mapped segments and, in an open store, the files are
\* those that somebody uses, and the strays of failed writes.
THEOREM LeakCorrectness == StoreSpec => []NothingLeaks
<1>1. StoreInv => NothingLeaks
  <2> SUFFICES ASSUME StoreInv, job = Idle
               PROVE  /\ DOMAIN snaps = InUse
                      /\ DOMAIN segs = SegmentsOf(InUse)
                      /\ up => DOMAIN files = SegmentsOf(InUse) \cup strays
    BY DEF NothingLeaks
  <2>1. DOMAIN snaps = InUse
    BY InUseTallied
  <2>2. DOMAIN segs = UNION {Range(snaps[g].segs) : g \in DOMAIN snaps}
    BY DEF StoreInv, SegmentInv, Counted
  <2>3. DOMAIN segs = SegmentsOf(InUse)
    BY <2>1, <2>2 DEF SegmentsOf
  <2>4. up => DOMAIN files = (DOMAIN segs) \cup strays
    <3>1. ~Planned
      BY DEF Planned, Idle
    <3> QED
      BY <3>1 DEF StoreInv, FileInv
  <2> QED
    BY <2>1, <2>3, <2>4
<1> QED
  BY <1>1, StoreInvariant, PTL

-----------------------------------------------------------------------------
\* What the segments of a snapshot hold.

\* Sets of records have a size.
LEMMA RecsFinite ==
    ASSUME NEW c, NEW n \in Nat, NEW S \in SUBSET Recs(c, n)
    PROVE  IsFiniteSet(S) /\ Cardinality(S) \in Nat
<1>1. IsFiniteSet(1..n) /\ IsFiniteSet(Paths)
  BY FS_Interval, FilesAssumption DEF FilesAssumption
<1>2. IsFiniteSet((1..n) \X Paths)
  BY <1>1, FS_Product
<1>3. S \in SUBSET ((1..n) \X Paths)
  BY DEF Recs
<1> QED
  BY <1>2, <1>3, FS_Subset, FS_CardinalityType

\* What it is to be a record of a stack.
LEMMA InRecs ==
    ASSUME NEW c, NEW n
    PROVE  /\ \A r \in Recs(c, n) : r = <<r[1], r[2]>> /\ r[1] \in 1..n /\ r[2] \in Paths /\ r[2] \in DOMAIN c[r[1]]
           /\ \A i \in 1..n, p \in Paths : <<i, p>> \in Recs(c, n) <=> p \in DOMAIN c[i]
BY DEF Recs

\* What it is to be a record that no later overlay hides.
LEMMA InSeen ==
    ASSUME NEW c, NEW m, NEW n
    PROVE  /\ \A r \in Seen(c, m, n) : /\ r \in Recs(c, n) /\ c[r[1]][r[2]] # Deleted
                                        /\ \A j \in (m + 1)..n : j > r[1] => r[2] \notin DOMAIN c[j]
           /\ \A i \in 1..n, p \in Paths :
                <<i, p>> \in Seen(c, m, n) <=>
                    /\ p \in DOMAIN c[i] /\ c[i][p] # Deleted
                    /\ \A j \in (m + 1)..n : j > i => p \notin DOMAIN c[j]
BY DEF Recs, Seen

\* One overlay more.
LEMMA ApplyRoutes ==
    ASSUME NEW open, NEW sn, NEW c, c = ContentsOf(open, sn.segs), Stacked(c, sn.los),
           NEW m \in Nat, DOMAIN sn.los = 1..m, NEW n \in Nat, m <= n,
           \A i \in 1..(n + 1) : i \in DOMAIN sn.segs,
           Routes(c, m, n, sn.route)
    PROVE  Routes(c, m, n + 1, Apply(open, sn, n + 1))
<1> DEFINE top == c[n + 1]
           over == sn.route.over
           base(p) == ShardFor(sn.los, p)
           routed == {p \in DOMAIN top : p \in DOMAIN over}
           hidden == {<<over[p].seg, p>> : p \in {q \in routed : ~over[q].deleted}}
           covered == {<<base(p), p>> : p \in {q \in DOMAIN top \ routed :
                        /\ base(q) # 0
                        /\ q \in DOMAIN open[sn.segs[base(q)]].content
                        /\ Live(sn, base(q), q)}}
           shadowed == hidden \cup covered
           gone == {p \in DOMAIN top : top[p] = Deleted}
           new == Apply(open, sn, n + 1)
           S == Seen(c, m, n)
           T == Seen(c, m, n + 1)
           N == {<<n + 1, p>> : p \in DOMAIN top \ gone}
           G == {<<n + 1, p>> : p \in gone}
<1>1. n + 1 \in DOMAIN sn.segs /\ top = open[sn.segs[n + 1]].content
  BY DEF ContentsOf
<1>2. /\ new.over = [p \in DOMAIN top \cup DOMAIN over |->
                       IF p \in DOMAIN top THEN [seg |-> n + 1, deleted |-> top[p] = Deleted] ELSE over[p]]
      /\ new.dead = sn.route.dead \cup shadowed \cup G
      /\ new.nLive = sn.route.nLive - Cardinality(shadowed) + Cardinality(DOMAIN top \ gone)
  BY <1>1 DEF Apply
<1>3. \A i \in 1..(n + 1) : c[i] = open[sn.segs[i]].content /\ DOMAIN c[i] \subseteq Paths
  BY DEF ContentsOf, Stacked, IsContent
<1>4. DOMAIN top \subseteq Paths
  BY <1>3
<1>5. \A k \in 1..m : \A p \in DOMAIN c[k] : c[k][p] # Deleted /\ base(p) = k
  BY DEF Stacked
<1>6. /\ DOMAIN over = {p \in Paths : \E i \in (m + 1)..n : p \in DOMAIN c[i]}
      /\ \A p \in DOMAIN over : Newest(c, m, n, p, over[p])
      /\ sn.route.dead = Recs(c, n) \ S
      /\ sn.route.nLive = Cardinality(S)
  BY DEF Routes
<1>7. \A p : base(p) # 0 => base(p) \in 1..m
  <2>1. sn.los \in Seq(Nat)
    BY DEF Stacked, Rising
  <2>2. sn.los \in Seq(Range(sn.los)) /\ Len(sn.los) = m
    BY <2>1 DEF Range
  <2> QED
    BY <2>2, ShardInRange DEF ShardFor
<1> HIDE DEF top, over, base, gone, new, S, T
<1>8. shadowed = {r \in S : r[2] \in DOMAIN top}
  <2>1. ASSUME NEW r \in hidden PROVE r \in S /\ r[2] \in DOMAIN top
    <3>1. PICK p \in routed : ~over[p].deleted /\ r = <<over[p].seg, p>>
      BY <2>1
    <3>2. p \in Paths /\ p \in DOMAIN top /\ Newest(c, m, n, p, over[p])
      BY <1>4, <1>6
    <3>3. /\ over[p].seg \in 1..n /\ p \in DOMAIN c[over[p].seg] /\ c[over[p].seg][p] # Deleted
          /\ \A j \in (m + 1)..n : j > over[p].seg => p \notin DOMAIN c[j]
      BY <3>1, <3>2 DEF Newest
    <3> QED
      BY <3>1, <3>2, <3>3, InSeen DEF S
  <2>2. ASSUME NEW r \in covered PROVE r \in S /\ r[2] \in DOMAIN top
    <3>1. PICK p \in DOMAIN top \ routed : /\ base(p) # 0 /\ p \in DOMAIN open[sn.segs[base(p)]].content
                                           /\ Live(sn, base(p), p) /\ r = <<base(p), p>>
      BY <2>2
    <3>2. base(p) \in 1..m /\ base(p) \in 1..n /\ p \in Paths
      BY <3>1, <1>4, <1>7
    <3>3. p \in DOMAIN c[base(p)]
      BY <3>1, <3>2, <1>3
    <3>4. <<base(p), p>> \in Recs(c, n)
      BY <3>2, <3>3, InRecs
    <3> QED
      BY <3>1, <3>4, <1>6 DEF Live
  <2>3. ASSUME NEW r \in S, r[2] \in DOMAIN top PROVE r \in shadowed
    <3>1. /\ r = <<r[1], r[2]>> /\ r[1] \in 1..n /\ r[2] \in Paths /\ r[2] \in DOMAIN c[r[1]]
          /\ c[r[1]][r[2]] # Deleted
          /\ \A j \in (m + 1)..n : j > r[1] => r[2] \notin DOMAIN c[j]
      BY InRecs, InSeen DEF S
    <3>2. CASE r[1] > m
      <4>1. r[1] \in (m + 1)..n
        BY <3>1, <3>2
      <4>2. r[2] \in DOMAIN over
        BY <3>1, <4>1, <1>6
      <4>3. Newest(c, m, n, r[2], over[r[2]])
        BY <4>2, <1>6
      <4>4. over[r[2]].seg = r[1]
        <5>1. over[r[2]].seg \in (m + 1)..n /\ r[1] <= over[r[2]].seg /\ r[2] \in DOMAIN c[over[r[2]].seg]
          BY <3>1, <4>1, <4>3 DEF Newest
        <5>2. ~(over[r[2]].seg > r[1])
          BY <3>1, <5>1
        <5> QED
          BY <3>1, <5>1, <5>2
      <4>5. ~over[r[2]].deleted
        BY <3>1, <4>3, <4>4 DEF Newest
      <4>6. r[2] \in routed
        BY <2>3, <4>2
      <4>7. <<over[r[2]].seg, r[2]>> \in hidden
        BY <4>5, <4>6
      <4> QED
        BY <3>1, <4>4, <4>7
    <3>3. CASE ~(r[1] > m)
      <4>1. r[1] \in 1..m /\ base(r[2]) = r[1]
        BY <3>1, <3>3, <1>5
      <4>2. \A j \in (m + 1)..n : r[2] \notin DOMAIN c[j]
        BY <3>1, <4>1
      <4>3. r[2] \notin DOMAIN over
        BY <4>2, <1>6
      <4>4. r[2] \in DOMAIN open[sn.segs[base(r[2])]].content
        BY <3>1, <4>1, <1>3
      <4>5. Live(sn, base(r[2]), r[2])
        BY <3>1, <4>1, <1>6 DEF Live
      <4>6. r[2] \in DOMAIN top \ routed /\ base(r[2]) # 0
        BY <2>3, <4>1, <4>3
      <4>7. <<base(r[2]), r[2]>> \in covered
        BY <4>4, <4>5, <4>6
      <4> QED
        BY <3>1, <4>1, <4>7
    <3> QED
      BY <3>2, <3>3
  <2> HIDE DEF hidden, covered
  <2> QED
    BY <2>1, <2>2, <2>3
<1> HIDE DEF hidden, covered, shadowed
<1>9. \A r : r \in Recs(c, n + 1) <=> r \in Recs(c, n) \/ \E p \in DOMAIN top : r = <<n + 1, p>>
  <2>1. \A i : i \in 1..(n + 1) <=> i \in 1..n \/ i = n + 1
    OBVIOUS
  <2>2. ASSUME NEW r \in Recs(c, n + 1) PROVE r \in Recs(c, n) \/ \E p \in DOMAIN top : r = <<n + 1, p>>
    <3>1. r = <<r[1], r[2]>> /\ r[1] \in 1..(n + 1) /\ r[2] \in Paths /\ r[2] \in DOMAIN c[r[1]]
      BY InRecs
    <3>2. CASE r[1] \in 1..n
      BY <3>1, <3>2, InRecs
    <3>3. CASE r[1] = n + 1
      BY <3>1, <3>3 DEF top
    <3> QED
      BY <2>1, <3>1, <3>2, <3>3
  <2>3. ASSUME NEW r \in Recs(c, n) PROVE r \in Recs(c, n + 1)
    <3>1. r = <<r[1], r[2]>> /\ r[1] \in 1..n /\ r[2] \in Paths /\ r[2] \in DOMAIN c[r[1]]
      BY InRecs
    <3>2. r[1] \in 1..(n + 1)
      BY <3>1, <2>1
    <3> QED
      BY <3>1, <3>2, InRecs
  <2>4. ASSUME NEW p \in DOMAIN top PROVE <<n + 1, p>> \in Recs(c, n + 1)
    <3>1. n + 1 \in 1..(n + 1) /\ p \in Paths
      BY <1>4
    <3> QED
      BY <3>1, InRecs DEF top
  <2> QED
    BY <2>2, <2>3, <2>4
<1>10. \A j : j \in (m + 1)..(n + 1) <=> j \in (m + 1)..n \/ j = n + 1
  OBVIOUS
<1>11. T = (S \ shadowed) \cup N
  <2>1. ASSUME NEW r \in Recs(c, n) PROVE r \in T <=> r \in S /\ r[2] \notin DOMAIN top
    <3>1. r \in Recs(c, n + 1) /\ r[1] \in 1..n
      BY <1>9, InRecs
    <3>2. n + 1 > r[1]
      BY <3>1
    <3>3. r \in T <=> /\ c[r[1]][r[2]] # Deleted
                      /\ \A j \in (m + 1)..(n + 1) : j > r[1] => r[2] \notin DOMAIN c[j]
      BY <3>1 DEF T, Seen
    <3>4. r \in S <=> /\ c[r[1]][r[2]] # Deleted
                      /\ \A j \in (m + 1)..n : j > r[1] => r[2] \notin DOMAIN c[j]
      BY DEF S, Seen
    <3>5. (\A j \in (m + 1)..(n + 1) : j > r[1] => r[2] \notin DOMAIN c[j]) <=>
             (\A j \in (m + 1)..n : j > r[1] => r[2] \notin DOMAIN c[j]) /\ r[2] \notin DOMAIN top
      BY <1>10, <3>2 DEF top
    <3> QED
      BY <3>3, <3>4, <3>5
  <2>2. ASSUME NEW p \in DOMAIN top PROVE <<n + 1, p>> \in T <=> p \notin gone
    <3>1. n + 1 \in 1..(n + 1) /\ p \in Paths
      BY <1>4
    <3>2. \A j \in (m + 1)..(n + 1) : ~(j > n + 1)
      OBVIOUS
    <3>3. <<n + 1, p>> \in T <=> c[n + 1][p] # Deleted
      BY <2>2, <3>1, <3>2, InSeen DEF T, top
    <3> QED
      BY <3>3 DEF gone, top
  <2>3. \A r \in T : r \in Recs(c, n + 1)
    BY DEF T, Seen
  <2>4. \A r \in S : r \in Recs(c, n)
    BY DEF S, Seen
  <2>5. \A p : <<n + 1, p>> \notin Recs(c, n)
    BY InRecs
  <2>6. ASSUME NEW r \in T PROVE r \in (S \ shadowed) \cup N
    <3>1. CASE r \in Recs(c, n)
      BY <2>1, <2>6, <3>1, <1>8
    <3>2. CASE \E p \in DOMAIN top : r = <<n + 1, p>>
      BY <2>2, <2>6, <3>2
    <3> QED
      BY <2>3, <2>6, <3>1, <3>2, <1>9
  <2>7. ASSUME NEW r \in S \ shadowed PROVE r \in T
    BY <2>1, <2>4, <2>7, <1>8
  <2>8. ASSUME NEW r \in N PROVE r \in T
    BY <2>2, <2>8
  <2> QED
    BY <2>6, <2>7, <2>8
<1>12. /\ IsFiniteSet(S) /\ Cardinality(S) \in Nat
       /\ IsFiniteSet(shadowed) /\ shadowed \subseteq S
       /\ IsFiniteSet(S \ shadowed)
  BY <1>8, RecsFinite DEF S, Seen
<1>13. Cardinality(S \ shadowed) = Cardinality(S) - Cardinality(shadowed)
  <2>1. S \cap shadowed = shadowed
    BY <1>12
  <2>2. Cardinality(S \ shadowed) = Cardinality(S) - Cardinality(S \cap shadowed)
    BY <1>12, FS_Difference
  <2> QED
    BY <2>1, <2>2
<1>14. IsFiniteSet(N) /\ Cardinality(N) = Cardinality(DOMAIN top \ gone)
  <2> DEFINE D == DOMAIN top \ gone
             f == [p \in D |-> <<n + 1, p>>]
  <2>1. IsFiniteSet(D)
    BY <1>4, FilesAssumption, FS_Subset DEF FilesAssumption
  <2>2. f \in Bijection(D, N)
    BY DEF Bijection, Injection, Surjection, IsInjective
  <2>3. ExistsBijection(D, N)
    BY <2>2 DEF ExistsBijection
  <2> HIDE DEF D, N, f
  <2> QED
    BY <2>1, <2>3, FS_Bijection DEF D
<1>15. (S \ shadowed) \cap N = {}
  BY <1>12, InRecs DEF S, Seen
<1>16. Cardinality(T) = Cardinality(S) - Cardinality(shadowed) + Cardinality(DOMAIN top \ gone)
  <2>1. Cardinality(T) = Cardinality(S \ shadowed) + Cardinality(N) - Cardinality({})
    BY <1>11, <1>12, <1>14, <1>15, FS_Union
  <2>2. Cardinality({}) = 0
    BY FS_EmptySet
  <2>3. Cardinality(S \ shadowed) \in Nat /\ Cardinality(N) \in Nat
    BY <1>12, <1>14, FS_CardinalityType
  <2> QED
    BY <2>1, <2>2, <2>3, <1>13, <1>14
<1>17. new.dead = Recs(c, n + 1) \ T
  <2>1. S \subseteq Recs(c, n) /\ gone \subseteq DOMAIN top
    BY DEF S, Seen, gone
  <2>2. \A p : <<n + 1, p>> \notin Recs(c, n)
    BY InRecs
  <2>3. ASSUME NEW r PROVE r \in new.dead <=> r \in Recs(c, n + 1) /\ r \notin T
    <3>1. r \in new.dead <=> (r \in Recs(c, n) /\ r \notin S) \/ r \in shadowed \/ \E p \in gone : r = <<n + 1, p>>
      BY <1>2, <1>6
    <3>2. r \in T <=> (r \in S /\ r \notin shadowed) \/ \E p \in DOMAIN top \ gone : r = <<n + 1, p>>
      BY <1>11
    <3>3. CASE r \in Recs(c, n)
      BY <3>1, <3>2, <3>3, <2>1, <2>2, <1>9, <1>12
    <3>4. CASE r \notin Recs(c, n)
      <4>1. r \notin S /\ r \notin shadowed
        BY <2>1, <3>4, <1>12
      <4> QED
        BY <3>1, <3>2, <3>4, <4>1, <2>1, <1>9
    <3> QED
      BY <3>3, <3>4
  <2> QED
    BY <2>3
<1>18. DOMAIN new.over = {p \in Paths : \E i \in (m + 1)..(n + 1) : p \in DOMAIN c[i]}
  <2>1. DOMAIN new.over = DOMAIN top \cup DOMAIN over
    BY <1>2
  <2>2. \A p : p \in DOMAIN top \cup DOMAIN over <=> p \in Paths /\ \E i \in (m + 1)..(n + 1) : p \in DOMAIN c[i]
    BY <1>4, <1>6, <1>10 DEF top
  <2> QED
    BY <2>1, <2>2
<1>19. ASSUME NEW p \in DOMAIN new.over PROVE Newest(c, m, n + 1, p, new.over[p])
  <2>1. CASE p \in DOMAIN top
    <3>1. new.over[p] = [seg |-> n + 1, deleted |-> top[p] = Deleted]
      BY <2>1, <1>2
    <3>2. n + 1 \in (m + 1)..(n + 1) /\ \A i \in (m + 1)..(n + 1) : i <= n + 1
      OBVIOUS
    <3>3. new.over[p].seg = n + 1
      BY <3>1
    <3>5. new.over[p].deleted = (top[p] = Deleted)
      <4> DEFINE b == top[p] = Deleted
      <4>1. new.over[p] = [seg |-> n + 1, deleted |-> b]
        BY <3>1
      <4> HIDE DEF b
      <4>2. new.over[p].deleted = b
        BY <4>1
      <4> QED
        BY <4>2 DEF b
    <3>6. new.over[p].deleted <=> c[n + 1][p] = Deleted
      BY <3>5 DEF top
    <3>4. p \in DOMAIN c[n + 1]
      BY <2>1 DEF top
    <3> QED
      BY <3>2, <3>3, <3>4, <3>6 DEF Newest
  <2>2. CASE p \notin DOMAIN top
    <3>1. p \in DOMAIN over /\ new.over[p] = over[p]
      BY <2>2, <1>2
    <3>2. Newest(c, m, n, p, over[p])
      BY <3>1, <1>6
    <3> QED
      BY <2>2, <3>1, <3>2, <1>10 DEF Newest, top
  <2> QED
    BY <2>1, <2>2
<1>20. new.nLive = Cardinality(T)
  BY <1>2, <1>6, <1>16
<1> QED
  BY <1>17, <1>18, <1>19, <1>20 DEF Routes, T, new

\* The shards alone.
LEMMA ShardRoutes ==
    ASSUME NEW open, NEW names, NEW los, NEW c, c = ContentsOf(open, names), Stacked(c, los),
           NEW m \in Nat, DOMAIN los = 1..m
    PROVE  Routes(c, m, m, ShardRoute(open, names, los))
<1> DEFINE route == ShardRoute(open, names, los)
<1>1. (m + 1)..m = {}
  OBVIOUS
<1>2. \A i \in 1..m : /\ i \in DOMAIN names /\ c[i] = open[names[i]].content
                      /\ DOMAIN c[i] \subseteq Paths
                      /\ \A p \in DOMAIN c[i] : c[i][p] # Deleted
  BY DEF Stacked, ContentsOf, IsContent
<1>3. Seen(c, m, m) = Recs(c, m)
  BY <1>1, <1>2, InRecs DEF Seen
<1>4. Records(open, names, DOMAIN los) = Recs(c, m)
  BY <1>2 DEF Records, Recs
<1>5. route.over = <<>> /\ route.dead = {} /\ route.nLive = Cardinality(Recs(c, m))
  BY <1>4 DEF ShardRoute
<1> HIDE DEF route
<1>6. DOMAIN route.over = {}
  BY <1>5
<1> QED
  BY <1>1, <1>3, <1>5, <1>6 DEF Routes, route

\* There is a function that routes every overlay in turn.
LEMMA RoutesExist ==
    ASSUME NEW open, NEW names, NEW los, Len(los) \in Nat, NEW n \in Nat, Len(los) <= n
    PROVE  \E f : RoutesFrom(f, open, names, los, n)
<1> DEFINE b == Len(los)
           Later(old, i) == Let(old, LAMBDA o : Apply(open, [segs |-> names, los |-> los, route |-> o], i))
           First == ShardRoute(open, names, los)
           Has(f, k) == f = [i \in b..k |-> IF i = b THEN First ELSE Later(f[i - 1], i)]
           Bad == {k \in Nat : b <= k /\ ~\E f : Has(f, k)}
<1>1. \A f, k : RoutesFrom(f, open, names, los, k) <=> Has(f, k)
  BY DEF RoutesFrom
<1> HIDE DEF Later, First, Has
<1> SUFFICES ASSUME Bad # {} PROVE FALSE
  BY <1>1
<1> USE DEF Has
<1>2. PICK k \in Bad : \A j \in Bad : k <= j
  BY LeastNumber
<1>3. k # b
  <2> DEFINE f == [i \in b..b |-> First]
  <2>1. f = [i \in b..b |-> IF i = b THEN First ELSE Later(f[i - 1], i)]
    OBVIOUS
  <2>2. Has(f, b)
    BY <2>1
  <2> QED
    BY <2>2, <1>2
<1>4. k \in Nat /\ k > b /\ k - 1 \in Nat /\ b <= k - 1 /\ k - 1 \notin Bad
  BY <1>2, <1>3
<1>5. PICK g : Has(g, k - 1)
  BY <1>4
<1> DEFINE f == [i \in b..k |-> IF i = k THEN Later(g[k - 1], k) ELSE g[i]]
<1>6. \A i \in b..(k - 1) : i \in b..k /\ i # k /\ f[i] = g[i]
  BY <1>4
<1>7. ASSUME NEW i \in b..k
      PROVE  f[i] = IF i = b THEN First ELSE Later(f[i - 1], i)
  <2>1. CASE i = k
    <3>1. f[i] = Later(g[k - 1], k)
      BY <2>1
    <3>2. k - 1 \in b..(k - 1) /\ i # b
      BY <2>1, <1>4
    <3> HIDE DEF f
    <3>3. f[k - 1] = g[k - 1]
      BY <3>2, <1>6
    <3> QED
      BY <2>1, <3>1, <3>2, <3>3
  <2>2. CASE i # k
    <3>1. i \in b..(k - 1) /\ (i # b => i - 1 \in b..(k - 1))
      BY <2>2, <1>4
    <3>2. g[i] = IF i = b THEN First ELSE Later(g[i - 1], i)
      BY <3>1, <1>5
    <3> HIDE DEF f
    <3>3. i # b => f[i - 1] = g[i - 1]
      BY <3>1, <1>6
    <3>4. f[i] = g[i]
      BY <3>1, <1>6
    <3> QED
      BY <3>2, <3>3, <3>4
  <2> QED
    BY <2>1, <2>2
<1>8. f = [i \in b..k |-> f[i]]
  OBVIOUS
<1> HIDE DEF f
<1>9. Has(f, k)
  BY <1>7, <1>8
<1> QED
  BY <1>2, <1>9

\* What newSnapshot computes.
LEMMA RoutedRoutes ==
    ASSUME NEW open, NEW names, NEW los, NEW c, c = ContentsOf(open, names), Stacked(c, los),
           NEW m \in Nat, m = Len(los), NEW n \in Nat, n = Len(names), m <= n, DOMAIN names = 1..n
    PROVE  Routes(c, m, n, Routed(open, names, los))
<1> DEFINE f == CHOOSE g : RoutesFrom(g, open, names, los, n)
           Bad == {i \in Nat : m <= i /\ i <= n /\ ~Routes(c, m, i, f[i])}
<1>1. Routed(open, names, los) = f[n]
  BY DEF Routed, RoutesFrom
<1>2. RoutesFrom(f, open, names, los, n)
  BY RoutesExist
<1>3. DOMAIN los = 1..m
  BY DEF Stacked, Rising
<1> HIDE DEF f
<1>4. f[m] = ShardRoute(open, names, los)
  <2>1. m \in m..n
    OBVIOUS
  <2> QED
    BY <2>1, <1>2 DEF RoutesFrom
<1>5. Routes(c, m, m, f[m])
  BY <1>3, <1>4, ShardRoutes
<1>6. ASSUME NEW i \in Nat, m < i, i <= n, Routes(c, m, i - 1, f[i - 1])
      PROVE  Routes(c, m, i, f[i])
  <2> DEFINE sn == [segs |-> names, los |-> los, route |-> f[i - 1]]
  <2>1. f[i] = Apply(open, sn, i)
    <3>1. i \in m..n /\ i # m
      BY <1>6
    <3>2. f[i] = Let(f[i - 1], LAMBDA old : Apply(open, [segs |-> names, los |-> los, route |-> old], i))
      BY <3>1, <1>2 DEF RoutesFrom
    <3> QED
      BY <3>2 DEF Let
  <2>2. sn.segs = names /\ sn.los = los /\ sn.route = f[i - 1]
    OBVIOUS
  <2> HIDE DEF sn
  <2>3. i - 1 \in Nat /\ m <= i - 1 /\ i - 1 + 1 = i /\ \A j \in 1..i : j \in DOMAIN names
    BY <1>6
  <2>4. Routes(c, m, i - 1 + 1, Apply(open, sn, i - 1 + 1))
    BY <1>3, <1>6, <2>2, <2>3, ApplyRoutes
  <2> QED
    BY <2>1, <2>3, <2>4
<1>7. Bad = {}
  <2> SUFFICES ASSUME Bad # {} PROVE FALSE
    OBVIOUS
  <2>1. PICK i \in Bad : \A j \in Bad : i <= j
    BY LeastNumber
  <2>2. i # m
    BY <2>1, <1>5
  <2>3. i \in Nat /\ m < i /\ i <= n /\ i - 1 \in Nat /\ i - 1 \notin Bad /\ ~Routes(c, m, i, f[i])
    BY <2>1, <2>2
  <2>4. Routes(c, m, i - 1, f[i - 1])
    BY <2>3
  <2> QED
    BY <2>3, <2>4, <1>6
<1>8. Routes(c, m, n, f[n])
  BY <1>7
<1> QED
  BY <1>1, <1>8

\* Of the numbers up to n there are no more than n.
LEMMA FewerNumbers ==
    ASSUME NEW n \in Nat, NEW S \in SUBSET (1..n)
    PROVE  IsFiniteSet(S) /\ Cardinality(S) \in Nat /\ Cardinality(S) <= n
<1>1. IsFiniteSet(1..n) /\ Cardinality(1..n) = n
  BY FS_Interval
<1>2. IsFiniteSet(S) /\ Cardinality(S) <= Cardinality(1..n)
  BY <1>1, FS_Subset
<1>3. Cardinality(S) \in Nat
  BY <1>2, FS_CardinalityType
<1> QED
  BY <1>1, <1>2, <1>3

\* A bounded set of numbers has a greatest one.
LEMMA GreatestNumber ==
    ASSUME NEW n \in Nat, NEW S \in SUBSET (1..n), S # {}
    PROVE  \E x \in S : \A y \in S : y <= x
<1> DEFINE T == {k \in Nat : n - k \in S}
<1>1. T # {}
  <2>1. PICK x \in S : TRUE
    OBVIOUS
  <2>2. n - x \in Nat /\ n - (n - x) = x
    OBVIOUS
  <2> QED
    BY <2>2
<1>2. PICK k \in T : \A j \in T : k <= j
  BY <1>1, LeastNumber
<1>3. n - k \in S
  BY <1>2
<1>4. ASSUME NEW y \in S PROVE y <= n - k
  <2>1. n - y \in Nat /\ n - (n - y) = y
    OBVIOUS
  <2>2. n - y \in T
    BY <2>1
  <2>3. k <= n - y
    BY <2>2, <1>2
  <2> QED
    BY <2>1, <2>3, <1>2
<1> QED
  BY <1>3, <1>4

\* What a stack shows of a path is what its newest segment with that path holds.
LEMMA VisibleAt ==
    ASSUME NEW c, NEW n \in Nat, DOMAIN c = 1..n, NEW p \in Paths
    PROVE  /\ Holders(c, p) = {} => Visible(c)[p] = Deleted
           /\ \A i \in 1..n : p \in DOMAIN c[i] /\ (\A j \in 1..n : j > i => p \notin DOMAIN c[j]) =>
                Visible(c)[p] = c[i][p]
           /\ Holders(c, p) # {} =>
                \E i \in 1..n : p \in DOMAIN c[i] /\ \A j \in 1..n : j > i => p \notin DOMAIN c[j]
<1> DEFINE H == Holders(c, p)
<1>1. H \in SUBSET (1..n) /\ \A i \in 1..n : i \in H <=> p \in DOMAIN c[i]
  BY DEF Holders
<1>2. Visible(c)[p] = IF H = {} THEN Deleted ELSE c[Max(H)][p]
  BY DEF Visible
<1> HIDE DEF H
<1>3. ASSUME NEW i \in 1..n, p \in DOMAIN c[i], \A j \in 1..n : j > i => p \notin DOMAIN c[j]
      PROVE  Visible(c)[p] = c[i][p]
  <2>1. i \in H /\ \A j \in H : i >= j
    BY <1>1, <1>3
  <2>2. Max(H) \in H /\ \A j \in H : Max(H) >= j
    BY <2>1 DEF Max
  <2>3. Max(H) = i
    <3> DEFINE x == Max(H)
    <3>1. x \in 1..n /\ x >= i /\ i >= x
      BY <2>1, <2>2, <1>1
    <3> HIDE DEF x
    <3>2. x = i
      BY <3>1
    <3> QED
      BY <3>2 DEF x
  <2> QED
    BY <2>1, <2>3, <1>2
<1>4. ASSUME H # {}
      PROVE  \E i \in 1..n : p \in DOMAIN c[i] /\ \A j \in 1..n : j > i => p \notin DOMAIN c[j]
  <2>1. PICK i \in H : \A j \in H : j <= i
    BY <1>1, <1>4, GreatestNumber
  <2> QED
    BY <2>1, <1>1
<1> QED
  BY <1>2, <1>3, <1>4 DEF H

\* The lists of a snapshot have lengths.
LEMMA SnapshotLengths ==
    ASSUME NEW sn, IsSnapshot(sn)
    PROVE  /\ Len(sn.segs) \in Nat /\ DOMAIN sn.segs = 1..Len(sn.segs)
           /\ Len(sn.los) \in Nat /\ DOMAIN sn.los = 1..Len(sn.los)
           /\ Len(sn.los) <= Len(sn.segs)
BY DEF IsSnapshot, NameLists

\* A path belongs to a shard, or there is none.
LEMMA ShardForIndex ==
    ASSUME NEW los, los \in Seq(Nat), NEW p
    PROVE  ShardFor(los, p) = 0 \/ ShardFor(los, p) \in DOMAIN los
<1>1. los \in Seq(Range(los)) /\ DOMAIN los = 1..Len(los)
  BY DEF Range
<1> QED
  BY <1>1, ShardInRange DEF ShardFor

\* Lookup finds what is visible.
LEMMA LookupVisible ==
    ASSUME NEW open, NEW sn, IsSnapshot(sn), Sound(open, sn), NEW p \in Paths
    PROVE  Lookup(open, sn, p) = Visible(ContentsOf(open, sn.segs))[p]
<1> DEFINE c == ContentsOf(open, sn.segs)
           m == Len(sn.los)
           n == Len(sn.segs)
           over == sn.route.over
           k == ShardFor(sn.los, p)
<1>1. n \in Nat /\ DOMAIN sn.segs = 1..n /\ m \in Nat /\ DOMAIN sn.los = 1..m /\ m <= n
  BY SnapshotLengths
<1>2. DOMAIN c = 1..n /\ \A i \in 1..n : c[i] = open[sn.segs[i]].content
  BY <1>1 DEF ContentsOf
<1>3. Stacked(c, sn.los) /\ Routes(c, m, n, sn.route)
  BY DEF Sound
<1>4. /\ DOMAIN over = {q \in Paths : \E i \in (m + 1)..n : q \in DOMAIN c[i]}
      /\ \A q \in DOMAIN over : Newest(c, m, n, q, over[q])
  BY <1>3 DEF Routes
<1>5. \A i \in 1..m : p \in DOMAIN c[i] => k = i
  BY <1>1, <1>3 DEF Stacked
<1>6. k = 0 \/ k \in 1..m
  BY <1>1, <1>3, ShardForIndex DEF Stacked, Rising
<1> HIDE DEF c, m, n, k
<1>7. CASE p \in DOMAIN over
  <2> DEFINE s == over[p].seg
  <2>1. Newest(c, m, n, p, over[p])
    BY <1>4, <1>7
  <2>2. /\ s \in 1..n /\ p \in DOMAIN c[s] /\ (over[p].deleted <=> c[s][p] = Deleted)
        /\ \A j \in 1..n : j > s => p \notin DOMAIN c[j]
    BY <2>1, <1>1 DEF Newest
  <2>3. Visible(c)[p] = c[s][p]
    <3> HIDE DEF s, over
    <3> QED
      BY <2>2, <1>1, <1>2, VisibleAt
  <2>4. Lookup(open, sn, p) = IF over[p].deleted THEN Deleted ELSE open[sn.segs[s]].content[p]
    BY <1>7 DEF Lookup
  <2>5. c[s] = open[sn.segs[s]].content
    BY <2>2, <1>2
  <2> HIDE DEF over, s
  <2> QED
    BY <2>2, <2>3, <2>4, <2>5 DEF c
<1>8. CASE p \notin DOMAIN over
  <2>1. \A i \in (m + 1)..n : p \notin DOMAIN c[i]
    BY <1>4, <1>8
  <2>2. \A i \in 1..n : p \in DOMAIN c[i] => i \in 1..m /\ i = k
    BY <2>1, <1>1, <1>5
  <2>3. Lookup(open, sn, p) = IF k # 0 /\ p \in DOMAIN open[sn.segs[k]].content
                              THEN open[sn.segs[k]].content[p] ELSE Deleted
    BY <1>8 DEF Lookup, k
  <2>4. CASE k # 0 /\ p \in DOMAIN open[sn.segs[k]].content
    <3>1. k \in 1..n /\ c[k] = open[sn.segs[k]].content /\ p \in DOMAIN c[k]
      BY <2>4, <1>1, <1>2, <1>6
    <3>2. \A j \in 1..n : j > k => p \notin DOMAIN c[j]
      BY <2>2, <3>1
    <3>3. Visible(c)[p] = c[k][p]
      BY <3>1, <3>2, <1>1, <1>2, VisibleAt
    <3> QED
      BY <2>3, <2>4, <3>1, <3>3 DEF c
  <2>5. CASE ~(k # 0 /\ p \in DOMAIN open[sn.segs[k]].content)
    <3>1. \A i \in 1..n : p \notin DOMAIN c[i]
      BY <2>2, <2>5, <1>1, <1>2
    <3>2. Holders(c, p) = {}
      BY <3>1, <1>2 DEF Holders
    <3>3. Visible(c)[p] = Deleted
      BY <3>2, <1>1, <1>2, VisibleAt
    <3> QED
      BY <2>3, <2>5, <3>3 DEF c
  <2> QED
    BY <2>4, <2>5
<1> QED
  BY <1>7, <1>8

\* Every path has one live record, the one that Lookup finds, and nLive counts them.
LEMMA SoundReads ==
    ASSUME NEW open, NEW sn, IsSnapshot(sn), Sound(open, sn)
    PROVE  LET refs == LiveRefs(open, sn)
           IN /\ sn.route.nLive = Cardinality(refs)
              /\ \A p \in Paths :
                   {open[sn.segs[r[1]]].content[p] : r \in {q \in refs : q[2] = p}} =
                   {Lookup(open, sn, p)} \ {Deleted}
              /\ \A r \in refs, q \in refs : r[2] = q[2] => r = q
<1> DEFINE refs == LiveRefs(open, sn)
           c == ContentsOf(open, sn.segs)
           m == Len(sn.los)
           n == Len(sn.segs)
<1>1. n \in Nat /\ DOMAIN sn.segs = 1..n /\ m \in Nat /\ DOMAIN sn.los = 1..m /\ m <= n
  BY SnapshotLengths
<1>2. DOMAIN c = 1..n /\ \A i \in 1..n : c[i] = open[sn.segs[i]].content
  BY <1>1 DEF ContentsOf
<1>3. Stacked(c, sn.los) /\ Routes(c, m, n, sn.route)
  BY DEF Sound
<1>4. \A i \in 1..n : DOMAIN c[i] \subseteq Paths
  BY <1>2, <1>3 DEF Stacked, IsContent
<1>5. \A i \in 1..m : \A p \in DOMAIN c[i] : ShardFor(sn.los, p) = i
  BY <1>1, <1>3 DEF Stacked
<1>6. sn.route.dead = Recs(c, n) \ Seen(c, m, n) /\ sn.route.nLive = Cardinality(Seen(c, m, n))
  BY <1>3 DEF Routes
<1>15. \A p \in Paths : Lookup(open, sn, p) = Visible(c)[p]
  BY LookupVisible
<1> HIDE DEF c, m, n
<1>7. Records(open, sn.segs, DOMAIN sn.segs) = Recs(c, n)
  <2>1. \A r : r \in Records(open, sn.segs, DOMAIN sn.segs) <=> \E i \in 1..n : r \in {i} \X DOMAIN c[i]
    BY <1>1, <1>2 DEF Records
  <2> QED
    BY <2>1, <1>4 DEF Recs
<1>8. refs = Seen(c, m, n)
  <2>1. refs = {r \in Recs(c, n) : <<r[1], r[2]>> \notin sn.route.dead}
    BY <1>7 DEF LiveRefs, Live
  <2>2. \A r \in Recs(c, n) : r = <<r[1], r[2]>>
    BY InRecs
  <2>3. Seen(c, m, n) \subseteq Recs(c, n)
    BY DEF Seen
  <2> HIDE DEF refs
  <2> QED
    BY <2>1, <2>2, <2>3, <1>6
<1> HIDE DEF refs
<1>9. \A r \in refs : /\ r = <<r[1], r[2]>> /\ r[1] \in 1..n /\ r[2] \in Paths /\ r[2] \in DOMAIN c[r[1]]
                      /\ c[r[1]][r[2]] # Deleted
                      /\ \A j \in (m + 1)..n : j > r[1] => r[2] \notin DOMAIN c[j]
  BY <1>8, InRecs, InSeen
<1>10. ASSUME NEW r \in refs PROVE \A j \in 1..n : j > r[1] => r[2] \notin DOMAIN c[j]
  <2> SUFFICES ASSUME NEW j \in 1..n, j > r[1], r[2] \in DOMAIN c[j] PROVE FALSE
    OBVIOUS
  <2>1. j \notin (m + 1)..n
    BY <1>9
  <2>2. j \in 1..m /\ r[1] \in 1..m
    BY <2>1, <1>1, <1>9
  <2>3. ShardFor(sn.los, r[2]) = j /\ ShardFor(sn.los, r[2]) = r[1]
    BY <2>2, <1>5, <1>9
  <2> QED
    BY <2>3, <1>1, <1>9
<1>11. \A r \in refs : c[r[1]][r[2]] = Visible(c)[r[2]]
  BY <1>1, <1>2, <1>9, <1>10, VisibleAt
<1>12. \A r \in refs, q \in refs : r[2] = q[2] => r = q
  <2> SUFFICES ASSUME NEW r \in refs, NEW q \in refs, r[2] = q[2] PROVE r = q
    OBVIOUS
  <2>1. ~(r[1] > q[1]) /\ ~(q[1] > r[1])
    BY <1>9, <1>10
  <2>2. r[1] = q[1]
    BY <2>1, <1>1, <1>9
  <2> QED
    BY <2>2, <1>9
<1>13. ASSUME NEW p \in Paths, Visible(c)[p] # Deleted PROVE \E r \in refs : r[2] = p
  <2>1. Holders(c, p) # {}
    BY <1>1, <1>2, <1>13, VisibleAt
  <2>2. PICK i \in 1..n : p \in DOMAIN c[i] /\ \A j \in 1..n : j > i => p \notin DOMAIN c[j]
    BY <2>1, <1>1, <1>2, VisibleAt
  <2>3. Visible(c)[p] = c[i][p]
    BY <2>2, <1>1, <1>2, VisibleAt
  <2>4. \A j \in (m + 1)..n : j > i => p \notin DOMAIN c[j]
    BY <2>2, <1>1
  <2>5. <<i, p>> \in refs
    BY <2>2, <2>3, <2>4, <1>8, <1>13, InSeen
  <2> QED
    BY <2>5
<1>14. ASSUME NEW p \in Paths
       PROVE  {open[sn.segs[r[1]]].content[p] : r \in {q \in refs : q[2] = p}} = {Lookup(open, sn, p)} \ {Deleted}
  <2>1. Lookup(open, sn, p) = Visible(c)[p]
    BY <1>15
  <2>2. \A r \in refs : r[2] = p => open[sn.segs[r[1]]].content[p] = Visible(c)[p] /\ Visible(c)[p] # Deleted
    BY <1>2, <1>9, <1>11
  <2> QED
    BY <2>1, <2>2, <1>13
<1> QED
  BY <1>6, <1>8, <1>12, <1>14 DEF refs

\* Soundness speaks of the contents only.
LEMMA SoundFor ==
    ASSUME NEW open, NEW open2, NEW sn, Sound(open, sn),
           \A i \in DOMAIN sn.segs : open2[sn.segs[i]].content = open[sn.segs[i]].content,
           NEW sn2, sn2.segs = sn.segs, sn2.los = sn.los, sn2.route = sn.route
    PROVE  Sound(open2, sn2)
<1>1. ContentsOf(open2, sn2.segs) = ContentsOf(open, sn.segs)
  BY DEF ContentsOf
<1> QED
  BY <1>1 DEF Sound

\* What newSnapshot returns for sound segments is sound.
LEMMA NewSnapshotSound ==
    ASSUME NEW open, NEW gen, NEW names, names \in NameLists, NEW los, NEW whole,
           Stacked(ContentsOf(open, names), los)
    PROVE  Sound(open, NewSnapshot(open, gen, names, los, whole))
<1> DEFINE c == ContentsOf(open, names)
           m == Len(los)
           n == Len(names)
           sn == NewSnapshot(open, gen, names, los, whole)
<1>1. n \in Nat /\ DOMAIN names = 1..n /\ DOMAIN c = 1..n
  BY DEF NameLists, ContentsOf
<1>2. m \in Nat /\ DOMAIN los = 1..m
  BY DEF Stacked, Rising
<1>3. m <= n
  <2>1. 1..m \subseteq 1..n
    BY <1>1, <1>2 DEF Stacked
  <2>2. m # 0 => m \in 1..m
    BY <1>2
  <2> QED
    BY <2>1, <2>2, <1>1, <1>2
<1>4. Routes(c, m, n, Routed(open, names, los))
  BY <1>1, <1>2, <1>3, RoutedRoutes
<1>5. sn.segs = names /\ sn.los = los /\ sn.route = Routed(open, names, los)
  BY DEF NewSnapshot
<1> HIDE DEF sn
<1> QED
  BY <1>4, <1>5 DEF Sound, sn

\* One segment more on a stack.
LEMMA StackOneMore ==
    ASSUME NEW c, NEW c2, NEW los, Stacked(c, los), NEW n \in Nat, DOMAIN c = 1..n, DOMAIN c2 = 1..(n + 1),
           \A i \in 1..n : c2[i] = c[i], IsContent(c2[n + 1])
    PROVE  /\ Stacked(c2, los)
           /\ \A m, route : Routes(c, m, n, route) /\ m \in Nat => Routes(c2, m, n, route)
<1>1. \A i \in 1..(n + 1) : i \in 1..n \/ i = n + 1
  OBVIOUS
<1>2. 1..n \subseteq 1..(n + 1)
  OBVIOUS
<1>3. Stacked(c2, los)
  BY <1>1, <1>2 DEF Stacked
<1>4. ASSUME NEW m \in Nat, NEW route, Routes(c, m, n, route)
      PROVE  Routes(c2, m, n, route)
  <2>1. Recs(c2, n) = Recs(c, n)
    BY DEF Recs
  <2>2. (m + 1)..n \subseteq 1..n
    OBVIOUS
  <2>3. Seen(c2, m, n) = Seen(c, m, n)
    <3>1. \A r \in Recs(c, n) : c2[r[1]] = c[r[1]]
      BY InRecs
    <3>2. \A j \in (m + 1)..n : c2[j] = c[j]
      BY <2>2
    <3> QED
      BY <2>1, <3>1, <3>2 DEF Seen
  <2>4. \A p, to : Newest(c, m, n, p, to) => Newest(c2, m, n, p, to)
    BY <2>2 DEF Newest
  <2>5. {p \in Paths : \E i \in (m + 1)..n : p \in DOMAIN c2[i]} = {p \in Paths : \E i \in (m + 1)..n : p \in DOMAIN c[i]}
    BY <2>2
  <2> QED
    BY <1>4, <2>1, <2>3, <2>4, <2>5 DEF Routes
<1> QED
  BY <1>3, <1>4

\* What withOverlay returns is sound.
LEMMA WithOverlaySound ==
    ASSUME NEW open, NEW old, IsSnapshot(old), Sound(open, old), NEW gen, NEW top,
           Append(old.segs, top) \in NameLists, IsContent(open[top].content)
    PROVE  Sound(open, WithOverlay(open, old, gen, top))
<1> DEFINE bare == [old EXCEPT !.gen = gen, !.segs = Append(@, top), !.refs = 1]
           sn == WithOverlay(open, old, gen, top)
           names == Append(old.segs, top)
           c == ContentsOf(open, old.segs)
           c2 == ContentsOf(open, names)
           m == Len(old.los)
           n == Len(old.segs)
<1>1. n \in Nat /\ DOMAIN old.segs = 1..n /\ m \in Nat /\ DOMAIN old.los = 1..m /\ m <= n
  BY SnapshotLengths
<1>2. DOMAIN old = {"gen", "segs", "los", "route", "refs", "whole"} /\ old.segs \in Seq(SegNames)
  BY DEF IsSnapshot, NameLists
<1>3. bare.segs = names /\ bare.los = old.los /\ bare.route = old.route
      /\ DOMAIN bare = {"gen", "segs", "los", "route", "refs", "whole"}
  BY <1>2
<1>4. /\ Len(names) = n + 1 /\ DOMAIN names = 1..(n + 1)
      /\ names[n + 1] = top /\ \A i \in 1..n : names[i] = old.segs[i]
  BY <1>1, <1>2
<1>5. sn = [bare EXCEPT !.route = Apply(open, bare, Len(bare.segs))]
  BY DEF WithOverlay
<1> HIDE DEF sn, bare, names
<1>6. sn.segs = names /\ sn.los = old.los /\ sn.route = Apply(open, bare, n + 1)
  BY <1>3, <1>4, <1>5
<1>7. /\ DOMAIN c = 1..n /\ DOMAIN c2 = 1..(n + 1)
      /\ \A i \in 1..n : c2[i] = c[i]
      /\ c2[n + 1] = open[top].content
  <2>1. \A i \in 1..n : i \in 1..(n + 1)
    BY <1>1
  <2>2. n + 1 \in 1..(n + 1)
    BY <1>1
  <2> QED
    BY <2>1, <2>2, <1>1, <1>4 DEF ContentsOf
<1>8. Stacked(c, old.los) /\ Routes(c, m, n, old.route)
  BY DEF Sound
<1> HIDE DEF c, m, n
<1>9. c2 = ContentsOf(open, bare.segs)
  BY <1>3
<1> HIDE DEF c2
<1>10. Stacked(c2, old.los) /\ Routes(c2, m, n, old.route)
  BY <1>1, <1>7, <1>8, StackOneMore
<1>11. Routes(c2, m, n + 1, Apply(open, bare, n + 1))
  <2>1. \A i \in 1..(n + 1) : i \in DOMAIN bare.segs
    BY <1>3, <1>4
  <2>2. Stacked(c2, bare.los) /\ DOMAIN bare.los = 1..m /\ Routes(c2, m, n, bare.route)
    BY <1>1, <1>3, <1>10
  <2> QED
    BY <1>1, <1>9, <2>1, <2>2, ApplyRoutes
<1> QED
  BY <1>3, <1>4, <1>6, <1>9, <1>10, <1>11 DEF Sound, sn, m

\* The manifest entries of a snapshot tell its shards.
LEMMA EntriesTell ==
    ASSUME NEW sn, IsSnapshot(sn), Rising(sn.los)
    PROVE  /\ DOMAIN Entries(sn) = DOMAIN sn.segs
           /\ \A i \in DOMAIN sn.segs : Entries(sn)[i].name = sn.segs[i]
           /\ ShardCount(Entries(sn)) = Len(sn.los)
           /\ LosOf(Entries(sn)) = sn.los
           /\ InOrder(Entries(sn))
<1> DEFINE e == Entries(sn)
           m == Len(sn.los)
           n == Len(sn.segs)
<1>1. n \in Nat /\ DOMAIN sn.segs = 1..n /\ m \in Nat /\ DOMAIN sn.los = 1..m /\ m <= n
  BY SnapshotLengths
<1>2. /\ DOMAIN e = 1..n
      /\ \A i \in 1..n : /\ e[i].name = sn.segs[i]
                         /\ e[i].kind = "shard" <=> i <= m
                         /\ i <= m => e[i].lo = sn.los[i]
  BY <1>1 DEF Entries
<1> HIDE DEF e
<1>3. {i \in DOMAIN e : e[i].kind = "shard"} = 1..m
  <2>1. \A i : i \in 1..m <=> i \in 1..n /\ i <= m
    BY <1>1
  <2> QED
    BY <2>1, <1>2
<1>4. ShardCount(e) = m
  <2>1. Cardinality(1..m) = m
    BY <1>1, FS_Interval
  <2> QED
    BY <2>1, <1>3 DEF ShardCount
<1>5. \A i \in 1..m : i \in 1..n /\ i <= m
  BY <1>1
<1>6. LosOf(e) = sn.los
  <2>1. LosOf(e) = [i \in 1..m |-> e[i].lo]
    BY <1>4 DEF LosOf
  <2>2. sn.los = [i \in 1..m |-> sn.los[i]]
    BY <1>1 DEF Rising
  <2> QED
    BY <2>1, <2>2, <1>2, <1>5
<1>7. InOrder(e)
  <2> SUFFICES ASSUME NEW i \in 1..m
               PROVE  e[i].kind = "shard" /\ IF i = 1 THEN e[i].lo = 0 ELSE e[i].lo > e[i - 1].lo
    BY <1>4 DEF InOrder
  <2>1. e[i].kind = "shard" /\ e[i].lo = sn.los[i]
    BY <1>2, <1>5
  <2>2. CASE i = 1
    BY <2>1, <2>2, <1>1 DEF Rising
  <2>3. CASE i # 1
    <3>1. i - 1 \in 1..m /\ i - 1 < i
      BY <1>1, <2>3
    <3>2. e[i - 1].lo = sn.los[i - 1]
      BY <3>1, <1>2, <1>5
    <3>3. sn.los \in Seq(Nat) /\ i - 1 \in DOMAIN sn.los /\ i \in DOMAIN sn.los
      BY <3>1, <1>1 DEF Rising
    <3>4. sn.los[i - 1] \in Nat /\ sn.los[i] \in Nat
      BY <3>3
    <3>5. sn.los[i - 1] < sn.los[i]
      BY <3>1, <3>3 DEF Rising
    <3> QED
      BY <2>1, <2>3, <3>2, <3>4, <3>5
  <2> QED
    BY <2>2, <2>3
<1> QED
  BY <1>1, <1>2, <1>4, <1>6, <1>7 DEF e

\* ... and those of pieces what the pieces say.
LEMMA EntriesOfTell ==
    ASSUME NEW pieces, NEW n \in Nat, DOMAIN pieces = 1..n
    PROVE  /\ DOMAIN EntriesOf(pieces) = 1..n
           /\ \A i \in 1..n : /\ EntriesOf(pieces)[i].name = pieces[i].name
                              /\ EntriesOf(pieces)[i].kind = pieces[i].kind
                              /\ EntriesOf(pieces)[i].lo = pieces[i].lo
           /\ ShardCount(pieces) \in Nat /\ ShardCount(pieces) <= n
           /\ ShardCount(EntriesOf(pieces)) = ShardCount(pieces)
           /\ LosOf(EntriesOf(pieces)) = LosOf(pieces)
           /\ InOrder(pieces) => InOrder(EntriesOf(pieces))
<1> DEFINE e == EntriesOf(pieces)
           count == ShardCount(pieces)
<1>1. /\ DOMAIN e = 1..n
      /\ \A i \in 1..n : e[i].name = pieces[i].name /\ e[i].kind = pieces[i].kind /\ e[i].lo = pieces[i].lo
  BY DEF EntriesOf
<1> HIDE DEF e
<1>2. {i \in DOMAIN e : e[i].kind = "shard"} = {i \in DOMAIN pieces : pieces[i].kind = "shard"}
  BY <1>1
<1>3. ShardCount(e) = count
  BY <1>2 DEF ShardCount
<1>4. count \in Nat /\ count <= n
  <2> DEFINE S == {i \in DOMAIN pieces : pieces[i].kind = "shard"}
  <2>1. S \in SUBSET (1..n) /\ count = Cardinality(S)
    BY DEF ShardCount
  <2> HIDE DEF S, count
  <2> QED
    BY <2>1, FewerNumbers
<1>5. \A i \in 1..count : i \in 1..n
  BY <1>4
<1>6. LosOf(e) = LosOf(pieces)
  BY <1>1, <1>3, <1>5 DEF LosOf
<1>7. ASSUME InOrder(pieces) PROVE InOrder(e)
  <2> SUFFICES ASSUME NEW i \in 1..count
               PROVE  e[i].kind = "shard" /\ IF i = 1 THEN e[i].lo = 0 ELSE e[i].lo > e[i - 1].lo
    BY <1>3 DEF InOrder
  <2>1. pieces[i].kind = "shard" /\ IF i = 1 THEN pieces[i].lo = 0 ELSE pieces[i].lo > pieces[i - 1].lo
    BY <1>7 DEF InOrder
  <2>2. i # 1 => i - 1 \in 1..count
    BY <1>4
  <2> QED
    BY <2>1, <2>2, <1>1, <1>5
<1> QED
  BY <1>1, <1>3, <1>4, <1>6, <1>7 DEF e

\* An overlay's entry on top changes nothing below.
LEMMA EntriesOneMore ==
    ASSUME NEW e, NEW n \in Nat, DOMAIN e = 1..n, NEW e2, DOMAIN e2 = 1..(n + 1),
           \A i \in 1..n : e2[i] = e[i], e2[n + 1].kind = "overlay"
    PROVE  /\ LosOf(e2) = LosOf(e)
           /\ InOrder(e) => InOrder(e2)
<1> DEFINE S == {i \in 1..n : e[i].kind = "shard"}
           count == ShardCount(e)
<1>1. {i \in DOMAIN e2 : e2[i].kind = "shard"} = S
  <2>1. \A i : i \in 1..(n + 1) <=> i \in 1..n \/ i = n + 1
    OBVIOUS
  <2>2. n + 1 \notin 1..n
    OBVIOUS
  <2> QED
    BY <2>1, <2>2
<1>2. count = Cardinality(S) /\ ShardCount(e2) = count
  BY <1>1 DEF ShardCount
<1>3. count \in Nat /\ count <= n
  <2>1. S \in SUBSET (1..n)
    OBVIOUS
  <2> HIDE DEF S, count
  <2> QED
    BY <1>2, <2>1, FewerNumbers
<1> HIDE DEF S, count
<1>4. \A i \in 1..count : i \in 1..n /\ e2[i] = e[i]
  BY <1>3
<1>5. LosOf(e2) = LosOf(e)
  BY <1>2, <1>4 DEF LosOf, count
<1>6. ASSUME InOrder(e) PROVE InOrder(e2)
  <2> SUFFICES ASSUME NEW i \in 1..count
               PROVE  e2[i].kind = "shard" /\ IF i = 1 THEN e2[i].lo = 0 ELSE e2[i].lo > e2[i - 1].lo
    BY <1>2 DEF InOrder, count
  <2>1. e[i].kind = "shard" /\ IF i = 1 THEN e[i].lo = 0 ELSE e[i].lo > e[i - 1].lo
    BY <1>6 DEF InOrder, count
  <2>2. i # 1 => i - 1 \in 1..count
    BY <1>3
  <2> QED
    BY <2>1, <2>2, <1>4
<1> QED
  BY <1>5, <1>6

-----------------------------------------------------------------------------
\* Ranges.

\* The shard of a path is the one whose range holds it.
LEMMA ShardForRange ==
    ASSUME NEW los, Rising(los), NEW k \in DOMAIN los, NEW p \in Nat, los[k] <= p,
           \A j \in DOMAIN los : k < j => p < los[j]
    PROVE  ShardFor(los, p) = k
<1> DEFINE below == {j \in DOMAIN los : los[j] <= p}
           n == Len(los)
<1>1. n \in Nat /\ DOMAIN los = 1..n /\ \A j \in 1..n : los[j] \in Nat
  BY DEF Rising
<1> HIDE DEF n
<1>2. below = 1..k
  <2>1. \A j \in 1..n : j <= k => los[j] <= p
    <3> SUFFICES ASSUME NEW j \in 1..n, j <= k PROVE los[j] <= p
      OBVIOUS
    <3>1. CASE j = k
      BY <3>1
    <3>2. CASE j # k
      <4>1. j < k /\ k \in 1..n
        BY <3>2, <1>1
      <4>2. los[j] < los[k]
        BY <4>1, <1>1 DEF Rising
      <4> QED
        BY <4>1, <4>2, <1>1
    <3> QED
      BY <3>1, <3>2
  <2>2. \A j \in 1..n : k < j => ~(los[j] <= p)
    BY <1>1
  <2>3. \A j : j \in 1..k <=> j \in 1..n /\ j <= k
    BY <1>1
  <2>4. \A j \in 1..n : j <= k \/ k < j
    BY <1>1
  <2> QED
    BY <2>1, <2>2, <2>3, <2>4, <1>1
<1>3. Cardinality(below) = k
  <2>1. k \in Nat /\ k >= 1
    BY <1>1
  <2> HIDE DEF below
  <2>2. Cardinality(1..k) = k
    BY <2>1, FS_Interval
  <2> QED
    BY <2>2, <1>2
<1>4. ShardFor(los, p) = Max({1, k})
  <2>1. los # <<>>
    OBVIOUS
  <2> QED
    BY <1>3, <2>1 DEF ShardFor, below
<1>5. k \in Nat /\ k >= 1
  BY <1>1
<1> DEFINE x == Max({1, k})
<1>6. x \in {1, k} /\ \A y \in {1, k} : x >= y
  <2>1. k \in {1, k} /\ \A y \in {1, k} : k >= y
    BY <1>5
  <2> QED
    BY <2>1 DEF Max
<1> HIDE DEF x
<1>7. x = k
  BY <1>5, <1>6
<1> QED
  BY <1>4, <1>7 DEF x

\* Every path is in the range of its shard.
LEMMA RangeOfShard ==
    ASSUME NEW los, Rising(los), los # <<>>, NEW p \in Nat
    PROVE  /\ ShardFor(los, p) \in DOMAIN los
           /\ los[ShardFor(los, p)] <= p
           /\ \A j \in DOMAIN los : ShardFor(los, p) < j => p < los[j]
<1> DEFINE n == Len(los)
           S == {j \in 1..n : los[j] <= p}
<1>1. n \in Nat /\ DOMAIN los = 1..n /\ \A j \in 1..n : los[j] \in Nat
  BY DEF Rising
<1>2. n # 0
  BY EmptySeq DEF Rising
<1>3. 1 \in 1..n /\ los[1] = 0
  BY <1>1, <1>2 DEF Rising
<1> HIDE DEF n
<1>4. 1 \in S
  BY <1>3
<1>5. PICK k \in S : \A j \in S : j <= k
  BY <1>1, <1>4, GreatestNumber
<1>6. k \in DOMAIN los /\ los[k] <= p
  BY <1>1, <1>5
<1>7. \A j \in DOMAIN los : k < j => p < los[j]
  <2> SUFFICES ASSUME NEW j \in 1..n, k < j, ~(p < los[j]) PROVE FALSE
    BY <1>1
  <2>1. los[j] <= p
    BY <1>1
  <2>2. j \in S /\ j <= k
    BY <2>1, <1>5
  <2> QED
    BY <2>2, <1>1, <1>5
<1>8. ShardFor(los, p) = k
  BY <1>6, <1>7, ShardForRange
<1> QED
  BY <1>6, <1>7, <1>8

\* Files per shard.
LEMMA Chunks ==
    ASSUME NEW n \in Nat, NEW F \in Nat \ {0}
    PROVE  /\ (n + F - 1) \div F \in Nat
           /\ \A i \in 1..((n + F - 1) \div F) : F * (i - 1) \in Nat /\ F * (i - 1) < n
           /\ \A i \in Nat \ {0} : (F * (i - 1)) \div F = i - 1
           /\ \A r \in Nat : r < n => (r \div F) \in Nat /\ (r \div F) + 1 \in 1..((n + F - 1) \div F)
           /\ \A r, s \in Nat : r <= s => r \div F <= s \div F
<1>1. (n + F - 1) \div F \in Nat
  OBVIOUS
<1>2. ASSUME NEW i \in 1..((n + F - 1) \div F) PROVE F * (i - 1) \in Nat /\ F * (i - 1) < n
  OBVIOUS
<1>3. ASSUME NEW i \in Nat \ {0} PROVE (F * (i - 1)) \div F = i - 1
  OBVIOUS
<1>4. ASSUME NEW r \in Nat, r < n
      PROVE  (r \div F) \in Nat /\ (r \div F) + 1 \in 1..((n + F - 1) \div F)
  <2>1. r \div F \in Nat
    OBVIOUS
  <2>2. (r \div F) + 1 <= (n + F - 1) \div F
    BY <1>4
  <2> QED
    BY <2>1, <2>2, <1>1
<1>5. ASSUME NEW r \in Nat, NEW s \in Nat, r <= s PROVE r \div F <= s \div F
  BY <1>5
<1> QED
  BY <1>1, <1>2, <1>3, <1>4, <1>5

\* Ranks count paths up from 0.
LEMMA Ranks ==
    ASSUME NEW S \in SUBSET Nat, IsFiniteSet(S), NEW rank, rank = [p \in S |-> Cardinality({q \in S : q < p})]
    PROVE  /\ \A p \in S : rank[p] \in Nat /\ rank[p] < Cardinality(S)
           /\ \A p, q \in S : p < q => rank[p] < rank[q]
           /\ \A r \in Nat : r < Cardinality(S) => \E p \in S : rank[p] = r
<1> DEFINE below(p) == {q \in S : q < p}
           n == Cardinality(S)
           T == 0..(n - 1)
<1>1. n \in Nat
  BY FS_CardinalityType
<1>2. \A p \in S : rank[p] = Cardinality(below(p))
  OBVIOUS
<1>3. \A p \in S : IsFiniteSet(below(p)) /\ Cardinality(below(p)) \in Nat
  BY FS_Subset, FS_CardinalityType
<1>4. ASSUME NEW p \in S PROVE rank[p] < n
  <2>1. below(p) \in SUBSET S /\ p \notin below(p)
    OBVIOUS
  <2>2. Cardinality(below(p)) <= n /\ Cardinality(below(p)) # n
    BY <2>1, FS_Subset
  <2> HIDE DEF below, n
  <2> QED
    BY <2>2, <1>1, <1>2, <1>3
<1>5. ASSUME NEW p \in S, NEW q \in S, p < q PROVE rank[p] < rank[q]
  <2>1. below(p) \in SUBSET below(q) /\ p \in below(q) /\ p \notin below(p)
    <3>1. p \in Nat /\ q \in Nat /\ \A r \in S : r \in Nat
      OBVIOUS
    <3>2. \A r \in S : r < p => r < q
      BY <3>1, <1>5
    <3>3. below(p) \in SUBSET below(q)
      BY <3>2
    <3>4. p \in below(q)
      BY <1>5
    <3>5. p \notin below(p)
      BY <3>1
    <3> QED
      BY <3>3, <3>4, <3>5
  <2>2. Cardinality(below(p)) <= Cardinality(below(q)) /\ Cardinality(below(p)) # Cardinality(below(q))
    BY <2>1, <1>3, FS_Subset
  <2> HIDE DEF below
  <2> QED
    BY <2>2, <1>2, <1>3
<1> HIDE DEF below
<1>6. rank \in Injection(S, T)
  <2>1. \A p \in S : rank[p] \in T
    BY <1>1, <1>2, <1>3, <1>4
  <2>2. \A p, q \in S : rank[p] = rank[q] => p = q
    <3> SUFFICES ASSUME NEW p \in S, NEW q \in S, rank[p] = rank[q] PROVE p = q
      OBVIOUS
    <3>1. ~(p < q) /\ ~(q < p)
      BY <1>2, <1>3, <1>5
    <3> QED
      BY <3>1
  <2>3. rank \in [S -> T]
    BY <2>1
  <2> HIDE DEF T
  <2> QED
    BY <2>2, <2>3 DEF Injection, IsInjective
<1>7. IsFiniteSet(T) /\ Cardinality(T) = n
  BY <1>1, FS_Interval
<1>8. rank \in Surjection(S, T)
  BY <1>6, <1>7, FS_Injection
<1>9. \A r \in T : \E p \in S : rank[p] = r
  BY <1>8 DEF Surjection
<1>10. \A r \in Nat : r < n => r \in T
  BY <1>1
<1> QED
  BY <1>2, <1>3, <1>4, <1>5, <1>9, <1>10

\* Split cuts its files.
LEMMA SplitCuts ==
    ASSUME NEW lo \in Nat, NEW content, DOMAIN content \in SUBSET Paths,
           \A p \in DOMAIN content : lo <= p
    PROVE  /\ Cut(NewShards(Split(lo, content)), DOMAIN content, content)
           /\ \A i \in 1..Len(NewShards(Split(lo, content))) :
                IF i = 1 THEN NewShards(Split(lo, content))[i].lo = lo
                ELSE NewShards(Split(lo, content))[i].lo \in DOMAIN content
<1> DEFINE S == DOMAIN content
           n == Cardinality(S)
           rank == [p \in S |-> Cardinality({q \in S : q < p})]
           F == ShardFiles
           count == (n + F - 1) \div F
           chunk(i) == {p \in S : rank[p] \div F = i - 1}
           pieces == NewShards(Split(lo, content))
<1>1. F \in Nat \ {0}
  BY StoreAssumption DEF StoreAssumption
<1>2. S \in SUBSET Nat /\ IsFiniteSet(S) /\ n \in Nat
  BY FilesAssumption, StoreAssumption, FS_Subset, FS_CardinalityType DEF FilesAssumption, StoreAssumption
<1>3. /\ \A p \in S : rank[p] \in Nat /\ rank[p] < n
      /\ \A p, q \in S : p < q => rank[p] < rank[q]
      /\ \A r \in Nat : r < n => \E p \in S : rank[p] = r
  <2>1. rank = [p \in S |-> Cardinality({q \in S : q < p})]
    OBVIOUS
  <2> HIDE DEF S, rank
  <2> QED
    BY <2>1, <1>2, Ranks
<1>4. /\ count \in Nat
      /\ \A i \in 1..count : F * (i - 1) \in Nat /\ F * (i - 1) < n
      /\ \A i \in Nat \ {0} : (F * (i - 1)) \div F = i - 1
      /\ \A r \in Nat : r < n => (r \div F) \in Nat /\ (r \div F) + 1 \in 1..count
      /\ \A r, s \in Nat : r <= s => r \div F <= s \div F
  <2> HIDE DEF n, F
  <2> QED
    BY <1>1, <1>2, Chunks
<1>5. Split(lo, content) =
        [i \in 1..count |-> [lo |-> IF i = 1 THEN lo ELSE Min({p \in S : Cardinality({q \in S : q < p}) \div F = i - 1}),
                             content |-> Restrict(content, {p \in S : Cardinality({q \in S : q < p}) \div F = i - 1})]]
  BY DEF Split
<1>6. \A i : {p \in S : Cardinality({q \in S : q < p}) \div F = i - 1} = chunk(i)
  OBVIOUS
<1>7. Split(lo, content) =
        [i \in 1..count |-> [lo |-> IF i = 1 THEN lo ELSE Min(chunk(i)), content |-> Restrict(content, chunk(i))]]
  BY <1>5, <1>6
<1> HIDE DEF n, rank, F, chunk
<1>8. pieces = [i \in 1..count |->
        [name |-> <<>>, kind |-> "shard", lo |-> IF i = 1 THEN lo ELSE Min(chunk(i)),
         content |-> Restrict(content, chunk(i)), fresh |-> TRUE]]
  <2> DEFINE parts == Split(lo, content)
  <2>1. DOMAIN parts = 1..count
    BY <1>7
  <2>2. \A i \in 1..count : parts[i].lo = (IF i = 1 THEN lo ELSE Min(chunk(i)))
                            /\ parts[i].content = Restrict(content, chunk(i))
    BY <1>7
  <2> HIDE DEF parts, count
  <2>3. NewShards(parts) = [i \in 1..count |->
        [name |-> <<>>, kind |-> "shard", lo |-> parts[i].lo, content |-> parts[i].content, fresh |-> TRUE]]
    BY <2>1 DEF NewShards
  <2> QED
    BY <2>2, <2>3 DEF parts
<1> HIDE DEF pieces, count
<1>9. pieces = [i \in 1..count |-> pieces[i]] /\ Len(pieces) = count
  BY <1>4, <1>8, ListIsSeq
<1>10. \A i \in 1..count :
         /\ pieces[i].kind = "shard"
         /\ pieces[i].lo = IF i = 1 THEN lo ELSE Min(chunk(i))
         /\ pieces[i].content = Restrict(content, chunk(i))
  BY <1>8
<1>11. \A i : chunk(i) \subseteq S
  BY DEF chunk
<1>12. \A i : /\ DOMAIN Restrict(content, chunk(i)) = chunk(i)
              /\ \A p \in chunk(i) : Restrict(content, chunk(i))[p] = content[p]
  BY <1>11 DEF Restrict
<1>13. ASSUME NEW i \in 1..count, i # 1
       PROVE  Min(chunk(i)) \in chunk(i) /\ \A p \in chunk(i) : Min(chunk(i)) <= p
  <2>1. PICK p \in S : rank[p] = F * (i - 1)
    BY <1>3, <1>4
  <2>2. p \in chunk(i)
    <3>1. i \in Nat \ {0}
      BY <1>4
    <3> QED
      BY <2>1, <3>1, <1>4 DEF chunk
  <2>3. chunk(i) \in SUBSET Nat /\ chunk(i) # {}
    BY <2>2, <1>2, <1>11
  <2>4. \E x \in chunk(i) : \A y \in chunk(i) : x <= y
    BY <2>3, LeastNumber
  <2> QED
    BY <2>4 DEF Min
<1>14. ASSUME NEW i \in 1..count, NEW j \in 1..count, i < j, NEW p \in chunk(i), NEW q \in chunk(j)
       PROVE  p < q
  <2>1. p \in S /\ q \in S /\ rank[p] \in Nat /\ rank[q] \in Nat /\ rank[p] \div F = i - 1 /\ rank[q] \div F = j - 1
    BY <1>3, <1>11 DEF chunk
  <2>2. ~(rank[q] <= rank[p])
    <3> SUFFICES ASSUME rank[q] <= rank[p] PROVE FALSE
      OBVIOUS
    <3>1. rank[q] \div F <= rank[p] \div F
      BY <2>1, <1>4
    <3>2. j - 1 <= i - 1
      BY <2>1, <3>1
    <3> QED
      BY <3>2, <1>4, <1>14
  <2>3. p # q /\ ~(q < p)
    BY <2>1, <2>2, <1>3
  <2>4. p \in Nat /\ q \in Nat
    BY <2>1, <1>2
  <2> QED
    BY <2>3, <2>4
<1>15. ASSUME NEW j \in 1..count, j # 1 PROVE lo < Min(chunk(j))
  <2>1. Min(chunk(j)) \in S /\ rank[Min(chunk(j))] \div F = j - 1
    BY <1>13, <1>15, <1>11 DEF chunk
  <2>2. rank[Min(chunk(j))] > 0
    <3>1. rank[Min(chunk(j))] \in Nat /\ (0 \div F = 0)
      BY <2>1, <1>1, <1>3
    <3>2. j - 1 # 0
      BY <1>4, <1>15
    <3>3. rank[Min(chunk(j))] # 0
      BY <2>1, <3>1, <3>2
    <3> QED
      BY <3>1, <3>3
  <2>3. PICK q \in S : rank[q] = 0
    BY <2>1, <2>2, <1>2, <1>3
  <2>4. q # Min(chunk(j)) /\ ~(Min(chunk(j)) < q)
    BY <2>1, <2>2, <2>3, <1>3
  <2>5. q \in Nat /\ Min(chunk(j)) \in Nat /\ lo <= q
    BY <2>1, <2>3, <1>2
  <2> QED
    BY <2>4, <2>5
<1>16. \A i \in 1..count : IF i = 1 THEN pieces[i].lo = lo ELSE pieces[i].lo \in S
  BY <1>10, <1>11, <1>13
<1>17. \A i \in 1..count : pieces[i].lo \in Nat /\ \A p \in chunk(i) : pieces[i].lo <= p
  BY <1>2, <1>10, <1>11, <1>13
<1>18. \A p \in S : \E i \in 1..count : p \in chunk(i)
  <2> TAKE p \in S
  <2> DEFINE i == (rank[p] \div F) + 1
  <2>1. rank[p] \div F \in Nat /\ i \in 1..count
    BY <1>3, <1>4
  <2>2. i - 1 = rank[p] \div F
    BY <2>1
  <2>3. p \in chunk(i)
    BY <2>2 DEF chunk
  <2> QED
    BY <2>1, <2>3
<1>19. ASSUME NEW i \in 1..count, NEW j \in 1..count, i < j
       PROVE  pieces[i].lo < pieces[j].lo /\ \A p \in chunk(i) : p < pieces[j].lo
  <2>1. j # 1 /\ pieces[j].lo = Min(chunk(j)) /\ Min(chunk(j)) \in chunk(j)
    BY <1>4, <1>10, <1>13, <1>19
  <2>2. \A p \in chunk(i) : p < pieces[j].lo
    BY <2>1, <1>14, <1>19
  <2>3. CASE i = 1
    BY <2>1, <2>2, <2>3, <1>10, <1>15
  <2>4. CASE i # 1
    BY <2>1, <2>2, <2>4, <1>10, <1>13
  <2> QED
    BY <2>2, <2>3, <2>4
<1>20. Cut(pieces, S, content)
  <2> HIDE DEF S
  <2>1. \A i \in 1..count : /\ DOMAIN pieces[i].content = chunk(i)
                            /\ \A p \in chunk(i) : pieces[i].content[p] = content[p] /\ p \in S
    BY <1>10, <1>11, <1>12
  <2>2. \A i \in 1..count : pieces[i].kind = "shard"
    BY <1>10
  <2>3. Len(pieces) \in Nat /\ pieces = [i \in 1..Len(pieces) |-> pieces[i]]
    BY <1>4, <1>9
  <2>4. \A i \in 1..count :
         /\ pieces[i].kind = "shard" /\ pieces[i].lo \in Nat
         /\ \A p \in DOMAIN pieces[i].content :
              p \in S /\ pieces[i].content[p] = content[p] /\ pieces[i].lo <= p
    BY <2>1, <2>2, <1>17
  <2>5. \A p \in S : \E i \in 1..count : p \in DOMAIN pieces[i].content
    BY <2>1, <1>18
  <2>6. \A i, j \in 1..count : i < j =>
         /\ pieces[i].lo < pieces[j].lo
         /\ \A p \in DOMAIN pieces[i].content : p < pieces[j].lo
    BY <2>1, <1>19
  <2> QED
    BY <2>3, <2>4, <2>5, <2>6, <1>9 DEF Cut
<1> QED
  BY <1>9, <1>16, <1>20 DEF pieces

\* Two cuts of different ranges, one after the other.
LEMMA CutsConcatenate ==
    ASSUME NEW s, NEW t, NEW S \in SUBSET Nat, NEW T \in SUBSET Nat, NEW view,
           Cut(s, S, view), Cut(t, T, view), NEW u \in Nat,
           \A p \in S : p < u,
           \A i \in 1..Len(s) : s[i].lo < u,
           \A i \in 1..Len(t) : u <= t[i].lo
    PROVE  Cut(s \o t, S \cup T, view)
<1> DEFINE m == Len(s)
           n == Len(t)
           w == s \o t
<1>1. /\ m \in Nat /\ n \in Nat
      /\ \A i \in 1..m : s[i].kind = "shard" /\ s[i].lo \in Nat /\ \A p \in DOMAIN s[i].content :
              p \in S /\ s[i].content[p] = view[p] /\ s[i].lo <= p
      /\ \A i \in 1..n : t[i].kind = "shard" /\ t[i].lo \in Nat /\ \A p \in DOMAIN t[i].content :
              p \in T /\ t[i].content[p] = view[p] /\ t[i].lo <= p
  BY DEF Cut
<1>2. \A i, j \in 1..m : i < j => s[i].lo < s[j].lo /\ \A p \in DOMAIN s[i].content : p < s[j].lo
  BY DEF Cut
<1>3. \A i, j \in 1..n : i < j => t[i].lo < t[j].lo /\ \A p \in DOMAIN t[i].content : p < t[j].lo
  BY DEF Cut
<1>4. /\ \A p \in S : \E i \in 1..m : p \in DOMAIN s[i].content
      /\ \A p \in T : \E i \in 1..n : p \in DOMAIN t[i].content
  BY DEF Cut
<1>5. s \in Seq(Range(s) \cup Range(t)) /\ t \in Seq(Range(s) \cup Range(t))
  <2>1. s = [i \in 1..m |-> s[i]] /\ t = [i \in 1..n |-> t[i]]
    BY DEF Cut
  <2> HIDE DEF m, n
  <2>2. s \in Seq(Range(s)) /\ t \in Seq(Range(t))
    BY <2>1, <1>1, ListIsSeq
  <2> QED
    BY <2>2, SeqMonotonic
<1> HIDE DEF m, n, w
<1>6. /\ Len(w) = m + n
      /\ \A i \in 1..(m + n) : \/ i \in 1..m /\ w[i] = s[i]
                               \/ i - m \in 1..n /\ w[i] = t[i - m] /\ m < i
  BY <1>1, <1>5 DEF m, n, w
<1>7. /\ \A i \in 1..m : i \in 1..(m + n) /\ w[i] = s[i]
      /\ \A i \in 1..n : i + m \in 1..(m + n) /\ w[i + m] = t[i]
  BY <1>1, <1>5 DEF m, n, w
<1>8. w = [i \in 1..(m + n) |-> w[i]]
  <2>1. w \in Seq(Range(s) \cup Range(t))
    BY <1>5 DEF w
  <2> QED
    BY <2>1, <1>6
<1>9. \A i \in 1..(m + n) :
         /\ w[i].kind = "shard" /\ w[i].lo \in Nat
         /\ \A p \in DOMAIN w[i].content : p \in S \cup T /\ w[i].content[p] = view[p] /\ w[i].lo <= p
  BY <1>1, <1>6
<1>10. \A p \in S \cup T : \E i \in 1..(m + n) : p \in DOMAIN w[i].content
  <2> SUFFICES ASSUME NEW p \in S \cup T PROVE \E i \in 1..(m + n) : p \in DOMAIN w[i].content
    OBVIOUS
  <2>1. CASE p \in S
    BY <2>1, <1>4, <1>7
  <2>2. CASE p \in T
    <3>1. PICK i \in 1..n : p \in DOMAIN t[i].content
      BY <2>2, <1>4
    <3>2. i + m \in 1..(m + n) /\ p \in DOMAIN w[i + m].content
      BY <3>1, <1>7
    <3> QED
      BY <3>2
  <2> QED
    BY <2>1, <2>2
<1>11. ASSUME NEW i \in 1..(m + n), NEW j \in 1..(m + n), i < j
       PROVE  w[i].lo < w[j].lo /\ \A p \in DOMAIN w[i].content : p < w[j].lo
  <2>1. CASE i \in 1..m /\ j \in 1..m
    BY <2>1, <1>2, <1>7, <1>11
  <2>2. CASE i \in 1..m /\ j \notin 1..m
    <3>1. j - m \in 1..n /\ w[j] = t[j - m] /\ w[i] = s[i]
      BY <2>2, <1>6, <1>7
    <3>2. s[i].lo < u /\ u <= t[j - m].lo /\ s[i].lo \in Nat /\ t[j - m].lo \in Nat
      BY <3>1, <2>2, <1>1 DEF m, n
    <3>3. \A p \in DOMAIN s[i].content : p \in Nat /\ p < u
      BY <2>2, <1>1
    <3> QED
      BY <3>1, <3>2, <3>3
  <2>3. CASE i \notin 1..m
    <3>1. i - m \in 1..n /\ w[i] = t[i - m] /\ m < i
      BY <2>3, <1>6
    <3>2. j \notin 1..m
      BY <3>1, <1>1, <1>11
    <3>3. j - m \in 1..n /\ w[j] = t[j - m]
      BY <3>2, <1>6
    <3>4. i - m < j - m
      BY <1>1, <1>11
    <3> QED
      BY <3>1, <3>3, <3>4, <1>3
  <2> QED
    BY <2>1, <2>2, <2>3
<1>12. m + n \in Nat
  BY <1>1
<1> HIDE DEF Cut
<1>13. Cut(w, S \cup T, view)
  BY <1>6, <1>8, <1>9, <1>10, <1>11, <1>12 DEF Cut
<1> QED
  BY <1>13 DEF w

\* Cuts of consecutive ranges, the k-th from bound[k] up, make one.
LEMMA CutsFlatten ==
    ASSUME NEW n \in Nat \ {0}, NEW ss, Len(ss) = n, ss # <<>>, NEW view,
           NEW part \in [1..n -> SUBSET Nat], NEW bound \in [1..n -> Nat],
           \A k \in 1..n : Cut(ss[k], part[k], view),
           \A k \in 1..n : \A i \in 1..Len(ss[k]) : bound[k] <= ss[k][i].lo,
           \A j, k \in 1..n : j < k => /\ \A p \in part[j] : p < bound[k]
                                       /\ \A i \in 1..Len(ss[j]) : ss[j][i].lo < bound[k]
    PROVE  Cut(FlattenSeq(ss), UNION {part[k] : k \in 1..n}, view)
<1> DEFINE f == CHOOSE g : Concatenates(g, ss, n)
           upTo(m) == UNION {part[k] : k \in 1..m}
           Fine(m) == /\ Cut(f[m], upTo(m), view)
                      /\ \A i \in 1..Len(f[m]) : \A k \in 1..n : m < k => f[m][i].lo < bound[k]
           Bad == {m \in 1..n : ~Fine(m)}
<1>2. FlattenSeq(ss) = f[n]
  BY DEF FlattenSeq, Concatenates
<1>3. Concatenates(f, ss, n)
  BY ConcatenationExists
<1> HIDE DEF f
<1>9. \A m \in 1..n : upTo(m) \in SUBSET Nat
  OBVIOUS
<1>4. Fine(1)
  <2>1. f[1] = ss[1]
    BY <1>3 DEF Concatenates
  <2>2. upTo(1) = part[1]
    <3>1. 1..1 = {1}
      OBVIOUS
    <3>2. UNION {part[k] : k \in {1}} = part[1]
      OBVIOUS
    <3> QED
      BY <3>1, <3>2
  <2>3. 1 \in 1..n
    OBVIOUS
  <2> HIDE DEF upTo
  <2> QED
    BY <2>1, <2>2, <2>3
<1>5. ASSUME NEW m \in 2..n, Fine(m - 1)
      PROVE  Fine(m)
  <2>1. m \in 1..n /\ m # 1 /\ m - 1 \in 1..n /\ m - 1 < m
    OBVIOUS
  <2>2. f[m] = f[m - 1] \o ss[m]
    <3>1. f[m] = IF m = 1 THEN ss[m] ELSE f[m - 1] \o ss[m]
      BY <2>1, <1>3 DEF Concatenates
    <3> QED
      BY <2>1, <3>1
  <2>3. Cut(f[m - 1], upTo(m - 1), view) /\ Cut(ss[m], part[m], view)
    BY <1>5, <2>1
  <2>4. \A p \in upTo(m - 1) : p < bound[m]
    <3>1. \A k \in 1..(m - 1) : k \in 1..n /\ k < m
      BY <2>1
    <3> QED
      BY <3>1, <2>1
  <2>5. \A i \in 1..Len(f[m - 1]) : f[m - 1][i].lo < bound[m]
    BY <1>5, <2>1
  <2>6. upTo(m) = upTo(m - 1) \cup part[m]
    <3>1. \A k : k \in 1..m <=> k \in 1..(m - 1) \/ k = m
      BY <2>1
    <3> QED
      BY <3>1
  <2>7. upTo(m - 1) \in SUBSET Nat /\ part[m] \in SUBSET Nat /\ bound[m] \in Nat
    BY <1>9, <2>1
  <2>8. \A i \in 1..Len(ss[m]) : bound[m] <= ss[m][i].lo
    BY <2>1
  <2>9. Cut(f[m], upTo(m), view)
    <3> DEFINE s == f[m - 1]
               t == ss[m]
               S == upTo(m - 1)
               T == part[m]
               u == bound[m]
    <3>1. Cut(s, S, view) /\ Cut(t, T, view)
      BY <2>3
    <3>2. S \in SUBSET Nat /\ T \in SUBSET Nat /\ u \in Nat
      BY <2>7
    <3>3. \A p \in S : p < u
      BY <2>4
    <3>4. \A i \in 1..Len(s) : s[i].lo < u
      BY <2>5
    <3>5. \A i \in 1..Len(t) : u <= t[i].lo
      BY <2>8
    <3>6. f[m] = s \o t /\ upTo(m) = S \cup T
      BY <2>2, <2>6
    <3> HIDE DEF s, t, S, T, u, upTo
    <3>7. Cut(s \o t, S \cup T, view)
      BY <3>1, <3>2, <3>3, <3>4, <3>5, CutsConcatenate
    <3> QED
      BY <3>6, <3>7
  <2>10. \A i \in 1..Len(f[m]) : \/ \E j \in 1..Len(f[m - 1]) : f[m][i] = f[m - 1][j]
                                 \/ \E j \in 1..Len(ss[m]) : f[m][i] = ss[m][j]
    <3> DEFINE s == f[m - 1]
               t == ss[m]
    <3>1. /\ Len(s) \in Nat /\ s = [i \in 1..Len(s) |-> s[i]]
          /\ Len(t) \in Nat /\ t = [i \in 1..Len(t) |-> t[i]]
      BY <2>3 DEF Cut
    <3> HIDE DEF s, t
    <3>2. s \in Seq(Range(s)) /\ t \in Seq(Range(t))
      BY <3>1, ListIsSeq
    <3>3. s \in Seq(Range(s) \cup Range(t)) /\ t \in Seq(Range(s) \cup Range(t))
      BY <3>2, SeqMonotonic
    <3>4. \A i \in 1..Len(s \o t) : \/ i \in 1..Len(s) /\ (s \o t)[i] = s[i]
                                    \/ i - Len(s) \in 1..Len(t) /\ (s \o t)[i] = t[i - Len(s)]
      BY <3>3
    <3> QED
      BY <3>4, <2>2 DEF s, t
  <2>11. ASSUME NEW i \in 1..Len(f[m]), NEW k \in 1..n, m < k PROVE f[m][i].lo < bound[k]
    <3>1. m - 1 < k
      BY <2>1, <2>11
    <3>2. \A j \in 1..Len(f[m - 1]) : f[m - 1][j].lo < bound[k]
      BY <3>1, <1>5
    <3>3. \A j \in 1..Len(ss[m]) : ss[m][j].lo < bound[k]
      BY <2>1, <2>11
    <3> QED
      BY <3>2, <3>3, <2>10
  <2> QED
    BY <2>9, <2>11
<1> HIDE DEF Fine
<1>6. Bad = {}
  <2> SUFFICES ASSUME Bad # {} PROVE FALSE
    OBVIOUS
  <2>1. Bad \in SUBSET Nat
    OBVIOUS
  <2>2. PICK m \in Bad : \A k \in Bad : m <= k
    BY <2>1, LeastNumber
  <2>3. m \in 2..n /\ m - 1 \in 1..n /\ m - 1 \notin Bad
    BY <1>4, <2>2
  <2> QED
    BY <2>2, <2>3, <1>5
<1>7. Fine(n)
  BY <1>6
<1> QED
  BY <1>2, <1>7 DEF Fine

\* A cut of the whole path space is a stack that shows its view.
LEMMA CutStacks ==
    ASSUME NEW view \in Indexes, NEW pieces,
           Cut(pieces, {p \in Paths : view[p] # Deleted}, view),
           pieces # <<>>, pieces[1].lo = 0
    PROVE  /\ InOrder(pieces)
           /\ Stacked(PieceContents(pieces), LosOf(pieces))
           /\ Visible(PieceContents(pieces)) = view
<1> DEFINE n == Len(pieces)
           S == {p \in Paths : view[p] # Deleted}
           los == LosOf(pieces)
           c == PieceContents(pieces)
<1>1. /\ n \in Nat /\ pieces = [i \in 1..n |-> pieces[i]]
      /\ \A i \in 1..n : /\ pieces[i].kind = "shard" /\ pieces[i].lo \in Nat
                         /\ \A p \in DOMAIN pieces[i].content :
                              p \in S /\ pieces[i].content[p] = view[p] /\ pieces[i].lo <= p
      /\ \A p \in S : \E i \in 1..n : p \in DOMAIN pieces[i].content
      /\ \A i, j \in 1..n : i < j => pieces[i].lo < pieces[j].lo
      /\ \A i, j \in 1..n : i < j => \A p \in DOMAIN pieces[i].content : p < pieces[j].lo
  BY DEF Cut
<1> HIDE DEF n
<1>2. DOMAIN pieces = 1..n
  BY <1>1
<1>3. ShardCount(pieces) = n
  <2>1. {i \in DOMAIN pieces : pieces[i].kind = "shard"} = 1..n
    BY <1>1, <1>2
  <2>2. n \in Nat
    BY <1>1
  <2>3. Cardinality(1..n) = n
    BY <2>2, FS_Interval
  <2> QED
    BY <2>1, <2>3 DEF ShardCount
<1>4. los = [i \in 1..n |-> pieces[i].lo]
  BY <1>3 DEF LosOf
<1>5. DOMAIN c = 1..n /\ \A i \in 1..n : c[i] = pieces[i].content
  BY <1>2 DEF PieceContents
<1> HIDE DEF c, los
<1>6. S \subseteq Nat /\ S \subseteq Paths
  BY StoreAssumption DEF StoreAssumption
<1> HIDE DEF S
<1>7. Rising(los)
  <2>1. los \in Seq(Nat) /\ DOMAIN los = 1..n
    <3>1. los \in [1..n -> Nat]
      BY <1>1, <1>4
    <3> QED
      BY <3>1, <1>1
  <2>2. \A j, k \in 1..n : j < k => los[j] < los[k]
    BY <1>1, <1>4
  <2>3. 1 \in 1..n => los[1] = 0
    BY <1>4
  <2> QED
    BY <2>1, <2>2, <2>3 DEF Rising
<1>8. DOMAIN los = 1..n
  BY <1>4
<1>9. ASSUME NEW i \in 1..n, NEW p \in DOMAIN c[i] PROVE ShardFor(los, p) = i
  <2>1. p \in Nat /\ los[i] <= p
    BY <1>1, <1>4, <1>5, <1>6
  <2>2. \A j \in DOMAIN los : i < j => p < los[j]
    BY <1>1, <1>4, <1>5, <1>8
  <2> QED
    BY <2>1, <2>2, <1>7, <1>8, ShardForRange
<1>10. \A i \in 1..n : \A p \in DOMAIN c[i] : p \in Paths /\ c[i][p] = view[p] /\ c[i][p] # Deleted /\ c[i][p] \in Versions
  <2>3. \A p \in Paths : view[p] \in Versions
    BY DEF Indexes
  <2>1. \A p \in S : p \in Paths /\ view[p] # Deleted
    BY DEF S
  <2>2. ASSUME NEW i \in 1..n, NEW p \in DOMAIN c[i] PROVE p \in S /\ c[i][p] = view[p]
    <3>1. c[i] = pieces[i].content
      BY <1>5
    <3>2. p \in DOMAIN pieces[i].content
      BY <3>1
    <3>3. p \in S /\ pieces[i].content[p] = view[p]
      BY <3>2, <1>1
    <3> QED
      BY <3>1, <3>3
  <2> QED
    BY <2>1, <2>2, <2>3
<1>11. Stacked(c, los)
  BY <1>5, <1>7, <1>8, <1>9, <1>10 DEF Stacked, IsContent
<1>12. InOrder(pieces)
  <2> SUFFICES ASSUME NEW i \in 1..n
               PROVE  pieces[i].kind = "shard" /\ IF i = 1 THEN pieces[i].lo = 0 ELSE pieces[i].lo > pieces[i - 1].lo
    BY <1>3 DEF InOrder
  <2>1. i # 1 => i - 1 \in 1..n /\ i - 1 < i
    BY <1>1
  <2>2. i # 1 => pieces[i - 1].lo < pieces[i].lo /\ pieces[i - 1].lo \in Nat /\ pieces[i].lo \in Nat
    BY <2>1, <1>1
  <2> QED
    BY <2>2, <1>1
<1>13. \A p \in Paths : Visible(c)[p] = view[p]
  <2> TAKE p \in Paths
  <2>1. CASE view[p] = Deleted
    <3>1. Holders(c, p) = {}
      BY <2>1, <1>5, <1>10 DEF Holders
    <3> QED
      BY <2>1, <3>1, <1>1, <1>5, VisibleAt
  <2>2. CASE view[p] # Deleted
    <3>1. PICK i \in 1..n : p \in DOMAIN c[i]
      BY <2>2, <1>1, <1>5 DEF S
    <3>2. \A j \in 1..n : j > i => p \notin DOMAIN c[j]
      BY <3>1, <1>1, <1>9
    <3>3. Visible(c)[p] = c[i][p]
      BY <3>1, <3>2, <1>1, <1>5, VisibleAt
    <3> QED
      BY <3>1, <3>3, <1>10
  <2> QED
    BY <2>1, <2>2
<1>14. Visible(c) = view
  BY <1>13 DEF Visible, Indexes
<1> QED
  BY <1>11, <1>12, <1>14 DEF c, los

\* What a snapshot shows of a path, and which of its records are live.
LEMMA SoundFacts ==
    ASSUME NEW open, NEW sn, IsSnapshot(sn), Sound(open, sn), NEW p \in Paths
    PROVE  /\ p \in DOMAIN sn.route.over =>
                (sn.route.over[p].deleted <=> Lookup(open, sn, p) = Deleted)
           /\ p \notin DOMAIN sn.route.over =>
                LET k == ShardFor(sn.los, p)
                IN IF k # 0 /\ p \in DOMAIN open[sn.segs[k]].content
                   THEN Lookup(open, sn, p) = open[sn.segs[k]].content[p] /\ Lookup(open, sn, p) # Deleted
                   ELSE Lookup(open, sn, p) = Deleted
           /\ \A k \in DOMAIN sn.los : p \in DOMAIN open[sn.segs[k]].content =>
                /\ ShardFor(sn.los, p) = k
                /\ Live(sn, k, p) <=> p \notin DOMAIN sn.route.over
<1> DEFINE c == ContentsOf(open, sn.segs)
           m == Len(sn.los)
           n == Len(sn.segs)
           over == sn.route.over
           k0 == ShardFor(sn.los, p)
<1>1. n \in Nat /\ DOMAIN sn.segs = 1..n /\ m \in Nat /\ DOMAIN sn.los = 1..m /\ m <= n
  BY SnapshotLengths
<1>2. DOMAIN c = 1..n /\ \A i \in 1..n : c[i] = open[sn.segs[i]].content
  BY <1>1 DEF ContentsOf
<1>3. Stacked(c, sn.los) /\ Routes(c, m, n, sn.route)
  BY DEF Sound
<1>4. /\ DOMAIN over = {q \in Paths : \E i \in (m + 1)..n : q \in DOMAIN c[i]}
      /\ \A q \in DOMAIN over : Newest(c, m, n, q, over[q])
      /\ sn.route.dead = Recs(c, n) \ Seen(c, m, n)
  BY <1>3 DEF Routes
<1>5. \A k \in 1..m : p \in DOMAIN c[k] => c[k][p] # Deleted /\ k0 = k
  BY <1>1, <1>3 DEF Stacked
<1>6. k0 = 0 \/ k0 \in 1..m
  BY <1>1, <1>3, ShardForIndex DEF Stacked, Rising
<1>7. Lookup(open, sn, p) =
        IF p \in DOMAIN over
        THEN IF over[p].deleted THEN Deleted ELSE open[sn.segs[over[p].seg]].content[p]
        ELSE IF k0 # 0 /\ p \in DOMAIN open[sn.segs[k0]].content THEN open[sn.segs[k0]].content[p] ELSE Deleted
  BY DEF Lookup
<1> HIDE DEF c, m, n, k0
<1>8. ASSUME p \in DOMAIN over
      PROVE  over[p].deleted <=> Lookup(open, sn, p) = Deleted
  <2> DEFINE s == over[p].seg
             d == over[p].deleted
  <2>1. Newest(c, m, n, p, over[p])
    BY <1>4, <1>8
  <2>2. s \in 1..n /\ (d <=> c[s][p] = Deleted)
    BY <2>1, <1>1 DEF Newest
  <2>3. c[s] = open[sn.segs[s]].content
    BY <2>2, <1>2
  <2>4. Lookup(open, sn, p) = IF d THEN Deleted ELSE open[sn.segs[s]].content[p]
    BY <1>7, <1>8
  <2> HIDE DEF over, s, d
  <2>5. d <=> Lookup(open, sn, p) = Deleted
    BY <2>2, <2>3, <2>4
  <2> QED
    BY <2>5 DEF d
<1> HIDE DEF over
<1>9. ASSUME p \notin DOMAIN over
      PROVE  IF k0 # 0 /\ p \in DOMAIN open[sn.segs[k0]].content
             THEN Lookup(open, sn, p) = open[sn.segs[k0]].content[p] /\ Lookup(open, sn, p) # Deleted
             ELSE Lookup(open, sn, p) = Deleted
  <2>1. CASE k0 # 0 /\ p \in DOMAIN open[sn.segs[k0]].content
    <3>1. k0 \in 1..m /\ k0 \in 1..n
      BY <2>1, <1>1, <1>6
    <3>2. c[k0] = open[sn.segs[k0]].content
      BY <3>1, <1>2
    <3> QED
      BY <2>1, <3>1, <3>2, <1>5, <1>7, <1>9
  <2>2. CASE ~(k0 # 0 /\ p \in DOMAIN open[sn.segs[k0]].content)
    BY <2>2, <1>7, <1>9
  <2> QED
    BY <2>1, <2>2
<1>10. ASSUME NEW k \in 1..m, p \in DOMAIN open[sn.segs[k]].content
       PROVE  k0 = k /\ (Live(sn, k, p) <=> p \notin DOMAIN over)
  <2>1. k \in 1..n
    BY <1>1
  <2>2. c[k] = open[sn.segs[k]].content
    BY <2>1, <1>2
  <2>3. p \in DOMAIN c[k] /\ c[k][p] # Deleted /\ k0 = k
    BY <2>2, <1>5, <1>10
  <2>4. <<k, p>> \in Recs(c, n)
    BY <2>1, <2>3, InRecs
  <2>5. <<k, p>> \in Seen(c, m, n) <=> \A j \in (m + 1)..n : j > k => p \notin DOMAIN c[j]
    BY <2>1, <2>3, InSeen
  <2>6. \A j \in (m + 1)..n : j > k
    BY <1>1
  <2>7. p \in DOMAIN over <=> \E j \in (m + 1)..n : p \in DOMAIN c[j]
    BY <1>4
  <2>8. Live(sn, k, p) <=> <<k, p>> \in Seen(c, m, n)
    BY <2>4, <1>4 DEF Live
  <2> QED
    BY <2>3, <2>5, <2>6, <2>7, <2>8
<1> QED
  BY <1>1, <1>8, <1>9, <1>10 DEF over, k0

\* A compaction gathers what the snapshot shows of a shard.
LEMMA GatheredShows ==
    ASSUME NEW sn, IsSnapshot(sn), Sound(segs, sn), NEW k, k \in DOMAIN sn.los \/ k = 0
    PROVE  /\ DOMAIN Gathered(sn, k) = ShownBy(sn, k)
           /\ \A p \in ShownBy(sn, k) : Gathered(sn, k)[p] = Lookup(segs, sn, p)
<1> DEFINE over == sn.route.over
           own(q) == segs[sn.segs[k]].content[q]
           overlaid == {p \in Paths : p \in DOMAIN over /\ ShardFor(sn.los, p) = k /\ ~over[p].deleted}
           mine == {p \in Paths : k # 0 /\ p \in DOMAIN segs[sn.segs[k]].content /\ Live(sn, k, p)}
<1>1. Gathered(sn, k) = [p \in overlaid \cup mine |-> IF p \in overlaid THEN Lookup(segs, sn, p) ELSE own(p)]
  BY DEF Gathered
<1>2. 0 \notin DOMAIN sn.los
  BY SnapshotLengths
<1>3. ASSUME NEW p \in Paths
      PROVE  /\ p \in overlaid \cup mine <=> p \in ShownBy(sn, k)
             /\ p \in mine => own(p) = Lookup(segs, sn, p)
  <2>1. p \in ShownBy(sn, k) <=> ShardFor(sn.los, p) = k /\ Lookup(segs, sn, p) # Deleted
    BY DEF ShownBy
  <2>2. CASE p \in DOMAIN over
    <3>1. over[p].deleted <=> Lookup(segs, sn, p) = Deleted
      BY <2>2, SoundFacts
    <3>2. p \notin mine
      <4> SUFFICES ASSUME p \in mine PROVE FALSE
        OBVIOUS
      <4>1. k \in DOMAIN sn.los /\ p \in DOMAIN segs[sn.segs[k]].content /\ Live(sn, k, p)
        OBVIOUS
      <4> QED
        BY <4>1, <2>2, SoundFacts
    <3>3. p \in overlaid <=> ShardFor(sn.los, p) = k /\ ~over[p].deleted
      BY <2>2
    <3> QED
      BY <2>1, <3>1, <3>2, <3>3
  <2>3. CASE p \notin DOMAIN over
    <3>1. p \notin overlaid
      BY <2>3
    <3>2. ASSUME p \in mine
          PROVE  p \in ShownBy(sn, k) /\ own(p) = Lookup(segs, sn, p)
      <4>1. k \in DOMAIN sn.los /\ k # 0 /\ p \in DOMAIN segs[sn.segs[k]].content
        BY <3>2, <1>2
      <4>2. ShardFor(sn.los, p) = k
        BY <4>1, SoundFacts
      <4>3. Lookup(segs, sn, p) = own(p) /\ Lookup(segs, sn, p) # Deleted
        BY <2>3, <4>1, <4>2, SoundFacts
      <4> QED
        BY <2>1, <4>2, <4>3
    <3>3. ASSUME p \in ShownBy(sn, k)
          PROVE  p \in mine
      <4>1. ShardFor(sn.los, p) = k /\ Lookup(segs, sn, p) # Deleted
        BY <2>1, <3>3
      <4>2. k # 0 /\ p \in DOMAIN segs[sn.segs[k]].content
        BY <2>3, <4>1, SoundFacts
      <4>3. Live(sn, k, p)
        BY <2>3, <4>2, SoundFacts
      <4> QED
        BY <4>2, <4>3
    <3> QED
      BY <3>1, <3>2, <3>3
  <2> QED
    BY <2>2, <2>3
<1> HIDE DEF overlaid, mine, own
<1>4. overlaid \subseteq Paths /\ mine \subseteq Paths /\ ShownBy(sn, k) \subseteq Paths
  BY DEF overlaid, mine, ShownBy
<1>5. overlaid \cup mine = ShownBy(sn, k)
  BY <1>3, <1>4
<1> QED
  BY <1>1, <1>3, <1>4, <1>5

\* Cutting depends on what is shown of the paths alone.
LEMMA CutOf ==
    ASSUME NEW pieces, NEW S, NEW view, Cut(pieces, S, view), NEW other, \A p \in S : other[p] = view[p]
    PROVE  Cut(pieces, S, other)
BY DEF Cut

\* What becomes of shard k cuts up its paths, from its lower bound on.
LEMMA RebuiltCuts ==
    ASSUME NEW sn, IsSnapshot(sn), Sound(segs, sn), NEW view,
           view = [p \in Paths |-> Lookup(segs, sn, p)],
           NEW k, NEW lo \in Nat,
           \/ k \in DOMAIN sn.los /\ lo = sn.los[k]
           \/ k = 0 /\ lo = 0
    PROVE  /\ Cut(Rebuilt(sn, k), ShownBy(sn, k), view)
           /\ \A i \in 1..Len(Rebuilt(sn, k)) :
                IF i = 1 THEN Rebuilt(sn, k)[i].lo = lo ELSE Rebuilt(sn, k)[i].lo \in ShownBy(sn, k)
<1> DEFINE content == Gathered(sn, k)
           pieces == Rebuilt(sn, k)
           S == ShownBy(sn, k)
<1>1. DOMAIN content = S /\ \A p \in S : content[p] = Lookup(segs, sn, p)
  BY GatheredShows
<1>2. S \in SUBSET Paths
  BY DEF ShownBy
<1>3. 0 \notin DOMAIN sn.los /\ Rising(sn.los)
  BY SnapshotLengths DEF Sound, Stacked
<1>4. \A p \in S : lo <= p
  <2> SUFFICES ASSUME NEW p \in S PROVE lo <= p
    OBVIOUS
  <2>1. p \in Nat
    BY <1>2, StoreAssumption DEF StoreAssumption
  <2>2. CASE k = 0
    BY <2>1, <2>2, <1>3
  <2>3. CASE k \in DOMAIN sn.los
    <3>1. ShardFor(sn.los, p) = k /\ lo = sn.los[k]
      BY <2>3, <1>3 DEF ShownBy
    <3>2. sn.los # <<>>
      BY <2>3
    <3> QED
      BY <2>1, <3>1, <3>2, <1>3, RangeOfShard
  <2> QED
    BY <2>2, <2>3
<1>5. pieces = NewShards(Split(lo, content))
  BY <1>3 DEF Rebuilt
<1> HIDE DEF content, pieces, S
<1>6. /\ Cut(pieces, S, content)
      /\ \A i \in 1..Len(pieces) : IF i = 1 THEN pieces[i].lo = lo ELSE pieces[i].lo \in S
  BY <1>1, <1>2, <1>4, <1>5, SplitCuts
<1>7. \A p \in S : view[p] = content[p]
  BY <1>1, <1>2
<1>8. Cut(pieces, S, view)
  BY <1>6, <1>7, CutOf
<1> QED
  BY <1>6, <1>8 DEF pieces, S

\* A shard without overlaid paths shows what it holds.
LEMMA KeptCuts ==
    ASSUME NEW sn, IsSnapshot(sn), Sound(segs, sn), NEW view,
           view = [p \in Paths |-> Lookup(segs, sn, p)],
           NEW k \in DOMAIN sn.los, k \notin Touched(sn)
    PROVE  Cut(<<KeptShard(sn, k)>>, ShownBy(sn, k), view)
<1> DEFINE content == segs[sn.segs[k]].content
           piece == KeptShard(sn, k)
           pieces == <<piece>>
           S == ShownBy(sn, k)
<1>1. Rising(sn.los) /\ DOMAIN content \in SUBSET Paths /\ k # 0 /\ sn.los[k] \in Nat
  <2>1. Stacked(ContentsOf(segs, sn.segs), sn.los)
    BY DEF Sound
  <2>2. k \in DOMAIN sn.segs /\ k # 0
    BY SnapshotLengths
  <2>3. ContentsOf(segs, sn.segs)[k] = content /\ k \in DOMAIN ContentsOf(segs, sn.segs)
    BY <2>2 DEF ContentsOf
  <2>4. Rising(sn.los) /\ DOMAIN content \in SUBSET Paths
    BY <2>1, <2>3 DEF Stacked, IsContent
  <2>5. sn.los[k] \in Nat
    BY <2>4 DEF Rising
  <2> QED
    BY <2>2, <2>4, <2>5
<1>2. \A p \in DOMAIN sn.route.over : ShardFor(sn.los, p) # k
  BY DEF Touched
<1>3. ASSUME NEW p \in DOMAIN content
      PROVE  p \in S /\ content[p] = view[p]
  <2>1. p \in Paths /\ ShardFor(sn.los, p) = k
    BY <1>1, SoundFacts
  <2>2. p \notin DOMAIN sn.route.over
    BY <2>1, <1>2
  <2>3. Lookup(segs, sn, p) = content[p] /\ Lookup(segs, sn, p) # Deleted
    BY <2>1, <2>2, <1>1, SoundFacts
  <2> QED
    BY <2>1, <2>3 DEF ShownBy
<1>4. ASSUME NEW p \in S
      PROVE  p \in DOMAIN content
  <2>1. p \in Paths /\ ShardFor(sn.los, p) = k /\ Lookup(segs, sn, p) # Deleted
    BY DEF ShownBy
  <2>2. p \notin DOMAIN sn.route.over
    BY <2>1, <1>2
  <2> QED
    BY <2>1, <2>2, SoundFacts
<1>5. \A p \in DOMAIN content : sn.los[k] <= p
  <2> SUFFICES ASSUME NEW p \in DOMAIN content PROVE sn.los[k] <= p
    OBVIOUS
  <2>1. p \in Nat /\ ShardFor(sn.los, p) = k
    BY <1>1, <1>3, StoreAssumption DEF StoreAssumption, ShownBy
  <2>2. sn.los # <<>>
    OBVIOUS
  <2> QED
    BY <2>1, <2>2, <1>1, RangeOfShard
<1>6. piece.kind = "shard" /\ piece.lo = sn.los[k] /\ piece.content = content
  BY DEF KeptShard
<1> HIDE DEF piece, content, S
<1>7. Len(pieces) = 1 /\ pieces = [i \in 1..1 |-> piece] /\ pieces[1] = piece
  OBVIOUS
<1> HIDE DEF pieces
<1>8. \A i \in 1..1 : i = 1
  OBVIOUS
<1>9. 1 \in 1..1
  OBVIOUS
<1>10. Cut(pieces, S, view)
  BY <1>1, <1>3, <1>4, <1>5, <1>6, <1>7, <1>8, <1>9 DEF Cut
<1> QED
  BY <1>10 DEF pieces, piece, S

\* The shards of a compaction cut up what the snapshot shows.
LEMMA CompactionCuts ==
    ASSUME NEW sn, IsSnapshot(sn), Sound(segs, sn), NEW view,
           view = [p \in Paths |-> Lookup(segs, sn, p)]
    PROVE  Cut(Shards(sn), {p \in Paths : view[p] # Deleted}, view)
<1> DEFINE S == {p \in Paths : view[p] # Deleted}
           m == Len(sn.los)
           los == sn.los
<1>1. m \in Nat /\ DOMAIN los = 1..m /\ Rising(los)
  BY SnapshotLengths DEF Sound, Stacked
<1>2. CASE los = <<>>
  <2>1. ShownBy(sn, 0) = S
    BY <1>2 DEF ShownBy, ShardFor
  <2>2. Shards(sn) = Rebuilt(sn, 0)
    BY <1>2 DEF Shards
  <2>3. Cut(Rebuilt(sn, 0), ShownBy(sn, 0), view)
    BY RebuiltCuts
  <2> QED
    BY <2>1, <2>2, <2>3
<1>3. CASE los # <<>>
  <2> DEFINE part == [k \in 1..m |-> ShownBy(sn, k)]
             ss == [k \in 1..m |-> Compacted(sn, k)]
  <2>1. m # 0
    BY <1>1, <1>3, EmptySeq DEF Rising
  <2>2. Shards(sn) = FlattenSeq(ss)
    BY <1>1, <1>3 DEF Shards
  <2>3. los \in [1..m -> Nat] /\ \A j, k \in 1..m : j < k => los[j] < los[k]
    BY <1>1 DEF Rising
  <2> HIDE DEF m, los
  <2>4. part \in [1..m -> SUBSET Nat] /\ \A k \in 1..m : part[k] = ShownBy(sn, k)
    <3>1. \A k \in 1..m : ShownBy(sn, k) \subseteq Nat
      BY StoreAssumption DEF StoreAssumption, ShownBy
    <3> QED
      BY <3>1
  <2>5. ASSUME NEW k \in 1..m
        PROVE  /\ Cut(ss[k], part[k], view)
               /\ \A i \in 1..Len(ss[k]) : ss[k][i].lo = los[k] \/ ss[k][i].lo \in ShownBy(sn, k)
    <3>1. CASE k \in Touched(sn)
      <4>1. ss[k] = Rebuilt(sn, k)
        BY <3>1 DEF Compacted
      <4>2. k \in DOMAIN sn.los /\ los[k] \in Nat /\ los[k] = sn.los[k]
        BY <1>1, <2>3 DEF los
      <4>3. /\ Cut(Rebuilt(sn, k), ShownBy(sn, k), view)
            /\ \A i \in 1..Len(Rebuilt(sn, k)) :
                IF i = 1 THEN Rebuilt(sn, k)[i].lo = los[k] ELSE Rebuilt(sn, k)[i].lo \in ShownBy(sn, k)
        BY <4>2, RebuiltCuts
      <4> QED
        BY <4>1, <4>3, <2>4
    <3>2. CASE k \notin Touched(sn)
      <4>1. ss[k] = <<KeptShard(sn, k)>>
        BY <3>2 DEF Compacted
      <4>2. Cut(<<KeptShard(sn, k)>>, ShownBy(sn, k), view)
        BY <3>2, <1>1, KeptCuts DEF los
      <4>3. KeptShard(sn, k).lo = los[k]
        BY DEF KeptShard, los
      <4>4. \A i \in 1..Len(<<KeptShard(sn, k)>>) : <<KeptShard(sn, k)>>[i] = KeptShard(sn, k)
        OBVIOUS
      <4> QED
        BY <4>1, <4>2, <4>3, <4>4, <2>4
    <3> QED
      BY <3>1, <3>2
  <2>6. ASSUME NEW k \in 1..m, NEW p \in ShownBy(sn, k)
        PROVE  los[k] <= p /\ \A j \in 1..m : k < j => p < los[j]
    <3>1. p \in Nat /\ ShardFor(los, p) = k
      BY StoreAssumption DEF StoreAssumption, ShownBy, los
    <3> QED
      BY <3>1, <1>1, <1>3, RangeOfShard
  <2>7. \A k \in 1..m : \A i \in 1..Len(ss[k]) : los[k] <= ss[k][i].lo
    <3> SUFFICES ASSUME NEW k \in 1..m, NEW i \in 1..Len(ss[k]) PROVE los[k] <= ss[k][i].lo
      OBVIOUS
    <3>1. los[k] \in Nat
      BY <2>3
    <3> HIDE DEF ss
    <3>2. ss[k][i].lo = los[k] \/ ss[k][i].lo \in ShownBy(sn, k)
      BY <2>5
    <3> QED
      BY <3>1, <3>2, <2>6
  <2>8. \A j, k \in 1..m : j < k => \A p \in part[j] : p < los[k]
    BY <2>4, <2>6
  <2>9. \A j, k \in 1..m : j < k => \A i \in 1..Len(ss[j]) : ss[j][i].lo < los[k]
    BY <2>3, <2>5, <2>6
  <2>10. Len(ss) = m /\ ss # <<>>
    <3>1. ss = [k \in 1..m |-> ss[k]]
      OBVIOUS
    <3> HIDE DEF ss
    <3>2. ss \in Seq(Range(ss)) /\ Len(ss) = m
      BY <3>1, <1>1, ListIsSeq
    <3> QED
      BY <3>2, <2>1, EmptySeq
  <2>11. UNION {part[k] : k \in 1..m} = S
    <3>1. ASSUME NEW p \in S PROVE \E k \in 1..m : p \in part[k]
      <4>1. p \in Paths /\ p \in Nat /\ Lookup(segs, sn, p) # Deleted
        BY StoreAssumption DEF StoreAssumption
      <4>2. ShardFor(los, p) \in 1..m
        BY <4>1, <1>1, <1>3, RangeOfShard
      <4>3. p \in ShownBy(sn, ShardFor(los, p))
        BY <4>1 DEF ShownBy, los
      <4> QED
        BY <4>2, <4>3, <2>4
    <3>2. ASSUME NEW k \in 1..m, NEW p \in part[k] PROVE p \in S
      BY <3>2, <2>4 DEF ShownBy
    <3> HIDE DEF S, part
    <3> QED
      BY <3>1, <3>2
  <2> HIDE DEF part, ss, S
  <2>12. m \in Nat \ {0}
    BY <1>1, <2>1
  <2>13. \A k \in 1..m : Cut(ss[k], part[k], view)
    BY <2>5
  <2>14. Cut(FlattenSeq(ss), UNION {part[k] : k \in 1..m}, view)
    BY <2>3, <2>4, <2>7, <2>8, <2>9, <2>10, <2>12, <2>13, CutsFlatten
  <2>15. Cut(Shards(sn), S, view)
    BY <2>2, <2>11, <2>14
  <2> QED
    BY <2>15 DEF S
<1> QED
  BY <1>2, <1>3

\* The first shard starts the path space; an empty one stands for none.
LEMMA FromStartCuts ==
    ASSUME NEW pieces, NEW S \in SUBSET Nat, NEW view, Cut(pieces, S, view)
    PROVE  LET all == FromStart(pieces)
           IN Cut(all, S, view) /\ all # <<>> /\ all[1].lo = 0
<1> DEFINE all == FromStart(pieces)
           n == Len(pieces)
<1>1. CASE pieces = <<>>
  <2> DEFINE piece == [name |-> <<>>, kind |-> "shard", lo |-> 0, content |-> <<>>, fresh |-> TRUE]
  <2>1. all = [i \in 1..1 |-> piece]
    <3> DEFINE part == [lo |-> 0, content |-> <<>>]
    <3>1. all = NewShards(<<part>>)
      BY <1>1 DEF FromStart, OneEmptyShard
    <3>2. part.lo = 0 /\ part.content = <<>>
      OBVIOUS
    <3> HIDE DEF part
    <3>3. DOMAIN <<part>> = 1..1 /\ \A i \in 1..1 : <<part>>[i] = part
      OBVIOUS
    <3>4. NewShards(<<part>>) = [i \in 1..1 |-> [name |-> <<>>, kind |-> "shard", lo |-> <<part>>[i].lo,
                                 content |-> <<part>>[i].content, fresh |-> TRUE]]
      BY <3>3 DEF NewShards
    <3> QED
      BY <3>1, <3>2, <3>3, <3>4
  <2>2. S = {}
    <3>1. 1..Len(pieces) = {}
      BY <1>1
    <3> QED
      BY <3>1 DEF Cut
  <2>3. piece.kind = "shard" /\ piece.lo = 0 /\ DOMAIN piece.content = {}
    OBVIOUS
  <2> HIDE DEF piece, all
  <2>4. all \in Seq(Range(all)) /\ Len(all) = 1 /\ all[1] = piece /\ all = [i \in 1..1 |-> all[i]]
    <3>1. all = [i \in 1..1 |-> all[i]] /\ all[1] = piece
      BY <2>1
    <3> QED
      BY <3>1, ListIsSeq
  <2>5. all # <<>>
    BY <2>4
  <2>6. \A i \in 1..1 : i = 1
    OBVIOUS
  <2>7. Cut(all, S, view)
    BY <2>2, <2>3, <2>4, <2>6 DEF Cut
  <2> QED
    BY <2>3, <2>4, <2>5, <2>7 DEF all
<1>2. CASE pieces # <<>>
  <2>1. all = [pieces EXCEPT ![1].lo = 0]
    BY <1>2 DEF FromStart
  <2>2. /\ n \in Nat /\ pieces = [i \in 1..n |-> pieces[i]]
        /\ \A i \in 1..n : /\ pieces[i].kind = "shard" /\ pieces[i].lo \in Nat
                           /\ \A p \in DOMAIN pieces[i].content :
                                p \in S /\ pieces[i].content[p] = view[p] /\ pieces[i].lo <= p
        /\ \A p \in S : \E i \in 1..n : p \in DOMAIN pieces[i].content
        /\ \A i, j \in 1..n : i < j => pieces[i].lo < pieces[j].lo
        /\ \A i, j \in 1..n : i < j => \A p \in DOMAIN pieces[i].content : p < pieces[j].lo
    BY DEF Cut
  <2> HIDE DEF n, all
  <2>3. n \in Nat \ {0} /\ DOMAIN pieces = 1..n
    <3>1. pieces \in Seq(Range(pieces))
      BY <2>2, ListIsSeq
    <3> QED
      BY <3>1, <1>2, EmptySeq DEF n
  <2>4. all = [i \in 1..n |-> all[i]] /\ \A i \in 1..n : i # 1 => all[i] = pieces[i]
    BY <2>1, <2>3
  <2>5. all[1] = [pieces[1] EXCEPT !.lo = 0] /\ 1 \in 1..n
    BY <2>1, <2>3
  <2>6. all[1].kind = pieces[1].kind /\ all[1].content = pieces[1].content
    BY <2>5
  <2>7. all[1].lo = 0
    BY <2>5
  <2>8. Len(all) = n /\ all # <<>>
    <3>1. all \in Seq(Range(all)) /\ Len(all) = n
      BY <2>3, <2>4, ListIsSeq
    <3> QED
      BY <3>1, <2>3, EmptySeq
  <2>9. \A i \in 1..n : all[i].content = pieces[i].content /\ all[i].kind = "shard" /\ all[i].lo \in Nat /\ all[i].lo <= pieces[i].lo
    BY <2>2, <2>4, <2>5, <2>6, <2>7
  <2>10. \A i \in 1..n : \A p \in DOMAIN all[i].content :
              p \in S /\ all[i].content[p] = view[p] /\ all[i].lo <= p
    <3> SUFFICES ASSUME NEW i \in 1..n, NEW p \in DOMAIN all[i].content
                 PROVE  p \in S /\ all[i].content[p] = view[p] /\ all[i].lo <= p
      OBVIOUS
    <3>1. all[i].content = pieces[i].content /\ all[i].lo <= pieces[i].lo /\ all[i].lo \in Nat /\ pieces[i].lo \in Nat
      BY <2>2, <2>9
    <3>2. p \in S /\ pieces[i].content[p] = view[p] /\ pieces[i].lo <= p /\ p \in Nat
      BY <3>1, <2>2
    <3> QED
      BY <3>1, <3>2
  <2>11. \A i, j \in 1..n : i < j => /\ j # 1 /\ all[i].lo < all[j].lo
                                     /\ \A p \in DOMAIN all[i].content : p < all[j].lo
    <3> SUFFICES ASSUME NEW i \in 1..n, NEW j \in 1..n, i < j
                 PROVE  /\ j # 1 /\ all[i].lo < all[j].lo
                        /\ \A p \in DOMAIN all[i].content : p < all[j].lo
      OBVIOUS
    <3>1. j # 1 /\ all[j] = pieces[j]
      BY <2>3, <2>4
    <3>2. pieces[i].lo < pieces[j].lo /\ all[i].lo <= pieces[i].lo /\ all[i].lo \in Nat /\ pieces[i].lo \in Nat /\ pieces[j].lo \in Nat
      BY <2>2, <2>9
    <3>3. all[i].content = pieces[i].content
      BY <2>9
    <3> QED
      BY <3>1, <3>2, <3>3, <2>2
  <2>12. \A p \in S : \E i \in 1..n : p \in DOMAIN all[i].content
    BY <2>2, <2>9
  <2>13. Cut(all, S, view)
    BY <2>3, <2>4, <2>8, <2>9, <2>10, <2>11, <2>12 DEF Cut
  <2> QED
    BY <2>7, <2>8, <2>13 DEF all
<1> QED
  BY <1>1, <1>2

\* Names say nothing about contents.
LEMMA NamedCuts ==
    ASSUME NEW pieces, NEW gen, NEW S, NEW view, Cut(pieces, S, view),
           \A i \in 1..Len(pieces) : {"name", "kind", "lo", "content", "fresh"} = DOMAIN pieces[i]
    PROVE  /\ Cut(Named(pieces, gen), S, view)
           /\ Len(Named(pieces, gen)) = Len(pieces)
           /\ \A i \in 1..Len(pieces) :
                /\ Named(pieces, gen)[i].kind = pieces[i].kind
                /\ Named(pieces, gen)[i].lo = pieces[i].lo
                /\ Named(pieces, gen)[i].content = pieces[i].content
<1> DEFINE n == Len(pieces)
           named == Named(pieces, gen)
           name(i) == Name(gen, "shard", Cardinality({j \in 1..(i - 1) : pieces[j].fresh}))
<1>1. n \in Nat /\ pieces = [i \in 1..n |-> pieces[i]]
  BY DEF Cut
<1> HIDE DEF n
<1>2. DOMAIN pieces = 1..n
  BY <1>1
<1>3. named = [i \in 1..n |-> IF pieces[i].fresh THEN [pieces[i] EXCEPT !.name = name(i)] ELSE pieces[i]]
  BY <1>2 DEF Named
<1> HIDE DEF named, name
<1>4. ASSUME NEW i \in 1..n
      PROVE  named[i].kind = pieces[i].kind /\ named[i].lo = pieces[i].lo /\ named[i].content = pieces[i].content
  <2>1. named[i] = IF pieces[i].fresh THEN [pieces[i] EXCEPT !.name = name(i)] ELSE pieces[i]
    BY <1>3
  <2>2. {"name", "kind", "lo", "content", "fresh"} = DOMAIN pieces[i]
    BY DEF n
  <2> QED
    BY <2>1, <2>2
<1>5. named = [i \in 1..n |-> named[i]]
  BY <1>3
<1>6. Len(named) = n
  BY <1>1, <1>5, ListIsSeq
<1>7. Cut(named, S, view)
  BY <1>1, <1>4, <1>5, <1>6 DEF Cut, n
<1> QED
  BY <1>4, <1>6, <1>7 DEF named, n

\* Shards in order have rising bounds.
LEMMA OrderRises ==
    ASSUME NEW pieces, NEW n \in Nat, DOMAIN pieces = 1..n, \A i \in 1..n : pieces[i].lo \in Nat,
           InOrder(pieces)
    PROVE  /\ Rising(LosOf(pieces))
           /\ ShardCount(pieces) \in Nat /\ ShardCount(pieces) <= n
           /\ DOMAIN LosOf(pieces) = 1..ShardCount(pieces)
           /\ \A i \in 1..ShardCount(pieces) : LosOf(pieces)[i] = pieces[i].lo /\ pieces[i].kind = "shard"
<1> DEFINE m == ShardCount(pieces)
           los == LosOf(pieces)
           Bad == {k \in 1..m : \E j \in 1..m : j < k /\ ~(los[j] < los[k])}
<1>1. m \in Nat /\ m <= n
  BY EntriesOfTell
<1>2. \A i \in 1..m : /\ pieces[i].kind = "shard"
                      /\ IF i = 1 THEN pieces[i].lo = 0 ELSE pieces[i].lo > pieces[i - 1].lo
  BY DEF InOrder
<1>3. los = [i \in 1..m |-> pieces[i].lo]
  BY DEF LosOf
<1> HIDE DEF m, los
<1>4. \A i \in 1..m : los[i] = pieces[i].lo /\ los[i] \in Nat
  BY <1>1, <1>3
<1>5. Bad = {}
  <2> SUFFICES ASSUME Bad # {} PROVE FALSE
    OBVIOUS
  <2>1. Bad \in SUBSET Nat
    OBVIOUS
  <2>2. PICK k \in Bad : \A i \in Bad : k <= i
    BY <2>1, LeastNumber
  <2>3. PICK j \in 1..m : j < k /\ ~(los[j] < los[k])
    BY <2>2
  <2>4. k \in 1..m /\ k # 1 /\ k - 1 \in 1..m /\ k - 1 \notin Bad
    BY <1>1, <2>2, <2>3
  <2>5. los[k - 1] < los[k]
    BY <2>4, <1>2, <1>4
  <2>6. j = k - 1 \/ los[j] < los[k - 1]
    BY <2>3, <2>4
  <2>7. los[j] \in Nat /\ los[k - 1] \in Nat /\ los[k] \in Nat
    BY <2>4, <1>4
  <2> QED
    BY <2>3, <2>5, <2>6, <2>7
<1>6. \A j, k \in 1..m : j < k => los[j] < los[k]
  BY <1>5
<1>7. DOMAIN los = 1..m /\ los \in Seq(Nat)
  <2>1. los \in [1..m -> Nat]
    BY <1>3, <1>4
  <2> QED
    BY <2>1, <1>1
<1>8. 1 \in 1..m => los[1] = 0
  BY <1>2, <1>4
<1>9. Rising(los)
  BY <1>6, <1>7, <1>8 DEF Rising
<1> QED
  BY <1>1, <1>2, <1>4, <1>7, <1>9 DEF m, los

\* The segments of another checkout stack up to its index.
LEMMA ImportStacks ==
    ASSUME InOrder(Prebuilt), NEW pieces, DOMAIN pieces = DOMAIN Prebuilt,
           \A i \in DOMAIN Prebuilt : /\ pieces[i].kind = Prebuilt[i].kind
                                      /\ pieces[i].lo = Prebuilt[i].lo
                                      /\ pieces[i].content = Prebuilt[i].content
    PROVE  /\ InOrder(pieces)
           /\ Stacked(PieceContents(pieces), LosOf(pieces))
           /\ Visible(PieceContents(pieces)) = Source
<1> DEFINE n == Len(Prebuilt)
           m == ShardCount(Prebuilt)
           los == LosOf(Prebuilt)
           c == PieceContents(pieces)
<1>1. Prebuilt \in Seq([kind : {"shard", "overlay"}, lo : Nat, content : Contents])
  BY StoreAssumption DEF StoreAssumption
<1>2. n \in Nat /\ DOMAIN Prebuilt = 1..n /\ \A i \in 1..n : Prebuilt[i].lo \in Nat /\ Prebuilt[i].content \in Contents
  <2>1. n \in Nat /\ DOMAIN Prebuilt = 1..n
    BY <1>1
  <2> DEFINE R == [kind : {"shard", "overlay"}, lo : Nat, content : Contents]
  <2>2. \A r \in R : r.lo \in Nat /\ r.content \in Contents
    OBVIOUS
  <2>3. Prebuilt \in Seq(R)
    BY <1>1
  <2> HIDE DEF R
  <2>4. \A i \in 1..Len(Prebuilt) : Prebuilt[i] \in R
    BY <2>3
  <2> HIDE DEF n
  <2> QED
    BY <2>1, <2>2, <2>4 DEF n
<1>3. \A i \in 1..n : Prebuilt[i].kind = "shard" =>
         \A p \in DOMAIN Prebuilt[i].content :
             /\ Prebuilt[i].content[p] # Deleted /\ Prebuilt[i].lo <= p
             /\ \A j \in 1..n : j > i /\ Prebuilt[j].kind = "shard" => p < Prebuilt[j].lo
  BY <1>2, StoreAssumption DEF StoreAssumption
<1> HIDE DEF n
<1>4. /\ Rising(los) /\ m \in Nat /\ m <= n /\ DOMAIN los = 1..m
      /\ \A i \in 1..m : los[i] = Prebuilt[i].lo /\ Prebuilt[i].kind = "shard"
  BY <1>2, OrderRises
<1>5. LosOf(pieces) = los /\ InOrder(pieces)
  <2>1. {i \in DOMAIN pieces : pieces[i].kind = "shard"} = {i \in DOMAIN Prebuilt : Prebuilt[i].kind = "shard"}
    OBVIOUS
  <2>2. ShardCount(pieces) = m
    BY <2>1 DEF ShardCount
  <2> HIDE DEF m, los
  <2>3. \A i \in 1..m : i \in 1..n /\ (i # 1 => i - 1 \in 1..n)
    BY <1>2, <1>4
  <2>4. LosOf(pieces) = los
    BY <2>2, <2>3, <1>2 DEF LosOf, los, m
  <2>5. InOrder(pieces)
    <3>1. \A i \in 1..m : /\ Prebuilt[i].kind = "shard"
                          /\ IF i = 1 THEN Prebuilt[i].lo = 0 ELSE Prebuilt[i].lo > Prebuilt[i - 1].lo
      BY DEF InOrder, m
    <3> QED
      BY <2>2, <2>3, <3>1, <1>2 DEF InOrder
  <2> QED
    BY <2>4, <2>5
<1>6. DOMAIN c = 1..n /\ \A i \in 1..n : c[i] = Prebuilt[i].content
  BY <1>2 DEF PieceContents
<1> HIDE DEF c, m, los
<1>7. \A i \in 1..n : IsContent(c[i])
  <2>1. \A x \in Contents : IsContent(x)
    BY DEF Contents, IsContent
  <2> QED
    BY <2>1, <1>2, <1>6
<1>8. ASSUME NEW k \in 1..m, NEW p \in DOMAIN c[k]
      PROVE  c[k][p] # Deleted /\ ShardFor(los, p) = k
  <2>1. k \in 1..n /\ Prebuilt[k].kind = "shard" /\ los[k] = Prebuilt[k].lo
    BY <1>2, <1>4
  <2>2. p \in DOMAIN Prebuilt[k].content
    BY <2>1, <1>6
  <2>3. /\ Prebuilt[k].content[p] # Deleted /\ Prebuilt[k].lo <= p
        /\ \A j \in 1..n : j > k /\ Prebuilt[j].kind = "shard" => p < Prebuilt[j].lo
    BY <2>1, <2>2, <1>3
  <2>4. \A j \in 1..m : k < j => p < los[j]
    <3> SUFFICES ASSUME NEW j \in 1..m, k < j PROVE p < los[j]
      OBVIOUS
    <3>1. j \in 1..n /\ Prebuilt[j].kind = "shard" /\ los[j] = Prebuilt[j].lo /\ j > k
      BY <1>2, <1>4
    <3> QED
      BY <3>1, <2>3
  <2>5. p \in Nat
    BY <2>1, <1>7, StoreAssumption DEF StoreAssumption, IsContent
  <2>6. ShardFor(los, p) = k
    BY <2>1, <2>3, <2>4, <2>5, <1>4, ShardForRange
  <2> QED
    BY <2>1, <2>3, <2>6, <1>6
<1>9. Stacked(c, los)
  <2>1. DOMAIN los \subseteq DOMAIN c
    BY <1>2, <1>4, <1>6
  <2> QED
    BY <2>1, <1>4, <1>6, <1>7, <1>8 DEF Stacked
<1>10. Visible(c) = Source
  <2>1. ASSUME NEW p \in Paths
        PROVE  (IF Holders(c, p) = {} THEN Deleted ELSE c[Max(Holders(c, p))][p]) =
               (IF Holders(c, p) = {} THEN Deleted ELSE Prebuilt[Max(Holders(c, p))].content[p])
    <3>1. CASE Holders(c, p) = {}
      BY <3>1
    <3>2. CASE Holders(c, p) # {}
      <4> DEFINE H == Holders(c, p)
      <4>1. H \in SUBSET (1..n)
        BY <1>6 DEF Holders
      <4> HIDE DEF H
      <4>2. PICK i \in H : \A j \in H : j <= i
        BY <3>2, <4>1, <1>4, <1>2, GreatestNumber DEF H
      <4>3. \A j \in H : i >= j
        BY <4>1, <4>2, <1>2
      <4>4. Max(H) \in H
        BY <4>2, <4>3 DEF Max
      <4>5. c[Max(H)] = Prebuilt[Max(H)].content
        BY <4>1, <4>4, <1>6
      <4> QED
        BY <3>2, <4>5 DEF H
    <3> QED
      BY <3>1, <3>2
  <2>2. \A p : Holders(c, p) = {i \in DOMAIN Prebuilt : p \in DOMAIN Prebuilt[i].content}
    BY <1>2, <1>6 DEF Holders
  <2>3. Source = [p \in Paths |-> IF Holders(c, p) = {} THEN Deleted ELSE Prebuilt[Max(Holders(c, p))].content[p]]
    BY <2>2 DEF Source
  <2>4. Visible(c) = [p \in Paths |-> IF Holders(c, p) = {} THEN Deleted ELSE c[Max(Holders(c, p))][p]]
    BY DEF Visible
  <2> QED
    BY <2>1, <2>3, <2>4
<1> QED
  BY <1>5, <1>9, <1>10 DEF c

\* A base is cut from the files that are present.
LEMMA BaseShows ==
    ASSUME NEW build \in Indexes, NEW names, NEW gen, NEW open, NEW sn
    PROVE  LET present == Restrict(build, {p \in Paths : build[p] # Deleted})
               parts == IF present = <<>> THEN OneEmptyShard ELSE Split(0, present)
           IN PlanShows(Plan(build, Named(NewShards(parts), gen), names, TRUE), open, sn)
<1> DEFINE S == {p \in Paths : build[p] # Deleted}
           present == Restrict(build, S)
           parts == IF present = <<>> THEN OneEmptyShard ELSE Split(0, present)
           pieces == NewShards(parts)
           named == Named(pieces, gen)
           plan == Plan(build, named, names, TRUE)
<1>1. S \in SUBSET Paths /\ S \in SUBSET Nat
  BY StoreAssumption DEF StoreAssumption
<1>2. DOMAIN present = S /\ \A p \in S : present[p] = build[p]
  BY DEF Restrict, Indexes
<1> HIDE DEF present, S
<1>3. Cut(pieces, S, build) /\ pieces # <<>> /\ pieces[1].lo = 0
  <2>1. CASE present = <<>>
    <3>1. S = {}
      BY <2>1, <1>2
    <3>2. Cut(<<>>, {}, build)
      <4>1. Len(<<>>) = 0 /\ 1..0 = {} /\ <<>> = [i \in 1..0 |-> <<>>[i]]
        OBVIOUS
      <4> QED
        BY <4>1 DEF Cut
    <3>3. FromStart(<<>>) = pieces
      BY <2>1 DEF FromStart
    <3> HIDE DEF pieces
    <3> QED
      BY <3>1, <3>2, <3>3, FromStartCuts
  <2>2. CASE present # <<>>
    <3>1. pieces = NewShards(Split(0, present))
      BY <2>2
    <3> HIDE DEF pieces, parts
    <3>2. DOMAIN present \in SUBSET Paths /\ \A p \in DOMAIN present : 0 <= p
      <4>1. \A p \in S : p \in Nat
        BY <1>1
      <4>2. \A p \in Nat : 0 <= p
        OBVIOUS
      <4> QED
        BY <4>1, <4>2, <1>1, <1>2
    <3>3. /\ Cut(pieces, DOMAIN present, present)
          /\ \A i \in 1..Len(pieces) : i = 1 => pieces[i].lo = 0
      BY <3>1, <3>2, SplitCuts
    <3>4. Cut(pieces, S, build)
      BY <3>3, <1>2, CutOf
    <3>5. S # {}
      <4>1. present = [p \in S |-> build[p]]
        BY <1>1 DEF present, Restrict, Indexes
      <4> QED
        BY <4>1, <2>2
    <3>6. PICK i \in 1..Len(pieces) : TRUE
      BY <3>4, <3>5 DEF Cut
    <3>7. Len(pieces) \in Nat
      BY <3>4 DEF Cut
    <3>8. 1 \in 1..Len(pieces)
      BY <3>6, <3>7
    <3>9. pieces # <<>>
      BY <3>8
    <3> QED
      BY <3>3, <3>4, <3>8, <3>9
  <2> QED
    BY <2>1, <2>2
<1>4. \A i \in 1..Len(pieces) : {"name", "kind", "lo", "content", "fresh"} = DOMAIN pieces[i]
  <2>1. \A i \in DOMAIN pieces : {"name", "kind", "lo", "content", "fresh"} = DOMAIN pieces[i]
    BY DEF NewShards
  <2>2. DOMAIN pieces = 1..Len(pieces)
    <3> HIDE DEF pieces
    <3> QED
      BY <1>3 DEF Cut
  <2> QED
    BY <2>1, <2>2
<1> HIDE DEF pieces
<1>5. Cut(named, S, build) /\ named # <<>> /\ named[1].lo = 0
  <2>1. /\ Cut(named, S, build) /\ Len(named) = Len(pieces)
        /\ \A i \in 1..Len(pieces) : named[i].lo = pieces[i].lo
    BY <1>3, <1>4, NamedCuts
  <2>2. Len(pieces) # 0 /\ Len(pieces) \in Nat
    <3>1. pieces \in Seq(Range(pieces))
      BY <1>3, ListIsSeq DEF Cut
    <3> QED
      BY <3>1, <1>3, EmptySeq
  <2>3. 1 \in 1..Len(pieces) /\ Len(named) # 0
    BY <2>1, <2>2
  <2> QED
    BY <2>1, <2>3, <1>3
<1>6. /\ InOrder(named) /\ DOMAIN named # {}
      /\ Stacked(PieceContents(named), LosOf(named))
      /\ Visible(PieceContents(named)) = build
  <2>1. named = [i \in DOMAIN pieces |-> named[i]]
    BY DEF Named
  <2> HIDE DEF named
  <2>2. DOMAIN named # {}
    BY <2>1, <1>5
  <2> QED
    BY <2>2, <1>5, CutStacks DEF S
<1>7. Old(named) = {}
  <2>1. \A i \in DOMAIN pieces : pieces[i].fresh
    BY DEF pieces, NewShards
  <2>2. DOMAIN named = DOMAIN pieces
    BY DEF Named
  <2>3. \A i \in DOMAIN pieces : named[i].fresh
    <3> SUFFICES ASSUME NEW i \in DOMAIN pieces PROVE named[i].fresh
      OBVIOUS
    <3> DEFINE name == Name(gen, "shard", Cardinality({j \in 1..(i - 1) : pieces[j].fresh}))
    <3>1. named[i] = IF pieces[i].fresh THEN [pieces[i] EXCEPT !.name = name] ELSE pieces[i]
      BY DEF Named
    <3>2. DOMAIN pieces[i] = {"name", "kind", "lo", "content", "fresh"} /\ pieces[i].fresh = TRUE
      BY DEF pieces, NewShards
    <3> HIDE DEF name, named
    <3>3. named[i].fresh = pieces[i].fresh
      BY <3>1, <3>2
    <3> QED
      BY <3>2, <3>3
  <2> HIDE DEF named
  <2> QED
    BY <2>2, <2>3 DEF Old
<1> HIDE DEF named
<1>8. ~plan.stacks /\ plan.pieces = named /\ plan.want = build /\ plan.whole
  BY DEF Plan
<1> HIDE DEF plan
<1>9. PlanShows(plan, open, sn)
  BY <1>6, <1>7, <1>8 DEF PlanShows
<1> QED
  BY <1>9 DEF plan, named, pieces, present, S

\* A list with one element more.
LEMMA AppendedList ==
    ASSUME NEW n \in Nat, NEW c, c = [i \in 1..n |-> c[i]], NEW x
    PROVE  /\ Append(c, x) = [i \in 1..(n + 1) |-> Append(c, x)[i]]
           /\ DOMAIN Append(c, x) = 1..(n + 1)
           /\ \A i \in 1..n : Append(c, x)[i] = c[i]
           /\ Append(c, x)[n + 1] = x
<1> DEFINE R == Range(c) \cup {x}
<1>1. c \in Seq(Range(c)) /\ Len(c) = n
  BY ListIsSeq
<1>2. c \in Seq(R)
  BY <1>1, SeqMonotonic
<1>3. x \in R
  OBVIOUS
<1> HIDE DEF R
<1>4. Append(c, x) \in Seq(R) /\ Len(Append(c, x)) = n + 1
  BY <1>1, <1>2, <1>3
<1>5. /\ DOMAIN Append(c, x) = 1..(n + 1)
      /\ \A i \in 1..n : Append(c, x)[i] = c[i]
      /\ Append(c, x)[n + 1] = x
  BY <1>1, <1>2, <1>3
<1>6. Append(c, x) = [i \in 1..(n + 1) |-> Append(c, x)[i]]
  BY <1>4, <1>5
<1> QED
  BY <1>5, <1>6

\* The segment on top is what is seen of its paths.
LEMMA VisibleOneMore ==
    ASSUME NEW n \in Nat, NEW c, DOMAIN c = 1..n, NEW c2, DOMAIN c2 = 1..(n + 1),
           \A i \in 1..n : c2[i] = c[i], NEW p \in Paths
    PROVE  Visible(c2)[p] = IF p \in DOMAIN c2[n + 1] THEN c2[n + 1][p] ELSE Visible(c)[p]
<1>1. \A i : i \in 1..(n + 1) <=> i \in 1..n \/ i = n + 1
  OBVIOUS
<1>2. n + 1 \in 1..(n + 1) /\ n + 1 \in Nat /\ \A j \in 1..(n + 1) : ~(j > n + 1)
  OBVIOUS
<1>3. CASE p \in DOMAIN c2[n + 1]
  BY <1>2, <1>3, VisibleAt
<1>4. CASE p \notin DOMAIN c2[n + 1]
  <2>1. CASE Holders(c, p) = {}
    <3>1. Holders(c2, p) = {}
      BY <2>1, <1>1, <1>4 DEF Holders
    <3> QED
      BY <2>1, <3>1, <1>2, <1>4, VisibleAt
  <2>2. CASE Holders(c, p) # {}
    <3>1. PICK i \in 1..n : p \in DOMAIN c[i] /\ \A j \in 1..n : j > i => p \notin DOMAIN c[j]
      BY <2>2, VisibleAt
    <3>2. Visible(c)[p] = c[i][p]
      BY <3>1, VisibleAt
    <3>3. i \in 1..(n + 1) /\ p \in DOMAIN c2[i] /\ \A j \in 1..(n + 1) : j > i => p \notin DOMAIN c2[j]
      BY <3>1, <1>1, <1>4
    <3>4. \A k \in 1..(n + 1) :
            p \in DOMAIN c2[k] /\ (\A j \in 1..(n + 1) : j > k => p \notin DOMAIN c2[j]) => Visible(c2)[p] = c2[k][p]
      BY <1>2, VisibleAt
    <3>5. Visible(c2)[p] = c2[i][p]
      BY <3>3, <3>4
    <3> QED
      BY <3>2, <3>5, <3>1, <1>4
  <2> QED
    BY <2>1, <2>2
<1> QED
  BY <1>3, <1>4

\* One more overlay changes what its paths show.
LEMMA VisibleAppend ==
    ASSUME NEW n \in Nat, NEW c, c = [i \in 1..n |-> c[i]], NEW top
    PROVE  Visible(Append(c, top)) =
              [p \in Paths |-> IF p \in DOMAIN top THEN top[p] ELSE Visible(c)[p]]
<1> DEFINE c2 == Append(c, top)
<1>1. DOMAIN c = 1..n
  OBVIOUS
<1>2. DOMAIN c2 = 1..(n + 1) /\ (\A i \in 1..n : c2[i] = c[i]) /\ c2[n + 1] = top
  BY AppendedList
<1>3. Visible(c2) = [p \in Paths |-> Visible(c2)[p]]
  BY DEF Visible
<1> HIDE DEF c2
<1>4. \A p \in Paths : Visible(c2)[p] = IF p \in DOMAIN top THEN top[p] ELSE Visible(c)[p]
  <2> TAKE p \in Paths
  <2>1. Visible(c2)[p] = IF p \in DOMAIN c2[n + 1] THEN c2[n + 1][p] ELSE Visible(c)[p]
    BY <1>1, <1>2, VisibleOneMore
  <2> QED
    BY <2>1, <1>2
<1> QED
  BY <1>3, <1>4 DEF c2

\* The view of a snapshot is what its segments show.
LEMMA ViewVisible ==
    ASSUME NEW open, NEW sn, IsSnapshot(sn), Sound(open, sn), sn.whole
    PROVE  /\ View(open, sn) = Visible(ContentsOf(open, sn.segs))
           /\ View(open, sn) = [p \in Paths |-> Lookup(open, sn, p)]
<1>1. View(open, sn) = [p \in Paths |-> Lookup(open, sn, p)]
  BY DEF View
<1>2. Visible(ContentsOf(open, sn.segs)) = [p \in Paths |-> Visible(ContentsOf(open, sn.segs))[p]]
  BY DEF Visible
<1>3. \A p \in Paths : Lookup(open, sn, p) = Visible(ContentsOf(open, sn.segs))[p]
  BY LookupVisible
<1> QED
  BY <1>1, <1>2, <1>3

\* An overlay lies on top of what is published.
LEMMA OverlayShows ==
    ASSUME NEW batch \in Batches, NEW gen, IsSnapshot(snaps[cur]),
           snaps[cur].whole => Sound(segs, snaps[cur])
    PROVE  LET top == [name |-> Name(gen, "overlay", 0), kind |-> "overlay", lo |-> 0,
                       content |-> batch, fresh |-> TRUE]
           IN PlanShows([Plan(Changed(batch), <<top>>, {}, snaps[cur].whole) EXCEPT !.stacks = TRUE],
                        segs, snaps[cur])
<1> DEFINE sn == snaps[cur]
           top == [name |-> Name(gen, "overlay", 0), kind |-> "overlay", lo |-> 0,
                   content |-> batch, fresh |-> TRUE]
           plan == [Plan(Changed(batch), <<top>>, {}, sn.whole) EXCEPT !.stacks = TRUE]
           n == Len(sn.segs)
           c == ContentsOf(segs, sn.segs)
           c2 == Append(c, batch)
<1>1. top.kind = "overlay" /\ top.content = batch
  OBVIOUS
<1>2. IsContent(batch)
  <2>1. batch \in Contents
    BY StoreAssumption DEF StoreAssumption
  <2> QED
    BY <2>1 DEF Contents, IsContent
<1> HIDE DEF top
<1>3. /\ plan.stacks /\ plan.pieces = <<top>> /\ plan.pieces[1] = top /\ DOMAIN plan.pieces # {}
      /\ plan.whole = sn.whole /\ plan.want = Changed(batch)
  BY DEF Plan
<1> HIDE DEF plan
<1>4. ASSUME ~sn.whole PROVE Changed(batch) = Lost
  BY <1>4 DEF Changed
<1>5. ASSUME sn.whole PROVE Changed(batch) = Visible(c2)
  <2>1. n \in Nat /\ DOMAIN c = 1..n /\ c = [i \in 1..n |-> c[i]]
    BY SnapshotLengths DEF ContentsOf
  <2>2. View(segs, sn) = Visible(c)
    BY <1>5, ViewVisible
  <2>3. Changed(batch) = [p \in Paths |-> IF p \in DOMAIN batch THEN batch[p] ELSE Visible(c)[p]]
    BY <1>5, <2>2 DEF Changed
  <2> HIDE DEF c, n
  <2>4. Visible(c2) = [p \in Paths |-> IF p \in DOMAIN batch THEN batch[p] ELSE Visible(c)[p]]
    BY <2>1, VisibleAppend
  <2> QED
    BY <2>3, <2>4
<1>6. PlanShows(plan, segs, sn)
  BY <1>1, <1>2, <1>3, <1>4, <1>5 DEF PlanShows
<1> QED
  BY <1>6 DEF plan, top

\* An import stacks the segments of the other checkout.
LEMMA ImportShows ==
    ASSUME InOrder(Prebuilt), Prebuilt # <<>>, NEW gen, NEW names, NEW open, NEW sn
    PROVE  LET pieces == [i \in DOMAIN Prebuilt |->
                   [name |-> Name(gen, "import", i), kind |-> Prebuilt[i].kind, lo |-> Prebuilt[i].lo,
                    content |-> Prebuilt[i].content, fresh |-> TRUE]]
           IN PlanShows(Plan(Source, pieces, names, TRUE), open, sn)
<1> DEFINE pieces == [i \in DOMAIN Prebuilt |->
               [name |-> Name(gen, "import", i), kind |-> Prebuilt[i].kind, lo |-> Prebuilt[i].lo,
                content |-> Prebuilt[i].content, fresh |-> TRUE]]
           plan == Plan(Source, pieces, names, TRUE)
<1>1. /\ DOMAIN pieces = DOMAIN Prebuilt
      /\ \A i \in DOMAIN Prebuilt :
           /\ pieces[i].kind = Prebuilt[i].kind /\ pieces[i].lo = Prebuilt[i].lo
           /\ pieces[i].content = Prebuilt[i].content /\ pieces[i].fresh = TRUE
  OBVIOUS
<1> HIDE DEF pieces
<1>2. /\ InOrder(pieces)
      /\ Stacked(PieceContents(pieces), LosOf(pieces))
      /\ Visible(PieceContents(pieces)) = Source
  BY <1>1, ImportStacks
<1>3. Old(pieces) = {}
  BY <1>1 DEF Old
<1>6. DOMAIN pieces # {}
  <2>1. Prebuilt \in Seq([kind : {"shard", "overlay"}, lo : Nat, content : Contents])
    BY StoreAssumption DEF StoreAssumption
  <2>2. DOMAIN Prebuilt # {}
    <3> HIDE DEF pieces
    <3>1. Len(Prebuilt) \in Nat /\ Len(Prebuilt) # 0 /\ DOMAIN Prebuilt = 1..Len(Prebuilt)
      BY <2>1, EmptySeq
    <3> QED
      BY <3>1
  <2> QED
    BY <2>2, <1>1
<1>4. ~plan.stacks /\ plan.pieces = pieces /\ plan.want = Source /\ plan.whole
  BY DEF Plan
<1> HIDE DEF plan
<1>5. PlanShows(plan, open, sn)
  BY <1>2, <1>3, <1>4, <1>6 DEF PlanShows
<1> QED
  BY <1>5 DEF plan, pieces

\* What a stack shows is an index.
LEMMA VisibleIsIndex ==
    ASSUME NEW n \in Nat, NEW c, DOMAIN c = 1..n, \A i \in 1..n : IsContent(c[i])
    PROVE  Visible(c) \in Indexes
<1>1. \A p \in Paths : Visible(c)[p] \in Versions
  <2> SUFFICES ASSUME NEW p \in Paths PROVE Visible(c)[p] \in Versions
    OBVIOUS
  <2>1. CASE Holders(c, p) = {}
    <3>1. Visible(c)[p] = Deleted
      BY <2>1, VisibleAt
    <3> QED
      BY <3>1, FilesAssumption DEF FilesAssumption, Deleted
  <2>2. CASE Holders(c, p) # {}
    <3>1. PICK i \in 1..n : p \in DOMAIN c[i] /\ \A j \in 1..n : j > i => p \notin DOMAIN c[j]
      BY <2>2, VisibleAt
    <3>2. Visible(c)[p] = c[i][p]
      BY <3>1, VisibleAt
    <3> QED
      BY <3>1, <3>2 DEF IsContent
  <2> QED
    BY <2>1, <2>2
<1>2. Visible(c) = [p \in Paths |-> Visible(c)[p]]
  BY DEF Visible
<1> QED
  BY <1>1, <1>2 DEF Indexes

\* Neither FromStart nor Named changes what is in a shard that is kept.
LEMMA KeptPieces ==
    ASSUME NEW pieces, NEW gen, NEW before, Draft(pieces, before)
    PROVE  LET named == Named(FromStart(pieces), gen)
           IN \A i \in Old(named) : /\ i \in Old(pieces)
                                    /\ named[i].name = pieces[i].name
                                    /\ named[i].content = pieces[i].content
<1> DEFINE all == FromStart(pieces)
           named == Named(all, gen)
<1>1. \A i \in DOMAIN all : DOMAIN all[i] = {"name", "kind", "lo", "content", "fresh"} /\ all[i].fresh \in BOOLEAN
  <2>1. Draft(all, before)
    BY FromStartDraft
  <2> QED
    BY <2>1 DEF Draft
<1>2. ASSUME NEW i \in Old(named)
      PROVE  i \in Old(all) /\ named[i] = all[i]
  <2> DEFINE name == Name(gen, "shard", Cardinality({j \in 1..(i - 1) : all[j].fresh}))
  <2>1. i \in DOMAIN named /\ ~named[i].fresh
    BY DEF Old
  <2>2. i \in DOMAIN all /\ named[i] = IF all[i].fresh THEN [all[i] EXCEPT !.name = name] ELSE all[i]
    BY <2>1 DEF Named
  <2>3. DOMAIN all[i] = {"name", "kind", "lo", "content", "fresh"} /\ all[i].fresh \in BOOLEAN
    BY <2>2, <1>1
  <2> HIDE DEF name, all, named
  <2>4. CASE all[i].fresh
    <3>1. named[i] = [all[i] EXCEPT !.name = name]
      BY <2>2, <2>4
    <3>2. named[i].fresh = all[i].fresh
      BY <3>1, <2>3
    <3> QED
      BY <3>2, <2>1, <2>4
  <2>5. CASE ~all[i].fresh
    BY <2>2, <2>5 DEF Old
  <2> QED
    BY <2>4, <2>5
<1>3. ASSUME NEW i \in Old(all)
      PROVE  i \in Old(pieces) /\ all[i].name = pieces[i].name /\ all[i].content = pieces[i].content
  <2>1. i \in DOMAIN all /\ ~all[i].fresh
    BY DEF Old
  <2>2. CASE pieces = <<>>
    <3>1. all = NewShards(OneEmptyShard)
      BY <2>2 DEF FromStart
    <3>2. i \in DOMAIN OneEmptyShard /\ all[i].fresh
      BY <2>1, <3>1 DEF NewShards
    <3> QED
      BY <2>1, <3>2
  <2>3. CASE pieces # <<>>
    <3>1. all = [pieces EXCEPT ![1].lo = 0]
      BY <2>3 DEF FromStart
    <3>2. i \in DOMAIN pieces /\ all[i] = IF i = 1 THEN [pieces[i] EXCEPT !.lo = 0] ELSE pieces[i]
      BY <2>1, <3>1
    <3>3. DOMAIN pieces[i] = {"name", "kind", "lo", "content", "fresh"}
      BY <3>2 DEF Draft
    <3> HIDE DEF all
    <3>4. all[i].fresh = pieces[i].fresh /\ all[i].name = pieces[i].name /\ all[i].content = pieces[i].content
      BY <3>2, <3>3
    <3> QED
      BY <2>1, <3>2, <3>4 DEF Old
  <2> QED
    BY <2>2, <2>3
<1> HIDE DEF named, all
<1>4. \A i \in Old(named) : /\ i \in Old(pieces)
                            /\ named[i].name = pieces[i].name
                            /\ named[i].content = pieces[i].content
  BY <1>2, <1>3
<1> QED
  BY <1>4 DEF named, all

\* A compaction shows what was shown.
LEMMA CompactionShows ==
    ASSUME NEW sn, IsSnapshot(sn), sn.whole => Sound(segs, sn), NEW gen \in Nat,
           \A n \in Range(sn.segs) : n[1] < gen
    PROVE  PlanShows([Plan(View(segs, sn), Named(FromStart(Shards(sn)), gen), Replaced(sn), sn.whole)
                        EXCEPT !.compacting = TRUE], segs, sn)
<1> DEFINE view == View(segs, sn)
           shards == Shards(sn)
           all == FromStart(shards)
           named == Named(all, gen)
           plan == [Plan(view, named, Replaced(sn), sn.whole) EXCEPT !.compacting = TRUE]
           S == {p \in Paths : view[p] # Deleted}
<1>1. /\ Draft(shards, gen)
      /\ \A i \in Old(shards) : \E k \in DOMAIN sn.los : shards[i] = KeptShard(sn, k)
  BY CompactionDraft
<1>2. ~plan.stacks /\ plan.pieces = named /\ plan.want = view /\ plan.whole = sn.whole
  BY DEF Plan
<1>3. ~sn.whole => view = Lost
  BY DEF View
<1>4. \A i \in Old(named) : named[i].content = segs[named[i].name].content
  <2> SUFFICES ASSUME NEW i \in Old(named) PROVE named[i].content = segs[named[i].name].content
    OBVIOUS
  <2>1. i \in Old(shards) /\ named[i].name = shards[i].name /\ named[i].content = shards[i].content
    BY <1>1, KeptPieces
  <2>2. PICK k \in DOMAIN sn.los : shards[i] = KeptShard(sn, k)
    BY <1>1, <2>1
  <2>3. KeptShard(sn, k).content = segs[KeptShard(sn, k).name].content
    BY DEF KeptShard
  <2> QED
    BY <2>1, <2>2, <2>3
<1>5. ASSUME sn.whole
      PROVE  /\ InOrder(named)
             /\ Stacked(PieceContents(named), LosOf(named))
             /\ Visible(PieceContents(named)) = view
  <2>1. /\ view = Visible(ContentsOf(segs, sn.segs))
        /\ view = [p \in Paths |-> Lookup(segs, sn, p)]
    BY <1>5, ViewVisible
  <2>2. view \in Indexes
    <3> DEFINE c == ContentsOf(segs, sn.segs)
               n == Len(sn.segs)
    <3>1. n \in Nat /\ DOMAIN c = 1..n
      BY SnapshotLengths DEF ContentsOf
    <3>2. \A i \in 1..n : IsContent(c[i])
      BY <3>1, <1>5 DEF Sound, Stacked
    <3> HIDE DEF c, n
    <3>3. Visible(c) \in Indexes
      BY <3>1, <3>2, VisibleIsIndex
    <3> QED
      BY <3>3, <2>1 DEF c
  <2>3. Cut(shards, S, view)
    <3> HIDE DEF view
    <3> QED
      BY <2>1, <1>5, CompactionCuts
  <2>4. S \in SUBSET Nat
    BY StoreAssumption DEF StoreAssumption
  <2> HIDE DEF view, shards
  <2>5. Cut(all, S, view) /\ all # <<>> /\ all[1].lo = 0
    <3> HIDE DEF S
    <3> QED
      BY <2>3, <2>4, FromStartCuts
  <2>6. Draft(all, gen)
    BY <1>1, FromStartDraft
  <2> HIDE DEF all
  <2>7. Len(all) \in Nat /\ DOMAIN all = 1..Len(all)
    BY <2>5 DEF Cut
  <2>8. \A i \in 1..Len(all) : {"name", "kind", "lo", "content", "fresh"} = DOMAIN all[i]
    BY <2>6, <2>7 DEF Draft
  <2>9. /\ Cut(named, S, view) /\ Len(named) = Len(all)
        /\ \A i \in 1..Len(all) : named[i].lo = all[i].lo
    <3> HIDE DEF S
    <3> QED
      BY <2>5, <2>8, NamedCuts
  <2>10. Len(all) # 0
    <3>1. all \in Seq(Range(all))
      BY <2>6 DEF Draft
    <3> QED
      BY <3>1, <2>5, EmptySeq
  <2>11. 1 \in 1..Len(all) /\ Len(named) # 0
    BY <2>7, <2>9, <2>10
  <2>12. named # <<>> /\ named[1].lo = 0
    BY <2>5, <2>9, <2>11
  <2> HIDE DEF named
  <2> QED
    BY <2>2, <2>9, <2>12, CutStacks DEF S
<1>7. DOMAIN named # {}
  <2>1. DOMAIN all # {}
    <3>1. CASE shards = <<>>
      <4>1. all = NewShards(OneEmptyShard)
        BY <3>1 DEF FromStart
      <4>2. DOMAIN all = {1}
        BY <4>1 DEF NewShards, OneEmptyShard
      <4> QED
        BY <4>2
    <3>2. CASE shards # <<>>
      <4>1. DOMAIN all = DOMAIN shards
        BY <3>2 DEF FromStart
      <4>2. shards \in Seq(Range(shards))
        BY <1>1 DEF Draft
      <4> HIDE DEF shards, all
      <4>3. Len(shards) \in Nat /\ Len(shards) # 0 /\ DOMAIN shards = 1..Len(shards)
        BY <3>2, <4>2, EmptySeq
      <4> QED
        BY <4>1, <4>3
    <3> QED
      BY <3>1, <3>2
  <2>2. DOMAIN named = DOMAIN all
    BY DEF Named
  <2> HIDE DEF named, all
  <2> QED
    BY <2>1, <2>2
<1> HIDE DEF plan, named, view
<1>6. PlanShows(plan, segs, sn)
  BY <1>2, <1>3, <1>4, <1>5, <1>7 DEF PlanShows
<1> QED
  BY <1>6 DEF plan, named, view

-----------------------------------------------------------------------------
\* Steps that keep what snapshots and segments hold.

\* One reference to a snapshot more or less.
LEMMA KeepsRefs ==
    ASSUME NEW all, \A h \in DOMAIN all : IsSnapshot(all[h]), NEW g, NEW n
    PROVE  LET left == [all EXCEPT ![g].refs = n]
           IN /\ DOMAIN left = DOMAIN all
              /\ \A h \in DOMAIN all : IsSnapshot(left[h]) /\ KeepsSnapshot(left[h], all[h])
<1> DEFINE left == [all EXCEPT ![g].refs = n]
<1>1. /\ DOMAIN left = DOMAIN all
      /\ \A h \in DOMAIN all : left[h] = IF h = g THEN [all[g] EXCEPT !.refs = n] ELSE all[h]
  OBVIOUS
<1> HIDE DEF left
<1>2. \A h \in DOMAIN all : DOMAIN all[h] = {"gen", "segs", "los", "route", "refs", "whole"}
  BY DEF IsSnapshot
<1>3. \A h \in DOMAIN all : DOMAIN left[h] = DOMAIN all[h] /\ KeepsSnapshot(left[h], all[h])
  <2> SUFFICES ASSUME NEW h \in DOMAIN all PROVE DOMAIN left[h] = DOMAIN all[h] /\ KeepsSnapshot(left[h], all[h])
    OBVIOUS
  <2>1. CASE h = g
    <3>1. left[h] = [all[h] EXCEPT !.refs = n] /\ DOMAIN all[h] = {"gen", "segs", "los", "route", "refs", "whole"}
      BY <2>1, <1>1, <1>2
    <3> QED
      BY <3>1 DEF KeepsSnapshot
  <2>2. CASE h # g
    BY <2>2, <1>1 DEF KeepsSnapshot
  <2> QED
    BY <2>1, <2>2
<1>4. \A h \in DOMAIN all : IsSnapshot(left[h])
  BY <1>3 DEF IsSnapshot, KeepsSnapshot
<1> QED
  BY <1>1, <1>3, <1>4 DEF left

\* A release changes no contents.
LEMMA ReleaseKeeps ==
    ASSUME NEW all, NEW open, NEW dir, NEW g, Shaped(all, open)
    PROVE  LET after == Release(all, open, dir, g)
           IN /\ Shaped(after.snaps, after.segs)
              /\ KeepsContents(after.snaps, after.segs, all, open)
              /\ KeepsFiles(after.files, dir)
<1> DEFINE names == Range(all[g].segs)
           gone == Unmapped(open, names)
           rest == Without(open, gone)
           after == Release(all, open, dir, g)
<1>1. CASE all[g].refs > 1
  <2> DEFINE left == [all EXCEPT ![g].refs = all[g].refs - 1]
  <2>1. after.snaps = left /\ after.segs = open /\ after.files = dir
    BY <1>1 DEF Release
  <2> HIDE DEF left, after
  <2>2. \A h \in DOMAIN all : IsSnapshot(all[h])
    BY DEF Shaped
  <2>3. DOMAIN left = DOMAIN all /\ \A h \in DOMAIN all : IsSnapshot(left[h]) /\ KeepsSnapshot(left[h], all[h])
    BY <2>2, KeepsRefs DEF left
  <2>4. Shaped(after.snaps, after.segs)
    BY <2>1, <2>3 DEF Shaped
  <2>5. KeepsContents(after.snaps, after.segs, all, open)
    BY <2>1, <2>3 DEF KeepsContents
  <2>6. KeepsFiles(after.files, dir)
    BY <2>1 DEF KeepsFiles
  <2> QED
    BY <2>4, <2>5, <2>6 DEF after
<1>2. CASE ~(all[g].refs > 1)
  <2> DEFINE left == Without(all, {g})
             less == [n \in DOMAIN rest |-> IF n \in names THEN [rest[n] EXCEPT !.refs = @ - 1] ELSE rest[n]]
             kept == Without(dir, {n \in gone : ~open[n].keep})
  <2>1. after.snaps = left /\ after.segs = less /\ after.files = kept
    BY <1>2 DEF Release
  <2>2. DOMAIN left = DOMAIN all \ {g} /\ \A h \in DOMAIN left : left[h] = all[h]
    BY DEF Without, Restrict
  <2>3. DOMAIN rest = DOMAIN open \ gone /\ \A n \in DOMAIN rest : rest[n] = open[n]
    BY DEF Without, Restrict
  <2>4. \A n \in DOMAIN kept : n \in DOMAIN dir /\ kept[n] = dir[n]
    BY DEF Without, Restrict
  <2> HIDE DEF left, rest, gone
  <2>5. /\ DOMAIN less = DOMAIN open \ gone
        /\ \A n \in DOMAIN less :
             less[n] = IF n \in names THEN [open[n] EXCEPT !.refs = @ - 1] ELSE open[n]
    BY <2>3
  <2> HIDE DEF less, kept, after
  <2>6. \A n \in DOMAIN less : n \in DOMAIN open /\ IsSegment(open[n])
    BY <2>5 DEF Shaped
  <2>7. \A n \in DOMAIN less : IsSegment(less[n]) /\ less[n].content = open[n].content
    BY <2>5, <2>6 DEF IsSegment
  <2>8. Shaped(left, less)
    BY <2>2, <2>7 DEF Shaped
  <2>9. KeepsContents(left, less, all, open)
    <3>1. \A sn : KeepsSnapshot(sn, sn)
      BY DEF KeepsSnapshot
    <3> QED
      BY <3>1, <2>2, <2>6, <2>7 DEF KeepsContents
  <2>10. KeepsFiles(kept, dir)
    BY <2>4 DEF KeepsFiles
  <2> QED
    BY <2>1, <2>8, <2>9, <2>10 DEF after
<1> QED
  BY <1>1, <1>2

\* What two steps keep, they keep together.
LEMMA KeepsTwice ==
    ASSUME NEW all3, NEW open3, NEW all2, NEW open2, NEW all, NEW open,
           KeepsContents(all3, open3, all2, open2), KeepsContents(all2, open2, all, open)
    PROVE  KeepsContents(all3, open3, all, open)
<1>1. \A s3, s2, s1 : KeepsSnapshot(s3, s2) /\ KeepsSnapshot(s2, s1) => KeepsSnapshot(s3, s1)
  BY DEF KeepsSnapshot
<1>2. \A g \in DOMAIN all3 : g \in DOMAIN all /\ KeepsSnapshot(all3[g], all[g])
  BY <1>1 DEF KeepsContents
<1>3. \A n \in DOMAIN open3 : n \in DOMAIN open /\ open3[n].content = open[n].content
  BY DEF KeepsContents
<1> QED
  BY <1>2, <1>3 DEF KeepsContents

\* The snapshots stay sound, and show what they showed.
LEMMA KeptViews ==
    ASSUME NEW all2, NEW open2, NEW all, NEW open, KeepsContents(all2, open2, all, open),
           Counted(all2, open2), Counted(all, open), SoundAll(all, open)
    PROVE  /\ SoundAll(all2, open2)
           /\ \A g \in DOMAIN all2 : View(open2, all2[g]) = View(open, all[g])
<1> SUFFICES ASSUME NEW g \in DOMAIN all2
             PROVE  /\ all2[g].whole => Sound(open2, all2[g])
                    /\ View(open2, all2[g]) = View(open, all[g])
  BY DEF SoundAll
<1> DEFINE sn == all[g]
           sn2 == all2[g]
<1>1. g \in DOMAIN all /\ IsSnapshot(sn) /\ IsSnapshot(sn2)
  BY DEF KeepsContents, Counted
<1>2. sn2.segs = sn.segs /\ sn2.los = sn.los /\ sn2.route = sn.route /\ sn2.whole = sn.whole
  BY DEF KeepsContents, KeepsSnapshot
<1>3. \A i \in DOMAIN sn.segs : open2[sn.segs[i]].content = open[sn.segs[i]].content
  <2>1. \A i \in DOMAIN sn.segs : sn.segs[i] \in Range(sn2.segs)
    BY <1>2 DEF Range
  <2>2. Range(sn2.segs) \subseteq DOMAIN open2
    BY DEF Counted
  <2> QED
    BY <2>1, <2>2 DEF KeepsContents
<1>4. ASSUME sn.whole
      PROVE  Sound(open2, sn2) /\ View(open2, sn2) = View(open, sn)
  <2>1. Sound(open, sn)
    BY <1>1, <1>4 DEF SoundAll
  <2> HIDE DEF sn, sn2
  <2>2. Sound(open2, sn2)
    BY <2>1, <1>2, <1>3, SoundFor
  <2>3. ContentsOf(open2, sn2.segs) = ContentsOf(open, sn.segs)
    BY <1>2, <1>3 DEF ContentsOf
  <2>4. View(open2, sn2) = Visible(ContentsOf(open2, sn2.segs))
    BY <2>2, <1>1, <1>2, <1>4, ViewVisible
  <2>5. View(open, sn) = Visible(ContentsOf(open, sn.segs))
    BY <2>1, <1>1, <1>4, ViewVisible
  <2> QED
    BY <2>2, <2>3, <2>4, <2>5
<1>5. ASSUME ~sn.whole
      PROVE  ~sn2.whole /\ View(open2, sn2) = View(open, sn)
  BY <1>2, <1>5 DEF View
<1> QED
  BY <1>2, <1>4, <1>5

-----------------------------------------------------------------------------
\* The invariant about contents.

\* What a plan shows depends on contents alone.
LEMMA PlanShowsFor ==
    ASSUME NEW plan, NEW open, NEW sn, PlanShows(plan, open, sn), NEW open2, NEW sn2,
           sn2.segs = sn.segs, sn2.whole = sn.whole,
           \A i \in DOMAIN sn.segs : open2[sn.segs[i]].content = open[sn.segs[i]].content,
           \A i \in Old(plan.pieces) : ~plan.stacks => open2[plan.pieces[i].name].content = open[plan.pieces[i].name].content
    PROVE  PlanShows(plan, open2, sn2)
<1>1. ContentsOf(open2, sn2.segs) = ContentsOf(open, sn.segs)
  BY DEF ContentsOf
<1>2. CASE plan.stacks
  BY <1>1, <1>2 DEF PlanShows
<1>3. CASE ~plan.stacks
  BY <1>3 DEF PlanShows
<1> QED
  BY <1>2, <1>3

\* Stacks of the same files are the same.
LEMMA SameStack ==
    ASSUME NEW entries, NEW dir, NEW dir2, \A n \in Names(entries) : dir2[n] = dir[n]
    PROVE  StackOf(entries, dir2) = StackOf(entries, dir)
<1>1. \A i \in DOMAIN entries : entries[i].name \in Names(entries)
  BY DEF Names
<1> QED
  BY <1>1 DEF StackOf

\* The segments of a snapshot, as the files its entries name.
LEMMA StackOfSnapshot ==
    ASSUME NEW sn, IsSnapshot(sn), NEW open, NEW dir, Sound(open, sn),
           \A n \in Range(sn.segs) : n \in DOMAIN dir /\ dir[n] = open[n].content
    PROVE  /\ StackOf(Entries(sn), dir) = ContentsOf(open, sn.segs)
           /\ Stacks(Entries(sn), dir)
           /\ Names(Entries(sn)) = Range(sn.segs)
<1>1. Stacked(ContentsOf(open, sn.segs), sn.los)
  BY DEF Sound
<1>2. Rising(sn.los)
  BY <1>1 DEF Stacked
<1>3. /\ DOMAIN Entries(sn) = DOMAIN sn.segs
      /\ \A i \in DOMAIN sn.segs : Entries(sn)[i].name = sn.segs[i]
      /\ LosOf(Entries(sn)) = sn.los
      /\ InOrder(Entries(sn))
  BY <1>2, EntriesTell
<1>4. \A i \in DOMAIN sn.segs : sn.segs[i] \in Range(sn.segs)
  BY DEF Range
<1>5. StackOf(Entries(sn), dir) = ContentsOf(open, sn.segs)
  BY <1>3, <1>4 DEF StackOf, ContentsOf
<1>6. Names(Entries(sn)) = Range(sn.segs)
  BY <1>3 DEF Names, Range
<1> QED
  BY <1>1, <1>3, <1>5, <1>6 DEF Stacks

\* What a publication writes is what it wants.
LEMMA NextStack ==
    ASSUME StoreInv, ContentInv, Planned, \A i \in Fresh : i <= job.written
    PROVE  /\ DOMAIN NewEntries # {}
           /\ job.whole => /\ Stacks(NewEntries, files)
                           /\ Visible(StackOf(NewEntries, files)) = job.want
<1> DEFINE sn == snaps[cur]
           n == Len(sn.segs)
           e == NewEntries
           t == EntriesOf(job.pieces)
<1>1. /\ up /\ PlanFits(job, Range(sn.segs), cur + 1)
      /\ IsSnapshot(sn) /\ Range(sn.segs) \subseteq DOMAIN segs /\ cur \in DOMAIN snaps
  BY NewNamesFresh, CurrentSnapshot
<1>2. /\ PlanShows(job, segs, sn)
      /\ \A i \in Fresh : files[job.pieces[i].name] = job.pieces[i].content
      /\ \A x \in DOMAIN segs : files[x] = segs[x].content
      /\ sn.whole => Sound(segs, sn)
  BY <1>1 DEF ContentInv, JobShows, FilesShow, SnapshotsShow, SoundAll
<1>3. DOMAIN files = (DOMAIN segs) \cup strays \cup NewNames
  <2>1. WrittenNames = NewNames
    BY DEF WrittenNames, NewNames
  <2>2. FileInv
    BY DEF StoreInv
  <2> QED
    BY <1>1, <2>1, <2>2 DEF FileInv
<1>4. n \in Nat /\ DOMAIN sn.segs = 1..n
  BY <1>1, SnapshotLengths
<1>5. Names(e) \subseteq DOMAIN files
  <2>1. Names(e) = (Range(sn.segs) \ job.retire) \cup NewNames
    BY NextEntries
  <2> HIDE DEF e, sn
  <2> QED
    BY <2>1, <1>1, <1>3
<1>6. PICK m \in Nat : DOMAIN job.pieces = 1..m
  BY <1>1, PiecesList DEF PlanFits
<1>7. CASE job.stacks
  <2>1. DOMAIN job.pieces = {1} /\ job.pieces[1].fresh
    BY <1>1, <1>7 DEF PlanFits
  <2>2. /\ DOMAIN e = 1..(n + 1)
        /\ \A i \in 1..n : e[i] = Entries(sn)[i]
        /\ e[n + 1] = t[1]
    BY <1>7, NextEntries
  <2>3. t[1].kind = job.pieces[1].kind /\ t[1].name = job.pieces[1].name
    BY <2>1 DEF EntriesOf
  <2>4. job.pieces[1].kind = "overlay" /\ IsContent(job.pieces[1].content) /\ job.whole = sn.whole
    BY <1>2, <1>7 DEF PlanShows
  <2>5. files[job.pieces[1].name] = job.pieces[1].content
    BY <1>2, <2>1 DEF Fresh
  <2>6. DOMAIN e # {}
    <3>1. n + 1 \in DOMAIN e
      BY <2>2, <1>4
    <3> HIDE DEF e
    <3> QED
      BY <3>1
  <2>7. ASSUME job.whole
        PROVE  /\ InOrder(e)
               /\ Stacked(StackOf(e, files), LosOf(e))
               /\ Visible(StackOf(e, files)) = job.want
    <3> DEFINE c == ContentsOf(segs, sn.segs)
               c2 == Append(c, job.pieces[1].content)
               b == Entries(sn)
    <3>1. Sound(segs, sn)
      BY <1>2, <2>4, <2>7
    <3>2. job.want = Visible(c2)
      BY <1>2, <1>7, <2>7 DEF PlanShows
    <3>3. /\ StackOf(b, files) = c
          /\ Stacks(b, files)
      <4>1. \A x \in Range(sn.segs) : x \in DOMAIN files /\ files[x] = segs[x].content
        BY <1>1, <1>2, <1>3
      <4> HIDE DEF sn
      <4> QED
        BY <3>1, <4>1, <1>1, StackOfSnapshot
    <3>4. DOMAIN b = 1..n
      BY <1>4 DEF Entries
    <3>5. c = [i \in 1..n |-> c[i]]
      BY <1>4 DEF ContentsOf
    <3> HIDE DEF c
    <3>6. /\ c2 = [i \in 1..(n + 1) |-> c2[i]]
          /\ \A i \in 1..n : c2[i] = c[i]
          /\ c2[n + 1] = job.pieces[1].content
      <4> HIDE DEF n
      <4> QED
        BY <3>5, <1>4, AppendedList
    <3> HIDE DEF c2, e, b, t, n
    <3>7. \A i \in 1..n : e[i] = b[i]
      BY <2>2 DEF b
    <3>8. StackOf(e, files) = c2
      <4>1. \A i \in 1..n : c2[i] = files[e[i].name]
        <5>1. \A i \in 1..n : c[i] = files[b[i].name]
          BY <3>3, <3>4 DEF StackOf
        <5> QED
          BY <5>1, <3>6, <3>7
      <4>2. c2[n + 1] = files[e[n + 1].name]
        BY <2>2, <2>3, <2>5, <3>6
      <4>3. \A i \in 1..(n + 1) : i \in 1..n \/ i = n + 1
        BY <1>4
      <4>4. \A i \in 1..(n + 1) : c2[i] = files[e[i].name]
        BY <4>1, <4>2, <4>3
      <4>5. StackOf(e, files) = [i \in 1..(n + 1) |-> files[e[i].name]]
        BY <2>2 DEF StackOf
      <4> QED
        BY <4>4, <4>5, <3>6
    <3>9. LosOf(e) = LosOf(b) /\ InOrder(e)
      <4>1. DOMAIN e = 1..(n + 1) /\ e[n + 1].kind = "overlay" /\ InOrder(b)
        BY <2>2, <2>3, <2>4, <3>3 DEF Stacks
      <4> QED
        BY <1>4, <3>4, <3>7, <4>1, EntriesOneMore
    <3>10. Stacked(c2, LosOf(b))
      <4>1. Stacked(c, LosOf(b))
        BY <3>3 DEF Stacks
      <4>2. DOMAIN c = 1..n /\ DOMAIN c2 = 1..(n + 1) /\ IsContent(c2[n + 1])
        BY <3>5, <3>6, <2>4
      <4> QED
        BY <1>4, <3>6, <4>1, <4>2, StackOneMore
    <3> QED
      BY <3>2, <3>8, <3>9, <3>10
  <2> QED
    BY <1>5, <2>6, <2>7 DEF Stacks
<1>8. CASE ~job.stacks
  <2>1. e = t
    BY <1>8 DEF NewEntries
  <2> HIDE DEF e
  <2>2. /\ DOMAIN t = 1..m
        /\ \A i \in 1..m : t[i].name = job.pieces[i].name
        /\ LosOf(t) = LosOf(job.pieces)
        /\ InOrder(job.pieces) => InOrder(t)
    BY <1>6, EntriesOfTell
  <2>3. DOMAIN e # {}
    <3>1. DOMAIN job.pieces # {}
      BY <1>2 DEF PlanShows
    <3>2. m # 0
      BY <3>1, <1>6
    <3>3. 1 \in 1..m
      BY <3>2
    <3>4. 1 \in DOMAIN t
      BY <2>2, <3>3
    <3> QED
      BY <3>4, <2>1
  <2>4. ASSUME job.whole
        PROVE  /\ InOrder(e)
               /\ Stacked(StackOf(e, files), LosOf(e))
               /\ Visible(StackOf(e, files)) = job.want
    <3>1. /\ InOrder(job.pieces)
          /\ Stacked(PieceContents(job.pieces), LosOf(job.pieces))
          /\ \A i \in Old(job.pieces) : job.pieces[i].content = segs[job.pieces[i].name].content
          /\ job.want = Visible(PieceContents(job.pieces))
      BY <1>2, <1>8, <2>4 DEF PlanShows
    <3>2. \A i \in Old(job.pieces) : job.pieces[i].name \in DOMAIN segs
      <4>1. OldNames(job.pieces) \subseteq Range(sn.segs)
        BY <1>1, <1>8 DEF PlanFits
      <4> QED
        BY <4>1, <1>1 DEF OldNames
    <3>3. \A i \in 1..m : files[job.pieces[i].name] = job.pieces[i].content
      <4> TAKE i \in 1..m
      <4>1. CASE job.pieces[i].fresh
        BY <4>1, <1>2, <1>6 DEF Fresh
      <4>2. CASE ~job.pieces[i].fresh
        BY <4>2, <3>1, <3>2, <1>2, <1>6 DEF Old
      <4> QED
        BY <4>1, <4>2
    <3>4. StackOf(t, files) = PieceContents(job.pieces)
      <4>1. StackOf(t, files) = [i \in 1..m |-> files[t[i].name]]
        BY <2>2 DEF StackOf
      <4>2. PieceContents(job.pieces) = [i \in 1..m |-> job.pieces[i].content]
        BY <1>6 DEF PieceContents
      <4> QED
        BY <4>1, <4>2, <3>3, <2>2
    <3> QED
      BY <2>1, <2>2, <3>1, <3>4
  <2> QED
    BY <1>5, <2>3, <2>4 DEF Stacks, e
<1>9. job.stacks \in BOOLEAN
  BY <1>1 DEF PlanFits
<1> QED
  BY <1>7, <1>8, <1>9 DEF e

-----------------------------------------------------------------------------
\* Steps keep the invariant about contents.

\* The current snapshot after a step.
LEMMA CurrentNext ==
    ASSUME StoreInv', up'
    PROVE  /\ cur' \in Nat /\ cur' \in DOMAIN snaps' /\ IsSnapshot(snaps'[cur'])
           /\ Range(snaps'[cur'].segs) \subseteq DOMAIN segs'
<1>1. StoreStates' /\ SnapshotInv' /\ SegmentInv'
  BY DEF StoreInv
<1>2. cur' \in Nat
  BY <1>1 DEF StoreStates
<1>3. References'[cur'] > 0
  <2>1. WriterRefs(cur)' \in {1, 2}
    BY DEF WriterRefs
  <2>2. Cardinality(Holding(cur)') \in Nat
    BY ReadersFinite DEF Holding
  <2>3. References'[cur'] = Cardinality(Holding(cur)') + WriterRefs(cur)'
    BY <1>2 DEF References, Holding, WriterRefs
  <2> QED
    BY <2>1, <2>2, <2>3
<1>4. cur' \in DOMAIN snaps'
  BY <1>1, <1>2, <1>3 DEF SnapshotInv, Tallied
<1> QED
  BY <1>1, <1>2, <1>4 DEF SegmentInv, Counted

\* Snapshots stay sound, and show what they showed.
LEMMA SnapshotsStay ==
    ASSUME StoreInv, StoreInv', SnapshotsShow, KeepsContents(snaps', segs', snaps, segs)
    PROVE  /\ SnapshotsShow'
           /\ \A g \in DOMAIN snaps' : g \in DOMAIN snaps /\ View(segs', snaps'[g]) = View(segs, snaps[g])
<1>1. Counted(snaps, segs) /\ Counted(snaps', segs')
  BY DEF StoreInv, SegmentInv
<1>2. SoundAll(snaps, segs)
  BY DEF SnapshotsShow
<1>3. SoundAll(snaps', segs') /\ \A g \in DOMAIN snaps' : View(segs', snaps'[g]) = View(segs, snaps[g])
  BY <1>1, <1>2, KeptViews
<1>4. \A g \in DOMAIN snaps' : g \in DOMAIN snaps /\ snaps'[g].segs = snaps[g].segs
  BY DEF KeepsContents, KeepsSnapshot
<1>5. SnapshotsShow'
  BY <1>3, <1>4 DEF SnapshotsShow
<1> QED
  BY <1>3, <1>4, <1>5

\* Files hold what segments hold, when both keep it.
LEMMA FilesStay ==
    ASSUME up, FilesShow, KeepsContents(snaps', segs', snaps, segs),
           \A n \in DOMAIN segs' : files'[n] = files[n]
    PROVE  FilesShow'
BY DEF FilesShow, KeepsContents

\* The files that the manifest names stay, and what they hold.
LEMMA ManifestStays ==
    ASSUME StoreInv', ManifestShows, ManifestKept, manifest' = manifest, up, up', cur' = cur,
           snaps'[cur].segs = snaps[cur].segs,
           job.phase = "swap" => job' = job,
           job'.phase = "swap" => job.phase = "swap",
           manifest.whole => \A n \in Names(manifest.entries) : files'[n] = files[n]
    PROVE  /\ ManifestShows' /\ ManifestKept'
           /\ manifest.whole => StackOf(manifest.entries, files') = StackOf(manifest.entries, files)
<1> DEFINE e == manifest.entries
           base == Range(snaps[cur].segs)
<1>1. base \subseteq DOMAIN segs' /\ FileInv' /\ PlanInv'
  BY CurrentNext DEF StoreInv
<1>2. ASSUME manifest.whole
      PROVE  /\ Names(e) \subseteq DOMAIN files'
             /\ Names(e) \subseteq IF job'.phase = "swap" THEN (base \ job'.retire) \cup NewNames' ELSE base
             /\ StackOf(e, files') = StackOf(e, files)
  <2>1. Names(e) \subseteq IF job'.phase = "swap" THEN (base \ job'.retire) \cup NewNames' ELSE base
    <3>1. CASE job.phase = "swap"
      <4>1. NewNames' = NewNames
        BY <3>1 DEF NewNames, Fresh
      <4> QED
        BY <3>1, <4>1, <1>2 DEF ManifestKept
    <3>2. CASE job.phase # "swap"
      BY <3>2, <1>2 DEF ManifestKept
    <3> QED
      BY <3>1, <3>2
  <2>2. DOMAIN segs' \subseteq DOMAIN files'
    BY <1>1 DEF FileInv
  <2>3. job'.phase = "swap" => NewNames' \subseteq DOMAIN files'
    <3> SUFFICES ASSUME job'.phase = "swap" PROVE NewNames' \subseteq DOMAIN files'
      OBVIOUS
    <3>1. Planned'
      BY DEF Planned
    <3>2. \A i \in Fresh' : i <= job'.written
      BY <3>1, <1>1 DEF PlanInv
    <3>3. NewNames' \subseteq WrittenNames'
      BY <3>2 DEF NewNames, WrittenNames
    <3> QED
      BY <3>1, <3>3, <1>1 DEF FileInv
  <2>4. \A n \in Names(e) : files'[n] = files[n]
    BY <1>2
  <2>5. StackOf(e, files') = StackOf(e, files)
    BY <2>4, SameStack
  <2> HIDE DEF e, base
  <2> QED
    BY <2>1, <2>2, <2>3, <2>5, <1>1
<1>3. ManifestShows'
  BY <1>2 DEF ManifestShows, Stacks
<1>4. ManifestKept'
  BY <1>2 DEF ManifestKept
<1> QED
  BY <1>2, <1>3, <1>4

\* A store without a snapshot of its own has one that shows nothing.
LEMMA NoSnapshotSound ==
    ASSUME NEW open
    PROVE  /\ IsSnapshot(NoSnapshot) /\ NoSnapshot.segs = <<>> /\ NoSnapshot.whole /\ NoSnapshot.gen = 0
           /\ Sound(open, NoSnapshot)
           /\ Stacked(<<>>, <<>>)
<1>1. NoSnapshot.segs = <<>> /\ NoSnapshot.los = <<>> /\ NoSnapshot.gen = 0 /\ NoSnapshot.whole
      /\ DOMAIN NoSnapshot = {"gen", "segs", "los", "route", "refs", "whole"}
  BY DEF NoSnapshot, NewSnapshot
<1>2. <<>> \in NameLists /\ DOMAIN <<>> = {}
  BY DEF NameLists
<1>3. IsSnapshot(NoSnapshot)
  <2>1. <<>> \in Seq(Range(<<>>)) /\ Len(<<>>) <= Len(<<>>)
    OBVIOUS
  <2> QED
    BY <1>1, <1>2, <2>1 DEF IsSnapshot
<1>4. Stacked(<<>>, <<>>)
  <2>1. Rising(<<>>)
    BY <1>2 DEF Rising
  <2> QED
    BY <1>2, <2>1 DEF Stacked
<1>5. Sound(open, NoSnapshot)
  <2>1. ContentsOf(<<>>, <<>>) = <<>> /\ ContentsOf(open, <<>>) = <<>>
    BY <1>2 DEF ContentsOf
  <2>2. Sound(<<>>, NewSnapshot(<<>>, 0, <<>>, <<>>, TRUE))
    BY <1>2, <1>4, <2>1, NewSnapshotSound
  <2>3. Sound(<<>>, NoSnapshot)
    BY <2>2 DEF NoSnapshot
  <2> QED
    BY <2>1, <2>3, <1>1 DEF Sound
<1> QED
  BY <1>1, <1>3, <1>4, <1>5

\* An empty manifest names nothing.
LEMMA NothingStacks ==
    ASSUME NEW dir
    PROVE  Names(<<>>) = {} /\ Stacks(<<>>, dir) /\ StackOf(<<>>, dir) = <<>>
<1>1. DOMAIN <<>> = {} /\ Names(<<>>) = {}
  BY DEF Names
<1>2. StackOf(<<>>, dir) = <<>>
  BY <1>1 DEF StackOf
<1>3. ShardCount(<<>>) = 0
  <2>1. {i \in DOMAIN <<>> : <<>>[i].kind = "shard"} = {}
    BY <1>1
  <2> QED
    BY <2>1, FS_EmptySet DEF ShardCount
<1>4. 1..ShardCount(<<>>) = {}
  BY <1>3
<1>5. LosOf(<<>>) = <<>>
  BY <1>4 DEF LosOf
<1>6. InOrder(<<>>)
  BY <1>4 DEF InOrder
<1> QED
  BY <1>1, <1>2, <1>5, <1>6, NoSnapshotSound DEF Stacks

\* The invariant about contents holds of a new store.
LEMMA ContentInitially ==
    ASSUME StoreInit
    PROVE  ContentInv
<1>1. /\ manifest = NoManifest /\ up = TRUE /\ cur = 0 /\ segs = <<>> /\ snaps = Only(0, NoSnapshot)
      /\ job = Idle
  BY DEF StoreInit
<1>2. manifest.gen = 0 /\ manifest.entries = <<>> /\ manifest.whole
  BY <1>1 DEF NoManifest
<1>3. DOMAIN snaps = {0} /\ snaps[0] = NoSnapshot /\ DOMAIN segs = {}
  BY <1>1 DEF Only
<1>4. SnapshotsShow
  BY <1>3, NoSnapshotSound DEF SnapshotsShow, SoundAll
<1>5. JobShows /\ FilesShow
  BY <1>1, <1>3 DEF JobShows, FilesShow, Planned, Idle
<1>6. ManifestShows
  BY <1>2, NothingStacks DEF ManifestShows
<1>7. ManifestKept
  BY <1>1, <1>2, NothingStacks DEF ManifestKept, Idle
<1> QED
  BY <1>4, <1>5, <1>6, <1>7 DEF ContentInv

\* Snapshots and segments have their shapes.
LEMMA StoreShaped ==
    ASSUME StoreInv
    PROVE  Shaped(snaps, segs) /\ Counted(snaps, segs)
BY DEF StoreInv, SegmentInv, Counted, Shaped

\* What does not change keeps its contents.
LEMMA KeepsItself ==
    ASSUME snaps' = snaps, segs' = segs
    PROVE  KeepsContents(snaps', segs', snaps, segs)
BY DEF KeepsContents, KeepsSnapshot

\* One more reference keeps everything.
LEMMA SharingKeeps ==
    ASSUME StoreInv, NEW g, snaps' = [snaps EXCEPT ![g].refs = @ + 1], segs' = segs
    PROVE  KeepsContents(snaps', segs', snaps, segs)
<1> DEFINE left == [snaps EXCEPT ![g].refs = snaps[g].refs + 1]
<1>1. \A h \in DOMAIN snaps : IsSnapshot(snaps[h])
  BY StoreShaped DEF Shaped
<1>2. snaps' = left
  OBVIOUS
<1>3. DOMAIN left = DOMAIN snaps /\ \A h \in DOMAIN snaps : KeepsSnapshot(left[h], snaps[h])
  BY <1>1, KeepsRefs
<1> HIDE DEF left
<1> QED
  BY <1>2, <1>3 DEF KeepsContents

\* A step that keeps contents and the files of what is open keeps what is shown.
LEMMA ContentStays ==
    ASSUME StoreInv, StoreInv', ContentInv, KeepsContents(snaps', segs', snaps, segs),
           manifest' = manifest, up, up', cur' = cur,
           job.phase = "swap" => job' = job,
           job'.phase = "swap" => job.phase = "swap",
           \A n \in DOMAIN segs' : files'[n] = files[n],
           job.phase = "swap" => \A n \in NewNames : files'[n] = files[n]
    PROVE  /\ SnapshotsShow' /\ FilesShow' /\ ManifestShows' /\ ManifestKept'
           /\ manifest.whole => StackOf(manifest.entries, files') = StackOf(manifest.entries, files)
<1>1. SnapshotsShow /\ FilesShow /\ ManifestShows /\ ManifestKept
  BY DEF ContentInv
<1>2. SnapshotsShow'
  BY <1>1, SnapshotsStay
<1>3. FilesShow'
  BY <1>1, FilesStay
<1>4. Range(snaps'[cur].segs) \subseteq DOMAIN segs' /\ snaps'[cur].segs = snaps[cur].segs
  BY CurrentNext DEF KeepsContents, KeepsSnapshot
<1>5. manifest.whole => \A n \in Names(manifest.entries) : files'[n] = files[n]
  BY <1>1, <1>4 DEF ManifestKept
<1> QED
  BY <1>1, <1>2, <1>3, <1>4, <1>5, ManifestStays

\* A step of a reader changes nothing that a job relies on.
LEMMA JobStays ==
    ASSUME StoreInv, StoreInv', JobShows, KeepsContents(snaps', segs', snaps, segs),
           job' = job, up' = up, cur' = cur, manifest' = manifest, KeepsFiles(files', files)
    PROVE  JobShows'
<1> SUFFICES ASSUME Planned
             PROVE  /\ PlanShows(job, segs', snaps'[cur])
                    /\ \A i \in Fresh' : i <= job.written => files'[job.pieces[i].name] = job.pieces[i].content
                    /\ job.phase = "swap" =>
                         manifest = [gen |-> cur + 1, entries |-> NewEntries', whole |-> job.whole]
  BY DEF JobShows, Planned
<1>1. /\ up /\ PlanFits(job, Range(snaps[cur].segs), cur + 1)
  BY NewNamesFresh
<1>2. /\ cur \in DOMAIN snaps' /\ Range(snaps'[cur].segs) \subseteq DOMAIN segs'
      /\ snaps'[cur].segs = snaps[cur].segs /\ snaps'[cur].los = snaps[cur].los
      /\ snaps'[cur].whole = snaps[cur].whole
  BY <1>1, CurrentNext DEF KeepsContents, KeepsSnapshot
<1>3. \A n \in DOMAIN segs' : segs'[n].content = segs[n].content
  BY DEF KeepsContents
<1>4. PlanShows(job, segs', snaps'[cur])
  <2>1. PlanShows(job, segs, snaps[cur])
    BY DEF JobShows
  <2>2. \A i \in DOMAIN snaps[cur].segs : segs'[snaps[cur].segs[i]].content = segs[snaps[cur].segs[i]].content
    BY <1>2, <1>3 DEF Range
  <2>3. ~job.stacks => \A i \in Old(job.pieces) : job.pieces[i].name \in Range(snaps[cur].segs)
    BY <1>1 DEF PlanFits, OldNames
  <2>4. \A i \in Old(job.pieces) : ~job.stacks =>
           segs'[job.pieces[i].name].content = segs[job.pieces[i].name].content
    BY <2>3, <1>2, <1>3
  <2> QED
    BY <2>1, <2>2, <2>4, <1>2, PlanShowsFor
<1>5. Fresh' = Fresh /\ WrittenNames' = WrittenNames /\ Planned'
  BY DEF Fresh, WrittenNames, Planned
<1>6. ASSUME NEW i \in Fresh, i <= job.written
      PROVE  files'[job.pieces[i].name] = job.pieces[i].content
  <2>1. job.pieces[i].name \in WrittenNames
    BY <1>6 DEF WrittenNames
  <2>2. FileInv'
    BY DEF StoreInv
  <2>3. job.pieces[i].name \in DOMAIN files'
    BY <2>1, <2>2, <1>1, <1>5 DEF FileInv
  <2>4. files'[job.pieces[i].name] = files[job.pieces[i].name]
    BY <2>3 DEF KeepsFiles
  <2> QED
    BY <2>4, <1>6 DEF JobShows
<1>7. NewEntries' = NewEntries
  <2>1. Entries(snaps[cur])' = Entries(snaps[cur])
    BY <1>2 DEF Entries
  <2> QED
    BY <2>1 DEF NewEntries
<1> QED
  BY <1>4, <1>5, <1>6, <1>7 DEF JobShows

\* A job begins.
LEMMA ContentBegins ==
    ASSUME StoreInv, StoreInv', ContentInv, KeepsContents(snaps', segs', snaps, segs),
           up, job = Idle, files' = files, manifest' = manifest, up' = up, cur' = cur, segs' = segs,
           job'.phase = "write", job'.written = 0, PlanShows(job', segs, snaps[cur])
    PROVE  /\ ContentInv'
           /\ manifest.whole => StackOf(manifest.entries, files') = StackOf(manifest.entries, files)
<1>1. job.phase # "swap" /\ job'.phase # "swap"
  BY DEF Idle
<1>2. /\ SnapshotsShow' /\ FilesShow' /\ ManifestShows' /\ ManifestKept'
      /\ manifest.whole => StackOf(manifest.entries, files') = StackOf(manifest.entries, files)
  BY <1>1, ContentStays
<1>3. JobShows'
  <2>1. Planned' /\ PlanInv'
    BY DEF Planned, StoreInv
  <2>2. PICK n \in Nat : DOMAIN job'.pieces = 1..n
    BY <2>1, PiecesList DEF PlanInv, PlanFits
  <2>3. \A i \in Fresh' : ~(i <= job'.written)
    BY <2>2 DEF Fresh
  <2>4. snaps'[cur].segs = snaps[cur].segs /\ snaps'[cur].whole = snaps[cur].whole
    BY CurrentNext DEF KeepsContents, KeepsSnapshot
  <2>5. PlanShows(job', segs, snaps'[cur])
    BY <2>4, PlanShowsFor
  <2> QED
    BY <1>1, <2>3, <2>5 DEF JobShows
<1> QED
  BY <1>2, <1>3 DEF ContentInv

\* An overlay is to publish what its batch changes.
LEMMA OverlayBegins ==
    ASSUME StoreInv, ContentInv, NEW b \in Batches, Overlay(b)
    PROVE  BeginsJob
<1> DEFINE top == [name |-> Name(cur + 1, "overlay", 0), kind |-> "overlay", lo |-> 0,
                   content |-> b, fresh |-> TRUE]
           plan == [Plan(Changed(b), <<top>>, {}, snaps[cur].whole) EXCEPT !.stacks = TRUE]
<1>1. /\ up /\ job = Idle /\ job' = plan /\ snaps' = snaps
      /\ files' = files /\ manifest' = manifest /\ up' = up /\ cur' = cur /\ segs' = segs /\ held' = held
  BY DEF Overlay, Starts, Begin, disk
<1>2. IsSnapshot(snaps[cur]) /\ (snaps[cur].whole => Sound(segs, snaps[cur]))
  BY <1>1, CurrentSnapshot DEF ContentInv, SnapshotsShow, SoundAll
<1>3. PlanShows(plan, segs, snaps[cur])
  BY <1>2, OverlayShows
<1>4. plan.phase = "write" /\ plan.written = 0
  BY DEF Plan
<1> HIDE DEF plan
<1> QED
  BY <1>1, <1>3, <1>4, KeepsItself DEF BeginsJob

\* A base is to publish its build.
LEMMA BaseBegins ==
    ASSUME StoreInv, ContentInv, NEW b \in Builds, Base(b)
    PROVE  BeginsJob
<1> DEFINE present == Restrict(b, {p \in Paths : b[p] # Deleted})
           parts == IF present = <<>> THEN OneEmptyShard ELSE Split(0, present)
           plan == Plan(b, Named(NewShards(parts), cur + 1), Range(snaps[cur].segs), TRUE)
<1>1. /\ up /\ job = Idle /\ job' = plan /\ snaps' = snaps
      /\ files' = files /\ manifest' = manifest /\ up' = up /\ cur' = cur /\ segs' = segs /\ held' = held
  BY DEF Base, Starts, Begin, disk
<1>2. b \in Indexes
  BY StoreAssumption DEF StoreAssumption
<1>3. PlanShows(plan, segs, snaps[cur])
  BY <1>2, BaseShows
<1>4. plan.phase = "write" /\ plan.written = 0
  BY DEF Plan
<1> HIDE DEF plan
<1> QED
  BY <1>1, <1>3, <1>4, KeepsItself DEF BeginsJob

\* An import is to publish what the other index shows.
LEMMA ImportBegins ==
    ASSUME StoreInv, ContentInv, Import
    PROVE  BeginsJob
<1> DEFINE pieces == [i \in DOMAIN Prebuilt |->
               [name |-> Name(cur + 1, "import", i), kind |-> Prebuilt[i].kind, lo |-> Prebuilt[i].lo,
                content |-> Prebuilt[i].content, fresh |-> TRUE]]
           plan == Plan(Source, pieces, Range(snaps[cur].segs), TRUE)
<1>1. /\ up /\ job = Idle /\ job' = plan /\ snaps' = snaps
      /\ files' = files /\ manifest' = manifest /\ up' = up /\ cur' = cur /\ segs' = segs /\ held' = held
      /\ Prebuilt # <<>> /\ InOrder(Prebuilt)
  BY DEF Import, Starts, Begin, disk
<1>3. PlanShows(plan, segs, snaps[cur])
  BY <1>1, ImportShows
<1>4. plan.phase = "write" /\ plan.written = 0
  BY DEF Plan
<1> HIDE DEF plan
<1> QED
  BY <1>1, <1>3, <1>4, KeepsItself DEF BeginsJob

\* A compaction is to publish what is published.
LEMMA CompactBegins ==
    ASSUME StoreInv, ContentInv, Compact
    PROVE  BeginsJob
<1> DEFINE sn == snaps[cur]
           plan == [Plan(View(segs, sn), Named(FromStart(Shards(sn)), cur + 1), Replaced(sn), sn.whole)
                      EXCEPT !.compacting = TRUE]
<1>1. /\ up /\ job = Idle /\ job' = plan /\ snaps' = [snaps EXCEPT ![cur].refs = @ + 1]
      /\ files' = files /\ manifest' = manifest /\ up' = up /\ cur' = cur /\ segs' = segs /\ held' = held
  BY DEF Compact, Starts, Begin, disk
<1>2. /\ IsSnapshot(sn) /\ (sn.whole => Sound(segs, sn))
      /\ cur \in Nat /\ \A n \in Range(sn.segs) : n[1] \in Nat /\ n[1] <= cur
  BY <1>1, CurrentSnapshot DEF ContentInv, SnapshotsShow, SoundAll
<1>3. PlanShows(plan, segs, sn)
  <2>1. cur + 1 \in Nat /\ \A n \in Range(sn.segs) : n[1] < cur + 1
    BY <1>2
  <2> HIDE DEF sn
  <2> QED
    BY <1>2, <2>1, CompactionShows
<1>4. plan.phase = "write" /\ plan.written = 0
  BY DEF Plan
<1> HIDE DEF plan
<1> QED
  BY <1>1, <1>3, <1>4, SharingKeeps DEF BeginsJob

\* A job begins without a change to what is published.
LEMMA ContentBegun ==
    ASSUME StoreInv, StoreInv', ContentInv, BeginsJob
    PROVE  /\ ContentInv'
           /\ manifest.whole => StackOf(manifest.entries, files') = StackOf(manifest.entries, files)
BY ContentBegins DEF BeginsJob

\* A segment more on disk.
LEMMA ContentWriteSegment ==
    ASSUME StoreInv, StoreInv', ContentInv, NEW i \in Fresh, WriteSegment(i)
    PROVE  /\ ContentInv'
           /\ manifest.whole => StackOf(manifest.entries, files') = StackOf(manifest.entries, files)
<1> DEFINE name == job.pieces[i].name
           content == job.pieces[i].content
<1>1. /\ job.phase = "write" /\ i > job.written
      /\ \A j \in Fresh : j > job.written => i <= j
      /\ files' = Over(Only(name, content), files)
      /\ job' = [job EXCEPT !.written = i]
      /\ manifest' = manifest /\ up' = up /\ cur' = cur /\ snaps' = snaps /\ segs' = segs
  BY DEF WriteSegment, NextPiece, memory
<1>2. Planned
  BY <1>1 DEF Planned
<1>3. /\ up /\ PlanFits(job, Range(snaps[cur].segs), cur + 1)
      /\ NewNames \cap DOMAIN segs = {}
  BY <1>2, NewNamesFresh
<1>4. name \in NewNames
  BY DEF NewNames
<1>5. files'[name] = content /\ \A n : n # name /\ n \in DOMAIN files => files'[n] = files[n]
  BY <1>1 DEF Over, Only
<1>6. DOMAIN segs \subseteq DOMAIN files
  BY <1>3 DEF StoreInv, FileInv
<1> HIDE DEF name, content
<1>7. \A n \in DOMAIN segs' : files'[n] = files[n]
  BY <1>1, <1>3, <1>4, <1>5, <1>6
<1>8. /\ job'.phase = "write" /\ job'.written = i /\ job'.pieces = job.pieces /\ job'.stacks = job.stacks
      /\ job'.want = job.want /\ job'.whole = job.whole /\ job'.retire = job.retire
  BY <1>1, <1>3 DEF PlanFits
<1>9. KeepsContents(snaps', segs', snaps, segs)
  BY <1>1, KeepsItself
<1>10. /\ SnapshotsShow' /\ FilesShow' /\ ManifestShows' /\ ManifestKept'
       /\ manifest.whole => StackOf(manifest.entries, files') = StackOf(manifest.entries, files)
  BY <1>1, <1>3, <1>7, <1>8, <1>9, ContentStays
<1>11. JobShows'
  <2>1. JobShows
    BY DEF ContentInv
  <2>2. PlanShows(job', segs', snaps'[cur])
    BY <1>1, <1>2, <1>8, <2>1 DEF JobShows, PlanShows
  <2>3. ASSUME NEW j \in Fresh, j <= i
        PROVE  files'[job.pieces[j].name] = job.pieces[j].content
    <3>1. CASE j = i
      BY <3>1, <1>5 DEF name, content
    <3>2. CASE j # i
      <4>1. PICK n \in Nat : DOMAIN job.pieces = 1..n
        BY <1>3, PiecesList DEF PlanFits
      <4>2. j \in 1..n /\ i \in 1..n /\ job.written \in Nat
        BY <4>1, <1>3 DEF Fresh, PlanFits
      <4>3. j <= job.written
        BY <1>1, <2>3, <3>2, <4>2
      <4>4. files[job.pieces[j].name] = job.pieces[j].content
        BY <1>2, <2>1, <4>3 DEF JobShows
      <4>5. job.pieces[j].name # name
        <5>1. NamesOf(job.pieces) \in NameLists
          BY <1>3 DEF PlanFits
        <5>2. NamesOf(job.pieces)[j] = job.pieces[j].name /\ NamesOf(job.pieces)[i] = name
              /\ DOMAIN NamesOf(job.pieces) = 1..n
          BY <4>1, <4>2 DEF NamesOf, name
        <5> QED
          BY <5>1, <5>2, <4>2, <3>2 DEF NameLists
      <4>6. job.pieces[j].name \in DOMAIN files
        <5>1. job.pieces[j].name \in WrittenNames
          BY <4>3 DEF WrittenNames
        <5> QED
          BY <5>1, <1>2, <1>3 DEF StoreInv, FileInv
      <4> QED
        BY <4>4, <4>5, <4>6, <1>5
    <3> QED
      BY <3>1, <3>2
  <2>4. Fresh' = Fresh
    BY <1>8 DEF Fresh
  <2> QED
    BY <1>1, <1>8, <2>2, <2>3, <2>4 DEF JobShows
<1> QED
  BY <1>10, <1>11 DEF ContentInv

\* The manifest names what was written.
LEMMA ContentPublishManifest ==
    ASSUME StoreInv, StoreInv', ContentInv, PublishManifest
    PROVE  ContentInv'
<1>1. /\ job.phase = "write" /\ \A i \in Fresh : i <= job.written
      /\ manifest' = [gen |-> cur + 1, entries |-> NewEntries, whole |-> job.whole]
      /\ job' = [job EXCEPT !.phase = "swap"]
      /\ files' = files /\ up' = up /\ cur' = cur /\ snaps' = snaps /\ segs' = segs
  BY DEF PublishManifest, AllWritten, memory
<1>2. Planned
  BY <1>1 DEF Planned
<1>3. /\ up /\ PlanFits(job, Range(snaps[cur].segs), cur + 1) /\ cur \in Nat
  BY <1>2, NewNamesFresh, CurrentSnapshot
<1>4. /\ job'.phase = "swap" /\ job'.written = job.written /\ job'.pieces = job.pieces /\ job'.stacks = job.stacks
      /\ job'.want = job.want /\ job'.whole = job.whole /\ job'.retire = job.retire
  BY <1>1, <1>3 DEF PlanFits
<1>5. SnapshotsShow /\ JobShows /\ FilesShow
  BY DEF ContentInv
<1>6. Fresh' = Fresh /\ NewNames' = NewNames /\ NewEntries' = NewEntries
  BY <1>1, <1>4 DEF Fresh, NewNames, NewEntries
<1>7. SnapshotsShow' /\ FilesShow'
  BY <1>1, <1>5 DEF SnapshotsShow, FilesShow
<1>8. JobShows'
  <2>1. PlanShows(job', segs', snaps'[cur])
    BY <1>1, <1>2, <1>4, <1>5 DEF JobShows, PlanShows
  <2> QED
    BY <1>1, <1>2, <1>4, <1>5, <1>6, <2>1 DEF JobShows
<1>9. /\ DOMAIN NewEntries # {}
      /\ job.whole => Stacks(NewEntries, files)
  BY <1>1, <1>2, NextStack
<1>10. manifest'.gen = cur + 1 /\ manifest'.entries = NewEntries /\ manifest'.whole = job.whole
  BY <1>1
<1>11. ManifestShows'
  BY <1>1, <1>3, <1>9, <1>10 DEF ManifestShows
<1>12. ManifestKept'
  <2>1. Names(NewEntries) = (Range(snaps[cur].segs) \ job.retire) \cup NewNames
    BY <1>2, NextEntries
  <2> QED
    BY <2>1, <1>1, <1>3, <1>4, <1>6, <1>10 DEF ManifestKept
<1> QED
  BY <1>7, <1>8, <1>11, <1>12 DEF ContentInv

\* A release removes no file that is kept, and none that is not open.
LEMMA ReleaseRemoves ==
    ASSUME NEW all, NEW open, NEW dir, Counted(all, open), NEW g \in DOMAIN all
    PROVE  RemovesOpen(Release(all, open, dir, g), open, dir)
<1> DEFINE names == Range(all[g].segs)
           gone == Unmapped(open, names)
           rest == Without(open, gone)
           after == Release(all, open, dir, g)
<1>1. names \subseteq DOMAIN open
  BY DEF Counted
<1>2. CASE all[g].refs > 1
  BY <1>2 DEF Release, RemovesOpen
<1>3. CASE ~(all[g].refs > 1)
  <2> DEFINE less == [n \in DOMAIN rest |-> IF n \in names THEN [rest[n] EXCEPT !.refs = @ - 1] ELSE rest[n]]
             kept == Without(dir, {n \in gone : ~open[n].keep})
  <2>1. after.segs = less /\ after.files = kept
    BY <1>3 DEF Release
  <2>2. DOMAIN kept = DOMAIN dir \ {n \in gone : ~open[n].keep}
    BY DEF Without, Restrict
  <2>3. gone \subseteq names
    BY DEF Unmapped
  <2>4. DOMAIN rest = DOMAIN open \ gone /\ \A n \in DOMAIN rest : rest[n] = open[n]
    BY DEF Without, Restrict
  <2>5. \A n \in DOMAIN open : IsSegment(open[n])
    BY DEF Counted
  <2> HIDE DEF rest, gone, names
  <2>6. /\ DOMAIN less = DOMAIN rest
        /\ \A n \in DOMAIN less : less[n] = IF n \in names THEN [rest[n] EXCEPT !.refs = @ - 1] ELSE rest[n]
    OBVIOUS
  <2> HIDE DEF less, kept, after
  <2>7. \A n \in DOMAIN less : n \in DOMAIN open /\ less[n].keep = open[n].keep
    <3> TAKE n \in DOMAIN less
    <3>1. n \in DOMAIN open /\ IsSegment(open[n])
          /\ less[n] = IF n \in names THEN [open[n] EXCEPT !.refs = @ - 1] ELSE open[n]
      BY <2>4, <2>5, <2>6
    <3> QED
      BY <3>1 DEF IsSegment
  <2>8. \A n \in DOMAIN dir : n \in DOMAIN kept \/ (n \in DOMAIN open /\ ~open[n].keep)
    BY <2>2, <2>3, <1>1
  <2> QED
    BY <2>1, <2>7, <2>8 DEF after, RemovesOpen
<1> QED
  BY <1>2, <1>3

\* Files that are left hold what they held, those of open segments and of a job among them.
LEMMA FilesLeft ==
    ASSUME StoreInv', KeepsFiles(files', files), up'
    PROVE  /\ \A n \in DOMAIN segs' : files'[n] = files[n]
           /\ job'.phase = "swap" => \A n \in NewNames' : files'[n] = files[n]
<1>1. FileInv' /\ PlanInv'
  BY DEF StoreInv
<1>2. DOMAIN segs' \subseteq DOMAIN files'
  BY <1>1 DEF FileInv
<1>3. ASSUME job'.phase = "swap"
      PROVE  NewNames' \subseteq DOMAIN files'
  <2>1. Planned'
    BY <1>3 DEF Planned
  <2>2. \A i \in Fresh' : i <= job'.written
    BY <2>1, <1>1, <1>3 DEF PlanInv
  <2>3. NewNames' \subseteq WrittenNames'
    BY <2>2 DEF NewNames, WrittenNames
  <2> QED
    BY <2>1, <2>3, <1>1 DEF FileInv
<1> QED
  BY <1>2, <1>3 DEF KeepsFiles

\* A step of a reader while the store is open.
LEMMA ContentRead ==
    ASSUME StoreInv, StoreInv', ContentInv, KeepsContents(snaps', segs', snaps, segs), KeepsFiles(files', files),
           job' = job, up, up' = up, cur' = cur, manifest' = manifest
    PROVE  ContentInv' /\ StackKept
<1>1. NewNames' = NewNames
  BY DEF NewNames, Fresh
<1>2. /\ \A n \in DOMAIN segs' : files'[n] = files[n]
      /\ job.phase = "swap" => \A n \in NewNames : files'[n] = files[n]
  BY <1>1, FilesLeft
<1>3. /\ SnapshotsShow' /\ FilesShow' /\ ManifestShows' /\ ManifestKept' /\ StackKept
  BY <1>2, ContentStays DEF StackKept
<1>4. JobShows'
  BY JobStays DEF ContentInv
<1> QED
  BY <1>3, <1>4 DEF ContentInv

\* A reader changes no contents.
LEMMA ContentSnapshot ==
    ASSUME StoreInv, StoreInv', ContentInv, NEW r \in Readers, Snapshot(r)
    PROVE  ContentInv' /\ StackKept /\ KeepsContents(snaps', segs', snaps, segs)
<1>1. /\ up /\ snaps' = [snaps EXCEPT ![cur].refs = @ + 1] /\ segs' = segs
      /\ files' = files /\ manifest' = manifest /\ up' = up /\ cur' = cur /\ job' = job
  BY DEF Snapshot, disk
<1>2. KeepsContents(snaps', segs', snaps, segs) /\ KeepsFiles(files', files)
  BY <1>1, SharingKeeps DEF KeepsFiles
<1> QED
  BY <1>1, <1>2, ContentRead

\* A reader that is done removes no file that the manifest names.
LEMMA ContentDone ==
    ASSUME StoreInv, StoreInv', ContentInv, NEW r \in Readers, Done(r)
    PROVE  ContentInv' /\ StackKept /\ KeepsContents(snaps', segs', snaps, segs)
<1> DEFINE after == Release(snaps, segs, files, held[r])
<1>1. /\ held[r] # None
      /\ snaps' = after.snaps /\ segs' = after.segs /\ files' = after.files
      /\ manifest' = manifest /\ up' = up /\ cur' = cur /\ job' = job
  BY DEF Done
<1>2. KeepsContents(snaps', segs', snaps, segs) /\ KeepsFiles(files', files)
  <2>1. Shaped(snaps, segs)
    BY StoreShaped
  <2> QED
    BY <2>1, <1>1, ReleaseKeeps
<1>3. CASE up
  BY <1>1, <1>2, <1>3, ContentRead
<1>4. CASE ~up
  <2>1. Counted(snaps, segs) /\ JobInv /\ up' \in BOOLEAN
    BY <1>1 DEF StoreInv, SegmentInv, StoreStates
  <2>2. held[r] \in DOMAIN snaps
    <3>1. held[r] \in InUse
      BY <1>1 DEF InUse
    <3> QED
      BY <3>1, InUseTallied
  <2>3. /\ \A n \in DOMAIN files : n \in DOMAIN files' \/ (n \in DOMAIN segs /\ ~segs[n].keep)
        /\ \A n \in DOMAIN segs' : n \in DOMAIN segs /\ segs'[n].keep = segs[n].keep
    <3>1. Counted(snaps, segs)
      BY <2>1
    <3>2. RemovesOpen(after, segs, files)
      BY <3>1, <2>2, ReleaseRemoves
    <3> HIDE DEF after
    <3> QED
      BY <3>2, <1>1 DEF RemovesOpen
  <2>4. SnapshotsShow /\ ManifestShows /\ ManifestKept
    BY DEF ContentInv
  <2>5. SnapshotsShow'
    BY <1>2, <2>4, SnapshotsStay
  <2>6. JobShows' /\ FilesShow'
    <3>1. job' = Idle /\ ~up'
      BY <1>1, <1>4, <2>1 DEF JobInv
    <3>2. ~Planned'
      BY <3>1 DEF Planned, Idle
    <3> QED
      BY <3>1, <3>2 DEF JobShows, FilesShow
  <2>7. ASSUME manifest.whole
        PROVE  /\ Names(manifest.entries) \subseteq DOMAIN files'
               /\ StackOf(manifest.entries, files') = StackOf(manifest.entries, files)
               /\ InOrder(manifest.entries) /\ Stacked(StackOf(manifest.entries, files), LosOf(manifest.entries))
    <3>1. Names(manifest.entries) \subseteq DOMAIN files
          /\ InOrder(manifest.entries) /\ Stacked(StackOf(manifest.entries, files), LosOf(manifest.entries))
      BY <2>7, <2>4 DEF ManifestShows, Stacks
    <3>2. \A n \in Names(manifest.entries) : n \in DOMAIN segs => segs[n].keep
      BY <2>7, <2>4, <1>4 DEF ManifestKept
    <3>3. \A n \in Names(manifest.entries) : n \in DOMAIN files' /\ files'[n] = files[n]
      BY <3>1, <3>2, <2>3, <1>2 DEF KeepsFiles
    <3>4. StackOf(manifest.entries, files') = StackOf(manifest.entries, files)
      BY <3>3, SameStack
    <3> QED
      BY <3>1, <3>3, <3>4
  <2>8. ManifestShows'
    BY <1>1, <2>4, <2>7 DEF ManifestShows, Stacks
  <2>9. ManifestKept'
    BY <1>1, <1>4, <2>3, <2>4 DEF ManifestKept
  <2> QED
    BY <1>2, <2>5, <2>6, <2>7, <2>8, <2>9 DEF ContentInv, StackKept
<1> QED
  BY <1>3, <1>4

\* A job that leaves the store as it is.
LEMMA ContentSettles ==
    ASSUME StoreInv, StoreInv', ContentInv, KeepsContents(snaps', segs', snaps, segs), KeepsFiles(files', files),
           job' = Idle, job.phase # "swap", up, up' = up, cur' = cur, manifest' = manifest
    PROVE  ContentInv' /\ StackKept
<1>1. \A n \in DOMAIN segs' : files'[n] = files[n]
  BY FilesLeft
<1>2. job'.phase # "swap" /\ ~Planned'
  BY DEF Idle, Planned
<1>3. /\ SnapshotsShow' /\ FilesShow' /\ ManifestShows' /\ ManifestKept' /\ StackKept
  BY <1>1, <1>2, ContentStays DEF StackKept
<1> QED
  BY <1>2, <1>3 DEF ContentInv, JobShows

\* The previous snapshot takes along no file that the manifest names.
LEMMA ContentReleasePrevious ==
    ASSUME StoreInv, StoreInv', ContentInv, ReleasePrevious
    PROVE  ContentInv' /\ StackKept /\ KeepsContents(snaps', segs', snaps, segs)
<1> DEFINE first == Release(snaps, segs, files, cur - 1)
           second == Release(first.snaps, first.segs, first.files, cur - 1)
           after == IF job.compacting THEN second ELSE first
<1>1. /\ job.phase = "release" /\ job' = Idle
      /\ snaps' = after.snaps /\ segs' = after.segs /\ files' = after.files
      /\ manifest' = manifest /\ up' = up /\ cur' = cur
  BY DEF ReleasePrevious
<1>2. up
  BY <1>1 DEF StoreInv, JobInv, Idle
<1>3. /\ Shaped(first.snaps, first.segs)
      /\ KeepsContents(first.snaps, first.segs, snaps, segs) /\ KeepsFiles(first.files, files)
  <2>1. Shaped(snaps, segs)
    BY StoreShaped
  <2> QED
    BY <2>1, ReleaseKeeps
<1> HIDE DEF first
<1>4. /\ KeepsContents(second.snaps, second.segs, first.snaps, first.segs)
      /\ KeepsFiles(second.files, first.files)
  BY <1>3, ReleaseKeeps
<1> HIDE DEF second
<1>5. KeepsContents(second.snaps, second.segs, snaps, segs) /\ KeepsFiles(second.files, files)
  BY <1>3, <1>4, KeepsTwice DEF KeepsFiles
<1>6. KeepsContents(snaps', segs', snaps, segs) /\ KeepsFiles(files', files)
  BY <1>1, <1>3, <1>5
<1> HIDE DEF after
<1> QED
  BY <1>1, <1>2, <1>6, ContentSettles

\* The manifest of the published snapshot is written again.
LEMMA ContentSaveMeta ==
    ASSUME StoreInv, StoreInv', ContentInv, SaveMeta
    PROVE  /\ ContentInv'
           /\ snaps[cur].whole => Visible(StackOf(manifest'.entries, files')) = View(segs, snaps[cur])
<1> DEFINE sn == snaps[cur]
<1>1. /\ up /\ job = Idle /\ cur # 0
      /\ manifest' = [gen |-> cur, entries |-> Entries(sn), whole |-> sn.whole]
      /\ files' = files /\ up' = up /\ cur' = cur /\ snaps' = snaps /\ segs' = segs /\ job' = job
  BY DEF SaveMeta, memory
<1>2. cur \in DOMAIN snaps /\ IsSnapshot(sn) /\ Range(sn.segs) \subseteq DOMAIN segs
  BY <1>1, CurrentSnapshot
<1>3. SnapshotsShow /\ FilesShow
  BY DEF ContentInv
<1>4. DOMAIN segs \subseteq DOMAIN files
  BY <1>1 DEF StoreInv, FileInv
<1>5. \A n \in Range(sn.segs) : n \in DOMAIN files /\ files[n] = segs[n].content
  BY <1>1, <1>2, <1>3, <1>4 DEF FilesShow
<1>6. sn.segs # <<>> /\ (sn.whole => Sound(segs, sn))
  BY <1>1, <1>2, <1>3 DEF SnapshotsShow, SoundAll
<1>7. manifest'.gen = cur /\ manifest'.entries = Entries(sn) /\ manifest'.whole = sn.whole
  BY <1>1
<1> HIDE DEF sn
<1>8. Names(Entries(sn)) = Range(sn.segs)
  BY <1>2, SnapshotEntries, EntryNames
<1>9. DOMAIN Entries(sn) # {}
  <2>1. DOMAIN Entries(sn) = DOMAIN sn.segs
    BY DEF Entries
  <2>2. sn.segs \in Seq(SegNames)
    BY <1>2 DEF IsSnapshot, NameLists
  <2>3. DOMAIN sn.segs # {}
    BY <2>2, <1>6, EmptySeq
  <2> QED
    BY <2>1, <2>3
<1>10. sn.whole => /\ Stacks(Entries(sn), files)
                   /\ Visible(StackOf(Entries(sn), files)) = View(segs, sn)
  <2> SUFFICES ASSUME sn.whole PROVE Stacks(Entries(sn), files) /\ Visible(StackOf(Entries(sn), files)) = View(segs, sn)
    OBVIOUS
  <2>1. Sound(segs, sn)
    BY <1>6
  <2>2. Stacks(Entries(sn), files) /\ StackOf(Entries(sn), files) = ContentsOf(segs, sn.segs)
    BY <2>1, <1>2, <1>5, StackOfSnapshot
  <2>3. View(segs, sn) = Visible(ContentsOf(segs, sn.segs))
    BY <2>1, <1>2, ViewVisible
  <2> QED
    BY <2>2, <2>3
<1>11. SnapshotsShow' /\ FilesShow'
  BY <1>1, <1>3 DEF SnapshotsShow, FilesShow
<1>12. JobShows'
  BY <1>1 DEF JobShows, Planned, Idle
<1>13. ManifestShows'
  BY <1>1, <1>7, <1>9, <1>10 DEF ManifestShows
<1>14. ManifestKept'
  BY <1>1, <1>7, <1>8 DEF ManifestKept, Idle, sn
<1> QED
  BY <1>1, <1>7, <1>10, <1>11, <1>12, <1>13, <1>14 DEF ContentInv, sn

\* Nothing changes when nothing happens.
LEMMA ContentStutters ==
    ASSUME ContentInv, UNCHANGED storeVars
    PROVE  ContentInv' /\ StackKept
<1>1. /\ files' = files /\ manifest' = manifest
      /\ up' = up /\ cur' = cur /\ snaps' = snaps /\ segs' = segs /\ job' = job
  BY DEF storeVars, disk, memory
<1>2. Planned' = Planned /\ Fresh' = Fresh /\ NewEntries' = NewEntries /\ NewNames' = NewNames
  BY <1>1 DEF Planned, Fresh, NewEntries, NewNames
<1> QED
  BY <1>1, <1>2 DEF ContentInv, SnapshotsShow, JobShows, FilesShow, ManifestShows, ManifestKept, StackKept

\* A job that fails: what is open keeps its files.
LEMMA FailsShow ==
    ASSUME StoreInv, StoreInv', ContentInv, job.phase = "write", NEW left, Fails(left),
           \A n \in DOMAIN left : n[1] = cur + 1
    PROVE  /\ KeepsContents(snaps', segs', snaps, segs)
           /\ \A n \in DOMAIN segs' : files'[n] = files[n]
           /\ SnapshotsShow' /\ FilesShow' /\ JobShows'
           /\ up /\ up' = up /\ cur' = cur /\ job' = Idle
<1> DEFINE rest == Without(files, WrittenNames)
           given == Release(snaps, segs, rest, cur)
           kept == [snaps |-> snaps, segs |-> segs, files |-> rest]
           after == IF job.compacting THEN given ELSE kept
<1>1. /\ job' = Idle /\ snaps' = after.snaps /\ segs' = after.segs
      /\ files' = Over(left, after.files) /\ up' = up /\ cur' = cur
  BY DEF Fails
<1>2. up /\ cur \in Nat
  <2>1. Planned
    BY DEF Planned
  <2> QED
    BY <2>1, NewNamesFresh DEF StoreInv, StoreStates
<1>3. KeepsFiles(rest, files)
  BY DEF KeepsFiles, Without, Restrict
<1>4. KeepsContents(given.snaps, given.segs, snaps, segs) /\ KeepsFiles(given.files, rest)
  <2>1. Shaped(snaps, segs)
    BY StoreShaped
  <2> QED
    BY <2>1, ReleaseKeeps
<1>5. KeepsContents(kept.snaps, kept.segs, snaps, segs) /\ KeepsFiles(kept.files, rest)
  BY DEF KeepsContents, KeepsSnapshot, KeepsFiles
<1> HIDE DEF given, kept, rest
<1>6. KeepsContents(after.snaps, after.segs, snaps, segs) /\ KeepsFiles(after.files, rest)
  BY <1>4, <1>5
<1> HIDE DEF after
<1>7. KeepsContents(snaps', segs', snaps, segs)
  BY <1>1, <1>6
<1>8. \A n \in DOMAIN segs' : files'[n] = files[n]
  <2> TAKE n \in DOMAIN segs'
  <2>1. n \in DOMAIN segs
    BY <1>7 DEF KeepsContents
  <2>2. n[1] <= cur
    BY <2>1, <1>2 DEF StoreInv, SegmentInv
  <2>3. n \notin DOMAIN left
    BY <2>2, <1>2
  <2>4. n \in DOMAIN files'
    BY <1>1, <1>2 DEF StoreInv, FileInv
  <2>5. n \in DOMAIN after.files /\ files'[n] = after.files[n]
    BY <2>3, <2>4, <1>1 DEF Over
  <2> QED
    BY <2>5, <1>3, <1>6 DEF KeepsFiles
<1>9. SnapshotsShow'
  BY <1>7, SnapshotsStay DEF ContentInv
<1>10. FilesShow'
  BY <1>2, <1>7, <1>8, FilesStay DEF ContentInv
<1>11. JobShows'
  BY <1>1 DEF JobShows, Planned, Idle
<1> QED
  BY <1>1, <1>2, <1>7, <1>8, <1>9, <1>10, <1>11

\* ... and so does the manifest, when it is the same.
LEMMA FailsKeepManifest ==
    ASSUME StoreInv, StoreInv', ContentInv, job.phase = "write", NEW left, Fails(left),
           \A n \in DOMAIN left : n[1] = cur + 1, manifest' = manifest
    PROVE  ContentInv' /\ StackKept /\ KeepsContents(snaps', segs', snaps, segs)
<1>1. /\ KeepsContents(snaps', segs', snaps, segs)
      /\ \A n \in DOMAIN segs' : files'[n] = files[n]
      /\ SnapshotsShow' /\ FilesShow' /\ JobShows'
      /\ up /\ up' = up /\ cur' = cur /\ job' = Idle
  BY FailsShow
<1>2. job.phase # "swap" /\ job'.phase # "swap"
  BY <1>1 DEF Idle
<1>3. ManifestShows' /\ ManifestKept' /\ StackKept
  BY <1>1, <1>2, ContentStays DEF StackKept
<1> QED
  BY <1>1, <1>3 DEF ContentInv

\* A segment that cannot be written.
LEMMA ContentWriteFails ==
    ASSUME StoreInv, StoreInv', ContentInv, NEW i \in Fresh, WriteFails(i)
    PROVE  ContentInv' /\ StackKept /\ KeepsContents(snaps', segs', snaps, segs)
<1> DEFINE piece == job.pieces[i]
           left == Only(piece.name, piece.content)
<1>1. job.phase = "write" /\ manifest' = manifest
  BY DEF WriteFails, NextPiece
<1>2. CASE Fails(<<>>)
  <2>1. \A n \in DOMAIN <<>> : n[1] = cur + 1
    OBVIOUS
  <2> QED
    BY <1>1, <1>2, <2>1, FailsKeepManifest
<1>3. CASE Fails(left)
  <2>1. DOMAIN left = {piece.name}
    BY DEF Only
  <2>2. piece.name[1] = cur + 1
    BY <1>1, NewNamesFresh DEF Planned, NewNames
  <2> HIDE DEF left, piece
  <2>3. \A n \in DOMAIN left : n[1] = cur + 1
    BY <2>1, <2>2
  <2> QED
    BY <1>1, <1>3, <2>3, FailsKeepManifest
<1> QED
  BY <1>2, <1>3 DEF WriteFails

\* A manifest that may or may not be in place is not one that was published.
LEMMA ContentManifestFails ==
    ASSUME StoreInv, StoreInv', ContentInv, ManifestFails
    PROVE  ContentInv' /\ (manifest' = manifest => StackKept) /\ KeepsContents(snaps', segs', snaps, segs)
<1>1. /\ job.phase = "write" /\ Fails(<<>>) /\ \A i \in Fresh : i <= job.written
      /\ manifest' \in {manifest, [gen |-> cur + 1, entries |-> NewEntries, whole |-> FALSE]}
  BY DEF ManifestFails, AllWritten
<1>2. \A n \in DOMAIN <<>> : n[1] = cur + 1
  OBVIOUS
<1>3. CASE manifest' = manifest
  BY <1>1, <1>2, <1>3, FailsKeepManifest
<1>4. CASE manifest' = [gen |-> cur + 1, entries |-> NewEntries, whole |-> FALSE]
  <2>1. SnapshotsShow' /\ FilesShow' /\ JobShows' /\ up /\ cur \in Nat
        /\ KeepsContents(snaps', segs', snaps, segs)
    BY <1>1, <1>2, FailsShow DEF StoreInv, StoreStates
  <2>2. DOMAIN NewEntries # {}
    BY <1>1, NextStack DEF Planned
  <2>3. manifest'.gen = cur + 1 /\ manifest'.entries = NewEntries /\ ~manifest'.whole
    BY <1>4
  <2>4. ManifestShows' /\ ManifestKept'
    BY <2>1, <2>2, <2>3 DEF ManifestShows, ManifestKept
  <2>5. manifest.whole => manifest' # manifest
    BY <2>3
  <2> QED
    BY <2>1, <2>4, <2>5 DEF ContentInv, StackKept
<1> QED
  BY <1>1, <1>3, <1>4

\* A crash leaves the directory as it is.
LEMMA ContentCrash ==
    ASSUME ContentInv, Crash
    PROVE  ContentInv' /\ StackKept
<1>1. /\ up' = FALSE /\ cur' = 0 /\ snaps' = <<>> /\ segs' = <<>> /\ job' = Idle
      /\ manifest' = manifest /\ files' = files
  BY DEF Crash
<1>2. DOMAIN snaps' = {} /\ DOMAIN segs' = {} /\ ~Planned'
  BY <1>1 DEF Planned, Idle
<1>3. SnapshotsShow'
  BY <1>2 DEF SnapshotsShow, SoundAll
<1>4. JobShows' /\ FilesShow' /\ ManifestKept'
  BY <1>1, <1>2 DEF JobShows, FilesShow, ManifestKept
<1>5. ManifestShows'
  BY <1>1 DEF ContentInv, ManifestShows
<1> QED
  BY <1>1, <1>3, <1>4, <1>5 DEF ContentInv, StackKept

\* The files that the manifest names are those that Close keeps.
LEMMA ContentClose ==
    ASSUME StoreInv, StoreInv', ContentInv, Close
    PROVE  ContentInv' /\ StackKept /\ KeepsContents(snaps', segs', snaps, segs)
<1> DEFINE names == Range(snaps[cur].segs)
           keeping == [n \in DOMAIN segs |->
                IF n \in names THEN [segs[n] EXCEPT !.keep = TRUE, !.retired = TRUE] ELSE segs[n]]
           after == Release(snaps, keeping, files, cur)
<1>1. /\ up /\ job = Idle /\ job' = Idle /\ up' = FALSE /\ cur' = 0
      /\ snaps' = after.snaps /\ segs' = after.segs /\ files' = after.files
      /\ manifest' = manifest
  BY DEF Close
<1>2. /\ Counted(snaps, segs) /\ Shaped(snaps, segs)
      /\ \A n \in DOMAIN segs : IsSegment(segs[n])
  BY StoreShaped DEF Shaped
<1>3. cur \in DOMAIN snaps /\ names \subseteq DOMAIN segs
  BY <1>1, CurrentSnapshot
<1>4. SnapshotsShow /\ ManifestShows /\ ManifestKept
  BY DEF ContentInv
<1>5. manifest.whole => Names(manifest.entries) \subseteq names
  BY <1>1, <1>4 DEF ManifestKept, Idle
<1> HIDE DEF names
<1>6. DOMAIN keeping = DOMAIN segs
      /\ \A n \in DOMAIN segs : keeping[n] =
           IF n \in names THEN [segs[n] EXCEPT !.keep = TRUE, !.retired = TRUE] ELSE segs[n]
  OBVIOUS
<1> HIDE DEF keeping, after
<1>7. \A n \in DOMAIN segs : /\ IsSegment(keeping[n]) /\ keeping[n].content = segs[n].content
                             /\ keeping[n].refs = segs[n].refs
                             /\ n \in names => keeping[n].keep
  <2> TAKE n \in DOMAIN segs
  <2>1. CASE n \in names
    <3>1. keeping[n] = [segs[n] EXCEPT !.keep = TRUE, !.retired = TRUE] /\ IsSegment(segs[n])
      BY <2>1, <1>2, <1>6
    <3> QED
      BY <3>1 DEF IsSegment
  <2>2. CASE n \notin names
    BY <2>2, <1>2, <1>6
  <2> QED
    BY <2>1, <2>2
<1>8. Counted(snaps, keeping)
  BY <1>2, <1>6, <1>7 DEF Counted
<1>9. Shaped(snaps, keeping)
  BY <1>2, <1>6, <1>7 DEF Shaped
<1>10. KeepsContents(snaps, keeping, snaps, segs)
  BY <1>6, <1>7 DEF KeepsContents, KeepsSnapshot
<1>11. KeepsContents(after.snaps, after.segs, snaps, keeping) /\ KeepsFiles(after.files, files)
  BY <1>9, ReleaseKeeps DEF after
<1>12. RemovesOpen(after, keeping, files)
  BY <1>3, <1>8, ReleaseRemoves DEF after
<1>13. KeepsContents(snaps', segs', snaps, segs)
  BY <1>1, <1>10, <1>11, KeepsTwice
<1>14. SnapshotsShow'
  BY <1>4, <1>13, SnapshotsStay
<1>15. JobShows' /\ FilesShow'
  BY <1>1 DEF JobShows, FilesShow, Planned, Idle
<1>16. ASSUME manifest.whole
       PROVE  /\ Names(manifest.entries) \subseteq DOMAIN files'
              /\ StackOf(manifest.entries, files') = StackOf(manifest.entries, files)
              /\ InOrder(manifest.entries) /\ Stacked(StackOf(manifest.entries, files), LosOf(manifest.entries))
              /\ \A n \in Names(manifest.entries) : n \in DOMAIN segs' => segs'[n].keep
  <2>1. Names(manifest.entries) \subseteq DOMAIN files
        /\ InOrder(manifest.entries) /\ Stacked(StackOf(manifest.entries, files), LosOf(manifest.entries))
    BY <1>16, <1>4 DEF ManifestShows, Stacks
  <2>2. \A n \in Names(manifest.entries) : n \in DOMAIN segs /\ keeping[n].keep
    BY <1>16, <1>3, <1>5, <1>7
  <2>3. \A n \in Names(manifest.entries) : n \in DOMAIN files' /\ files'[n] = files[n]
    BY <2>1, <2>2, <1>1, <1>11, <1>12 DEF KeepsFiles, RemovesOpen
  <2>4. StackOf(manifest.entries, files') = StackOf(manifest.entries, files)
    BY <2>3, SameStack
  <2>5. \A n \in Names(manifest.entries) : n \in DOMAIN segs' => segs'[n].keep
    BY <2>2, <1>1, <1>12 DEF RemovesOpen
  <2> QED
    BY <2>1, <2>3, <2>4, <2>5
<1>17. ManifestShows'
  BY <1>1, <1>4, <1>16 DEF ManifestShows, Stacks
<1>18. ManifestKept'
  BY <1>1, <1>16 DEF ManifestKept
<1> QED
  BY <1>13, <1>14, <1>15, <1>16, <1>17, <1>18 DEF ContentInv, StackKept

\* Sharing segments changes no content.
LEMMA RetainKeeps ==
    ASSUME NEW open, \A n \in DOMAIN open : IsSegment(open[n]), NEW sn
    PROVE  /\ DOMAIN Retain(open, sn) = DOMAIN open
           /\ \A n \in DOMAIN open : IsSegment(Retain(open, sn)[n]) /\ Retain(open, sn)[n].content = open[n].content
<1> DEFINE more == Retain(open, sn)
<1>1. /\ DOMAIN more = DOMAIN open
      /\ \A n \in DOMAIN open : more[n] = IF n \in Range(sn.segs) THEN [open[n] EXCEPT !.refs = @ + 1] ELSE open[n]
  BY DEF Retain
<1> HIDE DEF more
<1>2. \A n \in DOMAIN open : IsSegment(more[n]) /\ more[n].content = open[n].content
  <2> TAKE n \in DOMAIN open
  <2>1. IsSegment(open[n])
    OBVIOUS
  <2>2. CASE n \in Range(sn.segs)
    <3>1. more[n] = [open[n] EXCEPT !.refs = @ + 1]
      BY <2>2, <1>1
    <3> QED
      BY <3>1, <2>1 DEF IsSegment
  <2>3. CASE n \notin Range(sn.segs)
    BY <2>1, <2>3, <1>1
  <2> QED
    BY <2>2, <2>3
<1> QED
  BY <1>1, <1>2 DEF more

\* An opened segment holds what its file holds.
LEMMA OpenedHolds ==
    ASSUME NEW content
    PROVE  IsSegment(Opened(content)) /\ Opened(content).content = content
BY DEF Opened, IsSegment

\* A snapshot of segments just opened shows the files they are.
LEMMA LoadedSound ==
    ASSUME NEW entries, NamesOf(entries) \in NameLists, NEW dir, Stacks(entries, dir),
           NEW open, DOMAIN open = Names(entries), \A n \in Names(entries) : open[n] = Opened(dir[n]),
           NEW gen, NEW whole
    PROVE  LET sn == NewSnapshot(open, gen, NamesOf(entries), LosOf(entries), whole)
           IN /\ Sound(open, sn)
              /\ ContentsOf(open, sn.segs) = StackOf(entries, dir)
              /\ IsSnapshot(sn)
<1> DEFINE names == NamesOf(entries)
           sn == NewSnapshot(open, gen, names, LosOf(entries), whole)
<1>1. DOMAIN names = DOMAIN entries /\ \A i \in DOMAIN entries : names[i] = entries[i].name
  BY DEF NamesOf
<1>2. \A i \in DOMAIN entries : entries[i].name \in Names(entries)
  BY DEF Names
<1>3. \A i \in DOMAIN entries : open[entries[i].name].content = dir[entries[i].name]
  BY <1>2, OpenedHolds
<1> HIDE DEF names
<1>4. ContentsOf(open, names) = StackOf(entries, dir)
  BY <1>1, <1>3 DEF ContentsOf, StackOf
<1>5. Stacked(ContentsOf(open, names), LosOf(entries)) /\ names \in NameLists
  BY <1>4 DEF Stacks, names
<1>6. Sound(open, sn)
  BY <1>5, NewSnapshotSound
<1>7. Lists(sn, gen, names)
  BY NewSnapshotFacts DEF names
<1> HIDE DEF sn
<1>8. IsSnapshot(sn) /\ sn.segs = names
  BY <1>7 DEF Lists
<1> QED
  BY <1>4, <1>6, <1>8 DEF sn, names

\* A store that opens shows what its manifest names, or nothing; it was nothing, or
\* not published.
LEMMA ContentOpens ==
    ASSUME StoreInv, StoreInv', ContentInv, OpenStore, Loadable(manifest, files)
    PROVE  /\ ContentInv' /\ StackKept /\ manifest' = manifest /\ up'
           /\ snaps'[cur'].whole = manifest.whole
           /\ manifest.whole => View(segs', snaps'[cur']) = Visible(StackOf(manifest.entries, files))
<1> DEFINE e == manifest.entries
           names == Names(e)
           open == OpenSegs(manifest, files)
           sn == Load(manifest, open)
           old == NewSnapshot(open, manifest.gen, NamesOf(e), LosOf(e), manifest.whole)
<1>1. /\ snaps' = Only(sn.gen, sn) /\ cur' = sn.gen /\ segs' = Retain(open, sn)
      /\ manifest' = manifest /\ files' = Restrict(files, names)
      /\ up' = TRUE /\ job' = job /\ ~up
  BY DEF OpenStore
<1>2. job' = Idle
  BY <1>1 DEF StoreInv, JobInv
<1>3. manifest.gen # 0 /\ names \subseteq DOMAIN files /\ InOrder(e)
  BY DEF Loadable
<1>4. ManifestShows
  BY DEF ContentInv
<1>5. DOMAIN e # {} /\ NamesOf(e) \in NameLists
  BY <1>3, <1>4 DEF ManifestShows, StoreInv, ManifestInv
<1>6. DOMAIN open = names /\ \A n \in names : open[n] = Opened(files[n])
  BY DEF OpenSegs
<1>7. NamesOf(e) # <<>> /\ names # {}
  <2>4. DOMAIN NamesOf(e) = DOMAIN e
    BY DEF NamesOf
  <2>5. DOMAIN <<>> = {}
    OBVIOUS
  <2>6. names # {}
    BY <1>5 DEF Names
  <2> QED
    BY <1>5, <2>4, <2>5, <2>6
<1> HIDE DEF open
<1>8. open # <<>>
  BY <1>6, <1>7
<1>9. sn = old
  BY <1>8 DEF Load
<1> HIDE DEF sn
<1>10. Lists(old, manifest.gen, NamesOf(e))
  BY <1>5, NewSnapshotFacts
<1>11. IsSnapshot(sn) /\ sn.gen = manifest.gen /\ sn.segs = NamesOf(e)
  BY <1>9, <1>10 DEF Lists
<1>12. sn.whole = manifest.whole
  BY <1>9 DEF NewSnapshot
<1> HIDE DEF old, e
<1>13. \A n \in names : IsSegment(open[n]) /\ open[n].content = files[n]
  BY <1>6, OpenedHolds
<1> HIDE DEF names
<1>14. DOMAIN segs' = names /\ \A n \in names : segs'[n].content = files[n]
  BY <1>1, <1>6, <1>13, RetainKeeps
<1>15. DOMAIN snaps' = {sn.gen} /\ snaps'[sn.gen] = sn /\ cur' = sn.gen
  BY <1>1 DEF Only
<1>16. DOMAIN files' = names /\ \A n \in names : files'[n] = files[n]
  BY <1>1, <1>3 DEF Restrict
<1>17. names = Range(sn.segs)
  BY <1>11, EntryNames DEF names
<1>18. ASSUME manifest.whole
       PROVE  /\ Sound(segs', sn) /\ View(segs', sn) = Visible(StackOf(e, files))
              /\ Stacks(e, files) /\ StackOf(e, files') = StackOf(e, files)
  <2>1. Stacks(e, files)
    BY <1>18, <1>4 DEF ManifestShows, e
  <2>2. Sound(open, sn) /\ ContentsOf(open, sn.segs) = StackOf(e, files)
    <3>1. DOMAIN open = Names(e) /\ \A n \in Names(e) : open[n] = Opened(files[n])
      BY <1>6 DEF names
    <3> DEFINE gen == manifest.gen
               whole == manifest.whole
               loaded == NewSnapshot(open, gen, NamesOf(e), LosOf(e), whole)
    <3>2. NamesOf(e) \in NameLists
      BY <1>5
    <3>4. sn = loaded
      BY <1>9 DEF old, e
    <3> HIDE DEF gen, whole
    <3>3. Sound(open, loaded) /\ ContentsOf(open, loaded.segs) = StackOf(e, files)
      BY <2>1, <3>1, <3>2, LoadedSound
    <3> HIDE DEF loaded
    <3> QED
      BY <3>3, <3>4
  <2>3. \A i \in DOMAIN sn.segs : sn.segs[i] \in names
    BY <1>17 DEF Range
  <2>4. \A i \in DOMAIN sn.segs : segs'[sn.segs[i]].content = open[sn.segs[i]].content
    BY <2>3, <1>13, <1>14
  <2>5. Sound(segs', sn)
    BY <2>2, <2>4, SoundFor
  <2>6. ContentsOf(segs', sn.segs) = ContentsOf(open, sn.segs)
    BY <2>4 DEF ContentsOf
  <2>7. View(segs', sn) = Visible(ContentsOf(segs', sn.segs))
    BY <2>5, <1>11, <1>12, <1>18, ViewVisible
  <2>8. StackOf(e, files') = StackOf(e, files)
    BY <1>16, SameStack DEF names
  <2> QED
    BY <2>1, <2>2, <2>5, <2>6, <2>7, <2>8
<1>19. SnapshotsShow'
  BY <1>7, <1>11, <1>12, <1>15, <1>18 DEF SnapshotsShow, SoundAll
<1>20. JobShows'
  BY <1>2 DEF JobShows, Planned, Idle
<1>21. FilesShow'
  BY <1>14, <1>16 DEF FilesShow
<1>22. ManifestShows'
  <2>1. manifest.whole => Names(e) \subseteq DOMAIN files' /\ InOrder(e) /\ Stacked(StackOf(e, files'), LosOf(e))
    BY <1>16, <1>18 DEF Stacks, names
  <2> QED
    BY <1>1, <1>4, <2>1 DEF ManifestShows, Stacks, e
<1>23. ManifestKept'
  BY <1>1, <1>2, <1>15, <1>17 DEF ManifestKept, Idle, names, e
<1> QED
  BY <1>1, <1>12, <1>15, <1>18, <1>19, <1>20, <1>21, <1>22, <1>23 DEF ContentInv, StackKept, e

\* ... an index that cannot be loaded is discarded.
LEMMA ContentDiscards ==
    ASSUME StoreInv, StoreInv', ContentInv, OpenStore, ~Loadable(manifest, files)
    PROVE  /\ ContentInv' /\ manifest' = NoManifest /\ up'
           /\ snaps'[cur'] = NoSnapshot
           /\ manifest.whole => DOMAIN manifest.entries = {}
<1> DEFINE open == OpenSegs(manifest, files)
           sn == Load(manifest, open)
<1>1. /\ snaps' = Only(sn.gen, sn) /\ cur' = sn.gen /\ segs' = Retain(open, sn)
      /\ manifest' = NoManifest /\ files' = <<>>
      /\ up' = TRUE /\ job' = job /\ ~up
  BY DEF OpenStore
<1>2. job' = Idle
  BY <1>1 DEF StoreInv, JobInv
<1>3. open = <<>> /\ sn = NoSnapshot
  BY DEF OpenSegs, Load
<1>4. sn.gen = 0
  BY <1>3, NoSnapshotSound
<1> HIDE DEF open, sn
<1>5. cur' = 0 /\ snaps' = Only(0, NoSnapshot)
  BY <1>1, <1>3, <1>4
<1>6. DOMAIN snaps' = {0} /\ snaps'[0] = NoSnapshot
  BY <1>5 DEF Only
<1>7. DOMAIN segs' = {}
  BY <1>1, <1>3 DEF Retain
<1>8. manifest'.gen = 0 /\ manifest'.entries = <<>> /\ manifest'.whole
  BY <1>1 DEF NoManifest
<1>9. SnapshotsShow'
  BY <1>6, NoSnapshotSound DEF SnapshotsShow, SoundAll
<1>10. JobShows'
  BY <1>2 DEF JobShows, Planned, Idle
<1>11. FilesShow'
  BY <1>7 DEF FilesShow
<1>12. ManifestShows'
  BY <1>8, NothingStacks DEF ManifestShows
<1>13. ManifestKept'
  BY <1>1, <1>2, <1>8, NothingStacks DEF ManifestKept, Idle
<1>14. ASSUME manifest.whole
       PROVE  DOMAIN manifest.entries = {}
  <2>1. ManifestShows
    BY DEF ContentInv
  <2> QED
    BY <2>1, <1>14 DEF ManifestShows, Stacks, Loadable
<1> QED
  BY <1>1, <1>5, <1>6, <1>9, <1>10, <1>11, <1>12, <1>13, <1>14 DEF ContentInv

\* The snapshot that is published lists what the manifest names.
LEMMA PublishedLists ==
    ASSUME StoreInv, Planned, JobShows, NEW open
    PROVE  /\ Lists(Published(open), cur + 1, NamesOf(NewEntries))
           /\ Published(open).whole = job.whole
<1> DEFINE sn == Published(open)
           old == snaps[cur]
           n == Len(old.segs)
           top == job.pieces[1].name
<1>1. /\ PlanFits(job, Range(old.segs), cur + 1) /\ PlanShows(job, segs, old) /\ up
      /\ IsSnapshot(old)
  BY NewNamesFresh, CurrentSnapshot DEF JobShows
<1>2. CASE job.stacks
  <2>1. sn = WithOverlay(open, old, cur + 1, top)
    BY <1>2 DEF Published
  <2>2. Append(old.segs, top) \in NameLists /\ DOMAIN job.pieces = {1}
    BY <1>2, StackedPiece
  <2>3. /\ n \in Nat /\ DOMAIN old.segs = 1..n /\ old.segs \in Seq(SegNames)
    BY <1>1, SnapshotLengths DEF IsSnapshot, NameLists
  <2>4. /\ DOMAIN NewEntries = 1..(n + 1)
        /\ \A i \in 1..n : NewEntries[i] = Entries(old)[i]
        /\ NewEntries[n + 1] = EntriesOf(job.pieces)[1]
    BY <1>2, NextEntries
  <2>5. EntriesOf(job.pieces)[1].name = top
    BY <2>2 DEF EntriesOf
  <2>6. \A i \in 1..n : Entries(old)[i].name = old.segs[i]
    BY <2>3 DEF Entries
  <2> HIDE DEF sn, top
  <2>7. Lists(sn, cur + 1, Append(old.segs, top))
    BY <1>1, <2>1, <2>2, WithOverlayFacts
  <2>8. Append(old.segs, top) = NamesOf(NewEntries)
    <3> DEFINE s == old.segs
    <3> HIDE DEF s, n
    <3>1. s \in Seq(SegNames) /\ Len(s) = n /\ n \in Nat
      BY <2>3 DEF s, n
    <3>2. top \in SegNames
      BY <1>2, StackedPiece DEF top
    <3>3. Append(s, top) = [i \in 1..(n + 1) |-> Append(s, top)[i]]
      <4> DEFINE longer == Append(s, top)
      <4>1. longer \in Seq(SegNames) /\ DOMAIN longer = 1..(n + 1)
        BY <3>1, <3>2
      <4> HIDE DEF longer
      <4>2. longer = [i \in DOMAIN longer |-> longer[i]]
        BY <4>1, SeqIsList
      <4> QED
        BY <4>1, <4>2 DEF longer
    <3>4. \A i \in 1..(n + 1) : Append(s, top)[i] = IF i \in 1..n THEN s[i] ELSE top
      BY <3>1, <3>2
    <3>5. NamesOf(NewEntries) = [i \in 1..(n + 1) |-> NewEntries[i].name]
      BY <2>4 DEF NamesOf, n
    <3>6. \A i \in 1..(n + 1) : i \in 1..n \/ i = n + 1
      BY <3>1
    <3>7. \A i \in 1..(n + 1) : NewEntries[i].name = IF i \in 1..n THEN s[i] ELSE top
      BY <2>4, <2>5, <2>6, <3>6 DEF n, s
    <3> QED
      BY <3>3, <3>4, <3>5, <3>7 DEF s
  <2>9. sn.whole = old.whole
    <3> DEFINE bare == [old EXCEPT !.gen = cur + 1, !.segs = Append(@, top), !.refs = 1]
    <3>1. DOMAIN old = {"gen", "segs", "los", "route", "refs", "whole"}
      BY <1>1 DEF IsSnapshot
    <3>2. bare.whole = old.whole /\ DOMAIN bare = DOMAIN old
      BY <3>1
    <3>3. sn = [bare EXCEPT !.route = Apply(open, bare, Len(bare.segs))]
      BY <2>1 DEF WithOverlay
    <3> HIDE DEF bare
    <3> QED
      BY <3>1, <3>2, <3>3
  <2> QED
    BY <1>1, <1>2, <2>7, <2>8, <2>9 DEF PlanShows, sn
<1>3. CASE ~job.stacks
  <2>1. sn = NewSnapshot(open, cur + 1, NamesOf(job.pieces), LosOf(job.pieces), job.whole)
    BY <1>3 DEF Published
  <2> HIDE DEF sn
  <2>2. NamesOf(job.pieces) \in NameLists
    BY <1>1 DEF PlanFits
  <2>3. Lists(sn, cur + 1, NamesOf(job.pieces))
    BY <2>1, <2>2, NewSnapshotFacts
  <2>4. NamesOf(NewEntries) = NamesOf(job.pieces)
    BY <1>3 DEF NewEntries, NamesOf, EntriesOf
  <2>5. sn.whole = job.whole
    BY <2>1 DEF NewSnapshot
  <2> QED
    BY <2>3, <2>4, <2>5 DEF sn
<1> QED
  BY <1>1, <1>2, <1>3 DEF PlanFits

\* A snapshot of segments that hold what they held stays sound and shows the same.
LEMMA SnapshotKept ==
    ASSUME NEW open, NEW open2, NEW sn, IsSnapshot(sn), sn.whole => Sound(open, sn),
           \A i \in DOMAIN sn.segs : open2[sn.segs[i]].content = open[sn.segs[i]].content
    PROVE  (sn.whole => Sound(open2, sn)) /\ View(open2, sn) = View(open, sn)
<1>1. CASE sn.whole
  <2>1. Sound(open2, sn)
    BY <1>1, SoundFor
  <2>2. ContentsOf(open2, sn.segs) = ContentsOf(open, sn.segs)
    BY DEF ContentsOf
  <2>3. View(open2, sn) = Visible(ContentsOf(open2, sn.segs))
    BY <2>1, <1>1, ViewVisible
  <2>4. View(open, sn) = Visible(ContentsOf(open, sn.segs))
    BY <1>1, ViewVisible
  <2> QED
    BY <2>1, <2>2, <2>3, <2>4
<1>2. CASE ~sn.whole
  BY <1>2 DEF View
<1> QED
  BY <1>1, <1>2

\* What is published is sound, and shows what the job wants.
LEMMA PublishedSound ==
    ASSUME StoreInv, ContentInv, job.phase = "swap", job.whole,
           NEW open, \A n \in (DOMAIN segs) \cup NewNames : open[n].content = files[n]
    PROVE  /\ Sound(open, Published(open))
           /\ View(open, Published(open)) = job.want
<1> DEFINE sn == Published(open)
           old == snaps[cur]
           top == job.pieces[1].name
           e == NewEntries
<1>1. Planned /\ JobShows /\ FilesShow /\ SnapshotsShow
  BY DEF Planned, ContentInv
<1>2. /\ PlanFits(job, Range(old.segs), cur + 1) /\ PlanShows(job, segs, old) /\ up
      /\ IsSnapshot(old) /\ Range(old.segs) \subseteq DOMAIN segs /\ cur \in DOMAIN snaps
  BY <1>1, NewNamesFresh, CurrentSnapshot DEF JobShows
<1>3. \A i \in Fresh : i <= job.written
  BY <1>1 DEF StoreInv, PlanInv
<1>4. Stacks(e, files) /\ Visible(StackOf(e, files)) = job.want
  BY <1>1, <1>3, NextStack
<1>5. /\ IsSnapshot(sn) /\ sn.segs = NamesOf(e) /\ sn.whole
  BY <1>1, PublishedLists DEF Lists
<1>6. Names(e) \subseteq (DOMAIN segs) \cup NewNames
  BY <1>1, <1>2, NextEntries
<1>7. ContentsOf(open, NamesOf(e)) = StackOf(e, files)
  <2>1. DOMAIN NamesOf(e) = DOMAIN e /\ \A i \in DOMAIN e : NamesOf(e)[i] = e[i].name /\ e[i].name \in Names(e)
    BY DEF NamesOf, Names
  <2>2. \A i \in DOMAIN e : open[e[i].name].content = files[e[i].name]
    BY <2>1, <1>6
  <2> HIDE DEF e
  <2> QED
    BY <2>1, <2>2 DEF ContentsOf, StackOf
<1>8. Sound(open, sn)
  <2>1. CASE job.stacks
    <3>1. sn = WithOverlay(open, old, cur + 1, top)
      BY <2>1 DEF Published
    <3>2. Append(old.segs, top) \in NameLists /\ NewNames = {top} /\ DOMAIN job.pieces = {1}
      BY <1>1, <2>1, StackedPiece
    <3>3. old.whole /\ IsContent(job.pieces[1].content)
      BY <1>2, <2>1 DEF PlanShows
    <3>4. \A i \in DOMAIN old.segs : open[old.segs[i]].content = segs[old.segs[i]].content
      <4>1. \A i \in DOMAIN old.segs : old.segs[i] \in DOMAIN segs
        BY <1>2 DEF Range
      <4> QED
        BY <4>1, <1>1, <1>2 DEF FilesShow
    <3>5. Sound(open, old)
      <4>1. Sound(segs, old)
        BY <1>1, <1>2, <3>3 DEF SnapshotsShow, SoundAll
      <4> QED
        BY <4>1, <3>4, SoundFor
    <3>6. IsContent(open[top].content)
      <4>1. 1 \in Fresh
        BY <1>2, <2>1 DEF PlanFits, Fresh
      <4>2. files[top] = job.pieces[1].content
        BY <4>1, <1>1, <1>3 DEF JobShows
      <4> QED
        BY <4>2, <3>2, <3>3
    <3> HIDE DEF sn, old, top
    <3>7. Sound(open, WithOverlay(open, old, cur + 1, top))
      BY <1>2, <3>2, <3>5, <3>6, WithOverlaySound
    <3> QED
      BY <3>1, <3>7
  <2>2. CASE ~job.stacks
    <3>1. sn = NewSnapshot(open, cur + 1, NamesOf(job.pieces), LosOf(job.pieces), job.whole)
      BY <2>2 DEF Published
    <3>2. e = EntriesOf(job.pieces)
      BY <2>2 DEF NewEntries
    <3>3. NamesOf(e) = NamesOf(job.pieces)
      BY <3>2 DEF NamesOf, EntriesOf
    <3>4. LosOf(e) = LosOf(job.pieces)
      <4>1. PICK m \in Nat : DOMAIN job.pieces = 1..m
        BY <1>2, PiecesList DEF PlanFits
      <4> QED
        BY <4>1, <3>2, EntriesOfTell
    <3>5. NamesOf(job.pieces) \in NameLists
      BY <1>2 DEF PlanFits
    <3> HIDE DEF sn, e
    <3>6. Stacked(ContentsOf(open, NamesOf(job.pieces)), LosOf(job.pieces))
      BY <1>4, <1>7, <3>3, <3>4 DEF Stacks
    <3> QED
      BY <3>1, <3>5, <3>6, NewSnapshotSound
  <2> QED
    BY <1>2, <2>1, <2>2 DEF PlanFits
<1> HIDE DEF sn
<1>9. View(open, sn) = Visible(ContentsOf(open, sn.segs))
  BY <1>5, <1>8, ViewVisible
<1> QED
  BY <1>4, <1>5, <1>7, <1>8, <1>9 DEF sn

\* The new snapshot shows what the job wants; those of readers what they showed.
LEMMA ContentSwap ==
    ASSUME StoreInv, StoreInv', ContentInv, Swap
    PROVE  /\ ContentInv' /\ StackKept
           /\ \A g \in DOMAIN snaps : View(segs', snaps'[g]) = View(segs, snaps[g])
           /\ View(segs', snaps'[cur']) = job.want
<1> DEFINE new == [n \in NewNames |-> Opened(files[n])]
           both == Over(new, segs)
           open == Retire(both, job.retire)
           sn == Published(open)
<1>1. /\ job.phase = "swap"
      /\ segs' = Retain(open, sn)
      /\ snaps' = Over(Only(sn.gen, sn), snaps)
      /\ cur' = sn.gen
      /\ job' = [job EXCEPT !.phase = "release"]
      /\ files' = files /\ manifest' = manifest /\ up' = up
  BY DEF Swap, disk
<1>2. Planned /\ SnapshotsShow /\ JobShows /\ FilesShow /\ ManifestShows /\ ManifestKept
  BY <1>1 DEF Planned, ContentInv
<1>3. /\ PlanFits(job, Range(snaps[cur].segs), cur + 1) /\ PlanShows(job, segs, snaps[cur]) /\ up
      /\ cur \in Nat /\ cur + 1 \notin DOMAIN snaps
      /\ NewNames \cap DOMAIN segs = {}
  BY <1>2, NewNamesFresh, CurrentSnapshot DEF JobShows
<1>4. Counted(snaps, segs) /\ \A n \in DOMAIN segs : IsSegment(segs[n])
  BY StoreShaped DEF Shaped
<1>5. /\ DOMAIN new = NewNames
      /\ \A n \in NewNames : new[n] = Opened(files[n])
  OBVIOUS
<1>6. \A n \in NewNames : IsSegment(new[n]) /\ new[n].content = files[n]
  BY <1>5, OpenedHolds
<1> HIDE DEF new
<1>7. /\ DOMAIN both = NewNames \cup DOMAIN segs
      /\ \A n \in NewNames : both[n] = new[n]
      /\ \A n \in DOMAIN segs : both[n] = segs[n]
  BY <1>3, <1>5 DEF Over
<1> HIDE DEF both
<1>8. \A n \in DOMAIN both : IsSegment(both[n]) /\ both[n].content = files[n]
  BY <1>2, <1>3, <1>4, <1>6, <1>7 DEF FilesShow
<1>9. /\ DOMAIN open = DOMAIN both
      /\ \A n \in DOMAIN both : open[n] = IF n \in job.retire THEN [both[n] EXCEPT !.retired = TRUE] ELSE both[n]
  BY DEF Retire
<1> HIDE DEF open
<1>10. \A n \in DOMAIN open : IsSegment(open[n]) /\ open[n].content = files[n]
  <2> TAKE n \in DOMAIN open
  <2>1. IsSegment(both[n]) /\ both[n].content = files[n]
        /\ open[n] = IF n \in job.retire THEN [both[n] EXCEPT !.retired = TRUE] ELSE both[n]
    BY <1>8, <1>9
  <2> QED
    BY <2>1 DEF IsSegment
<1>11. Lists(sn, cur + 1, NamesOf(NewEntries)) /\ sn.whole = job.whole
  BY <1>2, PublishedLists
<1>12. IsSnapshot(sn) /\ sn.gen = cur + 1 /\ sn.segs = NamesOf(NewEntries)
  BY <1>11 DEF Lists
<1>13. ASSUME job.whole
       PROVE  Sound(open, sn) /\ View(open, sn) = job.want
  <2>1. \A n \in (DOMAIN segs) \cup NewNames : open[n].content = files[n]
    BY <1>7, <1>9, <1>10
  <2> QED
    BY <1>1, <1>13, <2>1, PublishedSound
<1> HIDE DEF sn
<1>14. DOMAIN segs' = NewNames \cup DOMAIN segs
       /\ \A n \in DOMAIN open : segs'[n].content = open[n].content
  BY <1>1, <1>7, <1>9, <1>10, RetainKeeps
<1>15. /\ DOMAIN snaps' = (DOMAIN snaps) \cup {cur + 1} /\ snaps'[cur + 1] = sn /\ cur' = cur + 1
       /\ \A g \in DOMAIN snaps : snaps'[g] = snaps[g]
  BY <1>1, <1>3, <1>12 DEF Over, Only
<1>16. Names(NewEntries) = Range(sn.segs)
  BY <1>12, EntryNames
<1>17. \A i \in DOMAIN sn.segs : segs'[sn.segs[i]].content = open[sn.segs[i]].content
  <2>1. Names(NewEntries) \subseteq NewNames \cup DOMAIN segs
    BY <1>2, <1>3, NextEntries, CurrentSnapshot
  <2>2. \A i \in DOMAIN sn.segs : sn.segs[i] \in DOMAIN open
    BY <2>1, <1>7, <1>9, <1>16 DEF Range
  <2> QED
    BY <2>2, <1>14
<1>18. (sn.whole => Sound(segs', sn)) /\ View(segs', sn) = View(open, sn)
  BY <1>11, <1>12, <1>13, <1>17, SnapshotKept
<1>19. View(segs', sn) = job.want
  <2>1. CASE job.whole
    BY <2>1, <1>13, <1>18
  <2>2. CASE ~job.whole
    BY <2>2, <1>3, <1>11 DEF View, PlanShows
  <2> QED
    BY <2>1, <2>2
<1>20. ASSUME NEW g \in DOMAIN snaps
       PROVE  (snaps[g].whole => Sound(segs', snaps[g])) /\ View(segs', snaps[g]) = View(segs, snaps[g])
  <2>1. IsSnapshot(snaps[g]) /\ Range(snaps[g].segs) \subseteq DOMAIN segs
    BY <1>4 DEF Counted
  <2>2. snaps[g].whole => Sound(segs, snaps[g])
    BY <1>2 DEF SnapshotsShow, SoundAll
  <2>3. \A i \in DOMAIN snaps[g].segs : segs'[snaps[g].segs[i]].content = segs[snaps[g].segs[i]].content
    <3>1. \A n \in DOMAIN segs : segs'[n].content = segs[n].content
      BY <1>2, <1>3, <1>7, <1>9, <1>10, <1>14 DEF FilesShow
    <3> QED
      BY <2>1, <3>1 DEF Range
  <2> QED
    BY <2>1, <2>2, <2>3, SnapshotKept
<1>21. sn.segs # <<>>
  <2>1. DOMAIN NewEntries # {}
    <3>1. \A i \in Fresh : i <= job.written
      BY <1>1, <1>2 DEF StoreInv, PlanInv
    <3> QED
      BY <1>2, <3>1, NextStack
  <2>2. DOMAIN sn.segs = DOMAIN NewEntries /\ DOMAIN <<>> = {}
    BY <1>12 DEF NamesOf
  <2> QED
    BY <2>1, <2>2
<1>22. SnapshotsShow'
  <2>1. SoundAll(snaps', segs')
    BY <1>15, <1>18, <1>20 DEF SoundAll
  <2>2. \A g \in DOMAIN snaps' : g # 0 => snaps'[g].segs # <<>>
    BY <1>2, <1>15, <1>21 DEF SnapshotsShow
  <2> QED
    BY <2>1, <2>2 DEF SnapshotsShow
<1>23. job'.phase = "release" /\ JobShows'
  <2>1. job'.phase = "release"
    BY <1>1, <1>3 DEF PlanFits
  <2> QED
    BY <2>1 DEF JobShows, Planned
<1>24. FilesShow'
  <2>1. \A n \in DOMAIN segs' : files'[n] = segs'[n].content
    BY <1>1, <1>7, <1>9, <1>10, <1>14
  <2> QED
    BY <2>1 DEF FilesShow
<1>25. ManifestShows' /\ StackKept
  BY <1>1, <1>2 DEF ManifestShows, StackKept
<1>26. ManifestKept'
  <2>1. manifest.entries = NewEntries
    BY <1>1, <1>2 DEF JobShows
  <2> QED
    BY <2>1, <1>1, <1>3, <1>15, <1>16, <1>23 DEF ManifestKept
<1> QED
  BY <1>15, <1>19, <1>20, <1>22, <1>23, <1>24, <1>25, <1>26 DEF ContentInv

-----------------------------------------------------------------------------
\* Every step keeps the invariant about contents.
LEMMA ContentStep ==
    ASSUME StoreInv, ContentInv, [StoreNext]_storeVars
    PROVE  ContentInv'
<1>1. StoreInv'
  BY StoreStep
<1>2. ASSUME OpenStore PROVE ContentInv'
  <2>1. CASE Loadable(manifest, files)
    BY <1>1, <1>2, <2>1, ContentOpens
  <2>2. CASE ~Loadable(manifest, files)
    BY <1>1, <1>2, <2>2, ContentDiscards
  <2> QED
    BY <2>1, <2>2
<1>3. ASSUME Compact PROVE ContentInv'
  BY <1>1, <1>3, CompactBegins, ContentBegun
<1>4. ASSUME Import PROVE ContentInv'
  BY <1>1, <1>4, ImportBegins, ContentBegun
<1>5. ASSUME NEW b \in Batches, Overlay(b) PROVE ContentInv'
  BY <1>1, <1>5, OverlayBegins, ContentBegun
<1>6. ASSUME NEW b \in Builds, Base(b) PROVE ContentInv'
  BY <1>1, <1>6, BaseBegins, ContentBegun
<1>7. ASSUME NEW i \in Fresh, WriteSegment(i) PROVE ContentInv'
  BY <1>1, <1>7, ContentWriteSegment
<1>8. ASSUME NEW i \in Fresh, WriteFails(i) PROVE ContentInv'
  BY <1>1, <1>8, ContentWriteFails
<1>9. ASSUME PublishManifest PROVE ContentInv'
  BY <1>1, <1>9, ContentPublishManifest
<1>10. ASSUME ManifestFails PROVE ContentInv'
  BY <1>1, <1>10, ContentManifestFails
<1>11. ASSUME Swap PROVE ContentInv'
  BY <1>1, <1>11, ContentSwap
<1>12. ASSUME ReleasePrevious PROVE ContentInv'
  BY <1>1, <1>12, ContentReleasePrevious
<1>13. ASSUME SaveMeta PROVE ContentInv'
  BY <1>1, <1>13, ContentSaveMeta
<1>14. ASSUME Close PROVE ContentInv'
  BY <1>1, <1>14, ContentClose
<1>15. ASSUME Crash PROVE ContentInv'
  BY <1>15, ContentCrash
<1>16. ASSUME NEW r \in Readers, Snapshot(r) PROVE ContentInv'
  BY <1>1, <1>16, ContentSnapshot
<1>17. ASSUME NEW r \in Readers, Done(r) PROVE ContentInv'
  BY <1>1, <1>17, ContentDone
<1>18. ASSUME UNCHANGED storeVars PROVE ContentInv'
  BY <1>18, ContentStutters
<1> QED
  BY <1>2, <1>3, <1>4, <1>5, <1>6, <1>7, <1>8, <1>9, <1>10, <1>11, <1>12, <1>13, <1>14,
     <1>15, <1>16, <1>17, <1>18 DEF StoreNext

\* The inductive invariant about contents.
LEMMA ContentInvariant == StoreSpec => []ContentInv
<1>1. StoreInit => ContentInv
  BY ContentInitially
<1>2. StoreInv /\ ContentInv /\ [StoreNext]_storeVars => ContentInv'
  BY ContentStep
<1> QED
  BY <1>1, <1>2, StoreInvariant, PTL DEF StoreSpec

\* snapshot.go:218 Lookup and snapshot.go:283 Refs: in every snapshot, whatever was
\* stacked, built, compacted or imported, each path has one live record, that is the
\* one that Lookup finds, and the count of live records is right.
THEOREM RecordCorrectness == StoreSpec => []OneLiveRecord
<1>1. StoreInv /\ ContentInv => OneLiveRecord
  <2> SUFFICES ASSUME StoreInv, ContentInv, NEW g \in DOMAIN snaps, snaps[g].whole
               PROVE  LET sn == snaps[g]
                          refs == LiveRefs(segs, sn)
                          found(p) == Lookup(segs, sn, p)
                      IN /\ sn.route.nLive = Cardinality(refs)
                         /\ \A p \in Paths :
                              {segs[sn.segs[r[1]]].content[p] : r \in {q \in refs : q[2] = p}} = {found(p)} \ {Deleted}
                         /\ \A r \in refs, q \in refs : r[2] = q[2] => r = q
    BY DEF OneLiveRecord
  <2>1. IsSnapshot(snaps[g])
    BY StoreShaped DEF Shaped
  <2>2. Sound(segs, snaps[g])
    BY DEF ContentInv, SnapshotsShow, SoundAll
  <2> QED
    BY <2>1, <2>2, SoundReads
<1> QED
  BY <1>1, StoreInvariant, ContentInvariant, PTL

-----------------------------------------------------------------------------
\* The store implements a published index.

\* An index without segments shows nothing.
LEMMA NothingVisible ==
    ASSUME NEW open
    PROVE  Visible(<<>>) = Empty /\ View(open, NoSnapshot) = Empty
<1>1. \A p \in Paths : Holders(<<>>, p) = {}
  BY DEF Holders
<1>2. Visible(<<>>) = Empty
  BY <1>1 DEF Visible, Empty
<1>3. NoSnapshot.segs = <<>> /\ NoSnapshot.whole /\ IsSnapshot(NoSnapshot) /\ Sound(open, NoSnapshot)
  BY NoSnapshotSound
<1>4. ContentsOf(open, <<>>) = <<>>
  BY DEF ContentsOf
<1> HIDE DEF NoSnapshot
<1>5. View(open, NoSnapshot) = Visible(ContentsOf(open, NoSnapshot.segs))
  BY <1>3, ViewVisible
<1> QED
  BY <1>2, <1>3, <1>4, <1>5

\* The next Open finds what the manifest names, if its publication succeeded.
LEMMA DurableIs ==
    ASSUME NEW m, NEW dir, NamesOf(m.entries) \in NameLists,
           m.gen = 0 <=> DOMAIN m.entries = {}, m.gen = 0 => m.whole,
           m.whole => Stacks(m.entries, dir)
    PROVE  /\ DurableOf(m, dir) = IF m.whole THEN Visible(StackOf(m.entries, dir)) ELSE Lost
           /\ DurableOf(m, dir) \in Indexes \cup {Lost}
<1> DEFINE open == OpenSegs(m, dir)
           sn == Load(m, open)
           e == m.entries
<1>1. CASE ~m.whole
  BY <1>1 DEF DurableOf
<1>2. CASE m.whole
  <2>1. DurableOf(m, dir) = View(open, sn)
    <3> DEFINE G(o) == Let(Load(m, o), LAMBDA s : View(o, s))
    <3>1. DurableOf(m, dir) = G(open)
      BY <1>2 DEF DurableOf, Let
    <3>2. G(open) = View(open, sn)
      BY DEF Let
    <3> QED
      BY <3>1, <3>2
  <2>2. View(open, sn) = Visible(StackOf(e, dir))
    <3>1. CASE m.gen = 0
      <4>1. open = <<>> /\ sn = NoSnapshot
        BY <3>1 DEF OpenSegs, Loadable, Load
      <4>2. StackOf(e, dir) = <<>>
        <5>1. DOMAIN e = {}
          BY <3>1
        <5> QED
          BY <5>1 DEF StackOf
      <4> HIDE DEF open, sn, e
      <4> QED
        BY <4>1, <4>2, NothingVisible
    <3>2. CASE m.gen # 0
      <4> DEFINE gen == m.gen
                 whole == m.whole
                 loaded == NewSnapshot(open, gen, NamesOf(e), LosOf(e), whole)
      <4>1. Stacks(e, dir)
        BY <1>2
      <4>2. Loadable(m, dir)
        BY <3>2, <4>1 DEF Loadable, Stacks
      <4>3. DOMAIN open = Names(e) /\ \A n \in Names(e) : open[n] = Opened(dir[n])
        BY <4>2 DEF OpenSegs
      <4>4. open # <<>>
        <5>1. Names(e) # {}
          BY <3>2 DEF Names
        <5> QED
          BY <4>3, <5>1
      <4>6. sn = loaded
        BY <4>4 DEF Load
      <4>5. whole
        BY <1>2
      <4> HIDE DEF open, gen, whole
      <4>7. NamesOf(e) \in NameLists
        OBVIOUS
      <4> HIDE DEF sn, e
      <4>8. /\ Sound(open, loaded) /\ ContentsOf(open, loaded.segs) = StackOf(e, dir) /\ IsSnapshot(loaded)
        BY <4>1, <4>3, <4>7, LoadedSound
      <4>9. loaded.whole
        BY <4>5 DEF NewSnapshot
      <4> HIDE DEF loaded
      <4>10. View(open, loaded) = Visible(ContentsOf(open, loaded.segs))
        BY <4>8, <4>9, ViewVisible
      <4> QED
        BY <4>6, <4>8, <4>10
    <3> QED
      BY <3>1, <3>2
  <2>3. Visible(StackOf(e, dir)) \in Indexes
    <3>1. PICK n \in Nat : DOMAIN e = 1..n
      BY PiecesList
    <3>2. DOMAIN StackOf(e, dir) = 1..n
      BY <3>1 DEF StackOf
    <3>3. \A i \in 1..n : IsContent(StackOf(e, dir)[i])
      BY <1>2, <3>2 DEF Stacks, Stacked
    <3> QED
      BY <3>2, <3>3, VisibleIsIndex
  <2> QED
    BY <1>2, <2>1, <2>2, <2>3
<1> QED
  BY <1>1, <1>2

\* The next Open finds what the manifest names.
LEMMA DurableShows ==
    ASSUME StoreInv, ContentInv
    PROVE  /\ Durable = IF manifest.whole THEN Visible(StackOf(manifest.entries, files)) ELSE Lost
           /\ Durable \in Indexes \cup {Lost}
<1> DEFINE m == manifest
<1>1. /\ NamesOf(m.entries) \in NameLists
      /\ m.gen = 0 <=> DOMAIN m.entries = {}
      /\ m.gen = 0 => m.whole
      /\ m.whole => Stacks(m.entries, files)
  BY DEF StoreInv, ManifestInv, ContentInv, ManifestShows
<1>2. Durable = DurableOf(m, files)
  BY DEF Durable
<1> HIDE DEF m
<1>3. /\ DurableOf(m, files) = IF m.whole THEN Visible(StackOf(m.entries, files)) ELSE Lost
      /\ DurableOf(m, files) \in Indexes \cup {Lost}
  BY <1>1, DurableIs
<1> QED
  BY <1>2, <1>3 DEF m

\* ... and so it does after a step.
LEMMA DurableNext ==
    ASSUME StoreInv', ContentInv'
    PROVE  Durable' = IF manifest'.whole THEN Visible(StackOf(manifest'.entries, files')) ELSE Lost
<1> DEFINE m == manifest'
           dir == files'
<1>1. /\ NamesOf(m.entries) \in NameLists
      /\ m.gen = 0 <=> DOMAIN m.entries = {}
      /\ m.gen = 0 => m.whole
      /\ m.whole => Stacks(m.entries, dir)
  BY DEF StoreInv, ManifestInv, ContentInv, ManifestShows
<1>2. Durable' = DurableOf(m, dir)
  BY DEF Durable
<1> HIDE DEF m, dir
<1>3. DurableOf(m, dir) = IF m.whole THEN Visible(StackOf(m.entries, dir)) ELSE Lost
  BY <1>1, DurableIs
<1> QED
  BY <1>2, <1>3 DEF m, dir

\* The next Open finds the same while the manifest names the same files.
LEMMA DurableStays ==
    ASSUME StoreInv, StoreInv', ContentInv, ContentInv', manifest' = manifest, StackKept
    PROVE  Durable' = Durable
<1>1. Durable = IF manifest.whole THEN Visible(StackOf(manifest.entries, files)) ELSE Lost
  BY DurableShows
<1>2. Durable' = IF manifest'.whole THEN Visible(StackOf(manifest'.entries, files')) ELSE Lost
  BY DurableNext
<1> QED
  BY <1>1, <1>2 DEF StackKept

\* An index, or Lost, is what a snapshot shows and what a job wants.
LEMMA ViewIs ==
    ASSUME NEW open, NEW sn, IsSnapshot(sn), sn.whole => Sound(open, sn)
    PROVE  View(open, sn) \in Indexes \cup {Lost}
<1>1. CASE ~sn.whole
  BY <1>1 DEF View
<1>2. CASE sn.whole
  <2>1. View(open, sn) = Visible(ContentsOf(open, sn.segs))
    BY <1>2, ViewVisible
  <2>2. PICK n \in Nat : DOMAIN sn.segs = 1..n
    BY SnapshotLengths
  <2>3. DOMAIN ContentsOf(open, sn.segs) = 1..n
    BY <2>2 DEF ContentsOf
  <2>4. \A i \in 1..n : IsContent(ContentsOf(open, sn.segs)[i])
    BY <1>2, <2>3 DEF Sound, Stacked
  <2> QED
    BY <2>1, <2>3, <2>4, VisibleIsIndex
<1> QED
  BY <1>1, <1>2

\* ... and what a job wants.
LEMMA WantIs ==
    ASSUME NEW plan, NEW open, NEW sn, IsSnapshot(sn), sn.whole => Sound(open, sn), PlanShows(plan, open, sn),
           NEW names, NEW gen, PlanFits(plan, names, gen)
    PROVE  plan.want \in Indexes \cup {Lost}
<1>1. CASE ~plan.whole
  BY <1>1 DEF PlanShows
<1>2. CASE plan.whole /\ plan.stacks
  <2> DEFINE c == ContentsOf(open, sn.segs)
             top == plan.pieces[1].content
             n == Len(sn.segs)
  <2>1. sn.whole /\ plan.want = Visible(Append(c, top)) /\ IsContent(top)
    BY <1>2 DEF PlanShows
  <2>2. n \in Nat /\ DOMAIN c = 1..n /\ c = [i \in 1..n |-> c[i]]
    BY SnapshotLengths DEF ContentsOf
  <2>3. \A i \in 1..n : IsContent(c[i])
    BY <2>1, <2>2 DEF Sound, Stacked
  <2> HIDE DEF c, n, top
  <2>4. /\ DOMAIN Append(c, top) = 1..(n + 1)
        /\ \A i \in 1..n : Append(c, top)[i] = c[i]
        /\ Append(c, top)[n + 1] = top
    BY <2>2, AppendedList
  <2>5. \A i \in 1..(n + 1) : i \in 1..n \/ i = n + 1
    BY <2>2
  <2>6. \A i \in 1..(n + 1) : IsContent(Append(c, top)[i])
    BY <2>1, <2>3, <2>4, <2>5
  <2>7. n + 1 \in Nat
    BY <2>2
  <2> QED
    BY <2>1, <2>4, <2>6, <2>7, VisibleIsIndex
<1>3. CASE plan.whole /\ ~plan.stacks
  <2>1. PICK n \in Nat : DOMAIN plan.pieces = 1..n
    BY PiecesList DEF PlanFits
  <2>2. DOMAIN PieceContents(plan.pieces) = 1..n
    BY <2>1 DEF PieceContents
  <2>3. plan.want = Visible(PieceContents(plan.pieces)) /\ Stacked(PieceContents(plan.pieces), LosOf(plan.pieces))
    BY <1>3 DEF PlanShows
  <2>4. \A i \in 1..n : IsContent(PieceContents(plan.pieces)[i])
    BY <2>2, <2>3 DEF Stacked
  <2> QED
    BY <2>2, <2>3, <2>4, VisibleIsIndex
<1> QED
  BY <1>1, <1>2, <1>3

\* No index is the absence of one.
LEMMA IndexIsSome ==
    ASSUME NEW ix \in Indexes \cup {Lost}
    PROVE  ix # None
BY StoreAssumption DEF StoreAssumption

\* A job that has not swapped wants an index.
LEMMA WantIsSome ==
    ASSUME StoreInv, ContentInv, Planned
    PROVE  job.want \in Indexes \cup {Lost} /\ job.want # None
<1> DEFINE sn == snaps[cur]
<1>1. /\ up /\ PlanFits(job, Range(sn.segs), cur + 1) /\ PlanShows(job, segs, sn)
      /\ IsSnapshot(sn) /\ cur \in DOMAIN snaps
  BY NewNamesFresh, CurrentSnapshot DEF ContentInv, JobShows
<1>2. sn.whole => Sound(segs, sn)
  BY <1>1 DEF ContentInv, SnapshotsShow, SoundAll
<1>3. job.want \in Indexes \cup {Lost}
  BY <1>1, <1>2, WantIs
<1> QED
  BY <1>3, IndexIsSome

\* What readers hold is in memory.
LEMMA HeldAreInMemory ==
    ASSUME StoreInv, NEW r \in Readers, held[r] # None
    PROVE  held[r] \in DOMAIN snaps
<1>1. held[r] \in InUse
  BY DEF InUse
<1> QED
  BY <1>1, InUseTallied

\* ... and so it is after a step.
LEMMA HeldNext ==
    ASSUME StoreInv', NEW r \in Readers, held'[r] # None
    PROVE  held'[r] \in DOMAIN snaps'
<1> SUFFICES ASSUME NEW g, g = held'[r] PROVE g \in DOMAIN snaps'
  OBVIOUS
<1>1. StoreStates' /\ SnapshotInv'
  BY DEF StoreInv
<1>2. g \in Nat
  BY <1>1 DEF StoreStates
<1>3. Cardinality(Holding(g)') \in Nat /\ Cardinality(Holding(g)') > 0
  <2> DEFINE who == {q \in Readers : held'[q] = g}
  <2>1. r \in who /\ who \subseteq Readers
    OBVIOUS
  <2>2. IsFiniteSet(who) /\ Cardinality(who) \in Nat
    BY <2>1, ReadersFinite
  <2>3. Cardinality(who) # 0
    BY <2>1, <2>2, FS_EmptySet
  <2>4. Holding(g)' = who
    BY DEF Holding
  <2> QED
    BY <2>2, <2>3, <2>4
<1>4. WriterRefs(g)' \in {0, 1, 2}
  BY DEF WriterRefs
<1>5. References'[g] = Cardinality(Holding(g)') + WriterRefs(g)'
  BY <1>2 DEF References, Holding, WriterRefs
<1>6. References'[g] > 0
  BY <1>3, <1>4, <1>5
<1> QED
  BY <1>1, <1>2, <1>6 DEF SnapshotInv, Tallied

\* Readers see what they saw.
LEMMA ReadersKept ==
    ASSUME held' = held,
           \A r \in Readers : held[r] # None => View(segs', snaps'[held[r]]) = View(segs, snaps[held[r]])
    PROVE  OpenIndexes' = OpenIndexes
BY DEF OpenIndexes

\* A step that keeps contents changes nothing that a reader sees.
LEMMA ShownStays ==
    ASSUME StoreInv, StoreInv', ContentInv, KeepsContents(snaps', segs', snaps, segs)
    PROVE  /\ \A g \in DOMAIN snaps' : View(segs', snaps'[g]) = View(segs, snaps[g])
           /\ held' = held => OpenIndexes' = OpenIndexes
           /\ up /\ up' /\ cur' = cur => CurrentIndex' = CurrentIndex
<1>1. \A g \in DOMAIN snaps' : View(segs', snaps'[g]) = View(segs, snaps[g])
  BY SnapshotsStay DEF ContentInv
<1>2. ASSUME held' = held
      PROVE  OpenIndexes' = OpenIndexes
  <2>1. \A r \in Readers : held'[r] # None => held'[r] \in DOMAIN snaps'
    BY HeldNext
  <2>2. \A r \in Readers : held[r] # None => View(segs', snaps'[held[r]]) = View(segs, snaps[held[r]])
    BY <1>1, <1>2, <2>1
  <2> QED
    BY <1>2, <2>2, ReadersKept
<1>3. ASSUME up, up', cur' = cur
      PROVE  CurrentIndex' = CurrentIndex
  <2>1. cur \in DOMAIN snaps'
    BY <1>3, CurrentNext
  <2> QED
    BY <1>1, <1>3, <2>1 DEF CurrentIndex
<1> QED
  BY <1>1, <1>2, <1>3

\* A job begins: something is to be published.
LEMMA BeginsIsBegin ==
    ASSUME StoreInv, StoreInv', ContentInv, ContentInv', BeginsJob
    PROVE  Index!Begin
<1>1. /\ up /\ job = Idle /\ files' = files /\ manifest' = manifest /\ up' = up /\ cur' = cur /\ held' = held
      /\ KeepsContents(snaps', segs', snaps, segs) /\ job'.phase = "write"
      /\ PlanShows(job', segs, snaps[cur])
  BY DEF BeginsJob
<1>2. OpenIndexes' = OpenIndexes /\ CurrentIndex' = CurrentIndex
  BY <1>1, ShownStays
<1>3. Durable' = Durable
  BY <1>1, DurableStays DEF StackKept
<1>4. PendingIndex = None
  BY <1>1 DEF PendingIndex, Idle
<1>5. PendingIndex' = job'.want
  BY <1>1 DEF PendingIndex
<1>6. job'.want \in Indexes \cup {Lost}
  <2> DEFINE plan == job'
             sn == snaps[cur]
             names == Range(snaps'[cur].segs)
             gen == cur + 1
  <2>1. PlanFits(plan, names, gen)
    <3>1. Planned'
      BY <1>1 DEF Planned
    <3> QED
      BY <1>1, <3>1 DEF StoreInv, PlanInv
  <2>2. IsSnapshot(sn) /\ (sn.whole => Sound(segs, sn)) /\ PlanShows(plan, segs, sn)
    BY <1>1, CurrentSnapshot DEF ContentInv, SnapshotsShow, SoundAll
  <2> HIDE DEF plan, sn, names, gen
  <2>3. plan.want \in Indexes \cup {Lost}
    BY <2>1, <2>2, WantIs
  <2> QED
    BY <2>3 DEF plan
<1> QED
  BY <1>2, <1>3, <1>4, <1>5, <1>6 DEF Index!Begin

\* A segment that no manifest names yet shows nowhere.
LEMMA WriteSegmentStutters ==
    ASSUME StoreInv, StoreInv', ContentInv, ContentInv', NEW i \in Fresh, WriteSegment(i)
    PROVE  UNCHANGED Index!vars
<1>1. /\ job.phase = "write" /\ job' = [job EXCEPT !.written = i]
      /\ manifest' = manifest /\ up' = up /\ cur' = cur /\ snaps' = snaps /\ segs' = segs /\ held' = held
  BY DEF WriteSegment, NextPiece, memory
<1>2. PlanFits(job, Range(snaps[cur].segs), cur + 1) /\ up
  BY <1>1, NewNamesFresh DEF Planned
<1>3. PendingIndex' = PendingIndex
  <2>1. job'.phase = "write" /\ job'.want = job.want
    BY <1>1, <1>2 DEF PlanFits
  <2> QED
    BY <1>1, <2>1 DEF PendingIndex
<1>4. OpenIndexes' = OpenIndexes /\ CurrentIndex' = CurrentIndex
  BY <1>1, <1>2, KeepsItself, ShownStays
<1>5. Durable' = Durable
  BY <1>1, ContentWriteSegment, DurableStays DEF StackKept
<1> QED
  BY <1>3, <1>4, <1>5 DEF Index!vars

\* What the manifest names is what the job wants.
LEMMA NextIsWanted ==
    ASSUME StoreInv, ContentInv, Planned, \A i \in Fresh : i <= job.written
    PROVE  job.want = IF job.whole THEN Visible(StackOf(NewEntries, files)) ELSE Lost
<1>1. job.whole => Visible(StackOf(NewEntries, files)) = job.want
  BY NextStack
<1>2. ~job.whole => job.want = Lost
  BY DEF ContentInv, JobShows, PlanShows
<1> QED
  BY <1>1, <1>2

\* The manifest makes durable what the job wants.
LEMMA PublishManifestIsPersist ==
    ASSUME StoreInv, StoreInv', ContentInv, ContentInv', PublishManifest
    PROVE  Index!Persist
<1>1. /\ job.phase = "write" /\ \A i \in Fresh : i <= job.written
      /\ manifest' = [gen |-> cur + 1, entries |-> NewEntries, whole |-> job.whole]
      /\ job' = [job EXCEPT !.phase = "swap"]
      /\ files' = files /\ up' = up /\ cur' = cur /\ snaps' = snaps /\ segs' = segs /\ held' = held
  BY DEF PublishManifest, AllWritten, memory
<1>2. Planned
  BY <1>1 DEF Planned
<1>3. up /\ PlanFits(job, Range(snaps[cur].segs), cur + 1)
  BY <1>2, NewNamesFresh
<1>4. PendingIndex = job.want /\ PendingIndex # None
  BY <1>1, <1>2, WantIsSome DEF PendingIndex
<1>5. PendingIndex' = PendingIndex
  <2>1. job'.phase = "swap" /\ job'.want = job.want
    BY <1>1, <1>3 DEF PlanFits
  <2> QED
    BY <1>4, <2>1 DEF PendingIndex
<1>6. OpenIndexes' = OpenIndexes /\ CurrentIndex' = CurrentIndex
  BY <1>1, <1>3, KeepsItself, ShownStays
<1>7. Durable' = job.want
  <2>1. manifest'.entries = NewEntries /\ manifest'.whole = job.whole
    BY <1>1
  <2>2. Durable' = IF job.whole THEN Visible(StackOf(NewEntries, files)) ELSE Lost
    BY <1>1, <2>1, DurableNext
  <2> QED
    BY <1>1, <1>2, <2>2, NextIsWanted
<1> QED
  BY <1>4, <1>5, <1>6, <1>7 DEF Index!Persist

\* A snapshot is swapped in once its manifest is in place.
LEMMA SwapIsAdopt ==
    ASSUME StoreInv, StoreInv', ContentInv, ContentInv', Swap
    PROVE  Index!Adopt
<1>1. /\ job.phase = "swap" /\ job' = [job EXCEPT !.phase = "release"]
      /\ manifest' = manifest /\ up' = up /\ held' = held
  BY DEF Swap, disk
<1>2. Planned
  BY <1>1 DEF Planned
<1>3. up /\ PlanFits(job, Range(snaps[cur].segs), cur + 1)
  BY <1>2, NewNamesFresh
<1>4. PendingIndex = job.want /\ PendingIndex # None
  BY <1>1, <1>2, WantIsSome DEF PendingIndex
<1>5. PendingIndex' = None
  <2>1. job'.phase = "release"
    BY <1>1, <1>3 DEF PlanFits
  <2> QED
    BY <2>1 DEF PendingIndex
<1>6. Durable = job.want
  <2>1. manifest = [gen |-> cur + 1, entries |-> NewEntries, whole |-> job.whole]
    BY <1>1, <1>2 DEF ContentInv, JobShows
  <2>2. manifest.entries = NewEntries /\ manifest.whole = job.whole
    BY <2>1
  <2>3. \A i \in Fresh : i <= job.written
    BY <1>1, <1>2 DEF StoreInv, PlanInv
  <2> QED
    BY <1>2, <2>2, <2>3, DurableShows, NextIsWanted
<1>7. /\ StackKept
      /\ \A g \in DOMAIN snaps : View(segs', snaps'[g]) = View(segs, snaps[g])
      /\ View(segs', snaps'[cur']) = job.want
  BY ContentSwap
<1>8. Durable' = Durable
  BY <1>1, <1>7, DurableStays
<1>9. OpenIndexes' = OpenIndexes
  <2>1. \A r \in Readers : held[r] # None => held[r] \in DOMAIN snaps
    BY HeldAreInMemory
  <2> QED
    BY <1>1, <1>7, <2>1, ReadersKept
<1>10. CurrentIndex' = job.want
  BY <1>1, <1>3, <1>7 DEF CurrentIndex
<1> QED
  BY <1>4, <1>5, <1>6, <1>8, <1>9, <1>10 DEF Index!Adopt

\* A job that fails is abandoned.
LEMMA FailsIsAbandon ==
    ASSUME StoreInv, StoreInv', ContentInv, ContentInv', job.phase = "write", NEW left, Fails(left),
           KeepsContents(snaps', segs', snaps, segs), Durable' \in {Durable, Lost}
    PROVE  Index!Abandon
<1>1. job' = Idle /\ up' = up /\ cur' = cur /\ held' = held
  BY DEF Fails
<1>2. Planned
  BY DEF Planned
<1>3. up
  BY <1>2, NewNamesFresh
<1>4. PendingIndex # None /\ PendingIndex' = None
  BY <1>1, <1>2, WantIsSome DEF PendingIndex, Idle
<1>5. OpenIndexes' = OpenIndexes /\ CurrentIndex' = CurrentIndex
  BY <1>1, <1>3, ShownStays
<1> QED
  BY <1>4, <1>5 DEF Index!Abandon

\* ... when a segment cannot be written,
LEMMA WriteFailsIsAbandon ==
    ASSUME StoreInv, StoreInv', ContentInv, ContentInv', NEW i \in Fresh, WriteFails(i)
    PROVE  Index!Abandon
<1>1. job.phase = "write" /\ manifest' = manifest
  BY DEF WriteFails, NextPiece
<1>2. StackKept /\ KeepsContents(snaps', segs', snaps, segs)
  BY ContentWriteFails
<1>3. Durable' = Durable
  BY <1>1, <1>2, DurableStays
<1>4. \E left : Fails(left)
  BY DEF WriteFails
<1> QED
  BY <1>1, <1>2, <1>3, <1>4, FailsIsAbandon

\* ... or its manifest, which may be in place and Lost.
LEMMA ManifestFailsIsAbandon ==
    ASSUME StoreInv, StoreInv', ContentInv, ContentInv', ManifestFails
    PROVE  Index!Abandon
<1>1. /\ job.phase = "write" /\ Fails(<<>>)
      /\ manifest' \in {manifest, [gen |-> cur + 1, entries |-> NewEntries, whole |-> FALSE]}
  BY DEF ManifestFails, AllWritten
<1>2. (manifest' = manifest => StackKept) /\ KeepsContents(snaps', segs', snaps, segs)
  BY ContentManifestFails
<1>3. Durable' \in {Durable, Lost}
  <2>1. CASE manifest' = manifest
    BY <2>1, <1>2, DurableStays
  <2>2. CASE manifest' = [gen |-> cur + 1, entries |-> NewEntries, whole |-> FALSE]
    <3>1. ~manifest'.whole
      BY <2>2
    <3> QED
      BY <3>1, DurableNext
  <2> QED
    BY <1>1, <2>1, <2>2
<1> QED
  BY <1>1, <1>2, <1>3, FailsIsAbandon

\* Giving back the previous generation changes nothing that anybody sees.
LEMMA ReleasePreviousStutters ==
    ASSUME StoreInv, StoreInv', ContentInv, ContentInv', ReleasePrevious
    PROVE  UNCHANGED Index!vars
<1>1. /\ job.phase = "release" /\ job' = Idle
      /\ manifest' = manifest /\ up' = up /\ cur' = cur /\ held' = held
  BY DEF ReleasePrevious
<1>2. up
  BY <1>1 DEF StoreInv, JobInv, Idle
<1>3. PendingIndex = None /\ PendingIndex' = None
  BY <1>1 DEF PendingIndex, Idle
<1>4. StackKept /\ KeepsContents(snaps', segs', snaps, segs)
  BY ContentReleasePrevious
<1>5. OpenIndexes' = OpenIndexes /\ CurrentIndex' = CurrentIndex
  BY <1>1, <1>2, <1>4, ShownStays
<1>6. Durable' = Durable
  BY <1>1, <1>4, DurableStays
<1> QED
  BY <1>3, <1>5, <1>6 DEF Index!vars

\* SetMeta writes down what is published.
LEMMA SaveMetaIsRewrite ==
    ASSUME StoreInv, StoreInv', ContentInv, ContentInv', SaveMeta
    PROVE  Index!Rewrite
<1> DEFINE sn == snaps[cur]
<1>1. /\ up /\ job = Idle
      /\ manifest' = [gen |-> cur, entries |-> Entries(sn), whole |-> sn.whole]
      /\ up' = up /\ cur' = cur /\ snaps' = snaps /\ segs' = segs /\ job' = job /\ held' = held
  BY DEF SaveMeta, memory
<1>2. PendingIndex = None /\ PendingIndex' = None
  BY <1>1 DEF PendingIndex, Idle
<1>3. OpenIndexes' = OpenIndexes /\ CurrentIndex' = CurrentIndex
  BY <1>1, KeepsItself, ShownStays
<1>4. Durable' = CurrentIndex
  <2>1. CurrentIndex = View(segs, sn)
    BY <1>1 DEF CurrentIndex
  <2>2. manifest'.whole = sn.whole
    BY <1>1
  <2>3. sn.whole => Visible(StackOf(manifest'.entries, files')) = View(segs, sn)
    BY ContentSaveMeta
  <2>4. ~sn.whole => View(segs, sn) = Lost
    BY DEF View
  <2> QED
    BY <2>1, <2>2, <2>3, <2>4, DurableNext
<1> QED
  BY <1>2, <1>3, <1>4 DEF Index!Rewrite

\* A reader sees the published index.
LEMMA SnapshotIsAcquire ==
    ASSUME StoreInv, StoreInv', ContentInv, ContentInv', NEW r \in Readers, Snapshot(r)
    PROVE  Index!Acquire(r)
<1>1. /\ up /\ held[r] = None /\ held' = [held EXCEPT ![r] = cur]
      /\ manifest' = manifest /\ up' = up /\ cur' = cur /\ job' = job
  BY DEF Snapshot, disk
<1>2. StackKept /\ KeepsContents(snaps', segs', snaps, segs)
  BY ContentSnapshot
<1>3. Durable' = Durable /\ CurrentIndex' = CurrentIndex
  BY <1>1, <1>2, DurableStays, ShownStays
<1>4. PendingIndex' = PendingIndex
  BY <1>1 DEF PendingIndex
<1>5. /\ held' \in [Readers -> Nat \cup {None}] /\ held \in [Readers -> Nat \cup {None}] /\ cur \in Nat
  BY DEF StoreInv, StoreStates
<1>6. cur # None
  BY <1>5, StoreAssumption DEF StoreAssumption
<1>7. \A q \in Readers : held'[q] = IF q = r THEN cur ELSE held[q]
  BY <1>1, <1>5
<1>8. \A q \in Readers : held'[q] # None => View(segs', snaps'[held'[q]]) = View(segs, snaps[held'[q]])
  <2>1. \A g \in DOMAIN snaps' : View(segs', snaps'[g]) = View(segs, snaps[g])
    BY <1>2, ShownStays
  <2> QED
    BY <2>1, HeldNext
<1>9. CurrentIndex = View(segs, snaps[cur])
  BY <1>1 DEF CurrentIndex
<1>10. OpenIndexes[r] = None
  BY <1>1 DEF OpenIndexes
<1>11. OpenIndexes' = [OpenIndexes EXCEPT ![r] = CurrentIndex]
  <2>1. OpenIndexes' = [q \in Readers |-> IF held'[q] = None THEN None ELSE View(segs', snaps'[held'[q]])]
    BY DEF OpenIndexes
  <2>2. OpenIndexes' = [q \in Readers |-> IF q = r THEN CurrentIndex ELSE OpenIndexes[q]]
    BY <1>6, <1>7, <1>8, <1>9, <2>1 DEF OpenIndexes
  <2>3. OpenIndexes = [q \in Readers |-> OpenIndexes[q]]
    BY DEF OpenIndexes
  <2> QED
    BY <2>2, <2>3
<1> QED
  BY <1>3, <1>4, <1>10, <1>11 DEF Index!Acquire

\* What is published stays so for the next process, while no process serves it.
LEMMA ClosedShowsDurable ==
    ASSUME up' = up, Durable' = Durable, up => CurrentIndex' = CurrentIndex
    PROVE  CurrentIndex' = CurrentIndex
BY DEF CurrentIndex

\* A reader that is done sees no index.
LEMMA DoneIsRelease ==
    ASSUME StoreInv, StoreInv', ContentInv, ContentInv', NEW r \in Readers, Done(r)
    PROVE  Index!Release(r)
<1>1. /\ held[r] # None /\ held' = [held EXCEPT ![r] = None]
      /\ manifest' = manifest /\ up' = up /\ cur' = cur /\ job' = job
  BY DEF Done
<1>2. StackKept /\ KeepsContents(snaps', segs', snaps, segs)
  BY ContentDone
<1>3. Durable' = Durable
  BY <1>1, <1>2, DurableStays
<1>4. CurrentIndex' = CurrentIndex
  BY <1>1, <1>2, <1>3, ShownStays, ClosedShowsDurable
<1>5. PendingIndex' = PendingIndex
  BY <1>1 DEF PendingIndex
<1>6. held \in [Readers -> Nat \cup {None}]
  BY DEF StoreInv, StoreStates
<1>7. \A q \in Readers : held'[q] = IF q = r THEN None ELSE held[q]
  BY <1>1, <1>6
<1>8. \A q \in Readers : held'[q] # None => View(segs', snaps'[held'[q]]) = View(segs, snaps[held'[q]])
  <2>1. \A g \in DOMAIN snaps' : View(segs', snaps'[g]) = View(segs, snaps[g])
    BY <1>2, ShownStays
  <2> QED
    BY <2>1, HeldNext
<1>9. OpenIndexes[r] # None
  <2> DEFINE sn == snaps[held[r]]
  <2>1. held[r] \in DOMAIN snaps
    BY <1>1, HeldAreInMemory
  <2>2. IsSnapshot(sn) /\ (sn.whole => Sound(segs, sn))
    BY <2>1, StoreShaped DEF Shaped, ContentInv, SnapshotsShow, SoundAll
  <2>3. OpenIndexes[r] = View(segs, sn)
    BY <1>1 DEF OpenIndexes
  <2> HIDE DEF sn
  <2>4. View(segs, sn) # None
    BY <2>2, ViewIs, IndexIsSome
  <2> QED
    BY <2>3, <2>4
<1>10. OpenIndexes' = [OpenIndexes EXCEPT ![r] = None]
  <2>1. OpenIndexes' = [q \in Readers |-> IF held'[q] = None THEN None ELSE View(segs', snaps'[held'[q]])]
    BY DEF OpenIndexes
  <2>2. OpenIndexes' = [q \in Readers |-> IF q = r THEN None ELSE OpenIndexes[q]]
    BY <1>7, <1>8, <2>1 DEF OpenIndexes
  <2>3. OpenIndexes = [q \in Readers |-> OpenIndexes[q]]
    BY DEF OpenIndexes
  <2> QED
    BY <2>2, <2>3
<1> QED
  BY <1>3, <1>4, <1>5, <1>9, <1>10 DEF Index!Release

\* Close leaves what the manifest names to the next process, and readers theirs.
LEMMA CloseIsStop ==
    ASSUME StoreInv, StoreInv', ContentInv, ContentInv', Close
    PROVE  Index!Stop
<1>1. /\ job = Idle /\ up' = FALSE /\ manifest' = manifest /\ held' = held /\ job' = job
  BY DEF Close
<1>2. StackKept /\ KeepsContents(snaps', segs', snaps, segs)
  BY ContentClose
<1>3. Durable' = Durable
  BY <1>1, <1>2, DurableStays
<1>4. CurrentIndex' = Durable'
  BY <1>1 DEF CurrentIndex
<1>5. PendingIndex = None /\ PendingIndex' = None
  BY <1>1 DEF PendingIndex, Idle
<1>6. OpenIndexes' = OpenIndexes
  BY <1>1, <1>2, ShownStays
<1> QED
  BY <1>3, <1>4, <1>5, <1>6 DEF Index!Stop

\* A crash leaves what the manifest names to the next process, and no reader.
LEMMA CrashIsCrash ==
    ASSUME StoreInv, StoreInv', ContentInv, ContentInv', Crash
    PROVE  Index!Crash
<1>1. up' = FALSE /\ held' = [r \in Readers |-> None] /\ job' = Idle /\ manifest' = manifest
  BY DEF Crash
<1>2. Durable' = Durable
  BY <1>1, ContentCrash, DurableStays
<1>3. CurrentIndex' = Durable'
  BY <1>1 DEF CurrentIndex
<1>4. PendingIndex' = None
  BY <1>1 DEF PendingIndex, Idle
<1>5. OpenIndexes' = [r \in Readers |-> None]
  BY <1>1 DEF OpenIndexes
<1> QED
  BY <1>2, <1>3, <1>4, <1>5 DEF Index!Crash

\* A store that opens shows what was durable, or discards what cannot be opened.
LEMMA OpenStoreShows ==
    ASSUME StoreInv, StoreInv', ContentInv, ContentInv', OpenStore
    PROVE  UNCHANGED Index!vars \/ Index!Discard
<1>1. /\ ~up /\ (\A r \in Readers : held[r] = None) /\ held' = held /\ job' = job /\ up'
  BY DEF OpenStore
<1>2. PendingIndex' = PendingIndex
  BY <1>1 DEF PendingIndex
<1>3. OpenIndexes = [r \in Readers |-> None] /\ OpenIndexes' = [r \in Readers |-> None]
  BY <1>1 DEF OpenIndexes
<1>4. CurrentIndex = Durable /\ CurrentIndex' = View(segs', snaps'[cur'])
  BY <1>1 DEF CurrentIndex
<1>5. Durable = IF manifest.whole THEN Visible(StackOf(manifest.entries, files)) ELSE Lost
  BY DurableShows
<1>6. CASE Loadable(manifest, files)
  <2>1. /\ StackKept /\ manifest' = manifest /\ snaps'[cur'].whole = manifest.whole
        /\ manifest.whole => View(segs', snaps'[cur']) = Visible(StackOf(manifest.entries, files))
    BY <1>6, ContentOpens
  <2>2. Durable' = Durable
    BY <2>1, DurableStays
  <2>3. ~manifest.whole => View(segs', snaps'[cur']) = Lost
    BY <2>1 DEF View
  <2>4. CurrentIndex' = CurrentIndex
    BY <1>4, <1>5, <2>1, <2>3
  <2> QED
    BY <1>2, <1>3, <2>2, <2>4 DEF Index!vars
<1>7. CASE ~Loadable(manifest, files)
  <2>1. /\ manifest' = NoManifest /\ snaps'[cur'] = NoSnapshot
        /\ manifest.whole => DOMAIN manifest.entries = {}
    BY <1>7, ContentDiscards
  <2>2. Durable' = Empty
    <3>1. manifest'.whole /\ manifest'.entries = <<>>
      BY <2>1 DEF NoManifest
    <3>2. StackOf(manifest'.entries, files') = <<>>
      BY <3>1, NothingStacks
    <3> QED
      BY <3>1, <3>2, DurableNext, NothingVisible
  <2>3. CurrentIndex' = Empty
    BY <1>4, <2>1, NothingVisible
  <2>4. CASE manifest.whole
    <3>1. StackOf(manifest.entries, files) = <<>>
      BY <2>1, <2>4 DEF StackOf
    <3>2. Durable = Empty
      BY <1>5, <2>4, <3>1, NothingVisible
    <3> QED
      BY <1>2, <1>3, <1>4, <2>2, <2>3, <3>2 DEF Index!vars
  <2>5. CASE ~manifest.whole
    BY <1>2, <1>3, <1>5, <2>2, <2>3, <2>5 DEF Index!Discard
  <2> QED
    BY <2>4, <2>5
<1> QED
  BY <1>6, <1>7

\* A store that starts has published the empty index.
LEMMA StartsEmpty ==
    ASSUME StoreInit
    PROVE  Index!Init
<1>1. /\ files = <<>> /\ manifest = NoManifest /\ up = TRUE /\ cur = 0
      /\ snaps = Only(0, NoSnapshot) /\ segs = <<>>
      /\ held = [r \in Readers |-> None] /\ job = Idle
  BY DEF StoreInit
<1>2. StoreInv /\ ContentInv
  BY StoreInitially, ContentInitially
<1>3. manifest.whole /\ manifest.entries = <<>>
  BY <1>1 DEF NoManifest
<1>4. Durable = Empty
  <2>1. StackOf(manifest.entries, files) = <<>>
    BY <1>3, NothingStacks
  <2> QED
    BY <1>2, <1>3, <2>1, DurableShows, NothingVisible
<1>5. CurrentIndex = Empty
  <2>1. snaps[cur] = NoSnapshot
    BY <1>1 DEF Only
  <2> QED
    BY <1>1, <2>1, NothingVisible DEF CurrentIndex
<1>6. PendingIndex = None
  BY <1>1 DEF PendingIndex, Idle
<1>7. OpenIndexes = [r \in Readers |-> None]
  BY <1>1 DEF OpenIndexes
<1> QED
  BY <1>4, <1>5, <1>6, <1>7 DEF Index!Init

\* Nothing happens to the published index when nothing happens.
LEMMA StutterStutters ==
    ASSUME UNCHANGED storeVars
    PROVE  UNCHANGED Index!vars
<1>1. /\ files' = files /\ manifest' = manifest /\ up' = up /\ cur' = cur /\ snaps' = snaps
      /\ segs' = segs /\ held' = held /\ job' = job
  BY DEF storeVars, disk, memory
<1>2. Durable' = Durable
  BY <1>1 DEF Durable
<1>3. CurrentIndex' = CurrentIndex
  BY <1>1, <1>2 DEF CurrentIndex
<1>4. PendingIndex' = PendingIndex
  BY <1>1 DEF PendingIndex
<1>5. OpenIndexes' = OpenIndexes
  BY <1>1 DEF OpenIndexes
<1> QED
  BY <1>2, <1>3, <1>4, <1>5 DEF Index!vars

\* Every step of the store is a step of the published index, or changes nothing in it.
LEMMA StoreStepIsIndexStep ==
    ASSUME StoreInv, StoreInv', ContentInv, ContentInv', [StoreNext]_storeVars
    PROVE  [Index!Next]_(Index!vars)
<1>1. ASSUME OpenStore PROVE [Index!Next]_(Index!vars)
  BY <1>1, OpenStoreShows DEF Index!Next
<1>2. ASSUME BeginsJob PROVE Index!Next
  BY <1>2, BeginsIsBegin DEF Index!Next
<1>3. ASSUME Compact PROVE Index!Next
  BY <1>2, <1>3, CompactBegins
<1>4. ASSUME Import PROVE Index!Next
  BY <1>2, <1>4, ImportBegins
<1>5. ASSUME NEW b \in Batches, Overlay(b) PROVE Index!Next
  BY <1>2, <1>5, OverlayBegins
<1>6. ASSUME NEW b \in Builds, Base(b) PROVE Index!Next
  BY <1>2, <1>6, BaseBegins
<1>7. ASSUME NEW i \in Fresh, WriteSegment(i) PROVE UNCHANGED Index!vars
  BY <1>7, WriteSegmentStutters
<1>8. ASSUME NEW i \in Fresh, WriteFails(i) PROVE Index!Next
  BY <1>8, WriteFailsIsAbandon DEF Index!Next
<1>9. ASSUME PublishManifest PROVE Index!Next
  BY <1>9, PublishManifestIsPersist DEF Index!Next
<1>10. ASSUME ManifestFails PROVE Index!Next
  BY <1>10, ManifestFailsIsAbandon DEF Index!Next
<1>11. ASSUME Swap PROVE Index!Next
  BY <1>11, SwapIsAdopt DEF Index!Next
<1>12. ASSUME ReleasePrevious PROVE UNCHANGED Index!vars
  BY <1>12, ReleasePreviousStutters
<1>13. ASSUME SaveMeta PROVE Index!Next
  BY <1>13, SaveMetaIsRewrite DEF Index!Next
<1>14. ASSUME Close PROVE Index!Next
  BY <1>14, CloseIsStop DEF Index!Next
<1>15. ASSUME Crash PROVE Index!Next
  BY <1>15, CrashIsCrash DEF Index!Next
<1>16. ASSUME NEW r \in Readers, Snapshot(r) PROVE Index!Next
  BY <1>16, SnapshotIsAcquire DEF Index!Next
<1>17. ASSUME NEW r \in Readers, Done(r) PROVE Index!Next
  BY <1>17, DoneIsRelease DEF Index!Next
<1>18. ASSUME UNCHANGED storeVars PROVE UNCHANGED Index!vars
  BY <1>18, StutterStutters
<1> QED
  BY <1>1, <1>3, <1>4, <1>5, <1>6, <1>7, <1>8, <1>9, <1>10, <1>11, <1>12, <1>13, <1>14,
     <1>15, <1>16, <1>17, <1>18 DEF StoreNext

\* store.go:325 publish and snapshot.go:218 Lookup: whatever is stacked, built,
\* compacted, imported, failed, closed or crashed, the store is one published index,
\* replaced by one writer at a time, durable before a reader sees it and kept by the
\* readers that opened it.
THEOREM IndexRefinement == StoreSpec => PublishesIndex
<1>1. StoreInit => Index!Init
  BY StartsEmpty
<1>2. StoreInv /\ StoreInv' /\ ContentInv /\ ContentInv' /\ [StoreNext]_storeVars => [Index!Next]_(Index!vars)
  BY StoreStepIsIndexStep
<1> QED
  BY <1>1, <1>2, StoreInvariant, ContentInvariant, PTL DEF StoreSpec, PublishesIndex, Index!Spec
=============================================================================
