----------------------------- MODULE IndexEngine -----------------------------
(***************************************************************************)
(* The index engine (indexer/engine.go) and its watcher (watch.go) beside  *)
(* a git checkout that its user edits: the first reconcile of a process,   *)
(* the watcher that starts after it, update passes, the metadata that      *)
(* tells the next process where to look, and stops between any two steps.  *)
(*                                                                         *)
(* A file's content is a number, 0 when there is none.  The store is what  *)
(* IndexStore shows it to be: a publication replaces the index and saves   *)
(* the metadata in one step.  Passes are serialized by Engine.mu.          *)
(***************************************************************************)
EXTENDS Naturals, FiniteSets, IndexedFiles

CONSTANTS
    Commits,
    Tree,        \* Tree[c][p]: content of p in commit c
    MaxTouched,  \* paths Meta.Touched may list (engine.go:49)
    MaxDirty,    \* paths a burst may collect (watch.go:28)
    MaxChanges,  \* bound on what the user does
    MaxFaults,   \* bound on failing steps
    MaxStops     \* bound on stops of the process

ASSUME EngineAssumption ==
    /\ Tree \in [Commits -> [Paths -> Versions]]
    /\ None \notin Commits
    /\ MaxTouched \in Nat /\ MaxDirty \in Nat \ {0}
    /\ MaxChanges \in Nat /\ MaxFaults \in Nat /\ MaxStops \in Nat

VARIABLES
    tree,       \* content of each file of the working tree
    head,       \* the commit HEAD names
    index,      \* content each path is indexed with
    published,  \* whether the store has a generation
    saved,      \* the metadata in the manifest
    meta,       \* the metadata in memory (Store.meta)
    phase,      \* "down", "opened", "reconciled" or "watching"
    pass,       \* the indexing pass that holds Engine.mu
    queue,      \* changed paths that fsnotify and the events channel hold
    lostEvents, \* whether they hold the report that events were lost
    dirty,      \* Watcher.loop: paths of the burst
    overflow,   \* Watcher.loop: the burst must be reconciled
    missed,     \* history: paths whose change nothing in this process will report
    changes, faults, stops

workspace == <<tree, head, changes>>
stored == <<index, published, saved>>
watcher == <<queue, lostEvents, dirty, overflow>>
vars == <<workspace, stored, meta, phase, pass, watcher, missed, faults, stops>>

NoMeta == [complete |-> FALSE, commit |-> None, touched |-> {}, overflow |-> FALSE]
Metas == [complete : BOOLEAN, commit : Commits \cup {None}, touched : SUBSET Paths, overflow : BOOLEAN]

Resting == [stage |-> "none"]

\* An indexing pass: what it looks at, what it read there, what git listed or failed
\* to list as modified, and which files changed since it began or under its looks.
Passes == [stage : {"head", "dirty", "read", "publish", "meta"}, mode : {"git", "list", "update"},
           head : Commits \cup {None}, listed : SUBSET Paths, unlisted : SUBSET Paths,
           paths : SUBSET Paths, read : [Paths -> Versions],
           since : SUBSET Paths, raced : SUBSET Paths]

Init ==
    /\ head \in Commits /\ tree = Tree[head]
    /\ index = [p \in Paths |-> 0] /\ published = FALSE
    /\ saved = NoMeta /\ meta = NoMeta
    /\ phase = "opened" /\ pass = Resting
    /\ queue = {} /\ lostEvents = FALSE /\ dirty = {} /\ overflow = FALSE
    /\ missed = Paths
    /\ changes = 0 /\ faults = 0 /\ stops = 0

-----------------------------------------------------------------------------
\* The user.

Modified == {p \in Paths : tree[p] # Tree[head][p]}

\* Files change: a watcher that runs reports them, also those whose earlier change it
\* missed; a pass in progress may or may not have read them.
Changes(new) ==
    LET which == {p \in Paths : new[p] # tree[p]}
    IN /\ changes < MaxChanges
       /\ changes' = changes + 1
       /\ tree' = new
       /\ queue' = IF phase = "watching" THEN queue \cup which ELSE queue
       /\ missed' = IF phase = "watching" THEN missed \ which ELSE missed \cup which
       /\ pass' = IF pass.stage = "none" THEN pass ELSE [pass EXCEPT !.since = @ \cup which]
       /\ UNCHANGED <<stored, meta, phase, lostEvents, dirty, overflow, faults, stops>>

Edit(p, v) ==
    /\ tree[p] # v
    /\ Changes([tree EXCEPT ![p] = v])
    /\ UNCHANGED head

\* git checkout, which carries modified files over when both commits agree on them.
Checkout(c) ==
    /\ c # head
    /\ \A p \in Modified : Tree[c][p] = Tree[head][p]
    /\ Changes([p \in Paths |-> IF p \in Modified THEN tree[p] ELSE Tree[c][p]])
    /\ head' = c

\* git commit of everything that is modified.
CommitAll(c) ==
    /\ c # head /\ Tree[c] = tree
    /\ changes < MaxChanges
    /\ changes' = changes + 1
    /\ head' = c
    /\ UNCHANGED <<tree, stored, meta, phase, pass, watcher, missed, faults, stops>>

-----------------------------------------------------------------------------
\* Reconcile.

Vouches(m) == m.complete /\ m.commit # None /\ ~m.overflow

GitKnows == published /\ Vouches(meta)

StartPass(mode, paths) ==
    pass' = [stage |-> IF mode = "update" THEN "read" ELSE "head", mode |-> mode, head |-> None,
             listed |-> {}, unlisted |-> {}, paths |-> paths, read |-> tree,
             since |-> {}, raced |-> {}]

StartReconcile == StartPass(IF GitKnows THEN "git" ELSE "list", Paths)

\* The first reconcile of the process, and its retries.
FirstReconcile ==
    /\ phase = "opened" /\ pass.stage = "none"
    /\ StartReconcile
    /\ UNCHANGED <<workspace, stored, meta, phase, watcher, missed, faults, stops>>

\* gitHead.
ReadHead ==
    /\ pass.stage = "head"
    /\ pass' = [pass EXCEPT !.stage = "dirty", !.head = head]
    /\ UNCHANGED <<workspace, stored, meta, phase, watcher, missed, faults, stops>>

Fault == faults < MaxFaults /\ faults' = faults + 1

\* Without a HEAD a git reconcile lists instead, and a listing records no commit.
HeadFails ==
    /\ pass.stage = "head"
    /\ Fault
    /\ pass' = IF pass.mode = "git" THEN [pass EXCEPT !.mode = "list"]
               ELSE [pass EXCEPT !.stage = "read"]
    /\ UNCHANGED <<workspace, stored, meta, phase, watcher, missed, stops>>

Differ(c, d) == {p \in Paths : Tree[c][p] # Tree[d][p]}

\* gitDirty, and the paths a git reconcile looks at: what differs between the
\* commits, what is modified, and what was touched.
ListDirty ==
    /\ pass.stage = "dirty"
    /\ pass' = [pass EXCEPT
         !.stage = "read",
         !.listed = Modified,
         !.raced = Differ(pass.head, head),
         !.paths = IF pass.mode = "list" THEN Paths
                   ELSE Differ(meta.commit, pass.head) \cup Modified \cup meta.touched]
    /\ UNCHANGED <<workspace, stored, meta, phase, watcher, missed, faults, stops>>

\* gitDirty fails: a git reconcile lists instead, and a listing goes on without.
DirtyFails ==
    /\ pass.stage = "dirty"
    /\ Fault
    /\ pass' = IF pass.mode = "git" THEN [pass EXCEPT !.stage = "head", !.mode = "list", !.head = None]
               ELSE [pass EXCEPT !.stage = "read", !.unlisted = Modified,
                                !.raced = Differ(pass.head, head)]
    /\ UNCHANGED <<workspace, stored, meta, phase, watcher, missed, stops>>

-----------------------------------------------------------------------------
\* Update, index and build.

\* appendTouched and its cap.
MutStaged(paths) == [meta EXCEPT !.touched = @ \cup paths]
Staged(paths) ==
    LET touched == meta.touched \cup paths
        over == Cardinality(touched) > MaxTouched
    IN [complete |-> meta.complete, commit |-> meta.commit,
        touched |-> IF over THEN {} ELSE touched, overflow |-> meta.overflow \/ over]

\* Paths an update keeps: a file that is gone and was never indexed is none.
Relevant(paths) == {p \in paths : tree[p] # 0 \/ index[p] # 0}

\* Stats and reads the candidates; an update stages what it touches before it does.
MutToStage(mode) == {}
ToStage(mode) == IF mode = "update" THEN Relevant(pass.paths) ELSE {}

ReadFiles ==
    /\ pass.stage = "read"
    /\ meta' = IF ToStage(pass.mode) = {} THEN meta ELSE Staged(ToStage(pass.mode))
    /\ pass' = [pass EXCEPT !.stage = "publish", !.read = tree,
                            !.raced = @ \cup (pass.since \cap pass.paths),
                            !.since = @ \ pass.paths]
    /\ UNCHANGED <<workspace, stored, phase, watcher, missed, faults, stops>>

\* A first build on a large repository publishes the modified files first.
PublishWorkingSet ==
    /\ pass.stage = "publish" /\ pass.mode = "list"
    /\ ~published /\ pass.listed # {}
    /\ published' = TRUE
    /\ index' = [p \in Paths |-> IF p \in pass.listed THEN pass.read[p] ELSE index[p]]
    /\ meta' = NoMeta /\ saved' = NoMeta
    /\ UNCHANGED <<workspace, phase, pass, watcher, missed, faults, stops>>

Written == {p \in pass.paths : index[p] # pass.read[p]}

Rebuilds == pass.mode = "list" /\ ~(published /\ meta.complete)

\* What this process will still miss once the pass is published: a listing leaves
\* nothing out, a git reconcile what a commit between its two looks at git hid from it.
Unseen ==
    LET after == CASE pass.mode = "list" -> {}
                   [] pass.mode = "git" -> pass.raced \ pass.paths
                   [] pass.mode = "update" -> missed \ pass.paths
    IN IF phase = "watching" THEN after ELSE after \cup pass.since

\* An overlay, or a new base; nothing to write publishes nothing.
Publish ==
    /\ pass.stage = "publish"
    /\ index' = [p \in Paths |-> IF p \in pass.paths THEN pass.read[p] ELSE index[p]]
    /\ IF Rebuilds \/ Written # {} THEN published' = TRUE /\ saved' = meta
       ELSE UNCHANGED <<published, saved>>
    /\ missed' = Unseen
    /\ pass' = IF pass.mode = "update" THEN Resting ELSE [pass EXCEPT !.stage = "meta"]
    /\ UNCHANGED <<workspace, meta, phase, watcher, faults, stops>>

\* indexable(dirty), which keeps the first maxTouched paths.
Kept(paths) == {S \in SUBSET paths :
    IF Cardinality(paths) > MaxTouched THEN Cardinality(S) = MaxTouched ELSE S = paths}

Known(touched) == IF pass.head = None THEN {} ELSE touched

NewMeta(touched) == [complete |-> TRUE, commit |-> pass.head,
                     touched |-> Known(touched), overflow |-> FALSE]

SetMeta ==
    /\ pass.stage = "meta"
    /\ \E touched \in Kept(pass.listed) :
         /\ meta' = NewMeta(touched)
         /\ saved' = NewMeta(touched)
    /\ phase' = IF phase = "opened" THEN "reconciled" ELSE phase
    /\ pass' = Resting
    /\ UNCHANGED <<workspace, index, published, watcher, missed, faults, stops>>

\* A manifest that failed to reach the disk, or to be synced there, stays in memory.
SetMetaFails ==
    /\ pass.stage = "meta"
    /\ Fault
    /\ \E touched \in Kept(pass.listed) :
         /\ meta' = NewMeta(touched)
         /\ saved' \in {saved, NewMeta(touched)}
    /\ pass' = Resting
    /\ UNCHANGED <<workspace, index, published, phase, watcher, missed, stops>>

Stale(p) == index[p] # tree[p]

\* Changes that the watcher has yet to hear of.
Reported == IF lostEvents THEN Paths ELSE queue

\* A pass fails.  The watcher's batch is gone: flush cleared it before the pass.
PassFails ==
    /\ pass.stage \in {"read", "publish"}
    /\ Fault
    /\ pass' = Resting
    /\ missed' = IF phase # "watching" THEN missed
                 ELSE missed \cup ({p \in pass.paths \cup pass.raced : Stale(p)} \ Reported)
    /\ UNCHANGED <<workspace, stored, meta, phase, watcher, stops>>

-----------------------------------------------------------------------------
\* The watcher.

\* Engine.Watch, after the first reconcile.
Watch ==
    /\ phase = "reconciled"
    /\ phase' = "watching"
    /\ UNCHANGED <<workspace, stored, meta, pass, watcher, missed, faults, stops>>

Waiting == phase = "watching" /\ pass.stage = "none"

\* The event queue overflows: its events are replaced by one report.
LoseEvents ==
    /\ queue # {}
    /\ Fault
    /\ queue' = {} /\ lostEvents' = TRUE
    /\ UNCHANGED <<workspace, stored, meta, phase, pass, dirty, overflow, missed, stops>>

\* Watcher.loop receives a batch; a full burst turns into a reconcile.
MutAdds(p) == [dirty |-> IF Cardinality(dirty) >= MaxDirty THEN dirty ELSE dirty \cup {p},
               overflow |-> overflow]
Adds(p) == IF Cardinality(dirty) >= MaxDirty THEN [dirty |-> dirty, overflow |-> TRUE]
           ELSE [dirty |-> dirty \cup {p}, overflow |-> overflow]

Receive(p) ==
    /\ Waiting /\ p \in queue
    /\ queue' = queue \ {p}
    /\ dirty' = Adds(p).dirty
    /\ overflow' = Adds(p).overflow
    /\ UNCHANGED <<workspace, stored, meta, phase, pass, lostEvents, missed, faults, stops>>

ReceiveLoss ==
    /\ Waiting /\ lostEvents
    /\ lostEvents' = FALSE
    /\ overflow' = TRUE
    /\ UNCHANGED <<workspace, stored, meta, phase, pass, queue, dirty, missed, faults, stops>>

\* A timer fires, or a tool call asks: the burst becomes a pass.
Flush ==
    /\ Waiting
    /\ dirty # {} \/ overflow
    /\ IF overflow THEN StartReconcile ELSE StartPass("update", dirty)
    /\ dirty' = {} /\ overflow' = FALSE
    /\ UNCHANGED <<workspace, stored, meta, phase, queue, lostEvents, missed, faults, stops>>

-----------------------------------------------------------------------------
\* The process stops, in order or not, and the next one opens the index.

Stop ==
    /\ phase # "down" /\ stops < MaxStops
    /\ stops' = stops + 1
    /\ phase' = "down" /\ pass' = Resting
    /\ queue' = {} /\ lostEvents' = FALSE /\ dirty' = {} /\ overflow' = FALSE
    /\ meta' = NoMeta
    /\ missed' = Paths
    /\ UNCHANGED <<workspace, stored, faults>>

Open ==
    /\ phase = "down"
    /\ phase' = "opened"
    /\ meta' = saved
    /\ UNCHANGED <<workspace, stored, pass, watcher, missed, faults, stops>>

PassStep == ReadHead \/ ListDirty \/ ReadFiles \/ Publish \/ SetMeta

User ==
    \/ \E p \in Paths, v \in Versions : Edit(p, v)
    \/ \E c \in Commits : Checkout(c) \/ CommitAll(c)

Faults == HeadFails \/ DirtyFails \/ PassFails \/ SetMetaFails \/ LoseEvents

Next ==
    \/ User \/ Faults \/ Stop
    \/ Open \/ FirstReconcile \/ PassStep \/ PublishWorkingSet
    \/ Watch \/ ReceiveLoss \/ Flush
    \/ \E p \in Paths : Receive(p)

\* A pass that runs goes on, the watcher's loop takes what it is sent, and its
\* timers fire.
Fairness ==
    /\ WF_vars(PassStep)
    /\ WF_vars(ReceiveLoss) /\ WF_vars(Flush)
    /\ \A p \in Paths : WF_vars(Receive(p))

Spec == Init /\ [][Next]_vars /\ Fairness

-----------------------------------------------------------------------------
TypeOK ==
    /\ tree \in [Paths -> Versions] /\ head \in Commits
    /\ index \in [Paths -> Versions] /\ published \in BOOLEAN
    /\ saved \in Metas /\ meta \in Metas
    /\ Cardinality(saved.touched) <= MaxTouched /\ Cardinality(dirty) <= MaxDirty
    /\ phase \in {"down", "opened", "reconciled", "watching"}
    /\ pass \in Passes \cup {Resting}
    /\ queue \subseteq Paths /\ dirty \subseteq Paths
    /\ missed \subseteq Paths
    /\ lostEvents \in BOOLEAN /\ overflow \in BOOLEAN
    /\ changes \in Nat /\ faults \in Nat /\ stops \in Nat

\* Paths that metadata vouches for, on disk or in memory, though they are indexed
\* otherwise: a git reconcile that trusts it leaves them as they are.
Untrue == {p \in Paths : \E m \in {saved, meta} :
             Vouches(m) /\ p \notin m.touched /\ index[p] # Tree[m.commit][p]}

\* Modified files that the metadata of a reconcile leaves out: of more than it may
\* list, those that git failed to list, and those that changed under its looks.
LeftOut ==
    IF pass.head = None THEN {}
    ELSE (IF Cardinality(pass.listed) > MaxTouched THEN pass.listed ELSE {})
           \cup pass.unlisted \cup pass.raced

\* The metadata becomes untrue of no path, with two exceptions: between a reconcile's
\* publication and its SetMeta, of what the reconcile wrote, and with that SetMeta, of
\* the modified files it leaves out.  If it is saved, all else that it looked at is true.
KeepsTrue ==
    /\ Untrue' \ Untrue \subseteq
         (CASE pass.stage = "publish" /\ pass.mode # "update" -> Written
            [] pass.stage = "meta" -> LeftOut
            [] OTHER -> {})
    /\ (SetMeta \/ SetMetaFails) /\ saved' = meta' =>
         Untrue' \cap pass.paths \subseteq LeftOut

\* Meta.Touched "lists paths that may differ from Commit's content in the index"
\* (store.go:52), so that the next reconcile may leave the rest alone.  The code keeps
\* this but where it indexes before it saves (engine.go:376, :380) and where a reconcile
\* knows of more modified files than it lists (engine.go:887, :390): no update, other
\* failure, stop or start makes the metadata untrue of a path, and a reconcile whose
\* metadata is saved repairs whatever else it looked at.
TouchedCoversIndex == [][KeepsTrue]_vars

\* While the watcher runs, a path whose index is out of date is indexed again (watch.go
\* :181-224), with these exceptions: its last change came before the watcher ran; its
\* pass failed after flush had cleared the burst; a commit between the two looks at git
\* of an overflow's reconcile hid it; or that reconcile trusted metadata that was
\* untrue of it.  Nothing else reports those changes while the process lives.
ChangesAreIndexed ==
    \A p \in Paths :
        (phase = "watching" /\ Stale(p) /\ p \notin missed)
            ~> (~Stale(p) \/ p \in missed \/ p \in Untrue \/ phase # "watching")
=============================================================================
