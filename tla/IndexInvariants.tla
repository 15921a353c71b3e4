-------------------------- MODULE IndexInvariants --------------------------
(***************************************************************************)
(* What is always true of the index store: StoreInv, of names, reference   *)
(* counts and files, and ContentInv, of what they hold.  Both are          *)
(* inductive, ContentInv with the help of StoreInv (IndexProofs).          *)
(***************************************************************************)
EXTENDS IndexStore

-----------------------------------------------------------------------------
\* Snapshots, plans and segments.

\* Names, and lists of different names.
SegNames == Nat \X {"shard", "overlay", "import"} \X Nat
NameLists == {s \in Seq(SegNames) : \A i, j \in DOMAIN s : s[i] = s[j] => i = j}

\* Shards, of which los holds the lower bounds, come before overlays.
IsSnapshot(sn) ==
    /\ DOMAIN sn = {"gen", "segs", "los", "route", "refs", "whole"}
    /\ sn.segs \in NameLists
    /\ sn.los \in Seq(Range(sn.los)) /\ Len(sn.los) <= Len(sn.segs)

\* A new snapshot of a generation, with segments of these names.
Lists(sn, gen, names) == IsSnapshot(sn) /\ sn.gen = gen /\ sn.refs = 1 /\ sn.segs = names

\* The pieces of a plan before they have names: those that are kept have theirs.
Old(pieces) == {i \in DOMAIN pieces : ~pieces[i].fresh}
OldNames(pieces) == {pieces[i].name : i \in Old(pieces)}

Draft(pieces, gen) ==
    /\ pieces \in Seq(Range(pieces))
    /\ \A i \in DOMAIN pieces :
         /\ DOMAIN pieces[i] = {"name", "kind", "lo", "content", "fresh"}
         /\ pieces[i].fresh \in BOOLEAN
    /\ \A i \in Old(pieces) : pieces[i].name \in SegNames /\ pieces[i].name[1] < gen
    /\ \A i, j \in Old(pieces) : pieces[i].name = pieces[j].name => i = j

\* A plan names what it writes, and what it keeps of a snapshot with these names.
PlanFits(plan, names, gen) ==
    /\ DOMAIN plan = {"phase", "want", "pieces", "retire", "whole", "written", "stacks", "compacting"}
    /\ plan.written \in Nat /\ plan.stacks \in BOOLEAN /\ plan.compacting \in BOOLEAN
    /\ NamesOf(plan.pieces) \in NameLists
    /\ \A i \in DOMAIN plan.pieces :
         plan.pieces[i].fresh \in BOOLEAN /\ (plan.pieces[i].fresh => plan.pieces[i].name[1] = gen)
    /\ plan.retire \subseteq names
    /\ IF plan.stacks
       THEN plan.retire = {} /\ DOMAIN plan.pieces = {1} /\ plan.pieces[1].fresh
       ELSE OldNames(plan.pieces) = names \ plan.retire

\* The snapshots that list a segment.
Users(all, n) == {g \in DOMAIN all : n \in Range(all[g].segs)}

IsSegment(s) ==
    /\ DOMAIN s = {"content", "refs", "retired", "keep"}
    /\ s.retired \in BOOLEAN /\ s.keep \in BOOLEAN

Shaped(all, open) ==
    /\ \A g \in DOMAIN all : IsSnapshot(all[g])
    /\ \A n \in DOMAIN open : IsSegment(open[n])

\* Every open segment counts the snapshots that list it.
Counted(all, open) ==
    /\ IsFiniteSet(DOMAIN all)
    /\ \A g \in DOMAIN all : IsSnapshot(all[g])
    /\ DOMAIN open = UNION {Range(all[g].segs) : g \in DOMAIN all}
    /\ \A n \in DOMAIN open :
         /\ IsSegment(open[n])
         /\ open[n].refs = Cardinality(Users(all, n))

-----------------------------------------------------------------------------
\* The invariant about references and files.

\* Who has references to generation g: readers, the store and a compaction, a
\* publication that has yet to release the generation it replaced.
Holding(g) == {r \in Readers : held[r] = g}
Planned == job.phase \in {"write", "swap"}
WriterRefs(g) ==
    IF up /\ g = cur THEN IF Planned /\ job.compacting THEN 2 ELSE 1
    ELSE IF up /\ job.phase = "release" /\ g = cur - 1 THEN IF job.compacting THEN 2 ELSE 1
    ELSE 0
References == [g \in Nat |-> Cardinality(Holding(g)) + WriterRefs(g)]

\* The snapshots in memory are those with a reference, and count them.
Tallied(all, refs) ==
    /\ DOMAIN all = {g \in Nat : refs[g] > 0}
    /\ \A g \in DOMAIN all : all[g].refs = refs[g]

\* Types of what the other invariants do not pin down.
StoreStates ==
    /\ up \in BOOLEAN /\ cur \in Nat
    /\ held \in [Readers -> Nat \cup {None}]

\* Reference counts are right, and nothing is newer than what is published.
SnapshotInv ==
    /\ Tallied(snaps, References)
    /\ up => \A g \in DOMAIN snaps : g <= cur

\* A segment counts the snapshots that list it, and is retired once the published
\* one does not.
SegmentInv ==
    /\ Counted(snaps, segs)
    /\ \A n \in DOMAIN segs :
         /\ segs[n].retired <=> ~(up /\ n \in Range(snaps[cur].segs))
         /\ up => ~segs[n].keep /\ n[1] <= cur

\* The files are those of the open segments, of a job, and what failures left.
FileInv ==
    up => /\ strays \cap DOMAIN segs = {}
          /\ DOMAIN files = (DOMAIN segs) \cup strays \cup (IF Planned THEN WrittenNames ELSE {})

\* A job fits what is published, until it is.
PlanInv ==
    Planned =>
        /\ PlanFits(job, Range(snaps[cur].segs), cur + 1)
        /\ WrittenNames \cap strays = {}
        /\ job.phase = "swap" => \A i \in Fresh : i <= job.written

\* Only an open store has a job.
JobInv ==
    \/ job = Idle
    \/ /\ up
       /\ job.phase \in {"write", "swap", "release"}
       /\ job.compacting \in BOOLEAN
       /\ job.phase = "release" => cur > 0

\* The manifest names different segments, none newer than itself.
ManifestInv ==
    /\ manifest.gen \in Nat
    /\ NamesOf(manifest.entries) \in NameLists
    /\ \A n \in Names(manifest.entries) : n[1] <= manifest.gen

\* The inductive invariant of references and files.
StoreInv ==
    /\ StoreStates
    /\ SnapshotInv
    /\ SegmentInv
    /\ FileInv
    /\ PlanInv
    /\ JobInv
    /\ ManifestInv

-----------------------------------------------------------------------------
\* What segments hold, and what a snapshot of them shows.

ContentsOf(open, names) == [i \in DOMAIN names |-> open[names[i]].content]

\* Lower bounds of shards: they cut the path space, in order.
Rising(los) ==
    /\ los \in Seq(Nat)
    /\ 1 \in DOMAIN los => los[1] = 0
    /\ \A j, k \in DOMAIN los : j < k => los[j] < los[k]

\* The records of a segment: facts of paths.
IsContent(content) == DOMAIN content \subseteq Paths /\ \A p \in DOMAIN content : content[p] \in Versions

\* Shards hold what their range says and no tombstone; overlays lie on top.
Stacked(c, los) ==
    /\ Rising(los)
    /\ DOMAIN los \subseteq DOMAIN c
    /\ \A i \in DOMAIN c : IsContent(c[i])
    /\ \A k \in DOMAIN los : \A p \in DOMAIN c[k] : c[k][p] # Deleted /\ ShardFor(los, p) = k

\* The records of the first n segments, of which m are shards, and those that no
\* later overlay hides.
Recs(c, n) == {r \in (1..n) \X Paths : r[2] \in DOMAIN c[r[1]]}
Seen(c, m, n) ==
    {r \in Recs(c, n) : /\ c[r[1]][r[2]] # Deleted
                        /\ \A j \in (m + 1)..n : j > r[1] => r[2] \notin DOMAIN c[j]}

\* The routes lead to the newest overlay, and count the records that are shown.
Newest(c, m, n, p, to) ==
    /\ to.seg \in (m + 1)..n /\ p \in DOMAIN c[to.seg]
    /\ \A i \in (m + 1)..n : p \in DOMAIN c[i] => i <= to.seg
    /\ to.deleted <=> c[to.seg][p] = Deleted
Routes(c, m, n, route) ==
    /\ DOMAIN route.over = {p \in Paths : \E i \in (m + 1)..n : p \in DOMAIN c[i]}
    /\ \A p \in DOMAIN route.over : Newest(c, m, n, p, route.over[p])
    /\ route.dead = Recs(c, n) \ Seen(c, m, n)
    /\ route.nLive = Cardinality(Seen(c, m, n))

\* The routes of every overlay in turn.
RoutesFrom(f, open, names, los, n) ==
    f = [i \in Len(los)..n |->
            IF i = Len(los) THEN ShardRoute(open, names, los)
            ELSE Let(f[i - 1], LAMBDA old :
                    Apply(open, [segs |-> names, los |-> los, route |-> old], i))]

\* The index that a stack of segments shows: of every path what the newest segment
\* that has it holds.
Holders(c, p) == {i \in DOMAIN c : p \in DOMAIN c[i]}
Visible(c) == [p \in Paths |-> IF Holders(c, p) = {} THEN Deleted ELSE c[Max(Holders(c, p))][p]]

\* A snapshot whose routes lead where its segments say.
Sound(open, sn) ==
    /\ Stacked(ContentsOf(open, sn.segs), sn.los)
    /\ Routes(ContentsOf(open, sn.segs), Len(sn.los), Len(sn.segs), sn.route)

SoundAll(all, open) == \A g \in DOMAIN all : all[g].whole => Sound(open, all[g])

\* Shards that cut up what view says of the paths S.
Cut(pieces, S, view) ==
    /\ Len(pieces) \in Nat /\ pieces = [i \in 1..Len(pieces) |-> pieces[i]]
    /\ \A i \in 1..Len(pieces) :
         /\ pieces[i].kind = "shard" /\ pieces[i].lo \in Nat
         /\ \A p \in DOMAIN pieces[i].content :
              p \in S /\ pieces[i].content[p] = view[p] /\ pieces[i].lo <= p
    /\ \A p \in S : \E i \in 1..Len(pieces) : p \in DOMAIN pieces[i].content
    /\ \A i, j \in 1..Len(pieces) : i < j =>
         /\ pieces[i].lo < pieces[j].lo
         /\ \A p \in DOMAIN pieces[i].content : p < pieces[j].lo

PieceContents(pieces) == [i \in DOMAIN pieces |-> pieces[i].content]

\* The paths of shard k that a snapshot shows.
ShownBy(sn, k) == {p \in Paths : ShardFor(sn.los, p) = k /\ Lookup(segs, sn, p) # Deleted}

-----------------------------------------------------------------------------
\* The invariant about contents.

\* What a plan is to publish.
PlanShows(plan, open, sn) ==
    /\ DOMAIN plan.pieces # {}
    /\ IF plan.stacks
       THEN /\ plan.pieces[1].kind = "overlay" /\ IsContent(plan.pieces[1].content)
            /\ plan.whole = sn.whole
            /\ plan.whole => plan.want = Visible(Append(ContentsOf(open, sn.segs), plan.pieces[1].content))
       ELSE plan.whole =>
            /\ InOrder(plan.pieces)
            /\ Stacked(PieceContents(plan.pieces), LosOf(plan.pieces))
            /\ \A i \in Old(plan.pieces) : plan.pieces[i].content = open[plan.pieces[i].name].content
            /\ plan.want = Visible(PieceContents(plan.pieces))
    /\ ~plan.whole => plan.want = Lost

\* What the files hold that entries name.
StackOf(entries, dir) == [i \in DOMAIN entries |-> dir[entries[i].name]]

\* A manifest that was published names files that stack up.
Stacks(entries, dir) ==
    /\ Names(entries) \subseteq DOMAIN dir
    /\ InOrder(entries)
    /\ Stacked(StackOf(entries, dir), LosOf(entries))
ManifestShows ==
    /\ manifest.gen = 0 <=> DOMAIN manifest.entries = {}
    /\ manifest.gen = 0 => manifest.whole
    /\ manifest.whole => Stacks(manifest.entries, files)

\* Routes lead where the segments say, in every snapshot; only generation 0 is empty.
SnapshotsShow ==
    /\ SoundAll(snaps, segs)
    /\ \A g \in DOMAIN snaps : g # 0 => snaps[g].segs # <<>>

\* A plan shows what it wants, and so do the files it has written and its manifest.
JobShows ==
    Planned =>
        /\ PlanShows(job, segs, snaps[cur])
        /\ \A i \in Fresh : i <= job.written => files[job.pieces[i].name] = job.pieces[i].content
        /\ job.phase = "swap" => manifest = [gen |-> cur + 1, entries |-> NewEntries, whole |-> job.whole]

\* What is mapped is what is on disk.
FilesShow == up => \A n \in DOMAIN segs : files[n] = segs[n].content

\* No release removes what it names.
ManifestKept ==
    manifest.whole =>
        IF up THEN Names(manifest.entries) \subseteq
                     IF job.phase = "swap" THEN (Range(snaps[cur].segs) \ job.retire) \cup NewNames
                     ELSE Range(snaps[cur].segs)
        ELSE \A n \in Names(manifest.entries) \cap DOMAIN segs : segs[n].keep

\* The inductive invariant of contents.
ContentInv == SnapshotsShow /\ JobShows /\ FilesShow /\ ManifestShows /\ ManifestKept

-----------------------------------------------------------------------------
\* What steps do and keep.

\* What a release leaves of the snapshots, the open segments and the files.
Released(after, all, open, dir) ==
    /\ Counted(after.snaps, after.segs)
    /\ \A h \in DOMAIN after.snaps : h \in DOMAIN all /\ after.snaps[h].segs = all[h].segs
    /\ \A n \in DOMAIN after.segs :
         /\ n \in DOMAIN open
         /\ after.segs[n].retired = open[n].retired
         /\ after.segs[n].keep = open[n].keep
    /\ DOMAIN after.files = DOMAIN dir \ {n \in DOMAIN open \ DOMAIN after.segs : ~open[n].keep}

\* Files are removed of open segments alone, and not of those that are kept.
RemovesOpen(after, open, dir) ==
    /\ \A n \in DOMAIN dir : n \in DOMAIN after.files \/ (n \in DOMAIN open /\ ~open[n].keep)
    /\ \A n \in DOMAIN after.segs : n \in DOMAIN open /\ after.segs[n].keep = open[n].keep

\* One reference to snapshot g less.
Dropped(after, all, g) ==
    /\ DOMAIN after.snaps = IF all[g].refs > 1 THEN DOMAIN all ELSE DOMAIN all \ {g}
    /\ \A h \in DOMAIN after.snaps :
         after.snaps[h].refs = IF h = g THEN all[h].refs - 1 ELSE all[h].refs

\* What a publication makes of the snapshots and the open segments.
Extended(all2, open2, all, open, gen, sn, new, retire) ==
    /\ Counted(all2, open2)
    /\ DOMAIN all2 = (DOMAIN all) \cup {gen}
    /\ all2[gen] = sn /\ \A g \in DOMAIN all : all2[g] = all[g]
    /\ DOMAIN open2 = new \cup DOMAIN open
    /\ \A n \in DOMAIN open : /\ open2[n].retired <=> open[n].retired \/ n \in retire
                              /\ open2[n].keep = open[n].keep
    /\ \A n \in new : /\ open2[n].retired <=> n \in retire
                      /\ ~open2[n].keep

KeepsSnapshot(sn2, sn) ==
    sn2.segs = sn.segs /\ sn2.los = sn.los /\ sn2.route = sn.route /\ sn2.whole = sn.whole

\* Snapshots and segments may go, and what stays holds what it held.
KeepsContents(all2, open2, all, open) ==
    /\ \A g \in DOMAIN all2 : g \in DOMAIN all /\ KeepsSnapshot(all2[g], all[g])
    /\ \A n \in DOMAIN open2 : n \in DOMAIN open /\ open2[n].content = open[n].content

KeepsFiles(dir2, dir) == \A n \in DOMAIN dir2 : n \in DOMAIN dir /\ dir2[n] = dir[n]

\* What a published manifest names holds what it held.
StackKept == manifest.whole => StackOf(manifest.entries, files') = StackOf(manifest.entries, files)

\* What every job begins with.
BeginsJob ==
    /\ up /\ job = Idle
    /\ files' = files /\ manifest' = manifest /\ up' = up /\ cur' = cur /\ segs' = segs /\ held' = held
    /\ KeepsContents(snaps', segs', snaps, segs)
    /\ job'.phase = "write" /\ job'.written = 0
    /\ PlanShows(job', segs, snaps[cur])
=============================================================================
