----------------------------- MODULE IndexStore -----------------------------
(***************************************************************************)
(* The index store (indexer/store/store.go) and its snapshots              *)
(* (snapshot.go): immutable segments on disk, the manifest that names the  *)
(* published ones, snapshots that share open segments by reference counts, *)
(* and the one writer that stacks overlays, builds, compacts and imports   *)
(* while readers come and go and the process may die.                      *)
(*                                                                         *)
(* A path is a number, so that shards can be ranges; a file's facts are a  *)
(* version, and a tombstone is Deleted.  ShardFiles files fill a shard.    *)
(***************************************************************************)
EXTENDS Naturals, Sequences, SequencesExt, FiniteSets, FiniteSetsExt, Functions, TLC, IndexedFiles

CONSTANTS
    Builds,      \* complete file sets a base is built from
    Batches,     \* changes an overlay may hold
    Prebuilt,    \* the segments [kind, lo, content] of an index to import
    ShardFiles,  \* files that fill a shard
    Readers,
    Lost,
    MaxGen,      \* bound on generations
    MaxFailures, \* bound on failing writes
    MaxEnds      \* bound on crashes and closes

Deleted == 0
Contents == UNION {[S -> Versions] : S \in SUBSET Paths}
Indexes == [Paths -> Versions]
Empty == [p \in Paths |-> Deleted]

ASSUME StoreAssumption ==
    /\ Paths \subseteq Nat \ {0}
    /\ Builds \subseteq Indexes
    /\ Batches \subseteq Contents
    /\ Prebuilt \in Seq([kind : {"shard", "overlay"}, lo : Nat, content : Contents])
    \* It was built by this code: a shard holds no tombstone, and no path outside its range.
    /\ \A i \in DOMAIN Prebuilt : Prebuilt[i].kind = "shard" =>
         \A p \in DOMAIN Prebuilt[i].content :
             /\ Prebuilt[i].content[p] # Deleted /\ Prebuilt[i].lo <= p
             /\ \A j \in DOMAIN Prebuilt : j > i /\ Prebuilt[j].kind = "shard" => p < Prebuilt[j].lo
    /\ ShardFiles \in Nat \ {0}
    /\ IsFiniteSet(Readers) /\ None \notin Nat \cup Indexes \cup {Lost}
    /\ {MaxGen, MaxFailures, MaxEnds} \subseteq Nat

VARIABLES
    files,     \* content of each segment file in the directory
    manifest,  \* the manifest, and whether the publication that wrote it succeeded
    up,        \* whether the store is open
    cur,       \* generation of Store.cur
    snaps,     \* the snapshots in use, by generation
    segs,      \* the open segments (segRef), by name
    held,      \* the generation each reader has a snapshot of
    job,       \* what the holder of writeMu is doing
    strays,    \* files a failed write left behind
    failures, ends

disk == <<files, manifest, strays>>
memory == <<up, cur, snaps, segs>>
bounds == <<failures, ends>>
storeVars == <<disk, memory, held, job, bounds>>

NoManifest == [gen |-> 0, entries |-> <<>>, whole |-> TRUE]

\* A function with one value, and f with the values of top over its own: :> and @@ of
\* the TLC module, with definitions that can be reasoned about.
Only(x, v) == [y \in {x} |-> v]
Over(top, f) == [x \in DOMAIN top \cup DOMAIN f |-> IF x \in DOMAIN top THEN top[x] ELSE f[x]]

-----------------------------------------------------------------------------
\* Snapshots: routing over shards and overlays.

\* The shard whose range holds p, 0 without shards.
MutShardFor(los, p) ==
    IF los = <<>> THEN 0 ELSE Max({1, Cardinality({k \in DOMAIN los : los[k] < p})})
ShardFor(los, p) ==
    IF los = <<>> THEN 0 ELSE Max({1, Cardinality({k \in DOMAIN los : los[k] <= p})})

Live(sn, i, p) == <<i, p>> \notin sn.route.dead

\* f(x), with x evaluated once.
Let(x, f(_)) == CHOOSE y \in {f(v) : v \in {x}} : TRUE

\* The routes of a snapshot once overlay number i is routed over everything older.
Apply(open, sn, i) ==
    LET content(k) == open[sn.segs[k]].content
        top == content(i)
        over == sn.route.over
        base(p) == ShardFor(sn.los, p)
        routed == {p \in DOMAIN top : p \in DOMAIN over}
        shadowed ==
            {<<over[p].seg, p>> : p \in {q \in routed : ~over[q].deleted}}
            \cup {<<base(p), p>> : p \in {q \in DOMAIN top \ routed :
                        /\ base(q) # 0
                        /\ q \in DOMAIN content(base(q))
                        /\ Live(sn, base(q), q)}}
        gone == {p \in DOMAIN top : top[p] = Deleted}
    IN [over |-> [p \in DOMAIN top \cup DOMAIN over |->
                     IF p \in DOMAIN top THEN [seg |-> i, deleted |-> top[p] = Deleted] ELSE over[p]],
        dead |-> sn.route.dead \cup shadowed \cup {<<i, p>> : p \in gone},
        nLive |-> sn.route.nLive - Cardinality(shadowed) + Cardinality(DOMAIN top \ gone)]

\* The records of the segments in these places.
Records(open, names, places) == UNION {{i} \X DOMAIN open[names[i]].content : i \in places}

\* Shards alone: their records are live.
ShardRoute(open, names, los) ==
    [over |-> <<>>, dead |-> {}, nLive |-> Cardinality(Records(open, names, DOMAIN los))]

\* ... and every overlay applied, oldest first.
Routed(open, names, los) ==
    LET below == Len(los)
        route[i \in below..Len(names)] ==
            IF i = below THEN ShardRoute(open, names, los)
            ELSE Let(route[i - 1], LAMBDA old :
                    Apply(open, [segs |-> names, los |-> los, route |-> old], i))
    IN route[Len(names)]

\* newSnapshot: shards ordered by their lower bound los, then overlays, oldest first.
NewSnapshot(open, gen, names, los, whole) ==
    [gen |-> gen, segs |-> names, los |-> los, route |-> Routed(open, names, los),
     refs |-> 1, whole |-> whole]

NoSnapshot == NewSnapshot(<<>>, 0, <<>>, <<>>, TRUE)

\* withOverlay: one segment more on top.
WithOverlay(open, sn, gen, top) ==
    LET bare == [sn EXCEPT !.gen = gen, !.segs = Append(@, top), !.refs = 1]
    IN [bare EXCEPT !.route = Apply(open, bare, Len(bare.segs))]

\* The facts a reader finds for a path, Deleted when it finds none.
Lookup(open, sn, p) ==
    LET content(i) == open[sn.segs[i]].content
        k == ShardFor(sn.los, p)
    IN IF p \in DOMAIN sn.route.over
       THEN IF sn.route.over[p].deleted THEN Deleted ELSE content(sn.route.over[p].seg)[p]
       ELSE IF k # 0 /\ p \in DOMAIN content(k) THEN content(k)[p] ELSE Deleted

\* Every live record: what Refs and Paths list.
LiveRefs(open, sn) ==
    {r \in Records(open, sn.segs, DOMAIN sn.segs) : Live(sn, r[1], r[2])}

Entries(sn) ==
    [i \in DOMAIN sn.segs |->
        [name |-> sn.segs[i],
         kind |-> IF i <= Len(sn.los) THEN "shard" ELSE "overlay",
         lo |-> IF i <= Len(sn.los) THEN sn.los[i] ELSE 0]]

-----------------------------------------------------------------------------
\* Reference counts.  A segment is unmapped when it leaves segs.

Opened(content) == [content |-> content, refs |-> 0, retired |-> FALSE, keep |-> FALSE]

Retain(open, sn) == [n \in DOMAIN open |->
    IF n \in Range(sn.segs) THEN [open[n] EXCEPT !.refs = @ + 1] ELSE open[n]]

Retire(open, names) == [n \in DOMAIN open |->
    IF n \in names THEN [open[n] EXCEPT !.retired = TRUE] ELSE open[n]]

Without(f, names) == Restrict(f, DOMAIN f \ names)

\* segRef.release: the last user of a retired segment unmaps it and removes its
\* file, which a segment retired by Close keeps.
MutUnmapped(open, names) == {n \in names : open[n].retired}
Unmapped(open, names) == {n \in names : open[n].refs = 1 /\ open[n].retired}

\* Snapshot.Release of one reference: what it leaves of the snapshots, the open
\* segments and the files.
Release(all, open, dir, gen) ==
    LET names == Range(all[gen].segs)
        gone == Unmapped(open, names)
        rest == Without(open, gone)
    IN IF all[gen].refs > 1
       THEN [snaps |-> [all EXCEPT ![gen].refs = @ - 1], segs |-> open, files |-> dir]
       ELSE [snaps |-> Without(all, {gen}),
             segs |-> [n \in DOMAIN rest |->
                 IF n \in names THEN [rest[n] EXCEPT !.refs = @ - 1] ELSE rest[n]],
             files |-> Without(dir, {n \in gone : ~open[n].keep})]

-----------------------------------------------------------------------------
\* Opening the store.

Names(entries) == {entries[i].name : i \in DOMAIN entries}

ShardCount(entries) == Cardinality({i \in DOMAIN entries : entries[i].kind = "shard"})

NamesOf(entries) == [i \in DOMAIN entries |-> entries[i].name]
LosOf(entries) == [i \in 1..ShardCount(entries) |-> entries[i].lo]

\* Shards come first, by their lower bound; the first starts the path space.
InOrder(entries) ==
    \A i \in 1..ShardCount(entries) :
        /\ entries[i].kind = "shard"
        /\ IF i = 1 THEN entries[i].lo = 0 ELSE entries[i].lo > entries[i - 1].lo

Loadable(m, dir) == m.gen # 0 /\ Names(m.entries) \subseteq DOMAIN dir /\ InOrder(m.entries)

\* openSegments.
OpenSegs(m, dir) ==
    IF Loadable(m, dir) THEN [s \in Names(m.entries) |-> Opened(dir[s])] ELSE <<>>

\* The snapshot built from a manifest, or the empty one of generation 0.
Load(m, open) ==
    IF open = <<>> THEN NoSnapshot
    ELSE NewSnapshot(open, m.gen, NamesOf(m.entries), LosOf(m.entries), m.whole)

Idle == [phase |-> "idle", pieces |-> <<>>]

StoreInit ==
    /\ files = <<>> /\ manifest = NoManifest /\ strays = {}
    /\ up = TRUE /\ cur = 0
    /\ snaps = Only(0, NoSnapshot) /\ segs = <<>>
    /\ held = [r \in Readers |-> None]
    /\ job = Idle
    /\ failures = 0 /\ ends = 0

\* Open, once no snapshot of an earlier store of this process is in use: loads the
\* manifest or discards the index, and removes the files no manifest names.
OpenStore ==
    /\ ~up
    /\ \A r \in Readers : held[r] = None
    /\ LET open == OpenSegs(manifest, files)
           sn == Load(manifest, open)
           usable == Loadable(manifest, files)
       IN /\ snaps' = Only(sn.gen, sn)
          /\ cur' = sn.gen
          /\ segs' = Retain(open, sn)
          /\ manifest' = IF usable THEN manifest ELSE NoManifest
          /\ files' = IF usable THEN Restrict(files, Names(manifest.entries)) ELSE <<>>
    /\ strays' = {}
    /\ up' = TRUE
    /\ UNCHANGED <<held, job, bounds>>

-----------------------------------------------------------------------------
\* Readers.

\* Store.Snapshot.
Snapshot(r) ==
    /\ up /\ held[r] = None
    /\ held' = [held EXCEPT ![r] = cur]
    /\ snaps' = [snaps EXCEPT ![cur].refs = @ + 1]
    /\ UNCHANGED <<disk, up, cur, segs, job, bounds>>

\* Snapshot.Release.
Done(r) ==
    /\ held[r] # None
    /\ LET after == Release(snaps, segs, files, held[r])
       IN /\ snaps' = after.snaps
          /\ segs' = after.segs
          /\ files' = after.files
    /\ held' = [held EXCEPT ![r] = None]
    /\ UNCHANGED <<manifest, strays, up, cur, job, bounds>>

-----------------------------------------------------------------------------
\* The writer.  A job is planned when it takes writeMu; then its new segments are
\* written one by one, the manifest names them, the snapshot is swapped under
\* snapMu, and the previous one is released.

\* Segment number n of the kind that generation gen writes.
Name(gen, kind, n) == <<gen, kind, n>>

\* A publication of new pieces: on top of what is published, or instead of it.
Plan(want, pieces, retire, whole) ==
    [phase |-> "write", want |-> want, pieces |-> pieces, retire |-> retire, whole |-> whole,
     written |-> 0, stacks |-> FALSE, compacting |-> FALSE]

Starts == up /\ job = Idle /\ cur < MaxGen

Begin(plan) ==
    /\ job' = plan
    /\ UNCHANGED <<disk, up, cur, segs, held, bounds>>

View(open, sn) ==
    IF sn.whole THEN [p \in Paths |-> Lookup(open, sn, p)] ELSE Lost

\* What the current index becomes with a batch of changes.
Changed(batch) ==
    IF ~snaps[cur].whole THEN Lost
    ELSE [p \in Paths |-> IF p \in DOMAIN batch THEN batch[p] ELSE View(segs, snaps[cur])[p]]

\* Publish of a batch: one overlay on top.
Overlay(batch) ==
    /\ Starts /\ DOMAIN batch # {}
    /\ LET sn == snaps[cur]
           top == [name |-> Name(cur + 1, "overlay", 0), kind |-> "overlay", lo |-> 0,
                   content |-> batch, fresh |-> TRUE]
       IN Begin([Plan(Changed(batch), <<top>>, {}, sn.whole) EXCEPT !.stacks = TRUE])
    /\ UNCHANGED snaps

\* Files cut into shards of ShardFiles, in path order: the first starts at lo, a
\* later one at its first path.
Split(lo, content) ==
    LET paths == DOMAIN content
        rank(p) == Cardinality({q \in paths : q < p})
        count == (Cardinality(paths) + ShardFiles - 1) \div ShardFiles
        chunk(i) == {p \in paths : rank(p) \div ShardFiles = i - 1}
    IN [i \in 1..count |-> [lo |-> IF i = 1 THEN lo ELSE Min(chunk(i)),
                            content |-> Restrict(content, chunk(i))]]

OneEmptyShard == <<[lo |-> 0, content |-> <<>>]>>

\* Shards to write, which get their names in that order.
NewShards(parts) ==
    [i \in DOMAIN parts |->
        [name |-> <<>>, kind |-> "shard", lo |-> parts[i].lo,
         content |-> parts[i].content, fresh |-> TRUE]]

Named(pieces, gen) ==
    [i \in DOMAIN pieces |->
        IF pieces[i].fresh
        THEN [pieces[i] EXCEPT !.name =
                Name(gen, "shard", Cardinality({j \in 1..(i - 1) : pieces[j].fresh}))]
        ELSE pieces[i]]

\* NewBase, Add and Commit: the complete file set replaces every segment.
Base(build) ==
    /\ Starts
    /\ LET present == Restrict(build, {p \in Paths : build[p] # Deleted})
           parts == IF present = <<>> THEN OneEmptyShard ELSE Split(0, present)
       IN Begin(Plan(build, Named(NewShards(parts), cur + 1), Range(snaps[cur].segs), TRUE))
    /\ UNCHANGED snaps

\* The index of the checkout to import from.
Source ==
    LET holds(p) == {i \in DOMAIN Prebuilt : p \in DOMAIN Prebuilt[i].content}
    IN [p \in Paths |-> IF holds(p) = {} THEN Deleted ELSE Prebuilt[Max(holds(p))].content[p]]

\* Import: a copy of another checkout's segments replaces every segment.
Import ==
    /\ Starts
    /\ Prebuilt # <<>> /\ InOrder(Prebuilt)
    /\ LET pieces == [i \in DOMAIN Prebuilt |->
                [name |-> Name(cur + 1, "import", i), kind |-> Prebuilt[i].kind, lo |-> Prebuilt[i].lo,
                 content |-> Prebuilt[i].content, fresh |-> TRUE]]
       IN Begin(Plan(Source, pieces, Range(snaps[cur].segs), TRUE))
    /\ UNCHANGED snaps

\* The live records a compaction gathers for shard k: the overlay records routed
\* to it and what they leave of the shard.
Gathered(sn, k) ==
    LET content(i) == segs[sn.segs[i]].content
        overlaid == {p \in Paths : /\ p \in DOMAIN sn.route.over /\ ShardFor(sn.los, p) = k
                                   /\ ~sn.route.over[p].deleted}
        own == {p \in Paths : k # 0 /\ p \in DOMAIN content(k) /\ Live(sn, k, p)}
    IN [p \in overlaid \cup own |-> IF p \in overlaid THEN Lookup(segs, sn, p) ELSE content(k)[p]]

Touched(sn) == {ShardFor(sn.los, p) : p \in DOMAIN sn.route.over}

\* A shard that a compaction leaves alone.
KeptShard(sn, k) == [name |-> sn.segs[k], kind |-> "shard", lo |-> sn.los[k],
                content |-> segs[sn.segs[k]].content, fresh |-> FALSE]

\* What replaces shard k, or an index without shards when it is 0.
Rebuilt(sn, k) == NewShards(Split(IF k = 0 THEN 0 ELSE sn.los[k], Gathered(sn, k)))

Compacted(sn, k) == IF k \in Touched(sn) THEN Rebuilt(sn, k) ELSE <<KeptShard(sn, k)>>

\* The shards after a compaction.
Shards(sn) ==
    IF sn.los = <<>> THEN Rebuilt(sn, 0)
    ELSE FlattenSeq([k \in DOMAIN sn.los |-> Compacted(sn, k)])

\* The first of them starts the path space; an empty one stands for none.
MutFromStart(pieces) == IF pieces = <<>> THEN NewShards(OneEmptyShard) ELSE pieces
FromStart(pieces) ==
    IF pieces = <<>> THEN NewShards(OneEmptyShard)
    ELSE [pieces EXCEPT ![1].lo = 0]

\* The segments a compaction replaces: the touched shards and every overlay.
MutReplaced(sn) == {sn.segs[i] : i \in (Len(sn.los) + 1)..Len(sn.segs)}
Replaced(sn) ==
    {sn.segs[i] : i \in (Touched(sn) \ {0}) \cup ((Len(sn.los) + 1)..Len(sn.segs))}

\* Compact, which holds a snapshot of its own.
Compact ==
    /\ Starts
    /\ LET sn == snaps[cur]
       IN /\ Len(sn.segs) > Len(sn.los)
          /\ Begin([Plan(View(segs, sn), Named(FromStart(Shards(sn)), cur + 1), Replaced(sn), sn.whole)
                     EXCEPT !.compacting = TRUE])
    /\ snaps' = [snaps EXCEPT ![cur].refs = @ + 1]

\* The new pieces, and the first of them that is not written yet.
Fresh == {i \in DOMAIN job.pieces : job.pieces[i].fresh}

NextPiece(i) ==
    /\ job.phase = "write"
    /\ i \in Fresh /\ i > job.written
    /\ \A j \in Fresh : j > job.written => i <= j

\* writeSegment.
WriteSegment(i) ==
    /\ NextPiece(i)
    /\ LET piece == job.pieces[i]
       IN /\ files' = Over(Only(piece.name, piece.content), files)
          /\ strays' = strays \ {piece.name}
    /\ job' = [job EXCEPT !.written = i]
    /\ UNCHANGED <<manifest, memory, held, bounds>>

NewNames == {job.pieces[i].name : i \in Fresh}
WrittenNames == {job.pieces[i].name : i \in {j \in Fresh : j <= job.written}}

\* The job ends without a publication: its segments are removed, and a compaction
\* gives its snapshot back.
Fails(left) ==
    LET rest == Without(files, WrittenNames)
        after == IF job.compacting THEN Release(snaps, segs, rest, cur)
                 ELSE [snaps |-> snaps, segs |-> segs, files |-> rest]
    IN /\ failures < MaxFailures
       /\ failures' = failures + 1
       /\ job' = Idle
       /\ snaps' = after.snaps
       /\ segs' = after.segs
       /\ files' = Over(left, after.files)
       /\ UNCHANGED <<up, cur, held, ends>>

\* A segment cannot be written; one whose directory sync failed is left behind.
WriteFails(i) ==
    /\ NextPiece(i)
    /\ LET piece == job.pieces[i]
       IN \/ Fails(<<>>) /\ UNCHANGED strays
          \/ Fails(Only(piece.name, piece.content)) /\ strays' = strays \cup {piece.name}
    /\ UNCHANGED manifest

EntriesOf(pieces) ==
    [i \in DOMAIN pieces |-> [name |-> pieces[i].name, kind |-> pieces[i].kind, lo |-> pieces[i].lo]]

\* What publishManifest writes: overlays are added, everything else replaces.
NewEntries ==
    IF job.stacks THEN Entries(snaps[cur]) \o EntriesOf(job.pieces)
    ELSE EntriesOf(job.pieces)

AllWritten == job.phase = "write" /\ \A i \in Fresh : i <= job.written

PublishManifest ==
    /\ AllWritten
    /\ manifest' = [gen |-> cur + 1, entries |-> NewEntries, whole |-> job.whole]
    /\ job' = [job EXCEPT !.phase = "swap"]
    /\ UNCHANGED <<files, strays, memory, held, bounds>>

\* The manifest cannot be written, or is in place when the directory sync fails.
ManifestFails ==
    /\ AllWritten
    /\ Fails(<<>>)
    /\ manifest' \in {manifest, [gen |-> cur + 1, entries |-> NewEntries, whole |-> FALSE]}
    /\ UNCHANGED strays

\* The snapshot the job publishes.
Published(open) ==
    IF job.stacks THEN WithOverlay(open, snaps[cur], cur + 1, job.pieces[1].name)
    ELSE NewSnapshot(open, cur + 1, NamesOf(job.pieces), LosOf(job.pieces), job.whole)

\* swap, under snapMu: what is replaced is retired before anyone can release it.
Swap ==
    /\ job.phase = "swap"
    /\ LET new == [n \in NewNames |-> Opened(files[n])]
           open == Retire(Over(new, segs), job.retire)
           sn == Published(open)
       IN /\ segs' = Retain(open, sn)
          /\ snaps' = Over(Only(sn.gen, sn), snaps)
          /\ cur' = sn.gen
    /\ job' = [job EXCEPT !.phase = "release"]
    /\ UNCHANGED <<disk, up, held, bounds>>

\* The store's reference to the previous snapshot, and the compaction's.
ReleasePrevious ==
    /\ job.phase = "release"
    /\ LET first == Release(snaps, segs, files, cur - 1)
           after == IF job.compacting THEN Release(first.snaps, first.segs, first.files, cur - 1)
                    ELSE first
       IN /\ snaps' = after.snaps
          /\ segs' = after.segs
          /\ files' = after.files
    /\ job' = Idle
    /\ UNCHANGED <<manifest, strays, up, cur, held, bounds>>

\* SetMeta writes the manifest of the current generation again.
SaveMeta ==
    /\ up /\ job = Idle /\ cur # 0
    /\ manifest' = [gen |-> cur, entries |-> Entries(snaps[cur]), whole |-> snaps[cur].whole]
    /\ UNCHANGED <<files, strays, memory, held, job, bounds>>

\* Close, between jobs: published files are unmapped and kept.
Close ==
    /\ up /\ job = Idle /\ ends < MaxEnds
    /\ LET names == Range(snaps[cur].segs)
           keeping == [n \in DOMAIN segs |->
                IF n \in names THEN [segs[n] EXCEPT !.keep = TRUE, !.retired = TRUE] ELSE segs[n]]
           after == Release(snaps, keeping, files, cur)
       IN /\ snaps' = after.snaps
          /\ segs' = after.segs
          /\ files' = after.files
    /\ up' = FALSE
    /\ ends' = ends + 1
    /\ cur' = 0
    /\ UNCHANGED <<manifest, strays, held, job, failures>>

\* The process dies: only the directory is left.
Crash ==
    /\ ends < MaxEnds
    /\ up' = FALSE
    /\ cur' = 0 /\ snaps' = <<>> /\ segs' = <<>>
    /\ held' = [r \in Readers |-> None]
    /\ job' = Idle
    /\ ends' = ends + 1
    /\ strays' = {}
    /\ UNCHANGED <<files, manifest, failures>>

StoreNext ==
    \/ OpenStore \/ Compact \/ Import
    \/ \E b \in Batches : Overlay(b)
    \/ \E b \in Builds : Base(b)
    \/ \E i \in Fresh : WriteSegment(i) \/ WriteFails(i)
    \/ PublishManifest \/ ManifestFails
    \/ Swap \/ ReleasePrevious \/ SaveMeta \/ Close \/ Crash
    \/ \E r \in Readers : Snapshot(r) \/ Done(r)

StoreSpec == StoreInit /\ [][StoreNext]_storeVars

-----------------------------------------------------------------------------
\* Generations somebody uses: the published one and the readers'.
InUse == {held[r] : r \in {q \in Readers : held[q] # None}} \cup (IF up THEN {cur} ELSE {})

SegmentsOf(gens) == UNION {Range(snaps[g].segs) : g \in gens}

\* snapshot.go:18 "released and the file removed once the segment is retired and no
\* snapshot uses it": a reader's segments stay mapped, whatever is published,
\* compacted, imported, failed or closed meanwhile.
SegmentsOutliveReaders ==
    InUse \subseteq DOMAIN snaps /\ SegmentsOf(InUse) \subseteq DOMAIN segs

\* ... and none outlives its last user: between jobs of an open store the snapshots
\* in memory, the mapped segments and the files are exactly those in use, and what
\* a failed write left behind.
NothingLeaks ==
    job = Idle =>
        /\ DOMAIN snaps = InUse
        /\ DOMAIN segs = SegmentsOf(InUse)
        /\ up => DOMAIN files = SegmentsOf(InUse) \cup strays

\* The two ways to read a snapshot agree (snapshot.go:218 Lookup, 283 Refs): every
\* path has one live record, the one Lookup finds, and nLive counts them.
OneLiveRecord ==
    \A g \in DOMAIN snaps :
        LET sn == snaps[g]
            refs == LiveRefs(segs, sn)
            found(p) == Lookup(segs, sn, p)
        IN sn.whole =>
            /\ sn.route.nLive = Cardinality(refs)
            /\ \A p \in Paths :
                 {segs[sn.segs[r[1]]].content[p] : r \in {q \in refs : q[2] = p}} = {found(p)} \ {Deleted}
            /\ \A r \in refs, q \in refs : r[2] = q[2] => r = q

-----------------------------------------------------------------------------
\* The store implements a published index.

\* What an Open finds in a directory with this manifest.
DurableOf(m, dir) ==
    IF ~m.whole THEN Lost
    ELSE Let(OpenSegs(m, dir),
             LAMBDA open : Let(Load(m, open), LAMBDA sn : View(open, sn)))

Durable == DurableOf(manifest, files)
CurrentIndex == IF up THEN View(segs, snaps[cur]) ELSE Durable
PendingIndex == IF job.phase \in {"write", "swap"} THEN job.want ELSE None
OpenIndexes == [r \in Readers |-> IF held[r] = None THEN None ELSE View(segs, snaps[held[r]])]

Index == INSTANCE PublishedIndex WITH
    current <- CurrentIndex, durable <- Durable, pending <- PendingIndex, views <- OpenIndexes

\* A batch changes the index as asked, a base and an import replace it, a
\* compaction changes nothing a reader can see; readers keep the index they opened;
\* a failure or crash before the manifest keeps the previous generation
\* (store_test.go:164) and one after it keeps the new one.
PublishesIndex == Index!Spec
=============================================================================
