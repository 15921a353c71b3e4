--------------------------- MODULE EvidenceLedger ---------------------------
(***************************************************************************)
(* The evidence ledger of one task (internal/execution/ledger.go), its     *)
(* file (ledger_store.go), and the calls that write it: file_write, shell  *)
(* checks in the foreground and in the background, the source scans around *)
(* them and the reopening of a persisted task (internal/orchestrator).     *)
(*                                                                         *)
(* A file's content is a number: 0 for a missing file, a fresh one for     *)
(* every change.  Event identities are "task:sequence", so the sequence    *)
(* stands for both.  Checks exit with code 0: a failing one is no evidence.*)
(***************************************************************************)
EXTENDS Integers, Sequences, SequencesExt, FiniteSets, FiniteSetsExt

CONSTANTS
    Files,       \* source files of the workspace
    Writers,     \* file_write calls
    Target,      \* the file each of them writes
    Checks,      \* shell calls that run a check
    Covers,      \* the files a check covers
    Lanes,       \* calls the task's agents have in flight at once
    Faults,      \* how an append may fail: nothing, torn, whole
    MaxChanges,  \* bound on changes to files
    MaxFaults,   \* bound on failing appends
    MaxCrashes   \* bound on crashes

ASSUME LedgerAssumption ==
    /\ Target \in [Writers -> Files]
    /\ Covers \in [Checks -> SUBSET Files]
    /\ IsFiniteSet(Files) /\ IsFiniteSet(Writers) /\ IsFiniteSet(Checks)
    /\ Lanes \in Nat \ {0}
    /\ Faults \subseteq {"nothing", "torn", "whole"}
    /\ {MaxChanges, MaxFaults, MaxCrashes} \subseteq Nat

VARIABLES
    disk,     \* content of each file
    ledger,   \* Ledger.events, the lines of its file, and whether the last is torn
    sources,  \* taskRuntime.sources: what the last scan saw
    opened,   \* events replayed when the ledger was opened
    up,       \* "up", "down", or "corrupt" when the ledger cannot be opened
    stage,    \* where each call is
    by,       \* which tool collects a check: shell, await, or observe
    started,  \* startedRevision of each check
    saw,      \* the contents a check ran on
    passed,   \* whether a check's result was accepted
    changes, failures, crashes

world == <<disk, changes>>
calls == <<stage, by, started, saw, passed>>
process == <<opened, up, crashes>>
vars == <<ledger, sources, failures, world, calls, process>>

Missing == 0
Unknown == -1
DeletedHash == -2
Original == 1
NoScan == [f \in Files |-> Unknown]

-----------------------------------------------------------------------------
\* Ledger.Record and the append to the file.

Garbled == [kind |-> "garbled"]

WriteOf(f, hash) == [kind |-> "write", file |-> f, hash |-> hash, seq |-> 0, rev |-> 0]
CheckOf(c, ok) == [kind |-> "check", check |-> c, passed |-> ok, seq |-> 0, rev |-> 0]

Revision(mem) == Max({0} \union {mem[i].rev : i \in DOMAIN mem})
NextSequence(mem) == IF mem = <<>> THEN 1 ELSE Last(mem).seq + 1

\* The identity, order and revision Record gives to the k-th of some drafts that are
\* recorded one after the other: writes, or a single check.
Assigned(mem, drafts, k) ==
    [drafts[k] EXCEPT !.seq = NextSequence(mem) + k - 1,
                      !.rev = Revision(mem) + (IF drafts[k].kind = "write" THEN k ELSE 0)]

Events(mem, drafts) == [k \in DOMAIN drafts |-> Assigned(mem, drafts, k)]

\* A line appended behind a torn one becomes part of it.
Lines(L, events) ==
    [k \in DOMAIN events |-> IF k = 1 /\ L.torn THEN Garbled ELSE events[k]]

Persisted(L, events) ==
    [L EXCEPT !.lines = @ \o Lines(L, events), !.torn = @ /\ events = <<>>]

Recorded(L, drafts) ==
    LET events == Events(L.mem, drafts)
    IN  [Persisted(L, events) EXCEPT !.mem = @ \o events]

\* The append of the k-th draft fails: no byte, a part of the line, or all of it
\* and no sync.
Rejected(L, drafts, k, how) ==
    LET before == Recorded(L, SubSeq(drafts, 1, k - 1))
    IN  CASE how = "nothing" -> before
          [] how = "torn" -> [before EXCEPT !.torn = TRUE]
          [] how = "whole" -> Persisted(before, <<Assigned(L.mem, drafts, k)>>)

\* How recording the drafts one after the other can end: the first error ends it.
Outcomes(L, drafts) ==
    {[ledger |-> Recorded(L, drafts), ok |-> TRUE]} \union
    {[ledger |-> Rejected(L, drafts, k, how), ok |-> FALSE]
       : k \in DOMAIN drafts, how \in IF failures < MaxFaults THEN Faults ELSE {}}

Becomes(o) ==
    /\ ledger' = o.ledger
    /\ failures' = IF o.ok THEN failures ELSE failures + 1

-----------------------------------------------------------------------------
\* Reduce: which events it accepts, and which verifications are current.

Readable(lines) ==
    /\ Garbled \notin Range(lines)
    /\ \A i, j \in DOMAIN lines : i < j => lines[i].seq < lines[j].seq

WritesTo(mem, files) == {i \in DOMAIN mem : mem[i].kind = "write" /\ mem[i].file \in files}

Current(mem) ==
    {i \in DOMAIN mem :
        /\ mem[i].kind = "check"
        /\ mem[i].passed
        /\ \A j \in WritesTo(mem, Covers[mem[i].check]) :
              j < i /\ (mem[i].rev = 0 \/ mem[j].rev <= mem[i].rev)}

-----------------------------------------------------------------------------
\* refreshSourceChanges: one write for each file that is not as last seen.

ScanHash(content) == IF content = Missing THEN DeletedHash ELSE content

Changed == IF sources = NoScan THEN {} ELSE {f \in Files : disk[f] # sources[f]}

\* How a scan can end.
Scans == Outcomes(ledger, SetToSeq({WriteOf(f, ScanHash(disk[f])) : f \in Changed}))

Scanned(o, enable) ==
    /\ Becomes(o)
    /\ sources' = IF o.ok /\ (enable \/ sources # NoScan) THEN disk ELSE sources

InFlight ==
    {x \in Writers \union Checks : stage[x] \in {"written", "running", "scanned", "judged"}}

Free == up = "up" /\ Cardinality(InFlight) < Lanes

Init ==
    /\ disk = [f \in Files |-> Original]
    /\ ledger = [mem |-> <<>>, lines |-> <<>>, torn |-> FALSE]
    /\ sources = NoScan
    /\ opened = 0
    /\ up = "up"
    /\ stage = [x \in Writers \union Checks |-> "idle"]
    /\ by = [c \in Checks |-> "shell"]
    /\ started = [c \in Checks |-> 0]
    /\ saw = [c \in Checks |-> NoScan]
    /\ passed = [c \in Checks |-> FALSE]
    /\ changes = 0 /\ failures = 0 /\ crashes = 0

Goto(x, to) == stage' = [stage EXCEPT ![x] = to]

-----------------------------------------------------------------------------
\* The workspace changes: an editor, a generator, a command still running.

Change(f, content) ==
    /\ changes < MaxChanges /\ disk[f] # Missing
    /\ disk' = [disk EXCEPT ![f] = content]
    /\ changes' = changes + 1

Edit(f) ==
    /\ Change(f, changes + 2)
    /\ UNCHANGED <<ledger, sources, failures, calls, process>>

\* A deleted file stays deleted: no content ever comes back.
Delete(f) ==
    /\ Change(f, Missing)
    /\ UNCHANGED <<ledger, sources, failures, calls, process>>

\* file_write: the file, then what the wrapper finds in it.
WriteFile(w) ==
    /\ stage[w] = "idle" /\ Free
    /\ Change(Target[w], changes + 2)
    /\ Goto(w, "written")
    /\ UNCHANGED <<ledger, sources, failures, by, started, saw, passed, process>>

RecordWrite(w) ==
    /\ stage[w] = "written" /\ up = "up"
    /\ LET content == disk[Target[w]]
           draft == WriteOf(Target[w], content)
       IN  \E o \in Outcomes(ledger, IF content = Missing THEN <<>> ELSE <<draft>>) : Becomes(o)
    /\ Goto(w, "done")
    /\ UNCHANGED <<sources, world, by, started, saw, passed, process>>

\* A shell call scans, notes the revision, and starts its command.
Begin(c) ==
    /\ stage[c] = "idle" /\ Free
    /\ \E o \in Scans :
          /\ Scanned(o, TRUE)
          /\ Goto(c, IF o.ok THEN "running" ELSE "done")
          /\ started' = [started EXCEPT ![c] = IF o.ok THEN Revision(o.ledger.mem) ELSE 0]
    /\ UNCHANGED <<world, by, saw, passed, process>>

\* The command is still running when the shell's wait ends: trackBackground.
Detach(c) ==
    /\ stage[c] = "running" /\ up = "up"
    /\ Goto(c, "background")
    /\ UNCHANGED <<ledger, sources, failures, world, by, started, saw, passed, process>>

\* The command reads its inputs, passes and exits.
Exits(c) ==
    /\ stage[c] \in {"running", "background"} /\ up = "up"
    /\ saw[c] = NoScan
    /\ saw' = [saw EXCEPT ![c] = disk]
    /\ UNCHANGED <<ledger, sources, failures, world, stage, by, started, passed, process>>

\* The scan after the exit.  A failing one ends a foreground call without evidence.
ExitScan(c) ==
    /\ stage[c] = "running" /\ up = "up" /\ saw[c] # NoScan
    /\ \E o \in Scans :
          Scanned(o, FALSE) /\ Goto(c, IF o.ok THEN "scanned" ELSE "done")
    /\ UNCHANGED <<world, by, started, saw, passed, process>>

\* await_shell, or an assessment (reconcileBackgrounds), finds the command exited:
\* a scan, then finishBackground.
Collect(c, tool) ==
    /\ stage[c] = "background" /\ Free /\ saw[c] # NoScan
    /\ \E o \in Scans :
          Scanned(o, FALSE) /\ Goto(c, IF o.ok THEN "scanned" ELSE "background")
    /\ by' = [by EXCEPT ![c] = tool]
    /\ UNCHANGED <<world, started, saw, passed, process>>

\* kill_shell forgets the call; its scan still observes late writes.
Kill(c) ==
    /\ stage[c] = "background" /\ Free
    /\ \E o \in Scans :
          Scanned(o, FALSE) /\ Goto(c, IF o.ok THEN "done" ELSE "background")
    /\ UNCHANGED <<world, by, started, saw, passed, process>>

\* No overlapping write was recorded since the command started.
UndisturbedAlways(c) == stage[c] = "scanned"
Undisturbed(c) == \A i \in WritesTo(ledger.mem, Covers[c]) : ledger.mem[i].rev <= started[c]

\* The verdict is made on one state of the ledger and recorded in another.
Judge(c) ==
    /\ stage[c] = "scanned" /\ up = "up"
    /\ passed' = [passed EXCEPT ![c] = Undisturbed(c)]
    /\ Goto(c, "judged")
    /\ UNCHANGED <<ledger, sources, failures, world, by, started, saw, process>>

\* The verification is recorded; only an assessment tracks the call again on an error.
RecordCheck(c) ==
    /\ stage[c] = "judged" /\ up = "up"
    /\ \E o \in Outcomes(ledger, <<CheckOf(c, passed[c])>>) :
          /\ Becomes(o)
          /\ Goto(c, IF o.ok \/ by[c] # "observe" THEN "done" ELSE "background")
    /\ UNCHANGED <<sources, world, by, started, saw, passed, process>>

\* An assessment of the task (taskRuntime.snapshot) scans first.
Assess ==
    /\ Free /\ Changed # {}
    /\ \E o \in Scans : Scanned(o, FALSE)
    /\ UNCHANGED <<world, calls, process>>

-----------------------------------------------------------------------------
\* The process dies, perhaps inside an append, and the task is opened again.

Pending ==
    {WriteOf(Target[w], disk[Target[w]]) :
        w \in {v \in Writers : stage[v] = "written" /\ disk[Target[v]] # Missing}}
    \union {CheckOf(c, passed[c]) : c \in {d \in Checks : stage[d] = "judged"}}

Crash ==
    /\ up = "up" /\ crashes < MaxCrashes
    /\ \/ ledger' = [ledger EXCEPT !.mem = <<>>]
       \/ \E draft \in Pending, how \in {"torn", "whole"} :
             ledger' = [Rejected(ledger, <<draft>>, 1, how) EXCEPT !.mem = <<>>]
    /\ up' = "down"
    /\ crashes' = crashes + 1
    /\ sources' = NoScan
    /\ stage' = [x \in DOMAIN stage |-> IF stage[x] = "idle" THEN "idle" ELSE "done"]
    /\ UNCHANGED <<opened, failures, world, by, started, saw, passed>>

\* reconcileExternalChanges: files the task wrote that are no longer as last recorded.
LastHash(mem, f) == mem[Max(WritesTo(mem, {f}))].hash

DivergedPresent(mem) ==
    {f \in Files : WritesTo(mem, {f}) # {} /\ disk[f] \notin {Missing, LastHash(mem, f)}}
Diverged(mem) == {f \in Files : WritesTo(mem, {f}) # {} /\ LastHash(mem, f) # disk[f]}

\* Load drops a torn tail before anything is appended.
LoadedTorn(L) == [mem |-> IF Readable(L.lines) THEN L.lines ELSE <<>>,
                  lines |-> L.lines, torn |-> L.torn]
Loaded(L) == [mem |-> IF Readable(L.lines) THEN L.lines ELSE <<>>,
              lines |-> L.lines, torn |-> FALSE]

Open ==
    /\ up = "down"
    /\ LET L == Loaded(ledger)
           drafts == SetToSeq({WriteOf(f, disk[f]) : f \in Diverged(L.mem)})
       IN  \E o \in Outcomes(L, drafts) :
              /\ ledger' = IF o.ok THEN o.ledger ELSE [o.ledger EXCEPT !.mem = <<>>]
              /\ failures' = IF o.ok THEN failures ELSE failures + 1
              /\ up' = IF ~Readable(L.lines) THEN "corrupt" ELSE IF o.ok THEN "up" ELSE "down"
              /\ opened' = IF o.ok THEN Len(L.mem) ELSE opened
    /\ UNCHANGED <<sources, world, calls, crashes>>

Next ==
    \/ \E f \in Files : Edit(f) \/ Delete(f)
    \/ \E w \in Writers : WriteFile(w) \/ RecordWrite(w)
    \/ \E c \in Checks :
          \/ Begin(c) \/ Detach(c) \/ Exits(c) \/ ExitScan(c) \/ Kill(c)
          \/ \E tool \in {"await", "observe"} : Collect(c, tool)
          \/ Judge(c) \/ RecordCheck(c)
    \/ Assess
    \/ Crash
    \/ Open

Spec == Init /\ [][Next]_vars

-----------------------------------------------------------------------------
\* Evidence a task reports as current holds of the files as they are: since the
\* check read its inputs they did not change, except for a change that the next
\* scan will find and record (refreshSourceChanges, recordCommandEvidenceAt).
\* Evidence of an earlier process is left to ReopenedEvidenceIsFresh.
EvidenceIsFresh ==
    \A i \in Current(ledger.mem) : i > opened =>
        LET c == ledger.mem[i].check
        IN  \A f \in Covers[c] : saw[c][f] = disk[f] \/ f \in Changed

\* The file ends in something that memory does not hold.
Leftover == up = "up" /\ (ledger.torn \/ ledger.lines # ledger.mem)

\* "A sink error rejects the event, so persisted history is never behind the in-memory
\* view" (ledger_store.go:20-22) holds of every file that can be read: memory is its
\* beginning, and the file has at most one event more, which was rejected.  It does not
\* hold of every file.  An append that fails after its first byte leaves something behind,
\* which no crash and no opening does; whatever this process appends next makes the
\* history unreadable.  Nothing else ever does (AppendEvent, Load).
DurableHistory ==
    /\ [](up = "up" /\ Readable(ledger.lines) =>
            IsPrefix(ledger.mem, ledger.lines) /\ Len(ledger.lines) <= Len(ledger.mem) + 1)
    /\ [][/\ Leftover' => Leftover \/ failures' > failures
          /\ Readable(ledger.lines) /\ ~Readable(ledger'.lines) => Leftover]_vars

\* When a task is opened again, evidence that is still current holds of every
\* covered file that the task had written (openTaskRuntime).
ReopenedEvidenceIsFresh ==
    [][up = "down" /\ up' = "up" =>
        \A i \in Current(ledger'.mem) :
            LET c == ledger'.mem[i].check
            IN  \A f \in Covers[c] :
                    WritesTo(ledger'.mem, {f}) # {} => saw[c][f] = disk[f]]_vars
=============================================================================
