------------------------------- MODULE McpPool -------------------------------
(***************************************************************************)
(* SharedClientFactory (mcpdiscover/pool.go): the agents' leases of the    *)
(* transport to one MCP server, for one configuration; entries of other    *)
(* configurations share nothing with it.  A generation is one              *)
(* sharedClientEntry: it lives from its first lease to the Close of its    *)
(* last one, and the next may be leased while it shuts down.               *)
(*                                                                         *)
(* All use of the transport happens under the generation's gate, a channel *)
(* of capacity one.  The factory's mutex is only held for single steps.    *)
(***************************************************************************)
EXTENDS Naturals, FiniteSets

CONSTANTS
  Leases,        \* what NewClient returns, one after another
  Callers,       \* goroutines that call Connect, ListTools or CallTool of a lease
  MaxGenerations \* bound: generations; as many as leases is no bound

ASSUME PoolAssumption ==
  /\ IsFiniteSet(Leases)
  /\ MaxGenerations \in Nat

Generations == 1..MaxGenerations

VARIABLES
  made,   \* generations so far
  entry,  \* p.entries[key], 0 for none
  refs,   \* refs[g]
  prior,  \* prior[g]: the generation whose done g waits for, 0 for none
  done,   \* generations whose done is closed
  busy,   \* generations whose gate is taken
  conn,   \* conn[g]: the transport.  It exists from the factory's call to the end of its
          \*   Close, e.client # nil while it is "made" or "connected"
  tools,  \* generations whose e.tools is set
  lease,  \* lease[l]: its generation, and how far its Close is
  caller  \* caller[c]: the lease it uses, the operation and how far it is

vars == <<made, entry, refs, prior, done, busy, conn, tools, lease, caller>>

NoLease == [gen |-> 0, stage |-> "unused"]
Idle    == [lease |-> "none", op |-> "connect", at |-> "idle"]
Operations == {"connect", "list", "call"}

Init ==
  /\ made = 0 /\ entry = 0
  /\ refs = [g \in Generations |-> 0]
  /\ prior = [g \in Generations |-> 0]
  /\ done = {} /\ busy = {} /\ tools = {}
  /\ conn = [g \in Generations |-> "none"]
  /\ lease = [l \in Leases |-> NoLease]
  /\ caller = [c \in Callers |-> Idle]

-----------------------------------------------------------------------------
Gen(l) == lease[l].gen
Released(l) == lease[l].stage \notin {"unused", "open"}     \* l.ctx is cancelled
MayStart(g) == prior[g] = 0 \/ prior[g] \in done              \* <-e.prior returns

(* NewClient *)
NewClient(l) ==
  /\ lease[l] = NoLease
  /\ IF entry = 0 \/ refs[entry] = 0
     THEN /\ made < MaxGenerations
          /\ made' = made + 1
          /\ entry' = made + 1
          /\ prior' = [prior EXCEPT ![made + 1] = entry]
     ELSE UNCHANGED <<made, entry, prior>>
  /\ refs' = [refs EXCEPT ![entry'] = @ + 1]
  /\ lease' = [lease EXCEPT ![l] = [gen |-> entry', stage |-> "open"]]
  /\ UNCHANGED <<done, busy, conn, tools, caller>>

-----------------------------------------------------------------------------
(* Connect, ListTools and CallTool.  The caller's own context may end at any time; that of *)
(* the lease is cancelled by its Close, which a running operation may notice late.          *)

GenOf(c) == Gen(caller[c].lease)
At(c, at) == caller[c].at = at
Goes(c, at) == caller' = [caller EXCEPT ![c].at = at]
Returns(c) == caller' = [caller EXCEPT ![c] = Idle]

\* On a released lease lock fails at once.
Begin(c, l, op) ==
  /\ At(c, "idle")
  /\ lease[l].stage = "open"
  /\ caller' = [caller EXCEPT ![c] = [lease |-> l, op |-> op, at |-> "lock"]]
  /\ UNCHANGED <<made, entry, refs, prior, done, busy, conn, tools, lease>>

\* lock returns the error of a context; or nobody is connected that could be called; or
\* the factory has no client to give.
GoesAway(c) ==
  /\ At(c, "lock")
  /\ Returns(c)
  /\ UNCHANGED <<made, entry, refs, prior, done, busy, conn, tools, lease>>

\* "A released waiter must not recreate a transport after final shutdown won the gate."
MayEnterUnchecked(c) == MayStart(GenOf(c)) /\ GenOf(c) \notin busy
MayEnter(c) == ~Released(caller[c].lease) /\ MayStart(GenOf(c)) /\ GenOf(c) \notin busy

\* The gate is taken, and the operation is at its first input or output.
Enter(c) ==
  LET g == GenOf(c)
  IN  /\ At(c, "lock")
      /\ MayEnter(c)
      /\ busy' = busy \union {g}
      /\ \/ /\ caller[c].op \in {"connect", "list"} /\ conn[g] = "none"
            /\ conn' = [conn EXCEPT ![g] = "made"]
            /\ Goes(c, "connect")
         \/ /\ caller[c].op = "list" /\ conn[g] = "connected" /\ g \notin tools
            /\ Goes(c, "list")
            /\ UNCHANGED conn
         \/ /\ caller[c].op = "call" /\ conn[g] = "connected"
            /\ Goes(c, "call")
            /\ UNCHANGED conn
      /\ UNCHANGED <<made, entry, refs, prior, done, tools, lease>>

\* There is nothing to do but to return what is known.
EnterServed(c) ==
  LET g == GenOf(c)
  IN  /\ At(c, "lock")
      /\ MayEnter(c)
      /\ conn[g] = "connected"
      /\ caller[c].op = "connect" \/ (caller[c].op = "list" /\ g \in tools)
      /\ Returns(c)
      /\ UNCHANGED <<made, entry, refs, prior, done, busy, conn, tools, lease>>

Leave(c) == busy' = busy \ {GenOf(c)} /\ Returns(c)

Connected(c) ==
  /\ At(c, "connect")
  /\ conn' = [conn EXCEPT ![GenOf(c)] = "connected"]
  /\ IF caller[c].op = "list" THEN Goes(c, "list") /\ UNCHANGED busy ELSE Leave(c)
  /\ UNCHANGED <<made, entry, refs, prior, done, tools, lease>>

Listed(c) ==
  /\ At(c, "list")
  /\ tools' = tools \union {GenOf(c)}
  /\ Leave(c)
  /\ UNCHANGED <<made, entry, refs, prior, done, conn, lease>>

\* With a result or an error; a failing call closes nothing.
Called(c) ==
  /\ At(c, "call")
  /\ Leave(c)
  /\ UNCHANGED <<made, entry, refs, prior, done, conn, tools, lease>>

\* resetLocked, after a failing Connect or ListTools: the client is forgotten, then closed.
Fail(c) ==
  LET g == GenOf(c)
  IN  /\ At(c, "connect") \/ At(c, "list")
      /\ conn' = [conn EXCEPT ![g] = "closing"]
      /\ tools' = tools \ {g}
      /\ Goes(c, "reset")
      /\ UNCHANGED <<made, entry, refs, prior, done, busy, lease>>

Reset(c) ==
  /\ At(c, "reset")
  /\ conn' = [conn EXCEPT ![GenOf(c)] = "none"]
  /\ Leave(c)
  /\ UNCHANGED <<made, entry, refs, prior, done, tools, lease>>

-----------------------------------------------------------------------------
(* Close *)

Steps(l, stage) == lease' = [lease EXCEPT ![l].stage = stage]

\* Whoever drops the last reference shuts the generation down.
Release(l) ==
  LET g == Gen(l)
  IN  /\ lease[l].stage = "open"
      /\ refs' = [refs EXCEPT ![g] = @ - 1]
      /\ Steps(l, IF refs[g] = 1 THEN "leaving" ELSE "closed")
      /\ UNCHANGED <<made, entry, prior, done, busy, conn, tools, caller>>

\* The gate is taken after the prior generation's shutdown and any operation under way.
Shut(l) ==
  LET g == Gen(l)
  IN  /\ lease[l].stage = "leaving"
      /\ MayStart(g)
      /\ g \notin busy
      /\ busy' = busy \union {g}
      /\ conn' = [conn EXCEPT ![g] = IF @ = "none" THEN "none" ELSE "closing"]
      /\ tools' = tools \ {g}
      /\ Steps(l, "closing")
      /\ UNCHANGED <<made, entry, refs, prior, done, caller>>

\* client.Close has returned: done is closed, with or without a client to close.
FinishUsed(l) ==
  LET g == Gen(l)
  IN  /\ lease[l].stage = "closing"
      /\ conn' = [conn EXCEPT ![g] = "none"]
      /\ done' = IF conn[g] = "none" THEN done ELSE done \union {g}
      /\ busy' = busy \ {g}
      /\ Steps(l, "forgetting")
      /\ UNCHANGED <<made, entry, refs, prior, tools, caller>>
Finish(l) ==
  LET g == Gen(l)
  IN  /\ lease[l].stage = "closing"
      /\ conn' = [conn EXCEPT ![g] = "none"]
      /\ done' = done \union {g}
      /\ busy' = busy \ {g}
      /\ Steps(l, "forgetting")
      /\ UNCHANGED <<made, entry, refs, prior, tools, caller>>

Forget(l) ==
  /\ lease[l].stage = "forgetting"
  /\ entry' = IF entry = Gen(l) THEN 0 ELSE entry
  /\ Steps(l, "closed")
  /\ UNCHANGED <<made, refs, prior, done, busy, conn, tools, caller>>

-----------------------------------------------------------------------------
Works(c)  == Connected(c) \/ Listed(c) \/ Called(c) \/ Fail(c)
Closes(l) == Shut(l) \/ Finish(l) \/ Forget(l)

Next ==
  \/ \E l \in Leases : NewClient(l) \/ Release(l) \/ Closes(l)
  \/ \E c \in Callers :
       \/ \E l \in Leases, op \in Operations : Begin(c, l, op)
       \/ GoesAway(c) \/ Enter(c) \/ EnterServed(c) \/ Works(c) \/ Reset(c)

\* Whoever waits for a channel gets it when it stays ready; what uses the transport ends
\* when its context is cancelled, as NewSharedClientFactory demands; its Close returns.
\* Nothing is assumed of an operation whose lease is not released.
Fairness ==
  /\ \A l \in Leases : WF_vars(Closes(l))
  /\ \A c \in Callers :
       /\ WF_vars(~At(c, "idle") /\ Released(caller[c].lease) /\ (GoesAway(c) \/ Works(c)))
       /\ WF_vars(Reset(c))

Spec == Init /\ [][Next]_vars
FairSpec == Spec /\ Fairness

-----------------------------------------------------------------------------
(* Properties *)

\* The tables of the pool keep their types.
TypeOK ==
  /\ made \in 0..MaxGenerations /\ entry \in {0, made}
  /\ refs \in [Generations -> Nat]
  /\ prior \in [Generations -> 0..MaxGenerations]
  /\ done \subseteq Generations /\ busy \subseteq Generations /\ tools \subseteq Generations
  /\ conn \in [Generations -> {"none", "made", "connected", "closing"}]
  /\ lease \in [Leases -> [gen : 0..made,
                           stage : {"unused", "open", "leaving", "closing", "forgetting", "closed"}]]
  /\ caller \in [Callers -> [lease : Leases, op : Operations,
                             at : {"lock", "connect", "list", "call", "reset"}] \union {Idle}]

\* A generation "must not start a replacement process until that shutdown has finished",
\* and has none after its own: one server process exists at a time, for some lease.
TransportsDoNotOverlap ==
  \A g \in Generations : conn[g] # "none" =>
    g \notin done /\ \A h \in 1..(g - 1) : h \in done

\* "Close waits for an active operation to exit before touching the underlying client":
\* neither a Close nor another caller takes a transport away from an operation.
CallsKeepTheirTransport ==
  \A c \in Callers :
    /\ At(c, "connect") => conn[GenOf(c)] = "made"
    /\ At(c, "list") \/ At(c, "call") => conn[GenOf(c)] = "connected"

\* Every Close returns, and every operation of the released lease with it, whatever the
\* other leases, the generations before it and their servers do.
ReleasesEnd ==
  \A l \in Leases : Released(l) ~>
    lease[l].stage = "closed" /\ \A c \in Callers : caller[c].lease # l
=============================================================================
