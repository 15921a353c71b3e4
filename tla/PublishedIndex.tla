--------------------------- MODULE PublishedIndex ---------------------------
(***************************************************************************)
(* What a workspace index promises, without segments, overlays, reference  *)
(* counts or files.  One writer replaces the index; readers keep the index *)
(* they opened; the next process continues from what is durable, which is  *)
(* the published index or the one that was about to be.                    *)
(***************************************************************************)
CONSTANTS
    Readers,
    Indexes,   \* what an index may hold
    Empty,     \* the index that holds nothing
    Lost,      \* what a failed publication may leave behind: nothing is promised of it
    None

VARIABLES
    current,   \* the published index
    durable,   \* the index the next process opens
    pending,   \* the index being published, None when there is none
    views      \* views[r]: the index reader r has open, None when it has none

vars == <<current, durable, pending, views>>

Init ==
    /\ current = Empty
    /\ durable = Empty
    /\ pending = None
    /\ views = [r \in Readers |-> None]

\* The writer sets out to publish an index.
Begin ==
    /\ pending = None
    /\ pending' \in Indexes \cup {Lost}
    /\ UNCHANGED <<current, durable, views>>

Persist ==
    /\ pending # None
    /\ durable' = pending
    /\ UNCHANGED <<current, pending, views>>

\* Readers see an index only once it is durable.
Adopt ==
    /\ pending # None
    /\ pending' = None
    /\ durable = pending
    /\ current' = pending
    /\ UNCHANGED <<durable, views>>

\* A publication fails; what it was replacing stays published.
Abandon ==
    /\ pending # None
    /\ pending' = None
    /\ durable' \in {durable, Lost}
    /\ UNCHANGED <<current, views>>

\* The published index is written down again.
Rewrite ==
    /\ pending = None
    /\ durable' = current
    /\ UNCHANGED <<current, pending, views>>

Acquire(r) ==
    /\ views[r] = None
    /\ views' = [views EXCEPT ![r] = current]
    /\ UNCHANGED <<current, durable, pending>>

Release(r) ==
    /\ views[r] # None
    /\ views' = [views EXCEPT ![r] = None]
    /\ UNCHANGED <<current, durable, pending>>

\* The process stops between publications; its readers may finish.
Stop ==
    /\ pending = None
    /\ current' = durable
    /\ UNCHANGED <<durable, pending, views>>

Crash ==
    /\ current' = durable
    /\ pending' = None
    /\ views' = [r \in Readers |-> None]
    /\ UNCHANGED durable

\* What cannot be opened is discarded.
Discard ==
    /\ durable = Lost
    /\ views = [r \in Readers |-> None]
    /\ current' = Empty
    /\ durable' = Empty
    /\ UNCHANGED <<pending, views>>

Next ==
    \/ Begin
    \/ Persist \/ Adopt \/ Abandon \/ Rewrite \/ Stop \/ Crash \/ Discard
    \/ \E r \in Readers : Acquire(r) \/ Release(r)

Spec == Init /\ [][Next]_vars
=============================================================================
