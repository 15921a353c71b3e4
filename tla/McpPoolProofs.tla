---------------------------- MODULE McpPoolProofs ----------------------------
(***************************************************************************)
(* Theorems about McpPool, for any leases, callers and generations.  A     *)
(* generation is only started when all earlier ones are shut down, because *)
(* a new one is made when the entry is gone or has lost its last lease,    *)
(* and then waits for it; and it is not started again after its shutdown,  *)
(* because whoever may enter the gate holds a reference.                   *)
(***************************************************************************)
EXTENDS McpPool, FiniteSetTheorems, TLAPS

Inside == {"connect", "list", "call", "reset"}

OpenLeases(g) == {l \in Leases : lease[l].stage = "open" /\ Gen(l) = g}

\* Leases that shut their generation down, or are about to.
Shutting == {"leaving", "closing"}

\* A lease that was taken has a generation, and only such leases are used.
Leased ==
  /\ \A l \in Leases : lease[l].stage = "unused" \/ Gen(l) \in 1..made
  /\ \A c \in Callers : caller[c] # Idle => lease[caller[c].lease].stage # "unused"

\* A generation comes after one that is shut down, or waits for the one before it.
Succession ==
  /\ entry = 0 => \A h \in 1..made : h \in done
  /\ \A g \in 1..made :
       IF prior[g] = 0 THEN \A h \in 1..(g - 1) : h \in done ELSE prior[g] = g - 1
  /\ \A g \in done : g \in 1..made /\ refs[g] = 0 /\ \A h \in 1..(g - 1) : h \in done

References == \A g \in Generations : refs[g] = Cardinality(OpenLeases(g))

\* One lease shuts a generation down, when it has no other.
OneShutsDown ==
  /\ \A l \in Leases : lease[l].stage \in Shutting => refs[Gen(l)] = 0 /\ Gen(l) \notin done
  /\ \A l \in Leases : lease[l].stage = "closing" => \A h \in 1..(Gen(l) - 1) : h \in done
  /\ \A l \in Leases : lease[l].stage = "forgetting" => Gen(l) \in done
  /\ \A l, k \in Leases :
       lease[l].stage \in Shutting /\ lease[k].stage \in Shutting /\ Gen(l) = Gen(k) => l = k

\* The gate lets one in.
Exclusion ==
  /\ \A c \in Callers : caller[c].at \in Inside =>
       /\ GenOf(c) \in busy
       /\ \A d \in Callers : caller[d].at \in Inside /\ GenOf(d) = GenOf(c) => d = c
       /\ \A l \in Leases : lease[l].stage = "closing" => Gen(l) # GenOf(c)
  /\ \A l \in Leases : lease[l].stage = "closing" => Gen(l) \in busy

IInv ==
  /\ TypeOK /\ Leased /\ Succession /\ References /\ OneShutsDown /\ Exclusion
  /\ TransportsDoNotOverlap /\ CallsKeepTheirTransport

-----------------------------------------------------------------------------
\* Counting leases.

LEMMA LeasesFinite ==
  ASSUME NEW S \in SUBSET Leases
  PROVE  /\ IsFiniteSet(S) /\ Cardinality(S) \in Nat
         /\ Cardinality(S) = 0 <=> S = {}
BY FS_Subset, FS_CardinalityType, FS_EmptySet, PoolAssumption DEF PoolAssumption

LEMMA OneMore ==
  ASSUME NEW S \in SUBSET Leases, NEW l \in Leases, l \notin S
  PROVE  Cardinality(S \union {l}) = Cardinality(S) + 1
BY LeasesFinite, FS_AddElement

LEMMA OneLess ==
  ASSUME NEW S \in SUBSET Leases, NEW l \in S
  PROVE  Cardinality(S \ {l}) = Cardinality(S) - 1
<1>1. Cardinality(S \ {l}) \in Nat /\ Cardinality(S) \in Nat
  BY LeasesFinite
<1>2. (S \ {l}) \union {l} = S
  OBVIOUS
<1>3. Cardinality((S \ {l}) \union {l}) = Cardinality(S \ {l}) + 1
  BY OneMore
<1>4. Cardinality(S) = Cardinality(S \ {l}) + 1
  BY <1>2, <1>3, Zenon
<1> QED
  BY <1>1, <1>4

\* A generation that has an open lease has a reference, so it is not shut down.
LEMMA OpenIsCounted ==
  ASSUME IInv, NEW l \in Leases, lease[l].stage = "open"
  PROVE  refs[Gen(l)] # 0 /\ Gen(l) \in 1..made /\ Gen(l) \notin done
<1>1. Gen(l) \in 1..made /\ Gen(l) \in Generations
  BY PoolAssumption DEF IInv, Leased, TypeOK, Gen, Generations, PoolAssumption
<1>2. l \in OpenLeases(Gen(l)) /\ OpenLeases(Gen(l)) \in SUBSET Leases
  BY DEF OpenLeases
<1>3. refs[Gen(l)] # 0
  BY <1>1, <1>2, LeasesFinite DEF IInv, References
<1> QED
  BY <1>1, <1>3 DEF IInv, Succession

\* Who does not wait for the generation before has none running before it.
LEMMA EarlierDone ==
  ASSUME IInv, NEW g \in 1..made, MayStart(g)
  PROVE  \A h \in 1..(g - 1) : h \in done
<1>1. CASE prior[g] = 0
  BY <1>1 DEF IInv, Succession
<1>2. CASE prior[g] # 0
  <2>1. prior[g] = g - 1 /\ g - 1 \in done
    BY <1>2 DEF IInv, Succession, MayStart
  <2>2. g - 1 \in Nat /\ \A h \in 1..((g - 1) - 1) : h \in done
    BY <2>1 DEF IInv, Succession
  <2> QED
    BY <2>1, <2>2
<1> QED
  BY <1>1, <1>2

-----------------------------------------------------------------------------
LEMMA InitHolds == Init => IInv
<1> SUFFICES ASSUME Init PROVE IInv
  OBVIOUS
<1>1. TypeOK
  BY PoolAssumption DEF Init, TypeOK, NoLease, Idle, Generations, PoolAssumption
<1>2. Leased
  BY DEF Init, Leased, NoLease, Idle
<1>3. Succession
  BY PoolAssumption DEF Init, Succession, PoolAssumption
<1>4. References
  <2> SUFFICES ASSUME NEW g \in Generations PROVE refs[g] = Cardinality(OpenLeases(g))
    BY DEF References
  <2>1. OpenLeases(g) = {}
    BY DEF Init, OpenLeases, NoLease
  <2> QED
    BY <2>1, FS_EmptySet DEF Init
<1>5. OneShutsDown /\ Exclusion
  BY DEF Init, OneShutsDown, Exclusion, Shutting, Inside, NoLease, Idle
<1>6. TransportsDoNotOverlap /\ CallsKeepTheirTransport
  BY DEF Init, TransportsDoNotOverlap, CallsKeepTheirTransport, At, Idle
<1> QED
  BY <1>1, <1>2, <1>3, <1>4, <1>5, <1>6 DEF IInv

-----------------------------------------------------------------------------
(* Steps of the leases *)

LEMMA NewClientStep ==
  ASSUME IInv, NEW l \in Leases, NewClient(l)
  PROVE  IInv'
<1> USE DEF IInv
<1>g. entry' \in Generations /\ entry' \in 1..made' /\ made' \in 0..MaxGenerations /\ made <= made'
  BY PoolAssumption DEF NewClient, TypeOK, Generations, PoolAssumption
<1>l. lease' = [lease EXCEPT ![l] = [gen |-> entry', stage |-> "open"]] /\ lease[l].stage = "unused"
  BY DEF NewClient, NoLease
<1>n. /\ lease'[l].stage = "open" /\ lease'[l].gen = entry'
      /\ \A k \in Leases : k # l => lease'[k] = lease[k]
  BY <1>l DEF TypeOK
<1>1. TypeOK'
  <2>1. lease' \in [Leases -> [gen : 0..made', stage : {"unused", "open", "leaving", "closing", "forgetting", "closed"}]]
    BY <1>g, <1>l, PoolAssumption DEF TypeOK, PoolAssumption
  <2>2. refs' \in [Generations -> Nat]
    BY <1>g DEF TypeOK, NewClient
  <2>3. prior' \in [Generations -> 0..MaxGenerations]
    BY PoolAssumption DEF TypeOK, NewClient, PoolAssumption
  <2>4. entry' \in {0, made'}
    BY DEF TypeOK, NewClient
  <2> QED
    BY <1>g, <2>1, <2>2, <2>3, <2>4 DEF TypeOK, NewClient
<1>2. Leased'
  <2>1. \A k \in Leases : lease'[k].stage = "unused" \/ lease'[k].gen \in 1..made'
    BY <1>g, <1>n, PoolAssumption DEF Leased, TypeOK, Gen, PoolAssumption
  <2>2. \A c \in Callers : caller[c] # Idle => lease'[caller[c].lease].stage # "unused"
    <3> SUFFICES ASSUME NEW c \in Callers, caller[c] # Idle PROVE lease'[caller[c].lease].stage # "unused"
      OBVIOUS
    <3>1. caller[c].lease \in Leases
      BY DEF TypeOK
    <3> QED
      BY <3>1, <1>n DEF Leased
  <2> QED
    BY <2>1, <2>2 DEF Leased, Gen, NewClient
<1>3. Succession'
  <2>1. CASE UNCHANGED <<made, entry, prior>>
    <3>1. entry # 0 /\ refs[entry] # 0
      BY <2>1, <1>g DEF NewClient, TypeOK
    <3>2. entry \notin done
      BY <3>1 DEF Succession
    <3>3. \A g \in done : refs'[g] = refs[g]
      BY <2>1, <3>2 DEF NewClient, TypeOK
    <3> QED
      BY <2>1, <3>3 DEF Succession, NewClient
  <2>2. CASE /\ entry = 0 \/ refs[entry] = 0
             /\ made < MaxGenerations
             /\ made' = made + 1
             /\ entry' = made + 1
             /\ prior' = [prior EXCEPT ![made + 1] = entry]
    <3>1. made \in Nat /\ MaxGenerations \in Nat /\ entry \in {0, made} /\ made + 1 \in Generations
      BY <2>2, PoolAssumption DEF TypeOK, Generations, PoolAssumption
    <3>2. \A g \in done : refs'[g] = refs[g]
      BY <2>2, <3>1 DEF NewClient, TypeOK, Succession
    <3>3. prior'[made + 1] = entry /\ \A g \in 1..made : prior'[g] = prior[g]
      BY <2>2, <3>1 DEF TypeOK, Generations
    <3>4. \A g \in 1..made' :
            IF prior'[g] = 0 THEN \A h \in 1..(g - 1) : h \in done ELSE prior'[g] = g - 1
      BY <2>2, <3>1, <3>3 DEF Succession
    <3>5. entry' # 0
      BY <2>2, <3>1
    <3>6. \A g \in done : g \in 1..made' /\ refs'[g] = 0 /\ \A h \in 1..(g - 1) : h \in done
      BY <2>2, <3>1, <3>2 DEF Succession
    <3> QED
      BY <3>4, <3>5, <3>6 DEF Succession, NewClient
  <2> QED
    BY <2>1, <2>2 DEF NewClient
<1>4. References'
  <2> SUFFICES ASSUME NEW g \in Generations PROVE refs'[g] = Cardinality(OpenLeases(g)')
    BY DEF References
  <2>0. OpenLeases(g) \in SUBSET Leases
    BY DEF OpenLeases
  <2>1. CASE g = entry'
    <3>1. l \notin OpenLeases(g)
      BY <1>l DEF OpenLeases
    <3>2. OpenLeases(g)' = OpenLeases(g) \union {l}
      BY <1>n, <2>1 DEF OpenLeases, Gen
    <3>3. refs'[g] = refs[g] + 1
      BY <2>1 DEF NewClient, TypeOK
    <3>4. Cardinality(OpenLeases(g) \union {l}) = Cardinality(OpenLeases(g)) + 1
      BY <2>0, <3>1, OneMore
    <3> QED
      BY <3>2, <3>3, <3>4 DEF References
  <2>2. CASE g # entry'
    <3>1. OpenLeases(g)' = OpenLeases(g)
      BY <1>n, <1>l, <2>2 DEF OpenLeases, Gen
    <3>2. refs'[g] = refs[g]
      BY <2>2 DEF NewClient, TypeOK
    <3> QED
      BY <3>1, <3>2 DEF References
  <2> QED
    BY <2>1, <2>2
<1>5. OneShutsDown'
  <2>0. \A k \in Leases : lease[k].stage \in Shutting => refs[Gen(k)] = 0 /\ Gen(k) \notin done
    BY DEF OneShutsDown
  <2>1. \A k \in Leases : lease'[k].stage \in Shutting =>
          k # l /\ lease[k].stage \in Shutting /\ Gen(k) \in 1..made
    BY <1>n DEF Shutting, Leased
  <2>2. \A k \in Leases : lease[k].stage \in Shutting => Gen(k) # entry'
    <3> SUFFICES ASSUME NEW k \in Leases, lease[k].stage \in Shutting PROVE Gen(k) # entry'
      OBVIOUS
    <3>1. refs[Gen(k)] = 0 /\ Gen(k) \in 1..made
      BY <2>0 DEF Leased, Shutting
    <3> QED
      BY <3>1 DEF NewClient, TypeOK
  <2>3. \A g \in Generations : g # entry' => refs'[g] = refs[g]
    BY DEF NewClient, TypeOK
  <2>4. \A k \in Leases : Gen(k) \in 1..made => Gen(k) \in Generations
    BY PoolAssumption DEF TypeOK, Generations, PoolAssumption
  <2> QED
    BY <1>n, <2>0, <2>1, <2>2, <2>3, <2>4 DEF OneShutsDown, Gen, NewClient, Shutting
<1>6. Exclusion' /\ TransportsDoNotOverlap' /\ CallsKeepTheirTransport'
  <2>1. \A c \in Callers : caller[c].at \in Inside \/ At(c, "connect") \/ At(c, "list") \/ At(c, "call")
          => caller[c].lease \in Leases /\ caller[c].lease # l
    BY <1>l DEF TypeOK, Leased, Inside, Idle, At
  <2>2. \A c \in Callers : caller[c].at \in Inside => GenOf(c)' = GenOf(c)
    BY <2>1, <1>n DEF GenOf, Gen, NewClient
  <2>3. Exclusion'
    BY <1>n, <2>2 DEF Exclusion, NewClient, Gen
  <2>4. CallsKeepTheirTransport'
    BY <2>2 DEF CallsKeepTheirTransport, NewClient, At, Inside
  <2>5. TransportsDoNotOverlap'
    BY DEF TransportsDoNotOverlap, NewClient
  <2> QED
    BY <2>3, <2>4, <2>5
<1> QED
  BY <1>1, <1>2, <1>3, <1>4, <1>5, <1>6

\* What the steps of a Close leave as it is.
LEMMA LeaseSteps ==
  ASSUME IInv, NEW l \in Leases, lease[l].stage # "unused",
         NEW stage \in {"open", "leaving", "closing", "forgetting", "closed"}, Steps(l, stage)
  PROVE  /\ lease' \in [Leases -> [gen : 0..made, stage : {"unused", "open", "leaving", "closing", "forgetting", "closed"}]]
         /\ lease'[l].stage = stage
         /\ \A k \in Leases : lease'[k].gen = lease[k].gen /\ (k # l => lease'[k] = lease[k])
         /\ Gen(l) \in 1..made /\ Gen(l) \in Generations
         /\ UNCHANGED <<made, caller>> => Leased' /\ \A c \in Callers : caller[c] # Idle => GenOf(c)' = GenOf(c)
<1>1. lease \in [Leases -> [gen : 0..made, stage : {"unused", "open", "leaving", "closing", "forgetting", "closed"}]]
  BY DEF IInv, TypeOK
<1>2. /\ lease' \in [Leases -> [gen : 0..made, stage : {"unused", "open", "leaving", "closing", "forgetting", "closed"}]]
      /\ lease'[l].stage = stage
      /\ \A k \in Leases : lease'[k].gen = lease[k].gen /\ (k # l => lease'[k] = lease[k])
  BY <1>1 DEF Steps
<1>3. Gen(l) \in 1..made /\ Gen(l) \in Generations
  BY PoolAssumption DEF IInv, Leased, TypeOK, Gen, Generations, PoolAssumption
<1>4. ASSUME UNCHANGED <<made, caller>>
      PROVE  Leased' /\ \A c \in Callers : caller[c] # Idle => GenOf(c)' = GenOf(c)
  <2>1. \A c \in Callers : caller[c] # Idle => caller[c].lease \in Leases
    BY DEF IInv, TypeOK
  <2> QED
    BY <1>2, <1>4, <2>1 DEF IInv, Leased, Gen, GenOf
<1> QED
  BY <1>2, <1>3, <1>4

LEMMA ReleaseStep ==
  ASSUME IInv, NEW l \in Leases, Release(l)
  PROVE  IInv'
<1> USE DEF IInv
<1> DEFINE g == Gen(l)
<1>o. lease[l].stage = "open" /\ refs[g] # 0 /\ g \notin done
  BY OpenIsCounted DEF Release
<1>s. /\ lease' \in [Leases -> [gen : 0..made, stage : {"unused", "open", "leaving", "closing", "forgetting", "closed"}]]
      /\ lease'[l].stage = (IF refs[g] = 1 THEN "leaving" ELSE "closed")
      /\ \A k \in Leases : lease'[k].gen = lease[k].gen /\ (k # l => lease'[k] = lease[k])
      /\ g \in 1..made /\ g \in Generations
      /\ Leased' /\ \A c \in Callers : caller[c] # Idle => GenOf(c)' = GenOf(c)
  BY LeaseSteps, <1>o DEF Release
<1>r. /\ refs' \in [Generations -> Nat] /\ refs'[g] = refs[g] - 1
      /\ \A h \in Generations : h # g => refs'[h] = refs[h]
  BY <1>o, <1>s DEF TypeOK, Release
<1>u. UNCHANGED <<made, entry, prior, done, busy, conn, tools, caller>>
  BY DEF Release
<1> HIDE DEF g
<1>1. TypeOK'
  BY <1>s, <1>r, <1>u DEF TypeOK
<1>3. Succession'
  <2>1. \A h \in done : h \in Generations /\ h # g
    BY <1>o DEF TypeOK
  <2> QED
    BY <1>r, <1>u, <2>1 DEF Succession
<1>4. References'
  <2> SUFFICES ASSUME NEW h \in Generations PROVE refs'[h] = Cardinality(OpenLeases(h)')
    BY DEF References
  <2>0. OpenLeases(h) \in SUBSET Leases
    BY DEF OpenLeases
  <2>1. CASE h = g
    <3>1. l \in OpenLeases(h) /\ OpenLeases(h)' = OpenLeases(h) \ {l}
      BY <1>o, <1>s, <2>1 DEF OpenLeases, Gen, g
    <3>2. Cardinality(OpenLeases(h) \ {l}) = Cardinality(OpenLeases(h)) - 1
      BY <2>0, <3>1, OneLess
    <3> QED
      BY <1>r, <2>1, <3>1, <3>2 DEF References
  <2>2. CASE h # g
    <3>1. OpenLeases(h)' = OpenLeases(h)
      BY <1>s, <2>2 DEF OpenLeases, Gen, g
    <3> QED
      BY <1>r, <2>2, <3>1 DEF References
  <2> QED
    BY <2>1, <2>2
<1>5. OneShutsDown'
  <2>1. \A k \in Leases : k # l /\ lease'[k].stage \in Shutting =>
          lease[k].stage \in Shutting /\ Gen(k) # g /\ Gen(k) \in Generations
    <3> SUFFICES ASSUME NEW k \in Leases, k # l, lease'[k].stage \in Shutting
                 PROVE  lease[k].stage \in Shutting /\ Gen(k) # g /\ Gen(k) \in Generations
      OBVIOUS
    <3>1. lease[k].stage \in Shutting
      BY <1>s
    <3>2. refs[Gen(k)] = 0
      BY <3>1 DEF OneShutsDown
    <3>3. Gen(k) \in 1..made
      BY <3>1 DEF Leased, Shutting
    <3> QED
      BY <3>1, <3>2, <3>3, <1>o, PoolAssumption DEF TypeOK, Generations, PoolAssumption
  <2>2. lease'[l].stage \in Shutting => refs'[g] = 0 /\ g \notin done
    BY <1>s, <1>o, <1>r DEF Shutting, TypeOK
  <2> QED
    BY <1>s, <1>r, <1>u, <2>1, <2>2 DEF OneShutsDown, Gen, g, Shutting
<1>6. Exclusion' /\ TransportsDoNotOverlap' /\ CallsKeepTheirTransport'
  <2>1. \A c \in Callers : caller[c].at \in Inside => GenOf(c)' = GenOf(c)
    BY <1>s DEF Inside, Idle
  <2>2. \A k \in Leases : lease'[k].stage = "closing" => lease[k].stage = "closing" /\ Gen(k)' = Gen(k)
    BY <1>s DEF Gen
  <2> QED
    BY <1>u, <2>1, <2>2 DEF Exclusion, TransportsDoNotOverlap, CallsKeepTheirTransport, At, Inside
<1> QED
  BY <1>1, <1>s, <1>3, <1>4, <1>5, <1>6

\* A step of a Close after the reference is dropped counts no lease.
LEMMA NobodyCounted ==
  ASSUME IInv, NEW l \in Leases, lease[l].stage # "unused", lease[l].stage # "open",
         NEW stage \in {"leaving", "closing", "forgetting", "closed"}, Steps(l, stage),
         UNCHANGED refs
  PROVE  References'
<1>1. \A k \in Leases : lease'[k].gen = lease[k].gen /\ (lease'[k].stage = "open" <=> lease[k].stage = "open")
  BY LeaseSteps
<1>2. \A g \in Generations : OpenLeases(g)' = OpenLeases(g)
  BY <1>1 DEF OpenLeases, Gen
<1> QED
  BY <1>2 DEF IInv, References

LEMMA ShutStep ==
  ASSUME IInv, NEW l \in Leases, Shut(l)
  PROVE  IInv'
<1> USE DEF IInv
<1> DEFINE g == Gen(l)
<1>o. lease[l].stage = "leaving" /\ g \notin busy /\ Steps(l, "closing")
  BY DEF Shut
<1>u. UNCHANGED <<made, entry, refs, prior, done, caller>>
  BY DEF Shut
<1>s. /\ lease' \in [Leases -> [gen : 0..made, stage : {"unused", "open", "leaving", "closing", "forgetting", "closed"}]]
      /\ lease'[l].stage = "closing"
      /\ \A k \in Leases : lease'[k].gen = lease[k].gen /\ (k # l => lease'[k] = lease[k])
      /\ g \in 1..made /\ g \in Generations
      /\ Leased' /\ \A c \in Callers : caller[c] # Idle => GenOf(c)' = GenOf(c)
  BY LeaseSteps, <1>o, <1>u
<1>c. /\ conn' \in [Generations -> {"none", "made", "connected", "closing"}]
      /\ conn'[g] = "none" <=> conn[g] = "none"
      /\ \A h \in Generations : h # g => conn'[h] = conn[h]
      /\ busy' = busy \union {g} /\ tools' = tools \ {g}
  BY <1>s DEF Shut, TypeOK
<1>n. \A c \in Callers : caller[c].at \in Inside => GenOf(c) # g
  BY <1>o DEF Exclusion
<1>f. References'
  BY NobodyCounted, <1>o, <1>u
<1> HIDE DEF g
<1>1. TypeOK'
  BY <1>s, <1>u, <1>c DEF TypeOK
<1>3. Succession'
  BY <1>u DEF Succession
<1>5. OneShutsDown'
  <2>1. \A k \in Leases : /\ lease'[k].stage \in Shutting <=> lease[k].stage \in Shutting
                          /\ lease'[k].stage = "forgetting" <=> lease[k].stage = "forgetting"
                          /\ Gen(k)' = Gen(k)
    BY <1>s, <1>o DEF Shutting, Gen
  <2>2. \A k \in Leases : lease'[k].stage = "closing" => k = l \/ lease[k].stage = "closing"
    BY <1>s
  <2>3. UNCHANGED done /\ \A h \in 1..(g - 1) : h \in done
    BY <1>s, EarlierDone DEF Shut, g
  <2> QED
    BY <2>1, <2>2, <2>3, <1>u DEF OneShutsDown, g
<1>6. Exclusion'
  <2>1. \A c \in Callers : caller[c].at \in Inside => GenOf(c)' = GenOf(c)
    BY <1>s DEF Inside, Idle
  <2>2. \A k \in Leases : lease'[k].stage = "closing" => (k = l \/ lease[k].stage = "closing") /\ Gen(k)' = Gen(k)
    BY <1>s DEF Gen
  <2> QED
    BY <1>u, <1>c, <1>n, <2>1, <2>2 DEF Exclusion, g
<1>7. TransportsDoNotOverlap'
  <2>1. \A h \in Generations : conn'[h] = "none" <=> conn[h] = "none"
    BY <1>c
  <2> QED
    BY <1>u, <2>1 DEF TransportsDoNotOverlap
<1>8. CallsKeepTheirTransport'
  <2> SUFFICES ASSUME NEW c \in Callers, caller[c].at \in {"connect", "list", "call"}
               PROVE  conn'[GenOf(c)'] = conn[GenOf(c)]
    BY <1>u DEF CallsKeepTheirTransport, At
  <2>1. caller[c].at \in Inside /\ caller[c] # Idle /\ caller[c].lease \in Leases
    BY DEF Inside, Idle, TypeOK
  <2>2. GenOf(c) \in Generations
    BY <2>1, PoolAssumption DEF Leased, GenOf, Gen, TypeOK, Generations, PoolAssumption
  <2> QED
    BY <2>1, <2>2, <1>s, <1>n, <1>c
<1> QED
  BY <1>1, <1>s, <1>3, <1>f, <1>5, <1>6, <1>7, <1>8

LEMMA FinishStep ==
  ASSUME IInv, NEW l \in Leases, Finish(l)
  PROVE  IInv'
<1> USE DEF IInv
<1> DEFINE g == Gen(l)
<1>o. lease[l].stage = "closing" /\ Steps(l, "forgetting") /\ refs[g] = 0 /\ g \notin done
  BY DEF Finish, OneShutsDown, Shutting
<1>u. UNCHANGED <<made, entry, refs, prior, tools, caller>>
  BY DEF Finish
<1>s. /\ lease' \in [Leases -> [gen : 0..made, stage : {"unused", "open", "leaving", "closing", "forgetting", "closed"}]]
      /\ lease'[l].stage = "forgetting"
      /\ \A k \in Leases : lease'[k].gen = lease[k].gen /\ (k # l => lease'[k] = lease[k])
      /\ g \in 1..made /\ g \in Generations
      /\ Leased' /\ \A c \in Callers : caller[c] # Idle => GenOf(c)' = GenOf(c)
  BY LeaseSteps, <1>o, <1>u
<1>c. /\ conn' \in [Generations -> {"none", "made", "connected", "closing"}]
      /\ conn'[g] = "none"
      /\ \A h \in Generations : h # g => conn'[h] = conn[h]
      /\ busy' = busy \ {g} /\ done' = done \union {g}
  BY <1>s DEF Finish, TypeOK
<1>n. \A c \in Callers : caller[c].at \in Inside => GenOf(c) # g
  BY <1>o DEF Exclusion
<1>f. References'
  BY NobodyCounted, <1>o, <1>u
<1> HIDE DEF g
<1>1. TypeOK'
  BY <1>s, <1>u, <1>c DEF TypeOK
<1>2. \A h \in 1..(g - 1) : h \in done
  BY <1>o DEF OneShutsDown, g, Finish
<1>3. Succession'
  BY <1>u, <1>c, <1>o, <1>s, <1>2 DEF Succession
<1>5. OneShutsDown'
  <2>1. \A k \in Leases : /\ lease'[k].stage \in Shutting => lease[k].stage \in Shutting /\ k # l
                          /\ lease'[k].stage = "closing" => lease[k].stage = "closing" /\ k # l
                          /\ lease'[k].stage = "forgetting" => k = l \/ lease[k].stage = "forgetting"
                          /\ Gen(k)' = Gen(k)
    BY <1>s DEF Shutting, Gen
  <2>2. \A k \in Leases : lease[k].stage \in Shutting /\ k # l => Gen(k) # g
    BY <1>o DEF OneShutsDown, Shutting, g
  <2> QED
    BY <2>1, <2>2, <1>u, <1>c DEF OneShutsDown, g
<1>6. Exclusion'
  <2>1. \A c \in Callers : caller[c].at \in Inside => GenOf(c)' = GenOf(c)
    BY <1>s DEF Inside, Idle
  <2>2. \A k \in Leases : lease'[k].stage = "closing" => k # l /\ lease[k].stage = "closing" /\ Gen(k)' = Gen(k)
    BY <1>s DEF Gen
  <2>3. \A k \in Leases : lease[k].stage = "closing" /\ k # l => Gen(k) # g
    BY <1>o DEF OneShutsDown, Shutting, g
  <2> QED
    BY <1>u, <1>c, <1>n, <2>1, <2>2, <2>3 DEF Exclusion
<1>7. TransportsDoNotOverlap'
  BY <1>c DEF TransportsDoNotOverlap
<1>8. CallsKeepTheirTransport'
  <2> SUFFICES ASSUME NEW c \in Callers, caller[c].at \in {"connect", "list", "call"}
               PROVE  conn'[GenOf(c)'] = conn[GenOf(c)]
    BY <1>u DEF CallsKeepTheirTransport, At
  <2>1. caller[c].at \in Inside /\ caller[c] # Idle /\ caller[c].lease \in Leases
    BY DEF Inside, Idle, TypeOK
  <2>2. GenOf(c) \in Generations
    BY <2>1, PoolAssumption DEF Leased, GenOf, Gen, TypeOK, Generations, PoolAssumption
  <2> QED
    BY <2>1, <2>2, <1>s, <1>n, <1>c
<1> QED
  BY <1>1, <1>s, <1>3, <1>f, <1>5, <1>6, <1>7, <1>8

LEMMA ForgetStep ==
  ASSUME IInv, NEW l \in Leases, Forget(l)
  PROVE  IInv'
<1> USE DEF IInv
<1> DEFINE g == Gen(l)
<1>o. lease[l].stage = "forgetting" /\ Steps(l, "closed") /\ g \in done
  BY DEF Forget, OneShutsDown
<1>u. UNCHANGED <<made, refs, prior, done, busy, conn, tools, caller>> /\ entry' \in {0, entry}
  BY DEF Forget
<1>s. /\ lease' \in [Leases -> [gen : 0..made, stage : {"unused", "open", "leaving", "closing", "forgetting", "closed"}]]
      /\ lease'[l].stage = "closed"
      /\ \A k \in Leases : lease'[k].gen = lease[k].gen /\ (k # l => lease'[k] = lease[k])
      /\ g \in 1..made /\ g \in Generations
      /\ Leased' /\ \A c \in Callers : caller[c] # Idle => GenOf(c)' = GenOf(c)
  BY LeaseSteps, <1>o, <1>u
<1>f. References'
  BY NobodyCounted, <1>o, <1>u
<1> HIDE DEF g
<1>2. entry' = 0 => \A h \in 1..made : h \in done
  <2>1. CASE entry = g
    <3>1. g = made
      BY <2>1, <1>s DEF TypeOK
    <3>2. \A h \in 1..(g - 1) : h \in done
      BY <1>o DEF Succession
    <3>3. made \in Nat /\ g \in done
      BY <1>o, PoolAssumption DEF TypeOK, PoolAssumption
    <3> QED
      BY <3>1, <3>2, <3>3
  <2>2. CASE entry # g
    BY <2>2 DEF Forget, Succession, g
  <2> QED
    BY <2>1, <2>2
<1>1. TypeOK'
  BY <1>s, <1>u DEF TypeOK
<1>3. Succession'
  BY <1>u, <1>2 DEF Succession
<1>5. OneShutsDown'
  <2>1. \A k \in Leases : /\ lease'[k].stage \in Shutting => lease[k].stage \in Shutting
                          /\ lease'[k].stage = "closing" => lease[k].stage = "closing"
                          /\ lease'[k].stage = "forgetting" => lease[k].stage = "forgetting"
                          /\ Gen(k)' = Gen(k)
    BY <1>s DEF Shutting, Gen
  <2> QED
    BY <2>1, <1>u DEF OneShutsDown
<1>6. Exclusion' /\ TransportsDoNotOverlap' /\ CallsKeepTheirTransport'
  <2>1. \A c \in Callers : caller[c].at \in Inside => GenOf(c)' = GenOf(c)
    BY <1>s DEF Inside, Idle
  <2>2. \A k \in Leases : lease'[k].stage = "closing" => lease[k].stage = "closing" /\ Gen(k)' = Gen(k)
    BY <1>s DEF Gen
  <2> QED
    BY <1>u, <2>1, <2>2 DEF Exclusion, TransportsDoNotOverlap, CallsKeepTheirTransport, At, Inside
<1> QED
  BY <1>1, <1>s, <1>3, <1>f, <1>5, <1>6

-----------------------------------------------------------------------------
(* Steps of the callers *)

CallerTypes == [lease : Leases, op : Operations,
                at : {"lock", "connect", "list", "call", "reset"}] \union {Idle}

\* A caller only changes its own record.
LEMMA CallerMoves ==
  ASSUME IInv, NEW c \in Callers, NEW to \in CallerTypes, caller' = [caller EXCEPT ![c] = to],
         to # Idle => lease[to.lease].stage # "unused",
         UNCHANGED <<made, entry, refs, prior, done, lease>>
  PROVE  /\ caller' \in [Callers -> CallerTypes] /\ caller'[c] = to
         /\ \A d \in Callers : d # c => caller'[d] = caller[d] /\ GenOf(d)' = GenOf(d)
         /\ Leased' /\ Succession' /\ References' /\ OneShutsDown'
<1>1. caller \in [Callers -> CallerTypes]
  BY DEF IInv, TypeOK, CallerTypes
<1>2. /\ caller' \in [Callers -> CallerTypes] /\ caller'[c] = to
      /\ \A d \in Callers : d # c => caller'[d] = caller[d]
  BY <1>1
<1>3. \A d \in Callers : d # c => GenOf(d)' = GenOf(d)
  BY <1>2 DEF GenOf, Gen
<1>4. Leased'
  BY <1>2 DEF IInv, Leased, Gen
<1>5. Succession' /\ OneShutsDown'
  BY DEF IInv, Succession, OneShutsDown, Gen
<1>6. References'
  BY DEF IInv, References, OpenLeases, Gen
<1> QED
  BY <1>2, <1>3, <1>4, <1>5, <1>6

\* A caller that is not idle has a lease of a generation.
LEMMA HasGeneration ==
  ASSUME IInv, NEW c \in Callers, caller[c] # Idle
  PROVE  /\ caller[c] \in [lease : Leases, op : Operations, at : {"lock", "connect", "list", "call", "reset"}]
         /\ lease[caller[c].lease].stage # "unused"
         /\ GenOf(c) \in 1..made /\ GenOf(c) \in Generations
<1>1. caller[c] \in [lease : Leases, op : Operations, at : {"lock", "connect", "list", "call", "reset"}]
  BY DEF IInv, TypeOK
<1>2. lease[caller[c].lease].stage # "unused"
  BY DEF IInv, Leased
<1>3. GenOf(c) \in 1..made
  BY <1>1, <1>2 DEF IInv, Leased, GenOf
<1> QED
  BY <1>1, <1>2, <1>3, PoolAssumption DEF IInv, TypeOK, Generations, PoolAssumption

LEMMA Going ==
  ASSUME IInv, NEW c \in Callers, caller[c] # Idle,
         NEW at \in {"lock", "connect", "list", "call", "reset"}, Goes(c, at)
  PROVE  \E to \in CallerTypes :
           /\ caller' = [caller EXCEPT ![c] = to]
           /\ to # Idle /\ to.at = at /\ to.lease = caller[c].lease /\ to.op = caller[c].op
<1> DEFINE to == [lease |-> caller[c].lease, op |-> caller[c].op, at |-> at]
<1>1. caller[c] \in [lease : Leases, op : Operations, at : {"lock", "connect", "list", "call", "reset"}]
  BY HasGeneration
<1>2. to \in CallerTypes /\ to # Idle
  BY <1>1 DEF CallerTypes, Idle
<1>3. [caller[c] EXCEPT !.at = at] = to
  BY <1>1
<1>4. caller' = [caller EXCEPT ![c] = to]
  BY <1>3 DEF Goes
<1> QED
  BY <1>2, <1>4

\* What somebody inside the gate does to his transport concerns nobody else.
LEMMA InsideStep ==
  ASSUME IInv, NEW c \in Callers, caller[c].at \in Inside,
         UNCHANGED <<made, entry, refs, prior, done, lease>>,
         NEW v \in {"none", "made", "connected", "closing"},
         conn' = [conn EXCEPT ![GenOf(c)] = v],
         v # "none" => conn[GenOf(c)] # "none",
         tools' \subseteq Generations,
         \/ Leave(c)
         \/ Goes(c, "list") /\ v = "connected" /\ UNCHANGED busy
         \/ Goes(c, "reset") /\ UNCHANGED busy
  PROVE  IInv'
<1> USE DEF IInv
<1> DEFINE g == GenOf(c)
<1>i. caller[c] # Idle
  BY DEF Inside, Idle
<1>g. g \in 1..made /\ g \in Generations /\ lease[caller[c].lease].stage # "unused"
  BY <1>i, HasGeneration
<1>t. PICK to \in CallerTypes :
        /\ caller' = [caller EXCEPT ![c] = to]
        /\ \/ to = Idle /\ busy' = busy \ {g}
           \/ /\ to # Idle /\ to.at \in {"list", "reset"} /\ to.lease = caller[c].lease
              /\ UNCHANGED busy
              /\ to.at = "list" => v = "connected"
  <2>1. CASE Leave(c)
    BY <2>1 DEF Leave, Returns, CallerTypes
  <2>2. CASE Goes(c, "list") /\ v = "connected" /\ UNCHANGED busy
    BY <2>2, <1>i, Going
  <2>3. CASE Goes(c, "reset") /\ UNCHANGED busy
    BY <2>3, <1>i, Going
  <2> QED
    BY <2>1, <2>2, <2>3
<1>m. /\ caller' \in [Callers -> CallerTypes] /\ caller'[c] = to
      /\ \A d \in Callers : d # c => caller'[d] = caller[d] /\ GenOf(d)' = GenOf(d)
      /\ Leased' /\ Succession' /\ References' /\ OneShutsDown'
  <2>1. to # Idle => lease[to.lease].stage # "unused"
    BY <1>t, <1>g
  <2> QED
    BY <1>t, <2>1, CallerMoves
<1>c. /\ conn' \in [Generations -> {"none", "made", "connected", "closing"}] /\ conn'[g] = v
      /\ \A h \in Generations : h # g => conn'[h] = conn[h]
  BY <1>g DEF TypeOK
<1>e. /\ g \in busy
      /\ \A d \in Callers : d # c /\ caller[d].at \in Inside => GenOf(d) # g
      /\ \A l \in Leases : lease[l].stage = "closing" => Gen(l) # g
  BY DEF Exclusion
<1>n. caller'[c].at \in Inside => to # Idle /\ GenOf(c)' = g
  BY <1>t, <1>m DEF Inside, Idle, GenOf, Gen
<1> HIDE DEF g
<1>1. TypeOK'
  BY <1>m, <1>c, <1>t DEF TypeOK, CallerTypes
<1>2. Exclusion'
  <2>1. \A d \in Callers : d # c /\ caller'[d].at \in Inside =>
          /\ GenOf(d)' \in busy' /\ GenOf(d)' # g
          /\ \A b \in Callers : b # c /\ caller'[b].at \in Inside /\ GenOf(b)' = GenOf(d)' => b = d
          /\ \A l \in Leases : lease[l].stage = "closing" => Gen(l) # GenOf(d)'
    BY <1>m, <1>e, <1>t DEF Exclusion
  <2>2. caller'[c].at \in Inside => g \in busy' /\ GenOf(c)' = g
    BY <1>n, <1>t, <1>e
  <2>3. \A l \in Leases : lease[l].stage = "closing" => Gen(l) \in busy'
    BY <1>e, <1>t DEF Exclusion
  <2> QED
    BY <2>1, <2>2, <2>3, <1>e DEF Exclusion, Gen
<1>3. TransportsDoNotOverlap'
  <2> SUFFICES ASSUME NEW h \in Generations, conn'[h] # "none"
               PROVE  h \notin done /\ \A k \in 1..(h - 1) : k \in done
    BY DEF TransportsDoNotOverlap
  <2>1. conn[h] # "none"
    BY <1>c DEF g
  <2> QED
    BY <2>1 DEF TransportsDoNotOverlap
<1>4. CallsKeepTheirTransport'
  <2>1. \A d \in Callers : d # c /\ caller'[d].at \in {"connect", "list", "call"} =>
          GenOf(d) # g /\ GenOf(d) \in Generations
    <3> SUFFICES ASSUME NEW d \in Callers, d # c, caller'[d].at \in {"connect", "list", "call"}
                 PROVE  GenOf(d) # g /\ GenOf(d) \in Generations
      OBVIOUS
    <3>1. caller[d].at \in Inside /\ caller[d] # Idle
      BY <1>m DEF Inside, Idle
    <3> QED
      BY <3>1, <1>e, HasGeneration
  <2>2. caller'[c].at \in {"connect", "list", "call"} => caller'[c].at = "list" /\ v = "connected" /\ GenOf(c)' = g
    BY <1>t, <1>m, <1>n DEF Idle, Inside
  <2> QED
    BY <2>1, <2>2, <1>m, <1>c DEF CallsKeepTheirTransport, At
<1> QED
  BY <1>1, <1>m, <1>2, <1>3, <1>4

LEMMA WorksStep ==
  ASSUME IInv, NEW c \in Callers, Works(c) \/ Reset(c)
  PROVE  IInv'
<1> USE DEF IInv
<1>i. caller[c].at \in Inside /\ caller[c] # Idle
  BY DEF Works, Connected, Listed, Called, Fail, Reset, At, Inside, Idle
<1>g. GenOf(c) \in Generations
  BY <1>i, HasGeneration
<1>k. /\ At(c, "connect") => conn[GenOf(c)] = "made"
      /\ At(c, "list") \/ At(c, "call") => conn[GenOf(c)] = "connected"
  BY DEF CallsKeepTheirTransport
<1>s. conn = [conn EXCEPT ![GenOf(c)] = conn[GenOf(c)]] /\ conn[GenOf(c)] \in {"none", "made", "connected", "closing"}
  BY <1>g DEF TypeOK
<1>1. CASE Connected(c)
  BY <1>1, <1>i, <1>k, InsideStep DEF Connected, TypeOK
<1>2. CASE Listed(c)
  <2>1. tools' \subseteq Generations
    BY <1>2, <1>g DEF Listed, TypeOK
  <2>2. conn' = [conn EXCEPT ![GenOf(c)] = conn[GenOf(c)]]
    BY <1>2, <1>s DEF Listed
  <2> QED
    BY <1>2, <1>i, <1>s, <2>1, <2>2, InsideStep DEF Listed
<1>3. CASE Called(c)
  <2>1. tools' \subseteq Generations
    BY <1>3 DEF Called, TypeOK
  <2>2. conn' = [conn EXCEPT ![GenOf(c)] = conn[GenOf(c)]]
    BY <1>3, <1>s DEF Called
  <2> QED
    BY <1>3, <1>i, <1>s, <2>1, <2>2, InsideStep DEF Called
<1>4. CASE Fail(c)
  <2>1. conn[GenOf(c)] # "none"
    BY <1>4, <1>k DEF Fail
  <2> QED
    BY <1>4, <1>i, <2>1, InsideStep DEF Fail, TypeOK
<1>5. CASE Reset(c)
  BY <1>5, <1>i, InsideStep DEF Reset, TypeOK
<1> QED
  BY <1>1, <1>2, <1>3, <1>4, <1>5 DEF Works

\* A caller that waits for the gate, or leaves without having entered it, changes nothing.
LEMMA OutsideStep ==
  ASSUME IInv, NEW c \in Callers, caller[c].at \notin Inside,
         NEW to \in CallerTypes, to.at \notin Inside,
         to # Idle => lease[to.lease].stage # "unused",
         caller' = [caller EXCEPT ![c] = to],
         UNCHANGED <<made, entry, refs, prior, done, busy, conn, tools, lease>>
  PROVE  IInv'
<1> USE DEF IInv
<1>m. /\ caller' \in [Callers -> CallerTypes] /\ caller'[c] = to
      /\ \A d \in Callers : d # c => caller'[d] = caller[d] /\ GenOf(d)' = GenOf(d)
      /\ Leased' /\ Succession' /\ References' /\ OneShutsDown'
  BY CallerMoves
<1>1. TypeOK'
  BY <1>m DEF TypeOK, CallerTypes
<1>2. Exclusion'
  BY <1>m DEF Exclusion, Gen
<1>3. TransportsDoNotOverlap'
  BY DEF TransportsDoNotOverlap
<1>4. CallsKeepTheirTransport'
  BY <1>m DEF CallsKeepTheirTransport, At, Inside
<1> QED
  BY <1>m, <1>1, <1>2, <1>3, <1>4

LEMMA EnterStep ==
  ASSUME IInv, NEW c \in Callers, Enter(c)
  PROVE  IInv'
<1> USE DEF IInv
<1> DEFINE g == GenOf(c)
<1>i. caller[c] # Idle /\ At(c, "lock") /\ MayEnter(c)
  BY DEF Enter, At, Idle
<1>h. /\ caller[c].lease \in Leases /\ lease[caller[c].lease].stage = "open"
      /\ g \in 1..made /\ g \in Generations
  BY <1>i, HasGeneration DEF MayEnter, Released
<1>e. /\ g \notin busy /\ g \notin done
      /\ \A h \in 1..(g - 1) : h \in done
  BY <1>i, <1>h, OpenIsCounted, EarlierDone DEF MayEnter, GenOf
<1>w. PICK at \in {"connect", "list", "call"} :
        /\ Goes(c, at)
        /\ \/ at = "connect" /\ conn' = [conn EXCEPT ![g] = "made"]
           \/ at # "connect" /\ conn[g] = "connected" /\ UNCHANGED conn
  BY DEF Enter
<1>t. PICK to \in CallerTypes :
        /\ caller' = [caller EXCEPT ![c] = to]
        /\ to # Idle /\ to.at = at /\ to.lease = caller[c].lease
  BY <1>i, <1>w, Going
<1>u. UNCHANGED <<made, entry, refs, prior, done, tools, lease>> /\ busy' = busy \union {g}
  BY DEF Enter
<1>m. /\ caller' \in [Callers -> CallerTypes] /\ caller'[c] = to
      /\ \A d \in Callers : d # c => caller'[d] = caller[d] /\ GenOf(d)' = GenOf(d)
      /\ Leased' /\ Succession' /\ References' /\ OneShutsDown'
  BY <1>t, <1>h, <1>u, CallerMoves
<1>c. /\ conn' \in [Generations -> {"none", "made", "connected", "closing"}]
      /\ conn'[g] = (IF at = "connect" THEN "made" ELSE "connected")
      /\ \A h \in Generations : h # g => conn'[h] = conn[h]
  BY <1>w, <1>h DEF TypeOK
<1>n. GenOf(c)' = g
  BY <1>t, <1>m, <1>u DEF GenOf, Gen
<1>o. /\ \A d \in Callers : caller[d].at \in Inside => GenOf(d) # g
      /\ \A l \in Leases : lease[l].stage = "closing" => Gen(l) # g
  BY <1>e DEF Exclusion
<1> HIDE DEF g
<1>1. TypeOK'
  BY <1>m, <1>c, <1>u, <1>h DEF TypeOK, CallerTypes
<1>2. Exclusion'
  <2>1. \A d \in Callers : d # c /\ caller'[d].at \in Inside =>
          /\ GenOf(d)' \in busy' /\ GenOf(d)' # g
          /\ \A b \in Callers : b # c /\ caller'[b].at \in Inside /\ GenOf(b)' = GenOf(d)' => b = d
          /\ \A l \in Leases : lease[l].stage = "closing" => Gen(l) # GenOf(d)'
    BY <1>m, <1>o, <1>u DEF Exclusion
  <2>2. \A l \in Leases : lease[l].stage = "closing" => Gen(l) \in busy'
    BY <1>u DEF Exclusion
  <2> QED
    BY <2>1, <2>2, <1>n, <1>o, <1>u DEF Exclusion, Gen
<1>3. TransportsDoNotOverlap'
  BY <1>c, <1>e, <1>u DEF TransportsDoNotOverlap
<1>4. CallsKeepTheirTransport'
  <2>1. \A d \in Callers : d # c /\ caller'[d].at \in {"connect", "list", "call"} =>
          GenOf(d) # g /\ GenOf(d) \in Generations
    <3> SUFFICES ASSUME NEW d \in Callers, d # c, caller'[d].at \in {"connect", "list", "call"}
                 PROVE  GenOf(d) # g /\ GenOf(d) \in Generations
      OBVIOUS
    <3>1. caller[d].at \in Inside /\ caller[d] # Idle
      BY <1>m DEF Inside, Idle
    <3> QED
      BY <3>1, <1>o, HasGeneration
  <2> QED
    BY <2>1, <1>t, <1>m, <1>n, <1>c DEF CallsKeepTheirTransport, At
<1> QED
  BY <1>1, <1>m, <1>2, <1>3, <1>4

-----------------------------------------------------------------------------
LEMMA NextPreserves == IInv /\ [Next]_vars => IInv'
<1> SUFFICES ASSUME IInv, [Next]_vars PROVE IInv'
  OBVIOUS
<1>1. CASE UNCHANGED vars
  BY <1>1 DEF vars, IInv, TypeOK, Leased, Succession, References, OpenLeases, OneShutsDown,
     Exclusion, TransportsDoNotOverlap, CallsKeepTheirTransport, GenOf, Gen, At
<1>2. ASSUME NEW l \in Leases, NewClient(l) \/ Release(l) \/ Closes(l)
      PROVE  IInv'
  BY <1>2, NewClientStep, ReleaseStep, ShutStep, FinishStep, ForgetStep DEF Closes
<1>3. ASSUME NEW c \in Callers, NEW l \in Leases, NEW op \in Operations, Begin(c, l, op)
      PROVE  IInv'
  <2> DEFINE to == [lease |-> l, op |-> op, at |-> "lock"]
  <2>1. to \in CallerTypes /\ to.at \notin Inside /\ lease[to.lease].stage # "unused"
    BY <1>3 DEF CallerTypes, Inside, Begin
  <2>2. caller[c].at \notin Inside
    BY <1>3 DEF Begin, At, Inside
  <2> QED
    BY <1>3, <2>1, <2>2, OutsideStep DEF Begin
<1>4. ASSUME NEW c \in Callers, GoesAway(c) \/ EnterServed(c)
      PROVE  IInv'
  <2>1. Idle \in CallerTypes /\ Idle.at \notin Inside /\ caller[c].at \notin Inside
    BY <1>4 DEF CallerTypes, Inside, Idle, GoesAway, EnterServed, At
  <2>2. /\ caller' = [caller EXCEPT ![c] = Idle]
        /\ UNCHANGED <<made, entry, refs, prior, done, busy, conn, tools, lease>>
    BY <1>4 DEF GoesAway, EnterServed, Returns
  <2> QED
    BY <2>1, <2>2, OutsideStep
<1>5. ASSUME NEW c \in Callers, Enter(c) \/ Works(c) \/ Reset(c)
      PROVE  IInv'
  BY <1>5, EnterStep, WorksStep
<1> QED
  BY <1>1, <1>2, <1>3, <1>4, <1>5 DEF Next

LEMMA Invariance == Spec => []IInv
BY InitHolds, NextPreserves, PTL DEF Spec

\* The tables of the pool keep their types (pool.go's entry, lease and gate).
THEOREM TypeCorrectness == Spec => []TypeOK
<1>1. IInv => TypeOK
  BY DEF IInv
<1> QED
  BY <1>1, Invariance, PTL

\* One server process exists at a time, for some lease: a replacement waits for the shutdown
\* of its predecessor, and a released waiter starts none (sharedClientLease.lock and Close).
THEOREM TransportCorrectness == Spec => []TransportsDoNotOverlap
<1>1. IInv => TransportsDoNotOverlap
  BY DEF IInv
<1> QED
  BY <1>1, Invariance, PTL

\* No Close and no other caller takes the transport from an operation that is using it
\* (the gate of sharedClientEntry).
THEOREM CallCorrectness == Spec => []CallsKeepTheirTransport
<1>1. IInv => CallsKeepTheirTransport
  BY DEF IInv
<1> QED
  BY <1>1, Invariance, PTL
=============================================================================
