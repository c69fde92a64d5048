------------------------- MODULE AvailabilityProofs -------------------------
(***************************************************************************)
(* Proofs about Availability for every set of requests, providers and      *)
(* models and every bound: the inductive invariant IInv, and from it that  *)
(* no probe is orphaned and that each target has at most one probe.        *)
(***************************************************************************)
EXTENDS Availability, FiniteSetTheorems, TLAPS

Tables == [Targets -> Entry]

-----------------------------------------------------------------------------
(* Operators of the table.                                                 *)

\* The targets of a lease are targets of the table: a label in a target was
\* accepted by safeAvailabilityModel.
LEMMA LeaseTargetsTyped ==
    ASSUME NEW r \in Requests, route \in [Requests -> Routes]
    PROVE  /\ \A s \in LeaseScopes(r) : Target(r, s) \in Targets
           /\ LeaseTargets(r) \subseteq Targets
<1>1. route[r] \in Routes
  OBVIOUS
<1>2. /\ route[r].provider \in Providers
      /\ route[r].gen \in Gens
  BY <1>1 DEF Routes
<1>3. ASSUME NEW s \in LeaseScopes(r)
      PROVE  Target(r, s) \in Targets
  BY <1>2, <1>3 DEF LeaseScopes, Target, Targets, Scopes
<1> QED
  BY <1>3 DEF LeaseTargets

\* An empty slot is a well-typed object that nobody probes.
LEMMA NoEntryTyped == NoEntry \in Entry /\ ~Probing(NoEntry)
  BY BoundsAssumption DEF NoEntry, Entry, Probing

\* prune keeps every object as it is or forgets one that nobody probes.
LEMMA PruneEffect ==
    ASSUME NEW E \in Tables
    PROVE  /\ prune(E) \in Tables
           /\ \A t \in Targets : \/ prune(E)[t] = E[t]
                                 \/ prune(E)[t] = NoEntry /\ ~Probing(E[t])
<1>1. CASE now < nextSweep
  BY <1>1 DEF prune
<1>2. CASE ~(now < nextSweep)
  BY <1>2, NoEntryTyped DEF prune, Tables
<1> QED
  BY <1>1, <1>2

\* put stores the new object, evicts at most objects that nobody probes, and
\* always succeeds for a target that is already in the table.
LEMMA PutEffect ==
    ASSUME NEW E \in Tables, NEW t \in Targets, NEW e \in Entry,
           NEW F \in put(E, t, e)
    PROVE  /\ F \in Tables
           /\ \A u \in Targets : \/ F[u] = E[u]
                                 \/ u = t /\ F[u] = e
                                 \/ F[u] = NoEntry /\ ~Probing(E[u])
           /\ E[t].known => F[t] = e
<1>1. CASE E[t].known \/ Cardinality(Known(E)) < Limit
  <2>1. F = [E EXCEPT ![t] = e]
    BY <1>1 DEF put
  <2> QED
    BY <2>1 DEF Tables
<1>2. CASE ~(E[t].known \/ Cardinality(Known(E)) < Limit) /\ Evictable(E) = {}
  <2>1. F = E
    BY <1>2 DEF put
  <2> QED
    BY <1>2, <2>1
<1>3. CASE ~(E[t].known \/ Cardinality(Known(E)) < Limit) /\ Evictable(E) # {}
  <2>1. PICK old \in Evictable(E) : F = [Without(E, old) EXCEPT ![t] = e]
    BY <1>3 DEF put
  <2>2. old \in Targets /\ ~Probing(E[old])
    BY <2>1 DEF Evictable, Known
  <2> QED
    BY <1>3, <2>1, <2>2, NoEntryTyped DEF Tables, Without
<1> QED
  BY <1>1, <1>2, <1>3

\* The objects a completion may store are well typed, unclaimed and held by
\* no lease.
LEMMA ObservedTyped ==
    ASSUME NEW e \in Entry, NEW outcome, NEW f \in Observed(e, outcome),
           now \in Nat
    PROVE  f \in Entry /\ f.known /\ f.owner = None /\ f.holders = {}
<1>1. ASSUME NEW n \in 0 .. MaxStreak, NEW at \in Nat, f = NewEntry(n, at)
      PROVE  f \in Entry /\ f.known /\ f.owner = None /\ f.holders = {}
  BY <1>1 DEF NewEntry, Entry
<1>2. CASE outcome = "success"
  BY <1>1, <1>2, BoundsAssumption DEF Observed
<1>3. CASE outcome # "success"
  <2>1. FailureCounts(e, outcome) \subseteq 0 .. MaxStreak
    BY BoundsAssumption DEF FailureCounts, Entry
  <2>2. PICK n \in FailureCounts(e, outcome), d \in Delays :
                f = NewEntry(n, now + d)
    BY <1>3 DEF Observed
  <2>3. now + d \in Nat
    BY BoundsAssumption
  <2> QED
    BY <1>1, <2>1, <2>2, <2>3
<1> QED
  BY <1>2, <1>3

\* What a completion of r may do to the table F from E: leave an object, or
\* leave an unclaimed one where nobody probed, r probed or r's lease pointed: an empty
\* slot, a new object, or the old one with its claim released.
Judged(E, F, r) ==
    \A u \in Targets :
        \/ F[u] = E[u]
        \/ /\ F[u].owner = None
           /\ \/ ~E[u].known \/ ~Probing(E[u])
              \/ r \in E[u].holders \/ E[u].owner = r
           /\ \/ F[u] = NoEntry
              \/ F[u].known /\ F[u].holders = {}
              \/ F[u] = [E[u] EXCEPT !.owner = None]

\* complete at one scope judges the table, and releases the scope's target
\* whenever the lease still points at the object in the table.
LEMMA CompleteScopeEffect ==
    ASSUME NEW E \in Tables, NEW r \in Requests, NEW s \in Scopes, NEW outcome,
           NEW F \in CompleteScope(E, r, s, outcome),
           route \in [Requests -> Routes], now \in Nat
    PROVE  /\ F \in Tables
           /\ Judged(E, F, r)
           /\ \A u \in Targets :
                 /\ s \in LeaseScopes(r) /\ u = Target(r, s)
                 /\ E[u].known /\ r \in E[u].holders
                 => F[u].owner = None
<1> DEFINE t == Target(r, s)
<1>1. CASE s \notin LeaseScopes(r) \/ ~SamePointer(E, r, s)
  <2>1. F = E
    BY <1>1 DEF CompleteScope
  <2> QED
    BY <1>1, <2>1 DEF Judged, SamePointer
<1>2. CASE s \in LeaseScopes(r) /\ SamePointer(E, r, s)
  <2>1. t \in Targets
    BY <1>2, LeaseTargetsTyped
  <2>2. E[t].known => r \in E[t].holders
    BY <1>2 DEF SamePointer
  <2>3. CASE outcome # "success" /\ ~Fails(E[t], s, outcome)
    <3>1. F = [E EXCEPT ![t].owner = None]
      BY <1>2, <2>3 DEF CompleteScope
    <3>2. E[t] \in Entry
      BY <2>1 DEF Tables
    <3>3. [E[t] EXCEPT !.owner = None] \in Entry
      BY <3>2 DEF Entry
    <3>4. F[t] = [E[t] EXCEPT !.owner = None] /\ F[t].owner = None
      BY <2>1, <3>1, <3>2 DEF Tables, Entry
    <3>5. F \in Tables /\ \A u \in Targets : u # t => F[u] = E[u]
      BY <2>1, <3>1, <3>3 DEF Tables
    <3> QED
      BY <2>1, <2>2, <3>4, <3>5 DEF Judged
  <2>4. CASE ~(outcome # "success" /\ ~Fails(E[t], s, outcome))
    <3>1. PICK e \in Observed(E[t], outcome) : F \in put(E, t, e)
      BY <1>2, <2>4 DEF CompleteScope
    <3>2. E[t] \in Entry
      BY <2>1 DEF Tables
    <3>3. e \in Entry /\ e.known /\ e.owner = None /\ e.holders = {}
      BY <3>1, <3>2, ObservedTyped
    <3>4. /\ F \in Tables
          /\ \A u \in Targets : \/ F[u] = E[u]
                                \/ u = t /\ F[u] = e
                                \/ F[u] = NoEntry /\ ~Probing(E[u])
          /\ E[t].known => F[t] = e
      BY <2>1, <3>1, <3>3, PutEffect
    <3>5. NoEntry.owner = None
      BY DEF NoEntry
    <3> HIDE DEF t
    <3>6. Judged(E, F, r)
      BY <2>1, <2>2, <3>3, <3>4, <3>5 DEF Judged
    <3> QED
      BY <3>3, <3>4, <3>6 DEF t
  <2> QED
    BY <2>3, <2>4
<1> QED
  BY <1>1, <1>2

\* Judging twice is judging once.
LEMMA JudgedTransitive ==
    ASSUME NEW E \in Tables, NEW F \in Tables, NEW G \in Tables,
           NEW r \in Requests, Judged(E, F, r), Judged(F, G, r)
    PROVE  Judged(E, G, r)
<1> SUFFICES ASSUME NEW u \in Targets, G[u] # E[u]
             PROVE  /\ G[u].owner = None
                    /\ \/ ~E[u].known \/ ~Probing(E[u])
                       \/ r \in E[u].holders \/ E[u].owner = r
                    /\ \/ G[u] = NoEntry
                       \/ G[u].known /\ G[u].holders = {}
                       \/ G[u] = [E[u] EXCEPT !.owner = None]
  BY DEF Judged
<1>1. CASE F[u] = E[u]
  BY <1>1 DEF Judged
<1>2. CASE G[u] = F[u]
  BY <1>2 DEF Judged
<1>3. CASE F[u] # E[u] /\ G[u] # F[u]
  <2>1. F[u].owner = None /\ F[u] \in Entry
    BY <1>3 DEF Judged, Tables
  <2>2. [F[u] EXCEPT !.owner = None] = F[u]
    BY <2>1 DEF Entry
  <2> QED
    BY <1>3, <2>2 DEF Judged
<1> QED
  BY <1>1, <1>2, <1>3

-----------------------------------------------------------------------------
(* The part of the inductive invariant that speaks of the table, for any   *)
(* table E.                                                                *)

GoodTable(E) ==
    /\ E \in Tables
    /\ \A t \in Targets :
          /\ ~E[t].known => E[t] = NoEntry
          /\ \A q \in E[t].holders :
                /\ phase[q] \in {"queued", "flight"} /\ view[q] = epoch
                /\ t \in LeaseTargets(q)
                /\ E[t].failures > 0 => E[t].owner = q
          /\ Probing(E[t]) =>
                /\ E[t].known /\ E[t].failures > 0 /\ E[t].retryAt <= now
                /\ phase[E[t].owner] \in {"queued", "flight"}
                /\ t \in LeaseTargets(E[t].owner)
                /\ view[E[t].owner] = epoch => E[t].owner \in E[t].holders

\* The invariant is a good table plus what it says of the requests.
LEMMA GoodTableIff ==
    ASSUME TypeOK
    PROVE  IInv <=> GoodTable(entries) /\ SentOwnsProbes /\ ViewsPublished
  BY DEF TypeOK, IInv, GoodTable, Tables, AbsentIsEmpty, HoldersLive,
         HolderOfFailedOwns, ProbedIsDue, ProbesOwned

\* The same of the next state.
LEMMA GoodTablePrime ==
    ASSUME TypeOK', GoodTable(entries)', SentOwnsProbes', ViewsPublished'
    PROVE  IInv'
  BY DEF TypeOK, IInv, GoodTable, Tables, AbsentIsEmpty, HoldersLive,
         HolderOfFailedOwns, ProbedIsDue, ProbesOwned

\* Pruning a good table leaves a good table and every probe.
LEMMA PruneGood ==
    ASSUME NEW E, GoodTable(E)
    PROVE  /\ GoodTable(prune(E))
           /\ \A t \in Targets : Probing(E[t]) => prune(E)[t] = E[t]
<1>1. E \in Tables
  BY DEF GoodTable
<1>2. /\ prune(E) \in Tables
      /\ \A t \in Targets : \/ prune(E)[t] = E[t]
                            \/ prune(E)[t] = NoEntry /\ ~Probing(E[t])
  BY <1>1, PruneEffect
<1>3. NoEntry.holders = {} /\ ~Probing(NoEntry)
  BY NoEntryTyped DEF NoEntry
<1>4. GoodTable(prune(E))
  BY <1>2, <1>3 DEF GoodTable
<1> QED
  BY <1>2, <1>4

-----------------------------------------------------------------------------
(* The initial states and the actions.                                     *)

\* The placeholder route of a request without a lease is a route.
LEMMA InitialRouteTyped == InitialRoute \in Routes
<1>1. PICK p \in Providers, m \in Models : TRUE
  BY NamesAssumption
<1>2. [provider |-> p, model |-> m, gen |-> 1] \in {x \in Routes : x.gen = 1}
  BY <1>1, BoundsAssumption DEF Routes, Gens
<1> QED
  BY <1>2 DEF InitialRoute

\* An empty table without requests satisfies the invariant.
LEMMA InitInv == Init => IInv
<1> SUFFICES ASSUME Init PROVE IInv
  OBVIOUS
<1>1. TypeOK
  BY InitialRouteTyped, NoEntryTyped, BoundsAssumption
     DEF Init, TypeOK, Gens
<1>2. GoodTable(entries)
  BY <1>1, NoEntryTyped DEF Init, GoodTable, TypeOK, Tables, NoEntry
<1>3. SentOwnsProbes /\ ViewsPublished
  BY DEF Init, SentOwnsProbes, ViewsPublished
<1> QED
  BY <1>1, <1>2, <1>3, GoodTableIff

\* A request without a lease may take any view without touching the table.
LEMMA AdmitInv ==
    ASSUME IInv, NEW r \in Requests, NEW p \in Providers, NEW m \in Models,
           Admit(r, p, m)
    PROVE  IInv'
<1> USE DEF Admit, tableVars, viewVars
<1>1. TypeOK'
  BY DEF IInv, TypeOK, Routes
<1>2. GoodTable(entries)
  BY GoodTableIff DEF IInv
<1>3. \A q \in Requests : q # r =>
         /\ LeaseTargets(q)' = LeaseTargets(q)
         /\ phase'[q] = phase[q] /\ view'[q] = view[q] /\ probes'[q] = probes[q]
  BY DEF IInv, TypeOK, LeaseTargets, LeaseScopes, Target
<1>4. \A t \in Targets : r \notin entries[t].holders /\ entries[t].owner # r
  BY <1>2, NamesAssumption DEF GoodTable, Probing
<1>5. GoodTable(entries)'
  <2>1. \A t \in Targets : /\ entries[t].holders \subseteq Requests
                           /\ Probing(entries[t]) => entries[t].owner \in Requests
    BY DEF IInv, TypeOK, Entry, Probing
  <2> QED
    BY <1>2, <1>3, <1>4, <2>1 DEF GoodTable, Tables, Probing
<1>6. (SentOwnsProbes /\ ViewsPublished)'
  BY <1>3 DEF IInv, TypeOK, SentOwnsProbes, ViewsPublished
<1> QED
  BY <1>1, <1>5, <1>6, GoodTablePrime

\* A refused check prunes; a refused begin also ends the lease, which owned
\* and held nothing yet.
LEMMA RefusedInv ==
    ASSUME IInv, NEW r \in Requests, BeginRefused(r) \/ ReadyRefused(r)
    PROVE  IInv'
<1>1. GoodTable(entries)
  BY GoodTableIff DEF IInv
<1>2. /\ entries' = prune(entries) /\ nextSweep' = pruneSchedule
      /\ now' = now /\ UNCHANGED <<epoch, generations, nextProviderGeneration, active>>
  BY DEF BeginRefused, ReadyRefused, dispatchRefused, viewVars
<1>3. /\ GoodTable(entries')
      /\ \A t \in Targets : Probing(entries[t]) => entries'[t] = entries[t]
  BY <1>1, <1>2, PruneGood
<1>4. nextSweep' \in Nat
  BY <1>2, BoundsAssumption DEF IInv, TypeOK, pruneSchedule
<1>5. CASE ReadyRefused(r)
  <2>1. UNCHANGED leaseVars
    BY <1>5 DEF ReadyRefused
  <2>2. TypeOK'
    BY <1>2, <1>3, <1>4, <2>1 DEF IInv, TypeOK, leaseVars, GoodTable, Tables
  <2>3. GoodTable(entries)'
    BY <1>2, <1>3, <2>1 DEF leaseVars, GoodTable, LeaseTargets, LeaseScopes, Target
  <2>4. (SentOwnsProbes /\ ViewsPublished)'
    BY <1>2, <1>3, <2>1, NamesAssumption
       DEF leaseVars, IInv, TypeOK, SentOwnsProbes, ViewsPublished, Probing
  <2> QED
    BY <2>2, <2>3, <2>4, GoodTablePrime
<1>6. CASE BeginRefused(r)
  <2> USE DEF EndLease
  <2>1. phase[r] = "admitted" /\ EndLease(r)
    BY <1>6 DEF BeginRefused
  <2>2. TypeOK'
    BY <1>2, <1>3, <1>4, <2>1, InitialRouteTyped
       DEF IInv, TypeOK, GoodTable, Tables
  <2>3. \A q \in Requests : q # r =>
           /\ LeaseTargets(q)' = LeaseTargets(q)
           /\ phase'[q] = phase[q] /\ view'[q] = view[q] /\ probes'[q] = probes[q]
    BY <2>1 DEF IInv, TypeOK, LeaseTargets, LeaseScopes, Target
  <2>4. \A t \in Targets : r \notin entries'[t].holders /\ entries'[t].owner # r
    BY <1>3, <2>1, NamesAssumption DEF GoodTable, Probing
  <2>5. GoodTable(entries)'
    <3>1. \A t \in Targets : /\ entries'[t].holders \subseteq Requests
                             /\ Probing(entries'[t]) => entries'[t].owner \in Requests
      BY <2>2 DEF TypeOK, Entry, Probing
    <3> QED
      BY <1>2, <1>3, <2>3, <2>4, <3>1 DEF GoodTable, Tables, Probing
  <2>6. (SentOwnsProbes /\ ViewsPublished)'
    BY <1>2, <1>3, <2>1, <2>3, NamesAssumption
       DEF IInv, TypeOK, SentOwnsProbes, ViewsPublished, Probing
  <2> QED
    BY <2>2, <2>5, <2>6, GoodTablePrime
<1> QED
  BY <1>5, <1>6

\* Pointing a lease at an object changes its holders and owner only.
LEMMA HeldTyped ==
    ASSUME NEW e \in Entry, NEW r \in Requests, NEW o \in Requests \cup {None}
    PROVE  /\ Held(e, r, o) \in Entry
           /\ Held(e, r, o).known = e.known
           /\ Held(e, r, o).failures = e.failures
           /\ Held(e, r, o).retryAt = e.retryAt
           /\ Held(e, r, o).holders = e.holders \cup {r}
           /\ Held(e, r, o).owner = o
  BY DEF Entry, Held

\* An accepted check of a current lease: the lease points at every object of
\* its targets and owns every failed one; other claims stay.
LEMMA ClaimGood ==
    ASSUME TypeOK, NEW E, GoodTable(E), NEW r \in Requests,
           view[r] = epoch, \A s \in LeaseScopes(r) : ~Refuses(E, r, s)
    PROVE  LET F == Claim(E, r)
           IN  /\ F \in Tables
               /\ \A t \in Targets :
                     /\ ~E[t].known => F[t] = E[t]
                     /\ F[t].known = E[t].known
                     /\ F[t].failures = E[t].failures
                     /\ F[t].retryAt = E[t].retryAt
                     /\ t \notin LeaseTargets(r) => F[t] = E[t]
                     /\ E[t].holders \subseteq F[t].holders
                     /\ F[t].holders \subseteq E[t].holders \cup {r}
                     /\ Probing(E[t]) => F[t].owner = E[t].owner
                     /\ ~Probing(E[t]) => F[t].owner \in {r, None}
                     /\ t \in LeaseTargets(r) /\ E[t].known => r \in F[t].holders
                     /\ t \in LeaseTargets(r) /\ Failed(E[t]) =>
                           F[t].owner = r /\ E[t].retryAt <= now
                     /\ F[t].owner = r /\ E[t].owner # r =>
                           t \in LeaseTargets(r) /\ Failed(E[t])
<1> DEFINE F == Claim(E, r)
<1>1. E \in Tables
  BY DEF GoodTable
<1>2. \A t \in Targets :
         F[t] = IF t \in LeaseTargets(r) /\ E[t].known
                  THEN Held(E[t], r, IF E[t].failures > 0 /\ ~Probing(E[t])
                                       THEN r ELSE E[t].owner)
                  ELSE E[t]
  BY DEF Claim
<1>3. \A t \in Targets : E[t] \in Entry
  BY <1>1 DEF Tables
<1>4. \A t \in Targets : t \in LeaseTargets(r) /\ E[t].known =>
         /\ F[t] \in Entry
         /\ F[t].known = E[t].known /\ F[t].failures = E[t].failures
         /\ F[t].retryAt = E[t].retryAt /\ F[t].holders = E[t].holders \cup {r}
         /\ F[t].owner = IF E[t].failures > 0 /\ ~Probing(E[t]) THEN r ELSE E[t].owner
  <2> SUFFICES ASSUME NEW t \in Targets, t \in LeaseTargets(r), E[t].known
               PROVE  /\ F[t] \in Entry
                      /\ F[t].known = E[t].known /\ F[t].failures = E[t].failures
                      /\ F[t].retryAt = E[t].retryAt
                      /\ F[t].holders = E[t].holders \cup {r}
                      /\ F[t].owner = IF E[t].failures > 0 /\ ~Probing(E[t])
                                        THEN r ELSE E[t].owner
    OBVIOUS
  <2> DEFINE o == IF E[t].failures > 0 /\ ~Probing(E[t]) THEN r ELSE E[t].owner
  <2>2. E[t] \in Entry /\ o \in Requests \cup {None}
    BY <1>3 DEF Entry
  <2>3. F[t] = Held(E[t], r, o)
    BY <1>2
  <2> HIDE DEF F, o
  <2>4. /\ F[t] \in Entry
        /\ F[t].known = E[t].known /\ F[t].failures = E[t].failures
        /\ F[t].retryAt = E[t].retryAt /\ F[t].holders = E[t].holders \cup {r}
        /\ F[t].owner = o
    <3>1. /\ Held(E[t], r, o) \in Entry
          /\ Held(E[t], r, o).known = E[t].known
          /\ Held(E[t], r, o).failures = E[t].failures
          /\ Held(E[t], r, o).retryAt = E[t].retryAt
          /\ Held(E[t], r, o).holders = E[t].holders \cup {r}
          /\ Held(E[t], r, o).owner = o
      BY <2>2, HeldTyped
    <3> QED
      BY <2>3, <3>1
  <2> QED
    BY <2>4 DEF o
<1>5. F \in Tables
  BY <1>1, <1>2, <1>3, <1>4 DEF Claim, Tables
<1>6. \A t \in LeaseTargets(r) : t \in Targets /\ Failed(E[t]) =>
         /\ E[t].retryAt <= now
         /\ Probing(E[t]) => E[t].owner = r
  <2> SUFFICES ASSUME NEW t \in LeaseTargets(r), t \in Targets, Failed(E[t])
               PROVE  /\ E[t].retryAt <= now
                      /\ Probing(E[t]) => E[t].owner = r
    OBVIOUS
  <2>1. PICK s \in LeaseScopes(r) : t = Target(r, s)
    BY DEF LeaseTargets
  <2>2. \/ Probing(E[t]) /\ r \in E[t].holders
        \/ ~Probing(E[t]) /\ E[t].retryAt <= now
    BY <2>1 DEF Refuses, eligible
  <2> QED
    BY <2>2 DEF GoodTable, Failed
<1> HIDE DEF F
<1>7. ASSUME NEW t \in Targets
      PROVE  /\ ~E[t].known => F[t] = E[t]
             /\ F[t].known = E[t].known
             /\ F[t].failures = E[t].failures
             /\ F[t].retryAt = E[t].retryAt
             /\ t \notin LeaseTargets(r) => F[t] = E[t]
             /\ E[t].holders \subseteq F[t].holders
             /\ F[t].holders \subseteq E[t].holders \cup {r}
             /\ Probing(E[t]) => F[t].owner = E[t].owner
             /\ ~Probing(E[t]) => F[t].owner \in {r, None}
             /\ t \in LeaseTargets(r) /\ E[t].known => r \in F[t].holders
             /\ t \in LeaseTargets(r) /\ Failed(E[t]) =>
                   F[t].owner = r /\ E[t].retryAt <= now
             /\ F[t].owner = r /\ E[t].owner # r =>
                   t \in LeaseTargets(r) /\ Failed(E[t])
  <2>1. CASE t \in LeaseTargets(r) /\ E[t].known
    BY <1>4, <1>6, <2>1 DEF Probing, Failed
  <2>2. CASE ~(t \in LeaseTargets(r) /\ E[t].known)
    <3>1. F[t] = E[t]
      BY <1>2, <2>2 DEF F
    <3> QED
      BY <2>2, <3>1 DEF Failed, Probing
  <2> QED
    BY <2>1, <2>2
<1> QED
  BY <1>5, <1>7 DEF F

\* Both checks keep the invariant; Ready also records what it was sent onto,
\* which the claim has just made its own.
LEMMA DispatchInv ==
    ASSUME IInv, NEW r \in Requests, Begin(r) \/ Ready(r)
    PROVE  IInv'
<1>1. GoodTable(entries)
  BY GoodTableIff DEF IInv
<1>2. PICK after \in {"queued", "flight"} :
         /\ dispatch(r, after)
         /\ phase[r] = IF after = "queued" THEN "admitted" ELSE "queued"
         /\ UNCHANGED <<now, view, route>>
         /\ IF after = "queued" THEN probes' = probes
            ELSE probes' = [probes EXCEPT ![r] =
                              {t \in LeaseTargets(r) : Failed(entries'[t])}]
  BY DEF Begin, Ready
<1>3. /\ phase' = [phase EXCEPT ![r] = after]
      /\ UNCHANGED <<epoch, generations, nextProviderGeneration, active>>
  BY <1>2 DEF dispatch, viewVars
<1>4. LeaseTargets(r) \subseteq Targets
  BY LeaseTargetsTyped DEF IInv, TypeOK
<1>5. /\ probes' \in [Requests -> SUBSET Targets]
      /\ \A q \in Requests : q # r => probes'[q] = probes[q]
  BY <1>2, <1>4 DEF IInv, TypeOK
<1>6. \A q \in Requests : /\ LeaseTargets(q)' = LeaseTargets(q)
                          /\ q # r => phase'[q] = phase[q]
                          /\ phase[q] \in {"queued", "flight"} =>
                                phase'[q] \in {"queued", "flight"}
  BY <1>2, <1>3 DEF LeaseTargets, LeaseScopes, Target, IInv, TypeOK
<1>7. ViewsPublished'
  BY <1>2, <1>3 DEF IInv, ViewsPublished
<1>8. CASE view[r] # epoch
  <2>1. UNCHANGED <<entries, nextSweep, null>>
    BY <1>2, <1>8 DEF dispatch
  <2>2. TypeOK'
    BY <1>2, <1>3, <1>5, <2>1 DEF IInv, TypeOK
  <2>3. GoodTable(entries)'
    <3>1. \A t \in Targets : /\ entries[t].holders \subseteq Requests
                             /\ Probing(entries[t]) => entries[t].owner \in Requests
      BY DEF IInv, TypeOK, Entry, Probing
    <3> QED
      BY <1>1, <1>2, <1>3, <1>6, <2>1, <3>1 DEF GoodTable, Tables, Probing
  <2>4. SentOwnsProbes'
    BY <1>2, <1>3, <1>5, <1>6, <1>8, <2>1 DEF IInv, SentOwnsProbes
  <2> QED
    BY <1>7, <2>2, <2>3, <2>4, GoodTablePrime
<1>9. CASE view[r] = epoch
  <2> DEFINE E == prune(entries)
             F == Claim(E, r)
  <2>1. /\ \A s \in LeaseScopes(r) : ~Refuses(E, r, s)
        /\ entries' = F
        /\ nextSweep' = pruneSchedule
        /\ null' \in [Requests -> SUBSET Scopes]
    BY <1>2, <1>9 DEF dispatch, IInv, TypeOK
  <2>2. /\ GoodTable(E)
        /\ \A t \in Targets : Probing(entries[t]) => E[t] = entries[t]
    BY <1>1, PruneGood
  <2>3. TypeOK
    BY DEF IInv
  <2> HIDE DEF E
  <2>4. /\ F \in Tables
        /\ \A t \in Targets :
              /\ ~E[t].known => F[t] = E[t]
              /\ F[t].known = E[t].known
              /\ F[t].failures = E[t].failures
              /\ F[t].retryAt = E[t].retryAt
              /\ t \notin LeaseTargets(r) => F[t] = E[t]
              /\ E[t].holders \subseteq F[t].holders
              /\ F[t].holders \subseteq E[t].holders \cup {r}
              /\ Probing(E[t]) => F[t].owner = E[t].owner
              /\ ~Probing(E[t]) => F[t].owner \in {r, None}
              /\ t \in LeaseTargets(r) /\ E[t].known => r \in F[t].holders
              /\ t \in LeaseTargets(r) /\ Failed(E[t]) =>
                    F[t].owner = r /\ E[t].retryAt <= now
              /\ F[t].owner = r /\ E[t].owner # r =>
                    t \in LeaseTargets(r) /\ Failed(E[t])
    BY <1>9, <2>1, <2>2, <2>3, ClaimGood
  <2> HIDE DEF F
  <2>5. TypeOK'
    <3>1. nextSweep' \in Nat
      BY <2>1, <2>3, BoundsAssumption DEF TypeOK, pruneSchedule
    <3> QED
      BY <1>2, <1>3, <1>5, <2>1, <2>3, <2>4, <3>1 DEF TypeOK, Tables
  <2>6. \A t \in Targets : /\ E[t].holders \subseteq Requests
                           /\ F[t].holders \subseteq Requests
                           /\ F[t].failures \in Nat
                           /\ Probing(E[t]) => E[t].owner \in Requests
                           /\ Probing(F[t]) => F[t].owner \in Requests
    BY <2>2, <2>4 DEF GoodTable, Tables, Entry, Probing
  <2>7. ASSUME NEW t \in Targets
        PROVE  /\ ~F[t].known => F[t] = NoEntry
               /\ \A q \in F[t].holders :
                     /\ phase'[q] \in {"queued", "flight"} /\ view[q] = epoch
                     /\ t \in LeaseTargets(q)
                     /\ F[t].failures > 0 => F[t].owner = q
               /\ Probing(F[t]) =>
                     /\ F[t].known /\ F[t].failures > 0 /\ F[t].retryAt <= now
                     /\ phase'[F[t].owner] \in {"queued", "flight"}
                     /\ t \in LeaseTargets(F[t].owner)
                     /\ view[F[t].owner] = epoch => F[t].owner \in F[t].holders
    <3>1. ~F[t].known => F[t] = NoEntry
      BY <2>2, <2>4 DEF GoodTable
    <3>2. phase'[r] \in {"queued", "flight"}
      BY <1>3, <2>3 DEF TypeOK
    <3>3. CASE t \notin LeaseTargets(r)
      <4>1. F[t] = E[t]
        BY <2>4, <3>3
      <4> QED
        BY <1>6, <2>2, <2>6, <3>1, <4>1 DEF GoodTable
    <3>4. CASE t \in LeaseTargets(r) /\ ~E[t].known
      <4>1. F[t] = NoEntry /\ ~Probing(NoEntry) /\ NoEntry.holders = {}
        BY <2>2, <2>4, <3>4, NoEntryTyped DEF GoodTable, NoEntry
      <4> QED
        BY <4>1
    <3>5. CASE t \in LeaseTargets(r) /\ E[t].known /\ E[t].failures > 0
      <4>1. F[t].owner = r /\ F[t].retryAt <= now /\ r \in F[t].holders
            /\ F[t].known /\ F[t].failures > 0
        BY <2>4, <3>5 DEF Failed
      <4>2. \A q \in E[t].holders : q = r
        BY <2>2, <2>4, <2>6, <3>5, <4>1, NamesAssumption DEF GoodTable, Probing
      <4>3. \A q \in F[t].holders : q = r
        BY <2>4, <4>2
      <4> QED
        BY <1>9, <3>2, <3>5, <4>1, <4>3
    <3>6. CASE t \in LeaseTargets(r) /\ E[t].known /\ ~(E[t].failures > 0)
      <4>1. ~Probing(F[t])
        <5>1. ~Probing(E[t])
          BY <2>2, <3>6 DEF GoodTable
        <5>2. F[t].owner # r
          BY <2>4, <3>6, <5>1, NamesAssumption DEF Probing, Failed
        <5> QED
          BY <2>4, <5>1, <5>2 DEF Probing
      <4>2. ~(F[t].failures > 0)
        BY <2>4, <3>6
      <4>3. \A q \in F[t].holders : q = r \/ q \in E[t].holders
        BY <2>4
      <4>4. \A q \in E[t].holders :
               /\ phase'[q] \in {"queued", "flight"} /\ view[q] = epoch
               /\ t \in LeaseTargets(q)
        BY <1>6, <2>2, <2>6 DEF GoodTable
      <4> QED
        BY <1>9, <3>1, <3>2, <3>6, <4>1, <4>2, <4>3, <4>4
    <3> QED
      BY <3>3, <3>4, <3>5, <3>6
  <2>8. GoodTable(entries)'
    BY <1>2, <1>3, <1>6, <2>1, <2>4, <2>6, <2>7 DEF GoodTable, Tables, Probing
  <2>9. SentOwnsProbes'
    <3> SUFFICES ASSUME NEW q \in Requests, phase'[q] = "flight",
                        view'[q] = epoch', NEW t \in probes'[q]
                 PROVE  entries'[t].owner = q
      BY DEF SentOwnsProbes
    <3>1. CASE q # r
      <4>1. entries[t].owner = q /\ t \in Targets
        BY <1>2, <1>3, <1>5, <1>6, <3>1 DEF IInv, TypeOK, SentOwnsProbes
      <4>2. Probing(entries[t])
        BY <4>1, NamesAssumption DEF Probing
      <4> QED
        BY <2>1, <2>2, <2>4, <4>1, <4>2
    <3>2. CASE q = r
      <4>1. after = "flight"
        BY <1>3, <2>3, <3>2 DEF TypeOK
      <4>2. t \in LeaseTargets(r) /\ t \in Targets /\ Failed(F[t])
        BY <1>2, <1>4, <2>1, <2>3, <3>2, <4>1 DEF TypeOK
      <4>3. Failed(E[t])
        BY <2>4, <4>2 DEF Failed
      <4> QED
        BY <2>1, <2>4, <3>2, <4>2, <4>3
    <3> QED
      BY <3>1, <3>2
  <2> QED
    BY <1>7, <2>5, <2>8, <2>9, GoodTablePrime
<1> QED
  BY <1>8, <1>9

\* Forgetting a finished lease removes it from the holders and nothing else.
LEMMA ForgetEffect ==
    ASSUME NEW E \in Tables, NEW r \in Requests
    PROVE  /\ Forget(E, r) \in Tables
           /\ \A t \in Targets :
                 /\ Forget(E, r)[t].known = E[t].known
                 /\ Forget(E, r)[t].failures = E[t].failures
                 /\ Forget(E, r)[t].retryAt = E[t].retryAt
                 /\ Forget(E, r)[t].owner = E[t].owner
                 /\ Forget(E, r)[t].holders = E[t].holders \ {r}
                 /\ E[t] = NoEntry => Forget(E, r)[t] = NoEntry
<1>1. \A t \in Targets : E[t] \in Entry
  BY DEF Tables
<1>2. ASSUME NEW e \in Entry
      PROVE  LET f == [e EXCEPT !.holders = @ \ {r}]
             IN  /\ f \in Entry /\ f.known = e.known /\ f.failures = e.failures
                 /\ f.retryAt = e.retryAt /\ f.owner = e.owner
                 /\ f.holders = e.holders \ {r}
                 /\ e.holders = {} => f = e
  BY DEF Entry
<1>3. NoEntry.holders = {}
  BY DEF NoEntry
<1>4. \A t \in Targets : Forget(E, r)[t] = [E[t] EXCEPT !.holders = @ \ {r}]
  BY DEF Forget
<1>5. Forget(E, r) = [t \in Targets |-> Forget(E, r)[t]]
  BY DEF Forget
<1>6. ASSUME NEW t \in Targets
      PROVE  /\ Forget(E, r)[t] \in Entry
             /\ Forget(E, r)[t].known = E[t].known
             /\ Forget(E, r)[t].failures = E[t].failures
             /\ Forget(E, r)[t].retryAt = E[t].retryAt
             /\ Forget(E, r)[t].owner = E[t].owner
             /\ Forget(E, r)[t].holders = E[t].holders \ {r}
             /\ E[t] = NoEntry => Forget(E, r)[t] = NoEntry
  <2> DEFINE e == E[t]
             f == Forget(E, r)[t]
  <2>1. e \in Entry /\ f = [e EXCEPT !.holders = @ \ {r}]
    BY <1>1, <1>4
  <2> HIDE DEF e, f
  <2>2. /\ f \in Entry /\ f.known = e.known /\ f.failures = e.failures
        /\ f.retryAt = e.retryAt /\ f.owner = e.owner
        /\ f.holders = e.holders \ {r}
        /\ e.holders = {} => f = e
    BY <2>1 DEF Entry
  <2> QED
    BY <1>3, <2>2 DEF e, f
<1> QED
  BY <1>5, <1>6 DEF Tables

\* If a table was only judged for r, and everything r owned is released, then
\* it is good once r's lease is gone.
LEMMA JudgedGood ==
    ASSUME IInv, NEW r \in Requests, EndLease(r),
           now' = now,
           UNCHANGED <<epoch, generations, nextProviderGeneration, active>>,
           NEW E, GoodTable(E),
           \A t \in Targets : Probing(entries[t]) => E[t] = entries[t],
           NEW F \in Tables, Judged(E, F, r),
           \A t \in Targets : F[t].owner # r,
           entries' = Forget(F, r)
    PROVE  GoodTable(entries)' /\ SentOwnsProbes' /\ ViewsPublished'
<1>1. \A q \in Requests : q # r =>
         /\ LeaseTargets(q)' = LeaseTargets(q)
         /\ phase'[q] = phase[q] /\ view'[q] = view[q] /\ probes'[q] = probes[q]
  BY DEF EndLease, IInv, TypeOK, LeaseTargets, LeaseScopes, Target
<1>2. /\ entries' \in Tables
      /\ \A t \in Targets :
            /\ entries'[t].known = F[t].known
            /\ entries'[t].failures = F[t].failures
            /\ entries'[t].retryAt = F[t].retryAt
            /\ entries'[t].owner = F[t].owner
            /\ entries'[t].holders = F[t].holders \ {r}
            /\ F[t] = NoEntry => entries'[t] = NoEntry
  BY ForgetEffect
<1>3. \A t \in Targets : /\ E[t] \in Entry /\ F[t] \in Entry
                         /\ F[t].holders \subseteq Requests
                         /\ Probing(F[t]) => F[t].owner \in Requests
  BY DEF GoodTable, Tables, Entry, Probing
<1>4. ASSUME NEW t \in Targets, F[t] # E[t]
      PROVE  /\ ~Probing(F[t])
             /\ \/ ~E[t].known \/ ~Probing(E[t])
                \/ r \in E[t].holders \/ E[t].owner = r
             /\ \/ F[t] = NoEntry
                \/ F[t].known /\ F[t].holders = {}
                \/ /\ F[t].known = E[t].known /\ F[t].failures = E[t].failures
                   /\ F[t].holders = E[t].holders
                   /\ E[t] = NoEntry => F[t] = NoEntry
  <2>1. [NoEntry EXCEPT !.owner = None] = NoEntry
    BY NoEntryTyped DEF Entry, Probing
  <2>2. F[t] = [E[t] EXCEPT !.owner = None] =>
          /\ F[t].known = E[t].known /\ F[t].failures = E[t].failures
          /\ F[t].holders = E[t].holders
    BY <1>3 DEF Entry
  <2> QED
    BY <1>4, <2>1, <2>2 DEF Judged, Probing
<1>5. NoEntry.holders = {} /\ ~NoEntry.known
  BY DEF NoEntry
<1>6. ASSUME NEW t \in Targets
      PROVE  /\ ~F[t].known => F[t] = NoEntry
             /\ \A q \in F[t].holders : q # r =>
                   /\ phase[q] \in {"queued", "flight"} /\ view[q] = epoch
                   /\ t \in LeaseTargets(q)
                   /\ F[t].failures > 0 => F[t].owner = q
             /\ Probing(F[t]) =>
                   /\ F[t].known /\ F[t].failures > 0 /\ F[t].retryAt <= now
                   /\ phase[F[t].owner] \in {"queued", "flight"}
                   /\ t \in LeaseTargets(F[t].owner)
                   /\ view[F[t].owner] = epoch => F[t].owner \in F[t].holders
  <2>1. CASE F[t] = E[t]
    BY <2>1 DEF GoodTable
  <2>2. CASE F[t] # E[t]
    <3>1. ~F[t].known => F[t] = NoEntry
      BY <1>4, <2>2 DEF GoodTable
    <3>2. \A q \in F[t].holders : q # r =>
             /\ phase[q] \in {"queued", "flight"} /\ view[q] = epoch
             /\ t \in LeaseTargets(q)
             /\ ~(F[t].failures > 0)
      <4> SUFFICES ASSUME NEW q \in F[t].holders, q # r
                   PROVE  /\ phase[q] \in {"queued", "flight"} /\ view[q] = epoch
                          /\ t \in LeaseTargets(q)
                          /\ ~(F[t].failures > 0)
        OBVIOUS
      <4>1. q \in E[t].holders /\ F[t].failures = E[t].failures
        BY <1>4, <1>5, <2>2
      <4>2. /\ phase[q] \in {"queued", "flight"} /\ view[q] = epoch
            /\ t \in LeaseTargets(q)
            /\ E[t].failures > 0 => E[t].owner = q
        BY <4>1 DEF GoodTable
      <4>3. q \in Requests
        BY <1>3
      <4>4. ~(E[t].failures > 0)
        <5> SUFFICES ASSUME E[t].failures > 0 PROVE FALSE
          OBVIOUS
        <5>1. E[t].owner = q /\ Probing(E[t])
          BY <4>2, <4>3, NamesAssumption DEF Probing
        <5>2. E[t].known
          BY <5>1 DEF GoodTable
        <5>3. r \in E[t].holders \/ E[t].owner = r
          BY <1>4, <2>2, <5>1, <5>2
        <5>4. E[t].owner = r
          BY <5>3 DEF GoodTable
        <5> QED
          BY <5>1, <5>4
      <4> QED
        BY <4>1, <4>2, <4>4
    <3> QED
      BY <1>4, <2>2, <3>1, <3>2
  <2> QED
    BY <2>1, <2>2
<1>7. GoodTable(entries)'
  <2>1. ASSUME NEW t \in Targets
        PROVE  /\ ~entries'[t].known => entries'[t] = NoEntry
               /\ \A q \in entries'[t].holders :
                     /\ phase'[q] \in {"queued", "flight"} /\ view'[q] = epoch'
                     /\ t \in LeaseTargets(q)'
                     /\ entries'[t].failures > 0 => entries'[t].owner = q
               /\ \A q \in Requests : entries'[t].owner = q =>
                     /\ entries'[t].known /\ entries'[t].failures > 0
                     /\ entries'[t].retryAt <= now'
                     /\ phase'[q] \in {"queued", "flight"}
                     /\ t \in LeaseTargets(q)'
                     /\ view'[q] = epoch' => q \in entries'[t].holders
    <3>1. ~entries'[t].known => entries'[t] = NoEntry
      BY <1>2, <1>6
    <3>2. \A q \in entries'[t].holders :
             /\ phase'[q] \in {"queued", "flight"} /\ view'[q] = epoch'
             /\ t \in LeaseTargets(q)'
             /\ entries'[t].failures > 0 => entries'[t].owner = q
      BY <1>1, <1>2, <1>3, <1>6
    <3>3. ASSUME NEW q \in Requests, entries'[t].owner = q
          PROVE  /\ entries'[t].known /\ entries'[t].failures > 0
                 /\ entries'[t].retryAt <= now'
                 /\ phase'[q] \in {"queued", "flight"}
                 /\ t \in LeaseTargets(q)'
                 /\ view'[q] = epoch' => q \in entries'[t].holders
      <4>1. Probing(F[t]) /\ F[t].owner = q /\ q # r
        BY <1>2, <3>3, NamesAssumption DEF Probing
      <4>2. /\ LeaseTargets(q)' = LeaseTargets(q)
            /\ phase'[q] = phase[q] /\ view'[q] = view[q]
        BY <1>1, <4>1
      <4> QED
        BY <1>2, <1>6, <4>1, <4>2
    <3> QED
      BY <3>1, <3>2, <3>3
  <2>2. \A t \in Targets : Probing(entries'[t]) => entries'[t].owner \in Requests
    BY <1>2, <1>3 DEF Probing
  <2> QED
    BY <1>2, <2>1, <2>2 DEF GoodTable, Tables, Probing
<1>8. SentOwnsProbes'
  <2> SUFFICES ASSUME NEW q \in Requests, phase'[q] = "flight",
                      view'[q] = epoch', NEW t \in probes'[q]
               PROVE  entries'[t].owner = q
    BY DEF SentOwnsProbes
  <2>1. q # r
    BY DEF EndLease, IInv, TypeOK
  <2>2. entries[t].owner = q /\ t \in Targets
    BY <1>1, <2>1 DEF IInv, TypeOK, SentOwnsProbes
  <2>3. Probing(entries[t]) /\ E[t] = entries[t]
    BY <2>2, NamesAssumption DEF Probing
  <2>4. E[t].known /\ E[t].failures > 0
    BY <2>2, <2>3 DEF GoodTable
  <2>5. F[t] = E[t]
    <3> SUFFICES ASSUME F[t] # E[t] PROVE FALSE
      OBVIOUS
    <3>1. r \in E[t].holders \/ E[t].owner = r
      BY <1>4, <2>2, <2>3, <2>4
    <3>2. E[t].owner = r
      BY <2>2, <2>4, <3>1 DEF GoodTable
    <3> QED
      BY <2>1, <2>2, <2>3, <3>2
  <2> QED
    BY <1>2, <2>2, <2>3, <2>5
<1>9. ViewsPublished'
  BY DEF EndLease, IInv, TypeOK, ViewsPublished
<1> QED
  BY <1>7, <1>8, <1>9

\* complete for a lease of an old epoch judges the table and releases all that
\* the lease owns.
LEMMA ReleaseEffect ==
    ASSUME NEW E, GoodTable(E), NEW r \in Requests
    PROVE  /\ Release(E, r) \in Tables
           /\ Judged(E, Release(E, r), r)
           /\ \A t \in Targets : Release(E, r)[t].owner # r
<1> DEFINE F == Release(E, r)
<1>1. \A t \in Targets : E[t] \in Entry
  BY DEF GoodTable, Tables
<1>2. ASSUME NEW t \in Targets, E[t].owner = r
      PROVE  t \in LeaseTargets(r) /\ E[t].known
  BY <1>2, NamesAssumption DEF GoodTable, Probing
<1>3. ASSUME NEW t \in Targets
      PROVE  /\ F[t] \in Entry
             /\ E[t].owner # r => F[t] = E[t]
             /\ E[t].owner = r =>
                   F[t].owner = None /\ F[t].known /\ F[t].holders = {}
  <2> DEFINE e == E[t]
             f == [e EXCEPT !.owner = None, !.holders = {}]
  <2>1. e \in Entry
    BY <1>1
  <2>2. F[t] = IF E[t].owner = r THEN f ELSE E[t]
    BY <1>2 DEF Release
  <2> HIDE DEF e
  <2>3. f \in Entry /\ f.owner = None /\ f.known = e.known /\ f.holders = {}
    BY <2>1 DEF Entry
  <2> HIDE DEF f
  <2>4. CASE E[t].owner = r
    <3>1. F[t] = f
      BY <2>2, <2>4
    <3>2. f.known
      BY <1>2, <2>3, <2>4 DEF e
    <3> QED
      BY <2>3, <2>4, <3>1, <3>2
  <2>5. CASE E[t].owner # r
    BY <1>1, <2>2, <2>5
  <2> QED
    BY <2>4, <2>5
<1>4. F = [t \in Targets |-> F[t]]
  BY DEF Release
<1> HIDE DEF F
<1>5. F \in Tables
  BY <1>3, <1>4 DEF Tables
<1>6. Judged(E, F, r)
  BY <1>3 DEF Judged
<1>7. \A t \in Targets : F[t].owner # r
  BY <1>3, NamesAssumption
<1> QED
  BY <1>5, <1>6, <1>7 DEF F

\* A completion of the published view that finds its objects unchanged leaves
\* nothing of its lease behind: whatever it owned it points at, and complete
\* visits both scopes.
LEMMA CompleteCurrentEffect ==
    ASSUME TypeOK, NEW E, GoodTable(E), NEW r \in Requests, NEW outcome,
           view[r] = epoch,
           NEW E1 \in CompleteScope(E, r, "provider", outcome),
           NEW E2 \in CompleteScope(E1, r, "model", outcome)
    PROVE  /\ E2 \in Tables
           /\ Judged(E, E2, r)
           /\ \A t \in Targets : E2[t].owner # r
<1>1. E \in Tables /\ now \in Nat /\ route \in [Requests -> Routes]
  BY DEF GoodTable, TypeOK
<1>2. "provider" \in Scopes /\ "model" \in Scopes
  BY DEF Scopes
<1>3. /\ E1 \in Tables
      /\ Judged(E, E1, r)
      /\ \A u \in Targets :
            /\ "provider" \in LeaseScopes(r) /\ u = Target(r, "provider")
            /\ E[u].known /\ r \in E[u].holders
            => E1[u].owner = None
  BY <1>1, <1>2, CompleteScopeEffect
<1>4. /\ E2 \in Tables
      /\ Judged(E1, E2, r)
      /\ \A u \in Targets :
            /\ "model" \in LeaseScopes(r) /\ u = Target(r, "model")
            /\ E1[u].known /\ r \in E1[u].holders
            => E2[u].owner = None
  BY <1>1, <1>2, <1>3, CompleteScopeEffect
<1>5. Judged(E, E2, r)
  BY <1>1, <1>3, <1>4, JudgedTransitive
<1>6. ASSUME NEW t \in Targets, E2[t].owner = r
      PROVE  FALSE
  <2>1. E2[t] = E1[t] /\ E1[t] = E[t]
    BY <1>3, <1>4, <1>6, NamesAssumption DEF Judged
  <2>2. Probing(E[t]) /\ E[t].owner = r
    BY <1>6, <2>1, NamesAssumption DEF Probing
  <2>3. E[t].known /\ t \in LeaseTargets(r) /\ r \in E[t].holders
    BY <2>2 DEF GoodTable
  <2>4. PICK s \in LeaseScopes(r) : t = Target(r, s)
    BY <2>3 DEF LeaseTargets
  <2>5. s = "provider" \/ s = "model"
    BY <2>4 DEF LeaseScopes, Scopes
  <2>6. E2[t].owner = None
    BY <1>3, <1>4, <2>1, <2>3, <2>4, <2>5
  <2> QED
    BY <1>6, <2>6, NamesAssumption
<1> QED
  BY <1>4, <1>5, <1>6

\* Every completion keeps the invariant, in whatever view the request ends.
LEMMA CompleteInv ==
    ASSUME IInv, NEW r \in Requests, NEW outcome, Complete(r, outcome)
    PROVE  IInv'
<1>1. GoodTable(entries) /\ TypeOK
  BY GoodTableIff DEF IInv
<1>2. /\ EndLease(r) /\ now' = now /\ phase[r] # "idle"
      /\ UNCHANGED <<epoch, generations, nextProviderGeneration, active>>
  BY DEF Complete, viewVars
<1>3. ASSUME entries' \in Tables, nextSweep' \in Nat
      PROVE  TypeOK'
  BY <1>1, <1>2, <1>3, InitialRouteTyped DEF EndLease, TypeOK, Tables
<1>4. nextSweep' \in Nat
  BY <1>1, BoundsAssumption DEF Complete, TypeOK, pruneSchedule
<1>5. CASE view[r] # epoch
  <2>1. entries' = Forget(Release(entries, r), r)
    BY <1>5 DEF Complete
  <2>2. /\ Release(entries, r) \in Tables
        /\ Judged(entries, Release(entries, r), r)
        /\ \A t \in Targets : Release(entries, r)[t].owner # r
    BY <1>1, ReleaseEffect
  <2>3. entries' \in Tables
    BY <2>1, <2>2, ForgetEffect
  <2>4. GoodTable(entries)' /\ SentOwnsProbes' /\ ViewsPublished'
    BY <1>1, <1>2, <2>1, <2>2, JudgedGood
  <2> QED
    BY <1>3, <1>4, <2>3, <2>4, GoodTablePrime
<1>6. CASE view[r] = epoch
  <2>1. generations[route[r].provider] = route[r].gen
    BY <1>2, <1>6 DEF IInv, ViewsPublished
  <2>2. PICK E1 \in CompleteScope(prune(entries), r, "provider", outcome) :
        \E E2 \in CompleteScope(E1, r, "model", outcome) :
           entries' = Forget(E2, r)
    BY <1>6, <2>1 DEF Complete
  <2>3. PICK E2 \in CompleteScope(E1, r, "model", outcome) :
           entries' = Forget(E2, r)
    BY <2>2
  <2>4. /\ GoodTable(prune(entries))
        /\ \A t \in Targets : Probing(entries[t]) => prune(entries)[t] = entries[t]
    BY <1>1, PruneGood
  <2>5. /\ E2 \in Tables
        /\ Judged(prune(entries), E2, r)
        /\ \A t \in Targets : E2[t].owner # r
    BY <1>1, <1>6, <2>2, <2>3, <2>4, CompleteCurrentEffect
  <2>6. entries' \in Tables
    BY <2>3, <2>5, ForgetEffect
  <2>7. GoodTable(entries)' /\ SentOwnsProbes' /\ ViewsPublished'
    BY <1>2, <2>3, <2>4, <2>5, JudgedGood
  <2> QED
    BY <1>3, <1>4, <2>6, <2>7, GoodTablePrime
<1> QED
  BY <1>5, <1>6

\* A publication copies the objects it keeps: no lease points at a copy, and
\* no request has the new view yet.
LEMMA ActivateInv ==
    ASSUME IInv, NEW gens \in [Providers -> Gens \cup {0}], NEW allowed,
           activate(gens, allowed), nextProviderGeneration' \in Gens
    PROVE  IInv'
<1>1. GoodTable(entries) /\ TypeOK /\ ViewsPublished
  BY GoodTableIff DEF IInv
<1>2. /\ epoch' = epoch + 1 /\ now' = now /\ generations' = gens
      /\ UNCHANGED <<active, nextSweep, phase, view, route, null, probes>>
  BY DEF activate, leaseVars
<1>3. /\ \A q \in Requests : view'[q] # epoch' /\ view'[q] <= epoch'
      /\ active'.epoch # epoch' /\ active'.epoch <= epoch'
  BY <1>1, <1>2 DEF TypeOK, ViewsPublished
<1>4. ASSUME NEW t \in Targets
      PROVE  /\ entries'[t] \in Entry
             /\ entries'[t].holders = {}
             /\ \/ entries'[t] = NoEntry
                \/ /\ entries'[t].known = entries[t].known
                   /\ entries'[t].failures = entries[t].failures
                   /\ entries'[t].retryAt = entries[t].retryAt
                   /\ entries'[t].owner = entries[t].owner
                   /\ entries[t].known
  <2> DEFINE e == entries[t]
             f == [e EXCEPT !.holders = {}]
  <2>1. e \in Entry
    BY <1>1 DEF TypeOK
  <2>2. entries'[t] = NoEntry \/ (entries[t].known /\ entries'[t] = f)
    BY DEF activate
  <2> HIDE DEF e
  <2>3. /\ f \in Entry /\ f.holders = {} /\ f.known = e.known
        /\ f.failures = e.failures /\ f.retryAt = e.retryAt /\ f.owner = e.owner
    BY <2>1 DEF Entry
  <2> HIDE DEF f
  <2>4. NoEntry.holders = {}
    BY DEF NoEntry
  <2>5. CASE entries'[t] = NoEntry
    BY <2>4, <2>5, NoEntryTyped
  <2>6. CASE entries[t].known /\ entries'[t] = f
    BY <2>3, <2>6 DEF e
  <2> QED
    BY <2>2, <2>5, <2>6
<1>5. entries' = [t \in Targets |-> entries'[t]]
  BY DEF activate
<1>6. entries' \in Tables
  BY <1>4, <1>5 DEF Tables
<1>7. TypeOK'
  BY <1>1, <1>2, <1>6 DEF TypeOK, Tables
<1>8. \A q \in Requests : LeaseTargets(q)' = LeaseTargets(q)
  BY <1>2 DEF LeaseTargets, LeaseScopes, Target
<1>9. GoodTable(entries)'
  <2>1. ASSUME NEW t \in Targets, ~entries'[t].known
        PROVE  entries'[t] = NoEntry
    BY <1>4, <2>1
  <2>2. ASSUME NEW t \in Targets, NEW q \in Requests, entries'[t].owner = q
        PROVE  /\ entries'[t].known /\ entries'[t].failures > 0
               /\ entries'[t].retryAt <= now'
               /\ phase'[q] \in {"queued", "flight"}
               /\ t \in LeaseTargets(q)'
               /\ view'[q] # epoch'
    <3>1. entries'[t] # NoEntry
      BY <2>2, NamesAssumption, NoEntryTyped DEF Probing
    <3>2. /\ entries[t].owner = q /\ Probing(entries[t])
          /\ entries'[t].known = entries[t].known
          /\ entries'[t].failures = entries[t].failures
          /\ entries'[t].retryAt = entries[t].retryAt
      BY <1>4, <2>2, <3>1, NamesAssumption DEF Probing
    <3>3. /\ entries[t].known /\ entries[t].failures > 0
          /\ entries[t].retryAt <= now
          /\ phase[q] \in {"queued", "flight"} /\ t \in LeaseTargets(q)
      BY <1>1, <3>2 DEF GoodTable
    <3> QED
      BY <1>2, <1>3, <1>8, <3>2, <3>3
  <2>3. \A t \in Targets : Probing(entries'[t]) => entries'[t].owner \in Requests
    BY <1>4 DEF Entry, Probing
  <2> QED
    BY <1>4, <1>6, <2>1, <2>2, <2>3 DEF GoodTable, Tables, Probing
<1>10. SentOwnsProbes' /\ ViewsPublished'
  BY <1>3 DEF SentOwnsProbes, ViewsPublished
<1> QED
  BY <1>7, <1>9, <1>10, GoodTablePrime

\* Handing out the newest view touches neither the table nor a lease.
LEMMA PublishInv ==
    ASSUME IInv, Publish
    PROVE  IInv'
<1>1. GoodTable(entries) /\ TypeOK /\ SentOwnsProbes /\ ViewsPublished
  BY GoodTableIff DEF IInv
<1>2. /\ active' = [epoch |-> epoch, generations |-> generations]
      /\ UNCHANGED <<now, epoch, generations, nextProviderGeneration, entries,
                     nextSweep, phase, view, route, null, probes>>
  BY DEF Publish, leaseVars
<1>3. TypeOK'
  BY <1>1, <1>2 DEF TypeOK
<1>4. GoodTable(entries)'
  BY <1>1, <1>2 DEF GoodTable, LeaseTargets, LeaseScopes, Target
<1>5. SentOwnsProbes'
  BY <1>1, <1>2 DEF SentOwnsProbes
<1>6. ViewsPublished'
  BY <1>1, <1>2 DEF ViewsPublished, TypeOK
<1> QED
  BY <1>3, <1>4, <1>5, <1>6, GoodTablePrime

\* Look-ups prune, the clock only makes more targets due, and a stuttering
\* step changes nothing.
LEMMA BackgroundInv ==
    ASSUME IInv, Lookup \/ Tick \/ UNCHANGED vars
    PROVE  IInv'
<1>1. GoodTable(entries) /\ TypeOK /\ SentOwnsProbes /\ ViewsPublished
  BY GoodTableIff DEF IInv
<1>2. /\ GoodTable(prune(entries))
      /\ \A t \in Targets : Probing(entries[t]) => prune(entries)[t] = entries[t]
  BY <1>1, PruneGood
<1>3. /\ UNCHANGED <<epoch, generations, nextProviderGeneration, active>>
      /\ UNCHANGED <<phase, view, route, null, probes>>
      /\ now' \in Nat /\ now <= now'
      /\ nextSweep' \in Nat
      /\ entries' = entries \/ entries' = prune(entries)
  BY <1>1, BoundsAssumption
     DEF Lookup, Tick, vars, tableVars, viewVars, leaseVars, TypeOK, pruneSchedule
<1>4. /\ GoodTable(entries')
      /\ \A t \in Targets : Probing(entries[t]) => entries'[t] = entries[t]
  BY <1>1, <1>2, <1>3
<1>5. TypeOK'
  BY <1>1, <1>3, <1>4 DEF TypeOK, GoodTable, Tables
<1>6. \A q \in Requests : LeaseTargets(q)' = LeaseTargets(q)
  BY <1>3 DEF LeaseTargets, LeaseScopes, Target
<1>7. GoodTable(entries)'
  <2>1. \A t \in Targets : /\ entries'[t].holders \subseteq Requests
                           /\ entries'[t].retryAt \in Nat
                           /\ Probing(entries'[t]) => entries'[t].owner \in Requests
    BY <1>5 DEF TypeOK, Entry, Probing
  <2>2. \A t \in Targets : entries'[t].retryAt <= now => entries'[t].retryAt <= now'
    BY <1>1, <1>3, <2>1 DEF TypeOK
  <2> QED
    BY <1>3, <1>4, <1>6, <2>1, <2>2 DEF GoodTable, Tables, Probing
<1>8. SentOwnsProbes'
  BY <1>1, <1>3, <1>4, NamesAssumption DEF TypeOK, SentOwnsProbes, Probing
<1>9. ViewsPublished'
  BY <1>1, <1>3 DEF ViewsPublished
<1> QED
  BY <1>5, <1>7, <1>8, <1>9, GoodTablePrime

\* Every step keeps the invariant.
LEMMA NextInv == IInv /\ [Next]_vars => IInv'
<1> SUFFICES ASSUME IInv, [Next]_vars PROVE IInv'
  OBVIOUS
<1>1. ASSUME NEW r \in Requests, NEW p \in Providers, NEW m \in Models,
             Admit(r, p, m)
      PROVE  IInv'
  BY <1>1, AdmitInv
<1>2. ASSUME NEW r \in Requests, RequestStep(r)
      PROVE  IInv'
  BY <1>2, DispatchInv, RefusedInv, CompleteInv DEF RequestStep
<1>3. CASE Activate
  <2>1. PICK allowed \in SUBSET Models :
           \/ /\ activate(generations, allowed)
              /\ UNCHANGED nextProviderGeneration
           \/ \E p \in Providers :
                 /\ activate([generations EXCEPT ![p] = 0], allowed)
                 /\ UNCHANGED nextProviderGeneration
           \/ \E p \in Providers :
                 /\ nextProviderGeneration < MaxGen
                 /\ nextProviderGeneration' = nextProviderGeneration + 1
                 /\ activate([generations EXCEPT ![p] = nextProviderGeneration'],
                             allowed)
    BY <1>3 DEF Activate
  <2>2. /\ generations \in [Providers -> Gens \cup {0}]
        /\ nextProviderGeneration \in Gens
    BY DEF IInv, TypeOK
  <2>3. nextProviderGeneration' \in Gens
    <3>1. \/ nextProviderGeneration' = nextProviderGeneration
          \/ /\ nextProviderGeneration < MaxGen
             /\ nextProviderGeneration' = nextProviderGeneration + 1
      BY <2>1, Zenon
    <3> QED
      BY <2>2, <3>1, BoundsAssumption DEF Gens
  <2>4. PICK gens \in [Providers -> Gens \cup {0}] : activate(gens, allowed)
    <3>1. \A p \in Providers, g \in Gens \cup {0} :
             [generations EXCEPT ![p] = g] \in [Providers -> Gens \cup {0}]
      BY <2>2
    <3>2. CASE activate(generations, allowed)
      BY <2>2, <3>2
    <3>3. ASSUME NEW p \in Providers, NEW g \in Gens \cup {0},
                 activate([generations EXCEPT ![p] = g], allowed)
          PROVE  \E gens \in [Providers -> Gens \cup {0}] : activate(gens, allowed)
      BY <3>1, <3>3
    <3> QED
      BY <2>1, <2>3, <3>2, <3>3
  <2> QED
    BY <2>3, <2>4, ActivateInv
<1>4. CASE Publish
  BY <1>4, PublishInv
<1>5. CASE Lookup \/ Tick \/ UNCHANGED vars
  BY <1>5, BackgroundInv
<1> QED
  BY <1>1, <1>2, <1>3, <1>4, <1>5 DEF Next

-----------------------------------------------------------------------------
(* Theorems.                                                               *)

\* The inductive invariant of availability.go's table and leases.
THEOREM Inductive == Spec => []IInv
<1> QED
  BY InitInv, NextInv, PTL DEF Spec

\* Type correctness of the table and of the leases.
THEOREM TypeCorrect == Spec => []TypeOK
<1>1. IInv => TypeOK
  BY DEF IInv
<1> QED
  BY <1>1, Inductive, PTL

\* begin, dispatch, complete, activate and prune together never orphan a
\* claim, for any number of requests, targets and publications: its owner is
\* live and will find it.
THEOREM NoOrphanProbe == Spec => []ProbesOwned
<1>1. IInv => ProbesOwned
  BY DEF IInv
<1> QED
  BY <1>1, Inductive, PTL

\* Two requests of the published view are never both in flight on the same
\* failed target.
THEOREM SingleProbe == Spec => []OneProbePerTarget
<1>1. IInv => OneProbePerTarget
  <2> SUFFICES ASSUME IInv, NEW r1 \in Requests, NEW r2 \in Requests, r1 # r2,
                      view[r1] = epoch, view[r2] = epoch,
                      phase[r1] = "flight", phase[r2] = "flight",
                      NEW t \in probes[r1] \cap probes[r2]
               PROVE  FALSE
    BY DEF OneProbePerTarget
  <2> QED
    BY DEF IInv, SentOwnsProbes
<1> QED
  BY <1>1, Inductive, PTL
-----------------------------------------------------------------------------
(* The bound of the table.                                                 *)

\* E is a table within the limit.
Small(E) == IsFiniteSet(Known(E)) /\ Cardinality(Known(E)) <= Limit

\* Forgetting objects keeps the bound.
LEMMA FewerSmall ==
    ASSUME NEW E, NEW F, Small(E), Known(F) \subseteq Known(E)
    PROVE  Small(F)
<1>1. IsFiniteSet(Known(F)) /\ Cardinality(Known(F)) <= Cardinality(Known(E))
  BY FS_Subset DEF Small
<1>2. Cardinality(Known(F)) \in Nat /\ Cardinality(Known(E)) \in Nat
  BY <1>1, FS_CardinalityType DEF Small
<1> QED
  BY <1>1, <1>2, BoundsAssumption DEF Small

\* prune only forgets.
LEMMA PruneSmall ==
    ASSUME NEW E \in Tables, Small(E)
    PROVE  Small(prune(E))
<1>1. \A t \in Targets : prune(E)[t] = E[t] \/ prune(E)[t] = NoEntry
  BY PruneEffect
<1>2. Known(prune(E)) \subseteq Known(E)
  BY <1>1 DEF Known, NoEntry
<1> QED
  BY <1>2, FewerSmall

\* put makes room before it adds.
LEMMA PutSmall ==
    ASSUME NEW E \in Tables, NEW t \in Targets, NEW e \in Entry,
           NEW F \in put(E, t, e), Small(E)
    PROVE  Small(F)
<1>1. IsFiniteSet(Known(E)) /\ Cardinality(Known(E)) \in Nat
      /\ Cardinality(Known(E)) <= Limit
  BY FS_CardinalityType DEF Small
<1>2. CASE E[t].known
  <2>1. F = [E EXCEPT ![t] = e]
    BY <1>2 DEF put
  <2>2. Known(F) \subseteq Known(E)
    BY <1>2, <2>1 DEF Known, Tables
  <2> QED
    BY <2>2, FewerSmall
<1>3. CASE ~E[t].known /\ Cardinality(Known(E)) < Limit
  <2>1. F = [E EXCEPT ![t] = e]
    BY <1>3 DEF put
  <2>2. Known(F) \subseteq Known(E) \cup {t}
    BY <2>1 DEF Known, Tables
  <2>3. /\ IsFiniteSet(Known(E) \cup {t})
        /\ Cardinality(Known(E) \cup {t}) <= Cardinality(Known(E)) + 1
        /\ Cardinality(Known(E) \cup {t}) \in Nat
    <3>1. /\ IsFiniteSet(Known(E) \cup {t})
          /\ \/ Cardinality(Known(E) \cup {t}) = Cardinality(Known(E))
             \/ Cardinality(Known(E) \cup {t}) = Cardinality(Known(E)) + 1
      BY <1>1, FS_AddElement
    <3> QED
      BY <1>1, <3>1
  <2>4. /\ IsFiniteSet(Known(F))
        /\ Cardinality(Known(F)) <= Cardinality(Known(E) \cup {t})
        /\ Cardinality(Known(F)) \in Nat
    BY <2>2, <2>3, FS_Subset, FS_CardinalityType
  <2> QED
    BY <1>1, <1>3, <2>3, <2>4, BoundsAssumption DEF Small
<1>4. CASE /\ ~E[t].known /\ ~(Cardinality(Known(E)) < Limit)
           /\ Evictable(E) = {}
  <2>1. F = E
    BY <1>4 DEF put
  <2> QED
    BY <2>1
<1>5. CASE /\ ~E[t].known /\ ~(Cardinality(Known(E)) < Limit)
           /\ Evictable(E) # {}
  <2>1. PICK old \in Evictable(E) : F = [Without(E, old) EXCEPT ![t] = e]
    BY <1>5 DEF put
  <2>2. old \in Known(E)
    BY DEF Evictable
  <2> DEFINE rest == Known(E) \ {old}
  <2>3. Known(F) \subseteq rest \cup {t}
    BY <2>1 DEF Known, Without, Tables, NoEntry
  <2>4. IsFiniteSet(rest) /\ Cardinality(rest) = Cardinality(Known(E)) - 1
    BY <1>1, <2>2, FS_RemoveElement
  <2> HIDE DEF rest
  <2>5. /\ IsFiniteSet(rest \cup {t})
        /\ Cardinality(rest \cup {t}) <= Cardinality(Known(E))
        /\ Cardinality(rest \cup {t}) \in Nat
    <3>1. /\ IsFiniteSet(rest \cup {t})
          /\ \/ Cardinality(rest \cup {t}) = Cardinality(rest)
             \/ Cardinality(rest \cup {t}) = Cardinality(rest) + 1
      BY <2>4, FS_AddElement
    <3>2. Cardinality(rest \cup {t}) \in Nat
      BY <3>1, FS_CardinalityType
    <3> QED
      BY <1>1, <2>4, <3>1, <3>2
  <2>6. /\ IsFiniteSet(Known(F))
        /\ Cardinality(Known(F)) <= Cardinality(rest \cup {t})
        /\ Cardinality(Known(F)) \in Nat
    BY <2>3, <2>5, FS_Subset, FS_CardinalityType
  <2> QED
    BY <1>1, <2>5, <2>6, BoundsAssumption DEF Small
<1> QED
  BY <1>2, <1>3, <1>4, <1>5

\* complete at one scope keeps the bound, whatever the outcome.
LEMMA CompleteScopeSmall ==
    ASSUME NEW E \in Tables, NEW r \in Requests, NEW s \in Scopes, NEW outcome,
           NEW F \in CompleteScope(E, r, s, outcome),
           route \in [Requests -> Routes], now \in Nat, Small(E)
    PROVE  Small(F)
<1> DEFINE t == Target(r, s)
<1>1. CASE s \notin LeaseScopes(r) \/ ~SamePointer(E, r, s)
  <2>1. F = E
    BY <1>1 DEF CompleteScope
  <2> QED
    BY <2>1
<1>2. CASE s \in LeaseScopes(r) /\ SamePointer(E, r, s)
  <2>1. t \in Targets
    BY <1>2, LeaseTargetsTyped
  <2>2. E[t] \in Entry
    BY <2>1 DEF Tables
  <2>3. CASE outcome # "success" /\ ~Fails(E[t], s, outcome)
    <3>1. F = [E EXCEPT ![t].owner = None]
      BY <1>2, <2>3 DEF CompleteScope
    <3>2. \A u \in Targets : F[u].known = E[u].known
      BY <2>1, <2>2, <3>1 DEF Tables, Entry
    <3>3. Known(F) \subseteq Known(E)
      BY <3>2 DEF Known
    <3> QED
      BY <3>3, FewerSmall
  <2>4. CASE ~(outcome # "success" /\ ~Fails(E[t], s, outcome))
    <3>1. PICK e \in Observed(E[t], outcome) : F \in put(E, t, e)
      BY <1>2, <2>4 DEF CompleteScope
    <3>2. e \in Entry
      BY <2>2, <3>1, ObservedTyped
    <3> QED
      BY <2>1, <3>1, <3>2, PutSmall
  <2> QED
    BY <2>3, <2>4
<1> QED
  BY <1>1, <1>2

\* What only points, claims, releases or forgets keeps the bound.
LEMMA SameKnownSmall ==
    ASSUME NEW E \in Tables, NEW r \in Requests, Small(E)
    PROVE  Small(Forget(E, r)) /\ Small(Claim(E, r)) /\ Small(Release(E, r))
<1>1. \A t \in Targets : E[t] \in Entry
  BY DEF Tables
<1>2. Known(Forget(E, r)) \subseteq Known(E)
  BY <1>1 DEF Known, Forget, Entry
<1>3. Known(Claim(E, r)) \subseteq Known(E)
  BY <1>1 DEF Known, Claim, Held, Entry
<1>4. Known(Release(E, r)) \subseteq Known(E)
  BY <1>1 DEF Known, Release, Entry
<1> QED
  BY <1>2, <1>3, <1>4, FewerSmall

\* Every step keeps the bound.
LEMMA NextSmall ==
    ASSUME TypeOK, Small(entries), [Next]_vars
    PROVE  Small(entries)'
<1>0. entries \in Tables /\ route \in [Requests -> Routes] /\ now \in Nat
  BY DEF TypeOK, Tables
<1>1. SUFFICES Small(entries')
  BY DEF Small, Known
<1>2. Small(prune(entries)) /\ prune(entries) \in Tables
  BY <1>0, PruneSmall, PruneEffect
<1>3. ASSUME NEW r \in Requests, NEW after, dispatch(r, after)
      PROVE  Small(entries')
  <2>1. entries' = entries \/ entries' = Claim(prune(entries), r)
    BY <1>3 DEF dispatch
  <2> QED
    BY <1>2, <2>1, SameKnownSmall
<1>4. ASSUME NEW r \in Requests, dispatchRefused(r)
      PROVE  Small(entries')
  BY <1>2, <1>4 DEF dispatchRefused
<1>5. ASSUME NEW r \in Requests, NEW outcome, Complete(r, outcome)
      PROVE  Small(entries')
  <2>1. CASE entries' = Forget(Release(entries, r), r)
    <3>1. Release(entries, r) \in Tables
      <4>1. \A t \in Targets : [entries[t] EXCEPT !.owner = None, !.holders = {}] \in Entry
        BY <1>0 DEF Tables, Entry
      <4> QED
        BY <1>0, <4>1 DEF Release, Tables
    <3> QED
      BY <1>0, <2>1, <3>1, SameKnownSmall
  <2>2. CASE entries' = Forget(entries, r)
    BY <1>0, <2>2, SameKnownSmall
  <2>3. CASE \E E1 \in CompleteScope(prune(entries), r, "provider", outcome) :
             \E E2 \in CompleteScope(E1, r, "model", outcome) :
                entries' = Forget(E2, r)
    <3>1. PICK E1 \in CompleteScope(prune(entries), r, "provider", outcome) :
               \E E2 \in CompleteScope(E1, r, "model", outcome) :
                  entries' = Forget(E2, r)
      BY <2>3
    <3>2. PICK E2 \in CompleteScope(E1, r, "model", outcome) :
                  entries' = Forget(E2, r)
      BY <3>1
    <3>3. "provider" \in Scopes /\ "model" \in Scopes
      BY DEF Scopes
    <3>4. E1 \in Tables /\ Small(E1)
      BY <1>0, <1>2, <3>1, <3>3, CompleteScopeEffect, CompleteScopeSmall
    <3>5. E2 \in Tables /\ Small(E2)
      BY <1>0, <3>2, <3>3, <3>4, CompleteScopeEffect, CompleteScopeSmall
    <3> QED
      BY <3>2, <3>5, SameKnownSmall
  <2> QED
    BY <1>5, <2>1, <2>2, <2>3 DEF Complete
<1>6. ASSUME NEW gens, NEW allowed, activate(gens, allowed)
      PROVE  Small(entries')
  <2>1. \A t \in Targets : entries[t] \in Entry
    BY <1>0 DEF Tables
  <2>2. Known(entries') \subseteq Known(entries)
    BY <1>6, <2>1 DEF Known, activate, Entry, NoEntry
  <2> QED
    BY <2>2, FewerSmall
<1>7. CASE Lookup
  BY <1>2, <1>7 DEF Lookup
<1>8. CASE UNCHANGED entries
  BY <1>8
<1>9. CASE \E r \in Requests : RequestStep(r)
  BY <1>3, <1>4, <1>5, <1>9
     DEF RequestStep, Begin, BeginRefused, Ready, ReadyRefused
<1>10. CASE \E r \in Requests, p \in Providers, m \in Models : Admit(r, p, m)
  BY <1>8, <1>10 DEF Admit, tableVars
<1>11. CASE Activate
  BY <1>6, <1>11 DEF Activate
<1> QED
  BY <1>7, <1>8, <1>9, <1>10, <1>11 DEF Next, Publish, Tick, vars, tableVars

\* The bound as an invariant, with the finiteness that cardinalities need.
LEMMA BoundInvariant == Spec => []Small(entries)
<1>1. Init => Small(entries)
  <2>1. Init => Known(entries) = {}
    BY DEF Init, Known, NoEntry
  <2> QED
    BY <2>1, FS_EmptySet, BoundsAssumption DEF Small
<1>2. Small(entries) /\ TypeOK /\ [Next]_vars => Small(entries)'
  BY NextSmall
<1> QED
  BY <1>1, <1>2, TypeCorrect, PTL DEF Spec

\* "Observations are capped": no order of completions, prunings, evictions and
\* publications makes the table of availability.go outgrow its limit.
THEOREM TableStaysBounded == Spec => []TableBounded
<1>1. Small(entries) => TableBounded
  BY DEF Small, TableBounded
<1> QED
  BY <1>1, BoundInvariant, PTL

\* The table and the requests in flight agree: types, bound, no orphaned
\* claim and one probe per target.
THEOREM TableSound == Spec => []TableConsistent
<1>1. TypeOK /\ TableBounded /\ ProbesOwned /\ OneProbePerTarget => TableConsistent
  BY DEF TableConsistent
<1> QED
  BY <1>1, TypeCorrect, TableStaysBounded, NoOrphanProbe, SingleProbe, PTL

-----------------------------------------------------------------------------
(* What one step may do to the table.                                      *)

\* A step other than a completion keeps what is known of every target or
\* forgets it, loses a claim only with a publication, and ends no lease that
\* was begun.
Quiet ==
    /\ \A t \in Targets :
          \/ /\ entries'[t].known = entries[t].known
             /\ entries'[t].failures = entries[t].failures
             /\ entries'[t].retryAt = entries[t].retryAt
             /\ Probing(entries[t]) => entries'[t].owner = entries[t].owner
          \/ /\ ~entries'[t].known
             /\ Probing(entries[t]) => epoch' # epoch
    /\ \A r \in Requests : phase[r] \in {"queued", "flight"} => phase'[r] # "idle"

\* An accepted check of dispatch leaves a table of the same observations, and
\* every failed target of a current lease is due.
LEMMA DispatchEffect ==
    ASSUME IInv, NEW r \in Requests, NEW after, dispatch(r, after)
    PROVE  \A t \in Targets :
              /\ \/ /\ entries'[t].known = entries[t].known
                    /\ entries'[t].failures = entries[t].failures
                    /\ entries'[t].retryAt = entries[t].retryAt
                    /\ Probing(entries[t]) => entries'[t].owner = entries[t].owner
                 \/ ~entries'[t].known /\ ~Probing(entries[t])
              /\ view[r] = epoch /\ t \in LeaseTargets(r) /\ Failed(entries'[t]) =>
                    entries[t].retryAt <= now
<1>1. GoodTable(entries) /\ TypeOK
  BY GoodTableIff DEF IInv
<1>2. CASE view[r] # epoch
  BY <1>2 DEF dispatch
<1>3. CASE view[r] = epoch
  <2> DEFINE E == prune(entries)
  <2>1. /\ entries' = Claim(E, r)
        /\ \A s \in LeaseScopes(r) : ~Refuses(E, r, s)
    BY <1>3 DEF dispatch
  <2>2. GoodTable(E)
    BY <1>1, PruneGood
  <2>3. \A t \in Targets : \/ E[t] = entries[t]
                           \/ E[t] = NoEntry /\ ~Probing(entries[t])
    BY <1>1, PruneEffect DEF GoodTable
  <2> HIDE DEF E
  <2>4. \A t \in Targets :
           /\ entries'[t].known = E[t].known
           /\ entries'[t].failures = E[t].failures
           /\ entries'[t].retryAt = E[t].retryAt
           /\ Probing(E[t]) => entries'[t].owner = E[t].owner
           /\ t \in LeaseTargets(r) /\ Failed(E[t]) => E[t].retryAt <= now
    BY <1>1, <1>3, <2>1, <2>2, ClaimGood
  <2>5. ~NoEntry.known
    BY DEF NoEntry
  <2> QED
    BY <2>3, <2>4, <2>5 DEF Failed
<1> QED
  BY <1>2, <1>3

\* Every step is a completion or a quiet one.
LEMMA StepEffect ==
    ASSUME IInv, [Next]_vars
    PROVE  \/ Quiet
           \/ \E r \in Requests, outcome \in Outcomes : Complete(r, outcome)
<1>1. GoodTable(entries) /\ TypeOK
  BY GoodTableIff DEF IInv
<1>2. \A t \in Targets : \/ prune(entries)[t] = entries[t]
                         \/ prune(entries)[t] = NoEntry /\ ~Probing(entries[t])
  BY <1>1, PruneEffect DEF GoodTable
<1>3. ~NoEntry.known
  BY DEF NoEntry
<1>4. ASSUME NEW r \in Requests, NEW p \in Providers, NEW m \in Models,
             Admit(r, p, m)
      PROVE  Quiet
  BY <1>1, <1>4 DEF Admit, tableVars, Quiet, TypeOK
<1>5. ASSUME NEW r \in Requests, Begin(r) \/ Ready(r)
      PROVE  Quiet
  <2>1. PICK after \in {"queued", "flight"} :
           dispatch(r, after) /\ phase' = [phase EXCEPT ![r] = after]
    BY <1>5 DEF Begin, Ready, dispatch
  <2> QED
    BY <1>1, <2>1, DispatchEffect DEF Quiet, TypeOK
<1>6. ASSUME NEW r \in Requests, BeginRefused(r)
      PROVE  Quiet
  BY <1>1, <1>2, <1>3, <1>6
     DEF BeginRefused, dispatchRefused, EndLease, Quiet, TypeOK
<1>7. ASSUME NEW r \in Requests, ReadyRefused(r)
      PROVE  Quiet
  BY <1>1, <1>2, <1>3, <1>7
     DEF ReadyRefused, dispatchRefused, leaseVars, Quiet, TypeOK
<1>8. ASSUME NEW gens, NEW allowed, activate(gens, allowed)
      PROVE  Quiet
  <2>1. epoch' # epoch /\ phase' = phase
    BY <1>1, <1>8 DEF activate, TypeOK, leaseVars
  <2>2. \A t \in Targets : \/ entries'[t] = [entries[t] EXCEPT !.holders = {}]
                           \/ entries'[t] = NoEntry
    BY <1>8 DEF activate
  <2>3. \A t \in Targets : entries[t] \in Entry
    BY <1>1 DEF TypeOK
  <2> QED
    BY <1>3, <2>1, <2>2, <2>3 DEF Quiet, Entry
<1>9. CASE Activate
  BY <1>8, <1>9 DEF Activate
<1>10. CASE Lookup
  BY <1>2, <1>3, <1>10 DEF Lookup, leaseVars, Quiet
<1>11. CASE Publish \/ Tick \/ UNCHANGED vars
  BY <1>11 DEF Publish, Tick, vars, tableVars, leaseVars, Quiet
<1> QED
  BY <1>4, <1>5, <1>6, <1>7, <1>9, <1>10, <1>11 DEF Next, RequestStep

\* What a completion of r does: the lease ends, and the table is the one its
\* view allows.
LEMMA CompleteCases ==
    ASSUME NEW r \in Requests, NEW outcome, Complete(r, outcome), TypeOK
    PROVE  /\ phase[r] \in {"queued", "flight"}
           /\ outcome # "none" => phase[r] = "flight"
           /\ phase'[r] = "idle"
           /\ \A q \in Requests : q # r => phase'[q] = phase[q]
           /\ \/ view[r] # epoch /\ entries' = Forget(Release(entries, r), r)
              \/ view[r] = epoch /\ entries' = Forget(entries, r)
              \/ /\ view[r] = epoch
                 /\ \E E1 \in CompleteScope(prune(entries), r, "provider", outcome) :
                    \E E2 \in CompleteScope(E1, r, "model", outcome) :
                       entries' = Forget(E2, r)
  BY DEF Complete, EndLease, TypeOK

-----------------------------------------------------------------------------
(* Action properties.                                                      *)

SentStep ==
    \A r \in Requests :
        phase[r] = "queued" /\ phase'[r] = "flight" /\ view[r] = epoch =>
           \A t \in probes'[r] : entries[t].retryAt <= now

\* Only Ready sends a request, and it checks every failed target once more.
LEMMA SentNext ==
    ASSUME IInv, [Next]_vars
    PROVE  SentStep
<1> SUFFICES ASSUME NEW r \in Requests, phase[r] = "queued", phase'[r] = "flight",
                    view[r] = epoch, NEW t \in probes'[r]
             PROVE  entries[t].retryAt <= now
  BY DEF SentStep
<1>1. TypeOK
  BY DEF IInv
<1>2. Ready(r)
  <2>1. ASSUME NEW q \in Requests, NEW x \in {"idle", "admitted"},
               phase' = [phase EXCEPT ![q] = x]
        PROVE  FALSE
    BY <1>1, <2>1 DEF TypeOK
  <2>2. ASSUME NEW q \in Requests, NEW p \in Providers, NEW m \in Models,
               Admit(q, p, m)
        PROVE  FALSE
    BY <2>1, <2>2 DEF Admit
  <2>3. ASSUME NEW q \in Requests, Begin(q) \/ Ready(q)
        PROVE  Ready(r)
    BY <1>1, <2>3 DEF Begin, Ready, dispatch, TypeOK
  <2>4. ASSUME NEW q \in Requests,
               BeginRefused(q) \/ \E outcome \in Outcomes : Complete(q, outcome)
        PROVE  FALSE
    BY <2>1, <2>4 DEF BeginRefused, Complete, EndLease
  <2>5. phase' # phase
    OBVIOUS
  <2>6. ~Activate
    <3>1. ASSUME NEW gens, NEW allowed, activate(gens, allowed) PROVE FALSE
      BY <2>5, <3>1 DEF activate, leaseVars
    <3> QED
      BY <3>1 DEF Activate
  <2>7. ~(Publish \/ Lookup \/ Tick \/ UNCHANGED vars)
    BY <2>5 DEF Publish, Lookup, Tick, vars, leaseVars
  <2>8. \A q \in Requests : ~ReadyRefused(q)
    BY <2>5 DEF ReadyRefused, leaseVars
  <2> QED
    BY <2>2, <2>3, <2>4, <2>6, <2>7, <2>8 DEF Next, RequestStep
<1>3. dispatch(r, "flight") /\ t \in LeaseTargets(r) /\ Failed(entries'[t])
  BY <1>1, <1>2 DEF Ready, TypeOK
<1>4. t \in Targets
  BY <1>1, <1>3, LeaseTargetsTyped DEF TypeOK
<1> QED
  BY <1>3, <1>4, DispatchEffect

\* However long a request queued, and whatever was recorded meanwhile, Ready
\* sends it onto a failed target only after that target's deadline.
THEOREM NoEarlySend == Spec => SentAfterCooldown
<1>1. IInv /\ [Next]_vars => [SentStep]_vars
  BY SentNext
<1> QED
  BY <1>1, Inductive, PTL DEF Spec, SentAfterCooldown, SentStep

OldViewStep ==
    \A r \in Requests :
        /\ phase[r] \in {"queued", "flight"} /\ phase'[r] = "idle"
        /\ view[r] # epoch
        => \A t \in Targets :
              /\ entries'[t].known = entries[t].known
              /\ entries'[t].failures = entries[t].failures
              /\ entries'[t].retryAt = entries[t].retryAt
              /\ entries'[t].owner \in
                    {entries[t].owner} \cup
                    (IF entries[t].owner = r THEN {None} ELSE {})

\* Giving back claims changes nothing else that is known.
LEMMA ForgetReleaseEffect ==
    ASSUME NEW E, GoodTable(E), NEW r \in Requests, NEW t \in Targets
    PROVE  LET F == Forget(Release(E, r), r)
           IN  /\ F[t].known = E[t].known
               /\ F[t].failures = E[t].failures
               /\ F[t].retryAt = E[t].retryAt
               /\ F[t].owner = E[t].owner \/ (E[t].owner = r /\ F[t].owner = None)
<1>1. E \in Tables /\ Release(E, r) \in Tables
  BY ReleaseEffect DEF GoodTable
<1>2. E[t] \in Entry
  BY <1>1 DEF Tables
<1>3. /\ Release(E, r)[t].known = E[t].known
      /\ Release(E, r)[t].failures = E[t].failures
      /\ Release(E, r)[t].retryAt = E[t].retryAt
      /\ \/ Release(E, r)[t].owner = E[t].owner
         \/ E[t].owner = r /\ Release(E, r)[t].owner = None
  BY <1>2 DEF Release, Entry
<1> QED
  BY <1>1, <1>3, ForgetEffect

\* The completion of an old lease only gives back.
LEMMA OldViewNext ==
    ASSUME IInv, [Next]_vars
    PROVE  OldViewStep
<1> SUFFICES ASSUME NEW q \in Requests,
                    phase[q] \in {"queued", "flight"}, phase'[q] = "idle",
                    view[q] # epoch, NEW t \in Targets
             PROVE  /\ entries'[t].known = entries[t].known
                    /\ entries'[t].failures = entries[t].failures
                    /\ entries'[t].retryAt = entries[t].retryAt
                    /\ \/ entries'[t].owner = entries[t].owner
                       \/ entries[t].owner = q /\ entries'[t].owner = None
  BY DEF OldViewStep
<1>1. GoodTable(entries) /\ TypeOK
  BY GoodTableIff DEF IInv
<1>2. PICK r \in Requests, outcome \in Outcomes : Complete(r, outcome)
  BY StepEffect DEF Quiet
<1>3. q = r
  BY <1>1, <1>2, CompleteCases
<1>4. entries' = Forget(Release(entries, r), r)
  BY <1>1, <1>2, <1>3, CompleteCases
<1> QED
  BY <1>1, <1>3, <1>4, ForgetReleaseEffect

\* "Old requests ... cannot overwrite current health": for every history of
\* publications, complete of a lease whose view is old leaves every
\* observation alone and gives back only claims of its own.
THEOREM OldViewsFenced == Spec => OldViewsOnlyRelease
<1>1. IInv /\ [Next]_vars => [OldViewStep]_vars
  BY OldViewNext
<1> QED
  BY <1>1, Inductive, PTL DEF Spec, OldViewsOnlyRelease, OldViewStep

RetainedStep ==
    \A t \in Targets : Probing(entries[t]) =>
        \/ entries'[t].known /\ entries'[t].owner = entries[t].owner
        \/ phase'[entries[t].owner] = "idle"
        \/ epoch' # epoch

\* Only its owner's completion and a publication end a claim.
LEMMA RetainedNext ==
    ASSUME IInv, [Next]_vars
    PROVE  RetainedStep
<1> SUFFICES ASSUME NEW t \in Targets, Probing(entries[t])
             PROVE  \/ entries'[t].known /\ entries'[t].owner = entries[t].owner
                    \/ phase'[entries[t].owner] = "idle"
                    \/ epoch' # epoch
  BY DEF RetainedStep
<1>1. GoodTable(entries) /\ TypeOK
  BY GoodTableIff DEF IInv
<1>2. entries[t].known /\ entries[t].failures > 0
  BY <1>1 DEF GoodTable
<1>3. CASE Quiet
  BY <1>2, <1>3 DEF Quiet
<1>4. ASSUME NEW r \in Requests, NEW outcome \in Outcomes, Complete(r, outcome)
      PROVE  \/ entries'[t].known /\ entries'[t].owner = entries[t].owner
             \/ phase'[entries[t].owner] = "idle"
  <2>1. SUFFICES ASSUME entries[t].owner # r
                 PROVE  entries'[t].known /\ entries'[t].owner = entries[t].owner
    BY <1>1, <1>4, CompleteCases
  <2>2. CASE view[r] # epoch /\ entries' = Forget(Release(entries, r), r)
    BY <1>1, <1>2, <2>1, <2>2, ForgetReleaseEffect
  <2>3. CASE entries' = Forget(entries, r)
    BY <1>1, <1>2, <2>3, ForgetEffect DEF GoodTable
  <2>4. ASSUME view[r] = epoch,
               NEW E1 \in CompleteScope(prune(entries), r, "provider", outcome),
               NEW E2 \in CompleteScope(E1, r, "model", outcome),
               entries' = Forget(E2, r)
        PROVE  entries'[t].known /\ entries'[t].owner = entries[t].owner
    <3>1. GoodTable(prune(entries)) /\ prune(entries)[t] = entries[t]
      BY <1>1, PruneGood
    <3>2. E2 \in Tables /\ Judged(prune(entries), E2, r)
      BY <1>1, <2>4, <3>1, CompleteCurrentEffect
    <3>3. r \notin entries[t].holders
      BY <1>1, <1>2, <2>1 DEF GoodTable
    <3>4. E2[t] = entries[t]
      BY <1>2, <2>1, <3>1, <3>2, <3>3 DEF Judged
    <3> QED
      BY <1>2, <2>4, <3>2, <3>4, ForgetEffect
  <2> QED
    BY <1>1, <1>4, <2>2, <2>3, <2>4, CompleteCases
<1> QED
  BY <1>3, <1>4, StepEffect

\* "Active probes are retained": neither idle expiry nor the eviction of a full
\* table takes a probed target, at any limit.
THEOREM ProbesRetained == Spec => ActiveProbesRetained
<1>1. IInv /\ [Next]_vars => [RetainedStep]_vars
  BY RetainedNext
<1> QED
  BY <1>1, Inductive, PTL DEF Spec, ActiveProbesRetained, RetainedStep

\* What complete at one scope does to each object: nothing, an eviction of a
\* full table, a release in place, or, for an attempted outcome whose lease
\* points at it, a new judgement.
LEMMA ScopeJudges ==
    ASSUME NEW E \in Tables, NEW r \in Requests, NEW s \in Scopes, NEW outcome,
           NEW F \in CompleteScope(E, r, s, outcome),
           route \in [Requests -> Routes], now \in Nat, NEW u \in Targets
    PROVE  \/ F[u] = E[u]
           \/ ~F[u].known /\ ~(Cardinality(Known(E)) < Limit)
           \/ /\ s \in LeaseScopes(r) /\ u = Target(r, s)
              /\ F[u] = [E[u] EXCEPT !.owner = None]
           \/ /\ s \in LeaseScopes(r) /\ u = Target(r, s)
              /\ SamePointer(E, r, s) /\ outcome # "none"
<1> DEFINE t == Target(r, s)
<1>1. CASE s \notin LeaseScopes(r) \/ ~SamePointer(E, r, s)
  BY <1>1 DEF CompleteScope
<1>2. CASE s \in LeaseScopes(r) /\ SamePointer(E, r, s)
  <2>1. t \in Targets
    BY <1>2, LeaseTargetsTyped
  <2>2. CASE outcome # "success" /\ ~Fails(E[t], s, outcome)
    <3>1. F = [E EXCEPT ![t].owner = None]
      BY <1>2, <2>2 DEF CompleteScope
    <3> QED
      BY <1>2, <2>1, <3>1 DEF Tables
  <2>3. CASE ~(outcome # "success" /\ ~Fails(E[t], s, outcome))
    <3>1. outcome # "none"
      BY <2>3 DEF Fails
    <3>2. PICK e \in Observed(E[t], outcome) : F \in put(E, t, e)
      BY <1>2, <2>3 DEF CompleteScope
    <3>3. CASE u = t
      BY <1>2, <3>1, <3>3
    <3>4. CASE u # t
      <4>1. CASE E[t].known \/ Cardinality(Known(E)) < Limit
        BY <2>1, <3>2, <3>4, <4>1 DEF put, Tables
      <4>2. CASE ~(E[t].known \/ Cardinality(Known(E)) < Limit)
        <5>1. F = E \/ \E old \in Evictable(E) : F = [Without(E, old) EXCEPT ![t] = e]
          BY <3>2, <4>2 DEF put
        <5>2. F[u] = E[u] \/ F[u] = NoEntry
          BY <3>4, <5>1 DEF Without
        <5> QED
          BY <4>2, <5>2 DEF NoEntry
      <4> QED
        BY <4>1, <4>2
    <3> QED
      BY <3>3, <3>4
  <2> QED
    BY <2>2, <2>3
<1> QED
  BY <1>1, <1>2

JudgeStep ==
    \A t \in Targets :
        /\ Failed(entries[t]) /\ entries'[t].known
        /\ now - entries[t].touched < TTL
        /\ t.model = None \/ Cardinality(Known(entries)) < Limit
        /\ \/ entries'[t].failures # entries[t].failures
           \/ entries'[t].retryAt # entries[t].retryAt
        => /\ Probing(entries[t])
           /\ view[entries[t].owner] = epoch
           /\ phase[entries[t].owner] = "flight"
           /\ phase'[entries[t].owner] = "idle"

\* Pointer identity fences completions: an object whose judgement a current
\* lease replaces is one the lease owns.
LEMMA JudgeNext ==
    ASSUME IInv, Small(entries), [Next]_vars
    PROVE  JudgeStep
<1> SUFFICES ASSUME NEW t \in Targets, Failed(entries[t]), entries'[t].known,
                    now - entries[t].touched < TTL,
                    t.model = None \/ Cardinality(Known(entries)) < Limit,
                    \/ entries'[t].failures # entries[t].failures
                    \/ entries'[t].retryAt # entries[t].retryAt
             PROVE  /\ Probing(entries[t])
                    /\ view[entries[t].owner] = epoch
                    /\ phase[entries[t].owner] = "flight"
                    /\ phase'[entries[t].owner] = "idle"
  BY DEF JudgeStep
<1>1. GoodTable(entries) /\ TypeOK
  BY GoodTableIff DEF IInv
<1>2. /\ entries \in Tables /\ route \in [Requests -> Routes] /\ now \in Nat
      /\ "provider" \in Scopes /\ "model" \in Scopes
  BY <1>1 DEF GoodTable, TypeOK, Scopes
<1>3. ~Quiet
  BY DEF Quiet
<1>4. PICK r \in Requests, outcome \in Outcomes : Complete(r, outcome)
  BY <1>3, StepEffect
<1>5. entries' # Forget(Release(entries, r), r) /\ entries' # Forget(entries, r)
  BY <1>1, <1>2, ForgetReleaseEffect, ForgetEffect
<1>6. PICK E1 \in CompleteScope(prune(entries), r, "provider", outcome) :
           \E E2 \in CompleteScope(E1, r, "model", outcome) :
              entries' = Forget(E2, r)
  BY <1>1, <1>4, <1>5, CompleteCases
<1>7. PICK E2 \in CompleteScope(E1, r, "model", outcome) : entries' = Forget(E2, r)
  BY <1>6
<1> DEFINE E == prune(entries)
<1>8. E \in Tables /\ E[t] = entries[t]
  <2>1. E \in Tables
    BY <1>2, PruneEffect
  <2>2. now - entries[t].touched \in Int /\ TTL \in Int
    BY <1>2, BoundsAssumption DEF Tables, Entry
  <2>3. ~(now - entries[t].touched >= TTL)
    BY <2>2
  <2> QED
    BY <2>1, <2>3 DEF prune
<1>9. Known(E) \subseteq Known(entries)
  BY <1>2, PruneEffect DEF Known, NoEntry
<1>10. t.model # None => Cardinality(Known(E)) < Limit
  <2>1. Cardinality(Known(E)) <= Cardinality(Known(entries))
    BY <1>9, FS_Subset DEF Small
  <2>2. Cardinality(Known(E)) \in Nat /\ Cardinality(Known(entries)) \in Nat
    BY <1>9, FS_Subset, FS_CardinalityType DEF Small
  <2> QED
    BY <2>1, <2>2, BoundsAssumption
<1>11. GoodTable(E)
  BY <1>1, PruneGood
<1> HIDE DEF E
<1>12. E1 \in Tables /\ E2 \in Tables
  BY <1>2, <1>6, <1>7, <1>8, CompleteScopeEffect DEF E
<1>13. /\ E2[t].known
       /\ E2[t].failures # entries[t].failures \/ E2[t].retryAt # entries[t].retryAt
  BY <1>7, <1>12, ForgetEffect
<1>14. /\ "provider" \in LeaseScopes(r) => Target(r, "provider").model = None
       /\ "model" \in LeaseScopes(r) => Target(r, "model").model # None
  BY NamesAssumption DEF LeaseScopes, Target
<1>15. ASSUME r \in entries[t].holders, outcome # "none"
       PROVE  /\ Probing(entries[t])
              /\ view[entries[t].owner] = epoch
              /\ phase[entries[t].owner] = "flight"
              /\ phase'[entries[t].owner] = "idle"
  <2>1. entries[t].owner = r /\ view[r] = epoch
    BY <1>1, <1>15 DEF GoodTable, Failed
  <2> QED
    BY <1>1, <1>4, <1>15, <2>1, CompleteCases, NamesAssumption DEF Probing
<1>16. /\ \/ E1[t] = E[t]
          \/ ~E1[t].known /\ ~(Cardinality(Known(E)) < Limit)
          \/ "provider" \in LeaseScopes(r) /\ t = Target(r, "provider")
             /\ E1[t] = [E[t] EXCEPT !.owner = None]
          \/ "provider" \in LeaseScopes(r) /\ t = Target(r, "provider")
             /\ SamePointer(E, r, "provider") /\ outcome # "none"
       /\ \/ E2[t] = E1[t]
          \/ ~E2[t].known
          \/ "model" \in LeaseScopes(r) /\ t = Target(r, "model")
             /\ E2[t] = [E1[t] EXCEPT !.owner = None]
          \/ "model" \in LeaseScopes(r) /\ t = Target(r, "model")
             /\ SamePointer(E1, r, "model") /\ outcome # "none"
  BY <1>2, <1>6, <1>7, <1>8, <1>12, ScopeJudges DEF E
<1>17. E[t].known /\ E[t] \in Entry /\ E1[t] \in Entry
  BY <1>8, <1>12 DEF Failed, Tables
<1>18. CASE t.model = None
  <2>1. E2[t] = E1[t]
    BY <1>13, <1>14, <1>16, <1>18
  <2>2. E1[t] # [E[t] EXCEPT !.owner = None] /\ E1[t] # E[t]
    BY <1>8, <1>13, <1>17, <2>1 DEF Entry
  <2>3. t = Target(r, "provider") /\ SamePointer(E, r, "provider") /\ outcome # "none"
    BY <1>13, <1>16, <2>1, <2>2
  <2> QED
    BY <1>8, <1>15, <1>17, <2>3 DEF SamePointer
<1>19. CASE t.model # None
  <2>1. E1[t] = E[t]
    BY <1>10, <1>14, <1>16, <1>19
  <2>2. E2[t] # [E1[t] EXCEPT !.owner = None] /\ E2[t] # E1[t]
    BY <1>8, <1>13, <1>17, <2>1 DEF Entry
  <2>3. t = Target(r, "model") /\ SamePointer(E1, r, "model") /\ outcome # "none"
    BY <1>13, <1>16, <2>2
  <2> QED
    BY <1>8, <1>15, <1>17, <2>1, <2>3 DEF SamePointer
<1> QED
  BY <1>18, <1>19

\* A failed target is judged anew only by its probe: no late success clears it
\* and no late failure moves its deadline, whatever the order of completions.
THEOREM ProbeJudges == Spec => OnlyProbeJudges
<1>1. IInv /\ Small(entries) /\ [Next]_vars => [JudgeStep]_vars
  BY JudgeNext
<1> QED
  BY <1>1, Inductive, BoundInvariant, PTL DEF Spec, OnlyProbeJudges, JudgeStep
============================================================================
