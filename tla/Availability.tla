--------------------------- MODULE Availability ---------------------------
(***************************************************************************)
(* The bounded table of upstream health (availabilityState) and the        *)
(* recovery claims requests take in it.  A target is a provider, or one    *)
(* model of it, in one connection generation.                              *)
(*                                                                         *)
(* The code fences old completions by pointer identity: a completion only  *)
(* counts where the table still holds the very object the lease saw at its *)
(* dispatch.  Here every object carries the set of leases that point at it *)
(* (holders); a new or copied object starts with none.  probing and owner  *)
(* are assigned together everywhere, so an object probes iff it has an     *)
(* owner.                                                                  *)
(*                                                                         *)
(* Abstracted: reasons and log transitions are left out, and the length of *)
(* a backoff is any member of Delays.                                      *)
(*                                                                         *)
(* Operators named after another one with a suffix (putUnbounded,          *)
(* ReleaseNothing, ...) are wrong variants of it, each a mistake that one  *)
(* of the properties must notice; no action uses them.                     *)
(***************************************************************************)
EXTENDS Integers, FiniteSets

CONSTANTS
    Requests,     \* downstream requests
    Providers,    \* provider references
    Models,       \* upstream models
    SafeModels,   \* those safeAvailabilityModel accepts as a label
    MaxGen,       \* bound on connection generations
    MaxEpoch,     \* bound on publications
    MaxTime,      \* bound on the clock
    Delays,       \* waits a failure may cause
    Limit,        \* availabilityLimit, 4096 in the code
    TTL,          \* availabilityTTL, 24 h
    SweepEvery,   \* the minute between two prunings
    MaxFailures,  \* 16: where counting failures stops
    MaxStreak,    \* 65535: where the key pool's own streak stops
    None          \* no owner, and the empty model of a provider target

Scopes  == {"provider", "model"}
Gens    == 1 .. MaxGen
Targets == [provider : Providers, model : SafeModels \cup {None}, gen : Gens]

ASSUME BoundsAssumption ==
    /\ MaxGen \in Nat \ {0} /\ Limit \in Nat \ {0} /\ MaxFailures \in Nat \ {0}
    /\ {MaxEpoch, MaxTime, TTL, SweepEvery} \subseteq Nat
    /\ MaxStreak \in Nat /\ MaxFailures <= MaxStreak
    /\ Delays \subseteq Nat
ASSUME NamesAssumption ==
    /\ SafeModels \subseteq Models
    /\ Providers # {} /\ Models # {}
    /\ None \notin Requests /\ None \notin Models

VARIABLES
    now,         \* the clock
    epoch,       \* the routing epoch that fences results
    generations, \* its generation of every provider, 0 for a removed one
    nextProviderGeneration, \* the last generation given out
    active,      \* the epoch and generations of the view requests are given
    entries,     \* the table: an object per target, known = FALSE for none
    nextSweep,   \* when prune runs again
    phase,       \* where each request is
    view,        \* the epoch it was admitted under
    route,       \* its provider, upstream model and generation
    null,        \* the scopes for which its lease recorded a nil object
    probes       \* history: the failed targets it was sent onto

viewVars  == <<epoch, generations, nextProviderGeneration, active>>
tableVars == <<viewVars, entries, nextSweep>>
leaseVars == <<phase, view, route, null, probes>>
vars == <<now, tableVars, leaseVars>>

NoEntry == [known |-> FALSE, failures |-> 0, retryAt |-> 0, touched |-> 0,
            owner |-> None, holders |-> {}]

Routes == [provider : Providers, model : Models, gen : Gens]

\* What the model keeps for a request without a lease.
InitialRoute == CHOOSE x \in Routes : x.gen = 1

Init ==
    /\ now = 0
    /\ epoch = 0
    /\ generations = [p \in Providers |-> 1]
    /\ nextProviderGeneration = 1
    /\ active = [epoch |-> 0, generations |-> generations]
    /\ entries = [t \in Targets |-> NoEntry]
    /\ nextSweep = 0
    /\ phase = [r \in Requests |-> "idle"]
    /\ view = [r \in Requests |-> 0]
    /\ route = [r \in Requests |-> InitialRoute]
    /\ null = [r \in Requests |-> Scopes]
    /\ probes = [r \in Requests |-> {}]

-----------------------------------------------------------------------------
(* Objects of the table.                                                   *)

Probing(e) == e.owner # None

Failed(e) == e.known /\ e.failures > 0

eligibleUnprobed(e) == ~Failed(e) \/ ~Probing(e)

eligible(e) == ~Failed(e) \/ (~Probing(e) /\ e.retryAt <= now)

\* A lease has a provider target and, for a safe label, a model target.
LeaseScopes(r) == IF route[r].model \in SafeModels THEN Scopes ELSE {"provider"}

Target(r, s) == [provider |-> route[r].provider,
                 model    |-> IF s = "model" THEN route[r].model ELSE None,
                 gen      |-> route[r].gen]

LeaseTargets(r) == {Target(r, s) : s \in LeaseScopes(r)}

SamePointerUnchecked(E, r, s) == TRUE

\* lease.entries[i] == table[target]
SamePointer(E, r, s) ==
    IF E[Target(r, s)].known THEN r \in E[Target(r, s)].holders
                             ELSE s \in null[r]

\* prune: once in SweepEvery, forget idle objects that nobody probes.
prune(E) ==
    IF now < nextSweep THEN E
    ELSE [t \in Targets |->
            IF E[t].known /\ ~Probing(E[t]) /\ now - E[t].touched >= TTL
              THEN NoEntry ELSE E[t]]

pruneSchedule == IF now < nextSweep THEN nextSweep ELSE now + SweepEvery

Known(E) == {t \in Targets : E[t].known}

EvictableAny(E) == {t \in Known(E) : \A u \in Known(E) : E[t].touched <= E[u].touched}

\* The objects put may evict: the oldest ones that nobody probes.
Evictable(E) ==
    LET idle == {t \in Known(E) : ~Probing(E[t])}
    IN  {t \in idle : \A u \in idle : E[t].touched <= E[u].touched}

Without(E, old) == [t \in Targets |-> IF t = old THEN NoEntry ELSE E[t]]

putUnbounded(E, t, e) == {[E EXCEPT ![t] = e]}

\* put: the tables it can leave (ties between oldest objects are broken by
\* map iteration); a full table of active probes refuses a new target.
put(E, t, e) ==
    IF E[t].known \/ Cardinality(Known(E)) < Limit
      THEN {[E EXCEPT ![t] = e]}
      ELSE IF Evictable(E) = {} THEN {E}
      ELSE {[Without(E, old) EXCEPT ![t] = e] : old \in Evictable(E)}

\* A lease ends: its request points at no object any more.
Forget(E, r) == [t \in Targets |-> [E[t] EXCEPT !.holders = @ \ {r}]]

-----------------------------------------------------------------------------
(* Requests: begin, dispatch and complete.                                 *)

\* The request takes the view it is given; it may be overtaken by a publication
\* at any later step.
Admit(r, p, m) ==
    /\ phase[r] = "idle"
    /\ active.generations[p] # 0
    /\ phase' = [phase EXCEPT ![r] = "admitted"]
    /\ view' = [view EXCEPT ![r] = active.epoch]
    /\ route' = [route EXCEPT ![r] =
                    [provider |-> p, model |-> m, gen |-> active.generations[p]]]
    /\ UNCHANGED <<now, tableVars, null, probes>>

\* The request leaves callRouteWithRecovery and its lease is garbage.
EndLease(r) ==
    /\ phase' = [phase EXCEPT ![r] = "idle"]
    /\ view' = [view EXCEPT ![r] = 0]
    /\ route' = [route EXCEPT ![r] = InitialRoute]
    /\ null' = [null EXCEPT ![r] = Scopes]
    /\ probes' = [probes EXCEPT ![r] = {}]

RefusesCooling(E, r, s) == Failed(E[Target(r, s)]) /\ E[Target(r, s)].retryAt > now

\* A failed target refuses the lease unless it is due for a probe or the
\* lease itself probes it.
Refuses(E, r, s) ==
    LET e == E[Target(r, s)]
    IN  Failed(e) /\ ~(Probing(e) /\ r \in e.holders) /\ ~eligible(e)

\* The same object, with r's lease pointing at it and the given owner.
Held(e, r, owner) == [e EXCEPT !.holders = @ \cup {r}, !.owner = owner]

\* dispatch, accepted: point the lease at the present objects and claim every
\* failed one that nobody probes.
Claim(E, r) ==
    [t \in Targets |->
        IF t \in LeaseTargets(r) /\ E[t].known
          THEN Held(E[t], r, IF E[t].failures > 0 /\ ~Probing(E[t])
                               THEN r ELSE E[t].owner)
          ELSE E[t]]

\* dispatch: a lease of an old epoch passes unchecked and claims nothing; a
\* current one checks all its targets before it claims any of them.
dispatch(r, after) ==
    /\ IF view[r] # epoch
         THEN /\ phase' = [phase EXCEPT ![r] = after]
              /\ UNCHANGED <<entries, nextSweep, null>>
         ELSE LET E == prune(entries)
              IN  /\ nextSweep' = pruneSchedule
                  /\ \A s \in LeaseScopes(r) : ~Refuses(E, r, s)
                  /\ phase' = [phase EXCEPT ![r] = after]
                  /\ entries' = Claim(E, r)
                  /\ null' = [null EXCEPT ![r] =
                        {s \in Scopes : s \in LeaseScopes(r) =>
                                          ~E[Target(r, s)].known}]
    /\ UNCHANGED viewVars

\* dispatch, refused: only the pruning remains.
dispatchRefused(r) ==
    /\ view[r] = epoch
    /\ \E s \in LeaseScopes(r) : Refuses(prune(entries), r, s)
    /\ entries' = prune(entries)
    /\ nextSweep' = pruneSchedule
    /\ UNCHANGED viewVars

\* begin: the first check, before the request queues.
Begin(r) ==
    /\ phase[r] = "admitted"
    /\ dispatch(r, "queued")
    /\ UNCHANGED <<now, view, route, probes>>

BeginRefused(r) ==
    /\ phase[r] = "admitted"
    /\ dispatchRefused(r)
    /\ EndLease(r)
    /\ UNCHANGED now

\* Ready: the same check again after the queue, right before the HTTP request.
Ready(r) ==
    /\ phase[r] = "queued"
    /\ dispatch(r, "flight")
    /\ probes' = [probes EXCEPT ![r] =
                    {t \in LeaseTargets(r) : Failed(entries'[t])}]
    /\ UNCHANGED <<now, view, route>>

ReadyRefused(r) ==
    /\ phase[r] = "queued"
    /\ dispatchRefused(r)
    /\ UNCHANGED <<now, leaseVars>>

\* What availabilityFailure and complete tell apart.  success; rate: all keys
\* of the provider cool; provider, model: an attempted failure of that scope;
\* dial: a proven pre-header connection failure, provider scope but not
\* attempted; unclassified: attempted, no reason; none: handled locally,
\* cancelled, superseded or not attempted.
Outcomes == {"success", "rate", "provider", "dial", "model", "unclassified", "none"}

\* The failure counts at this scope: by its classification, or because an
\* attempted probe that is not a success cannot confirm recovery.
Fails(e, s, outcome) ==
    \/ s = "provider" /\ outcome \in {"rate", "provider", "dial"}
    \/ s = "model" /\ outcome = "model"
    \/ Probing(e) /\ outcome \in {"rate", "provider", "model", "unclassified"}

\* A completion's new object: touched now, unclaimed, and unknown to leases.
NewEntry(failures, retryAt) ==
    [known |-> TRUE, failures |-> failures, retryAt |-> retryAt,
     touched |-> now, owner |-> None, holders |-> {}]

FailureCountsUncapped(e, outcome) ==
    IF outcome = "rate" THEN 1 .. MaxStreak ELSE {e.failures + 1}

\* One failure more, or the key pool's own streak.
FailureCounts(e, outcome) ==
    IF outcome = "rate" THEN 1 .. MaxStreak
    ELSE IF e.failures < MaxFailures THEN {e.failures + 1}
    ELSE {e.failures}

\* The objects that may replace e: a success clears it, a failure counts and
\* sets a new deadline.
Observed(e, outcome) ==
    IF outcome = "success" THEN {NewEntry(0, 0)}
    ELSE {NewEntry(f, now + d) : f \in FailureCounts(e, outcome), d \in Delays}

\* complete at one scope of a current lease: nothing if the table has moved
\* on, a release in place if the outcome says nothing, else a new object.
CompleteScope(E, r, s, outcome) ==
    LET t == Target(r, s)
    IN  IF s \notin LeaseScopes(r) \/ ~SamePointer(E, r, s) THEN {E}
        ELSE IF outcome # "success" /\ ~Fails(E[t], s, outcome)
          THEN {[E EXCEPT ![t].owner = None]}
        ELSE UNION {put(E, t, e) : e \in Observed(E[t], outcome)}

ReleaseNothing(E, r) == E

ReleaseAll(E, r) ==
    [t \in Targets |->
        IF t \in LeaseTargets(r) THEN [E[t] EXCEPT !.owner = None] ELSE E[t]]

\* complete for a lease of an old epoch: only give back what it still owns,
\* as a new object.
Release(E, r) ==
    [t \in Targets |->
        IF t \in LeaseTargets(r) /\ E[t].owner = r
          THEN [E[t] EXCEPT !.owner = None, !.holders = {}] ELSE E[t]]

\* complete, once per lease.  A request that was never sent reports nothing.
Complete(r, outcome) ==
    /\ phase[r] = "flight" \/ (phase[r] = "queued" /\ outcome = "none")
    /\ IF view[r] # epoch
         THEN /\ entries' = Forget(Release(entries, r), r)
              /\ UNCHANGED nextSweep
         ELSE IF generations[route[r].provider] # route[r].gen
         THEN /\ entries' = Forget(entries, r)
              /\ UNCHANGED nextSweep
         ELSE /\ nextSweep' = pruneSchedule
              /\ \E E1 \in CompleteScope(prune(entries), r, "provider", outcome) :
                 \E E2 \in CompleteScope(E1, r, "model", outcome) :
                    entries' = Forget(E2, r)
    /\ EndLease(r)
    /\ UNCHANGED <<now, viewVars>>

-----------------------------------------------------------------------------
(* Publications, look-ups and the clock.                                   *)

\* activate: the next epoch, with generations gens and the admissible models
\* allowed; forget what no longer exists and copy the rest, so that no older
\* lease points at a current object.  Owners keep their claims.
activate(gens, allowed) ==
    /\ epoch' = epoch + 1
    /\ generations' = gens
    /\ entries' = [t \in Targets |->
          IF /\ entries[t].known
             /\ gens[t.provider] = t.gen
             /\ t.model = None \/ t.model \in allowed
            THEN [entries[t] EXCEPT !.holders = {}] ELSE NoEntry]
    /\ UNCHANGED <<now, nextSweep, active, leaseVars>>

\* The watcher activates one prepared view at a time.  It keeps the
\* generations, removes a provider, or gives a changed or added one a
\* generation never used before.
Activate ==
    /\ epoch < MaxEpoch /\ active.epoch = epoch
    /\ \E allowed \in SUBSET Models :
          \/ /\ activate(generations, allowed)
             /\ UNCHANGED nextProviderGeneration
          \/ \E p \in Providers :
                /\ generations[p] # 0
                /\ activate([generations EXCEPT ![p] = 0], allowed)
                /\ UNCHANGED nextProviderGeneration
          \/ \E p \in Providers :
                /\ nextProviderGeneration < MaxGen
                /\ nextProviderGeneration' = nextProviderGeneration + 1
                /\ activate([generations EXCEPT ![p] = nextProviderGeneration'],
                            allowed)

\* state.active.Store: only now do requests get the new view.
Publish ==
    /\ active.epoch # epoch
    /\ active' = [epoch |-> epoch, generations |-> generations]
    /\ UNCHANGED <<now, epoch, generations, nextProviderGeneration, entries,
                   nextSweep, leaseVars>>

\* available and report: a routing look-up, which may prune.
Lookup ==
    /\ entries' = prune(entries)
    /\ nextSweep' = pruneSchedule
    /\ UNCHANGED <<now, viewVars, leaseVars>>

Tick ==
    /\ now < MaxTime
    /\ now' = now + 1
    /\ UNCHANGED <<tableVars, leaseVars>>

RequestStep(r) ==
    \/ Begin(r)
    \/ BeginRefused(r)
    \/ Ready(r)
    \/ ReadyRefused(r)
    \/ \E outcome \in Outcomes : Complete(r, outcome)

Next ==
    \/ \E r \in Requests :
          \/ \E p \in Providers, m \in Models : Admit(r, p, m)
          \/ RequestStep(r)
    \/ Activate
    \/ Publish
    \/ Lookup
    \/ Tick

Spec == Init /\ [][Next]_vars

\* A request that has begun ends: queues are left on cancellation, every
\* attempt ends with a response, an error or a timeout, and complete is deferred.
FairSpec ==
    /\ Spec
    /\ \A r \in Requests : WF_vars(\E outcome \in Outcomes : Complete(r, outcome))

-----------------------------------------------------------------------------
(* Properties.                                                             *)

Entry == [known : BOOLEAN, failures : 0 .. MaxStreak, retryAt : Nat, touched : Nat,
          owner : Requests \cup {None}, holders : SUBSET Requests]

\* The types of the table and of the leases.
TypeOK ==
    /\ now \in Nat /\ epoch \in Nat /\ nextSweep \in Nat
    /\ generations \in [Providers -> Gens \cup {0}]
    /\ nextProviderGeneration \in Gens
    /\ active \in [epoch : Nat, generations : [Providers -> Gens \cup {0}]]
    /\ entries \in [Targets -> Entry]
    /\ phase \in [Requests -> {"idle", "admitted", "queued", "flight"}]
    /\ view \in [Requests -> Nat]
    /\ route \in [Requests -> Routes]
    /\ null \in [Requests -> SUBSET Scopes]
    /\ probes \in [Requests -> SUBSET Targets]

\* No probe is orphaned: the owner of a claim is a live request with that
\* target in its lease, and unless its view is old its lease still points at
\* the object, so that complete will find and release it.
ProbesOwned ==
    \A t \in Targets : Probing(entries[t]) =>
        LET r == entries[t].owner
        IN  /\ phase[r] \in {"queued", "flight"}
            /\ t \in LeaseTargets(r)
            /\ view[r] = epoch => r \in entries[t].holders

\* "After cooldown, at most one real request probes a target", for the
\* requests of the newest view: no two in flight were both sent onto the
\* same failed target.
OneProbePerTarget ==
    \A r1, r2 \in Requests :
        /\ r1 # r2 /\ view[r1] = epoch /\ view[r2] = epoch
        /\ phase[r1] = "flight" /\ phase[r2] = "flight"
        => probes[r1] \cap probes[r2] = {}

\* A request of the newest view is sent onto a failed target only after
\* that target's deadline, even if the failure was recorded while it queued.
SentAfterCooldown ==
    [][\A r \in Requests :
          phase[r] = "queued" /\ phase'[r] = "flight" /\ view[r] = epoch =>
             \A t \in probes'[r] : entries[t].retryAt <= now]_vars

\* A failed target is judged anew only by its probe: as long as it has not
\* idled out its failures and deadline change only when the request that owns
\* the claim completes in the newest view.  An older success cannot clear it
\* and an older failure cannot move its deadline.  (In a full table one
\* completion may evict a model target for its provider and then record the
\* model again; that is a new object.)
OnlyProbeJudges ==
    [][\A t \in Targets :
          /\ Failed(entries[t]) /\ entries'[t].known
          /\ now - entries[t].touched < TTL
          /\ t.model = None \/ Cardinality(Known(entries)) < Limit
          /\ \/ entries'[t].failures # entries[t].failures
             \/ entries'[t].retryAt # entries[t].retryAt
          => /\ Probing(entries[t])
             /\ view[entries[t].owner] = epoch
             /\ phase[entries[t].owner] = "flight"
             /\ phase'[entries[t].owner] = "idle"]_vars

\* "Old requests ... cannot overwrite current health": the completion of a
\* request of an older view changes nothing but the claims it owns.
OldViewsOnlyRelease ==
    [][\A r \in Requests :
          /\ phase[r] \in {"queued", "flight"} /\ phase'[r] = "idle"
          /\ view[r] # epoch
          => \A t \in Targets :
                /\ entries'[t].known = entries[t].known
                /\ entries'[t].failures = entries[t].failures
                /\ entries'[t].retryAt = entries[t].retryAt
                /\ entries'[t].owner \in
                      {entries[t].owner} \cup
                      (IF entries[t].owner = r THEN {None} ELSE {})]_vars

\* "Active probes are retained": until its owner completes, a probed target
\* leaves the table or loses its claim only with a publication, never by idle
\* expiry or eviction.
ActiveProbesRetained ==
    [][\A t \in Targets : Probing(entries[t]) =>
          \/ entries'[t].known /\ entries'[t].owner = entries[t].owner
          \/ phase'[entries[t].owner] = "idle"
          \/ epoch' # epoch]_vars

\* "Observations are capped": the table never outgrows its limit.
TableBounded == Cardinality(Known(entries)) <= Limit

\* What the table and the requests in flight have to do with each other: the
\* types, the bound, and the two invariants on probes above.
TableConsistent == TypeOK /\ TableBounded /\ ProbesOwned /\ OneProbePerTarget

\* Every claim is eventually given back, in whatever view its owner ends.
ProbesReleased ==
    \A r \in Requests :
        (\E t \in Targets : entries[t].owner = r) ~> (\A t \in Targets : entries[t].owner # r)

-----------------------------------------------------------------------------
(* The inductive invariant behind ProbesOwned and OneProbePerTarget.       *)

\* A slot without an object has neither owner nor holders.
AbsentIsEmpty ==
    \A t \in Targets : ~entries[t].known => entries[t] = NoEntry

\* Only live leases of the newest view point at an object, each from one of
\* its own targets: activate copies every object.
HoldersLive ==
    \A t \in Targets : \A r \in entries[t].holders :
        /\ phase[r] \in {"queued", "flight"}
        /\ view[r] = epoch
        /\ t \in LeaseTargets(r)

\* A lease points at a failed object only if it owns the probe.
HolderOfFailedOwns ==
    \A t \in Targets : \A r \in entries[t].holders :
        entries[t].failures > 0 => entries[t].owner = r

\* Only failed objects whose deadline has passed are probed.
ProbedIsDue ==
    \A t \in Targets : Probing(entries[t]) =>
        entries[t].known /\ entries[t].failures > 0 /\ entries[t].retryAt <= now

\* In the newest view a request in flight owns all it was sent to probe.
SentOwnsProbes ==
    \A r \in Requests : phase[r] = "flight" /\ view[r] = epoch =>
        \A t \in probes[r] : entries[t].owner = r

\* No request is ahead of the newest view, and a request of that view uses its
\* generation of the provider.
ViewsPublished ==
    /\ active.epoch <= epoch
    /\ active.epoch = epoch => active.generations = generations
    /\ \A r \in Requests :
          /\ view[r] <= epoch
          /\ phase[r] # "idle" /\ view[r] = epoch =>
                generations[route[r].provider] = route[r].gen

IInv ==
    /\ TypeOK
    /\ AbsentIsEmpty
    /\ HoldersLive
    /\ HolderOfFailedOwns
    /\ ProbedIsDue
    /\ SentOwnsProbes
    /\ ViewsPublished
    /\ ProbesOwned
============================================================================
