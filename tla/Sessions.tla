------------------------------ MODULE Sessions ------------------------------
(***************************************************************************)
(* Session admission: the per-provider limiters in                         *)
(* handlerRuntime.providerSessions (internal/limiter/sessions.go and       *)
(* internal/gateway/provider_sessions.go), shared by every configuration   *)
(* view.  Limiters are objects: a lease points at the one it was acquired  *)
(* from, and the map forgets a limiter when a request whose view no longer *)
(* has the provider finds it empty.  The model reuses a limiter that       *)
(* neither the map nor a lease points at, as the garbage collector would.  *)
(*                                                                         *)
(* A request leaves callRouteCandidate with a lease only if the call       *)
(* succeeded, and then it tries no other route: it has one lease at most.  *)
(*                                                                         *)
(* acquireProvider runs under providerSessionMu and every lease operation  *)
(* under the limiter's mutex; each is one action.                          *)
(*                                                                         *)
(* Abstracted: of the times of a session's last input and output only      *)
(* whether the idle timeout has passed since.                              *)
(*                                                                         *)
(* Operators named after another one with a suffix (PrunedAlways,          *)
(* ReleasedUnguarded, ...) are wrong variants of it, each a mistake that   *)
(* one of the properties must notice; no action uses them.                 *)
(***************************************************************************)
EXTENDS Integers, FiniteSets

CONSTANTS
    Requests,    \* downstream requests
    Named,       \* session identities callers supply
    Providers,   \* provider references
    Limits,      \* values of max_active_sessions, 0 for unlimited
    MaxReloads,  \* bound on reloads
    None         \* no limiter, session or provider

Absent == -1     \* in place of a limit: the provider is not configured

\* An anonymous request is its own session.
Ids == Named \cup Requests

\* Enough objects for the map and for one lease per request.
Limiters == 1 .. Cardinality(Providers) + Cardinality(Requests)

Configs == [Providers -> Limits \cup {Absent}]

ASSUME SessionBounds ==
    /\ Limits \subseteq Nat /\ Limits # {}
    /\ MaxReloads \in Nat
    /\ IsFiniteSet(Requests) /\ IsFiniteSet(Named) /\ IsFiniteSet(Providers)
    /\ Named \cap Requests = {}
    /\ None \notin Limiters \cup Ids \cup Providers

VARIABLES
    config, reloads,  \* the published configuration, and how often it changed
    closed,           \* the gateway shuts down and has dropped all sessions
    providerSessions, \* the limiter of every provider
    limiters,         \* the entries of every limiter
    phase,            \* where each request is
    view,             \* the configuration it was admitted with
    id, stream,       \* its session and whether it streams
    route, lease,     \* the provider it uses and the limiter of its lease
    retain            \* retainSession

tableVars == <<providerSessions, limiters>>
leaseVars == <<phase, view, id, stream, route, lease, retain>>
envVars   == <<config, reloads, closed>>
vars == <<envVars, tableVars, leaseVars>>

NoEntry == [known |-> FALSE, requests |-> 0, inputIdle |-> TRUE,
            outputIdle |-> TRUE, retain |-> FALSE]
Empty == [s \in Ids |-> NoEntry]
NoConfig == [p \in Providers |-> Absent]

Init ==
    /\ config \in Configs /\ reloads = 0
    /\ closed = FALSE
    /\ providerSessions = [p \in Providers |-> None]
    /\ limiters = [o \in Limiters |-> Empty]
    /\ phase = [r \in Requests |-> "idle"]
    /\ view = [r \in Requests |-> NoConfig]
    /\ id = [r \in Requests |-> None]
    /\ stream = [r \in Requests |-> FALSE]
    /\ route = [r \in Requests |-> None]
    /\ lease = [r \in Requests |-> None]
    /\ retain = [r \in Requests |-> FALSE]

-----------------------------------------------------------------------------
(* One limiter.                                                            *)

IdleInputOnly(e) == e.inputIdle

\* idleSinceBothDirections
Idle(e) == e.inputIdle /\ e.outputIdle

\* expireLocked: no session of an active request.
expire(m) ==
    [s \in Ids |-> IF m[s].known /\ m[s].requests = 0 /\ Idle(m[s])
                     THEN NoEntry ELSE m[s]]

Count(m) == Cardinality({s \in Ids : m[s].known})

AdmitsOneMore(m, s, limit) == m[s].known \/ limit = 0 \/ Count(m) <= limit

\* AcquireWithLimit's condition; expire has run.
Admits(m, s, limit) == m[s].known \/ limit = 0 \/ Count(m) < limit

Acquired(m, s) ==
    LET e == [m[s] EXCEPT !.known = TRUE, !.requests = @ + 1, !.inputIdle = FALSE]
    IN  [m EXCEPT ![s] = e]

ReleasedUnguarded(m, s, keep) ==
    LET e == [m[s] EXCEPT !.requests = @ - 1, !.retain = @ \/ keep]
    IN  [m EXCEPT ![s] = IF e.requests = 0 /\ ~e.retain THEN NoEntry ELSE e]

ReleasedKeptForever(m, s, keep) ==
    LET e == [m[s] EXCEPT !.requests = IF @ > 0 THEN @ - 1 ELSE @,
                          !.retain = @ \/ keep]
    IN  IF ~m[s].known THEN m ELSE [m EXCEPT ![s] = e]

\* SessionLease.Release: an entry goes with its last request unless some
\* request of the session has retained it.
Released(m, s, keep) ==
    LET e == [m[s] EXCEPT !.requests = IF @ > 0 THEN @ - 1 ELSE @,
                          !.retain = @ \/ keep]
    IN  IF ~m[s].known THEN m
        ELSE [m EXCEPT ![s] = IF e.requests = 0 /\ ~e.retain THEN NoEntry ELSE e]

\* TouchOutput, through the lease.
touchOutput(r) ==
    limiters' =
        IF lease[r] # None /\ limiters[lease[r]][id[r]].known
          THEN [limiters EXCEPT ![lease[r]][id[r]].outputIdle = FALSE]
          ELSE limiters

-----------------------------------------------------------------------------
(* The map of limiters.                                                    *)

Mapped == {providerSessions[p] : p \in Providers} \ {None}

\* Stats expires the sessions of every limiter of the map.
Swept == [o \in Limiters |-> IF o \in Mapped THEN expire(limiters[o]) ELSE limiters[o]]

PrunedAlways(c) ==
    [p \in Providers |-> IF c[p] = Absent THEN None ELSE providerSessions[p]]

\* The limiters that remain: those of providers configured in the view c of
\* the request that acquires, and those with sessions.
Pruned(c) ==
    [p \in Providers |->
        IF /\ providerSessions[p] # None /\ c[p] = Absent
           /\ Count(Swept[providerSessions[p]]) = 0
          THEN None ELSE providerSessions[p]]

\* NewSessionLimiter: an object nothing points at.
NewLimiter ==
    CHOOSE o \in Limiters \ (Mapped \cup {lease[r] : r \in Requests}) :
        \A q \in Limiters \ (Mapped \cup {lease[r] : r \in Requests}) : o <= q

\* The limiter acquireProvider uses for p under view c.
LimiterFor(c, p) == IF Pruned(c)[p] # None THEN Pruned(c)[p] ELSE NewLimiter

\* The entries of limiter o after the sweep; a new one has none.
EntriesOf(o) == IF o \in Mapped THEN Swept[o] ELSE Empty

\* acquireProvider: sweep and prune the map, find or make p's limiter o, leave
\* it with the entries m.
updateMap(c, p, o, m) ==
    /\ providerSessions' = [Pruned(c) EXCEPT ![p] = o]
    /\ limiters' = [Swept EXCEPT ![o] = m]

-----------------------------------------------------------------------------
(* Requests.                                                               *)

\* serveHTTP, up to the admission record; a draining gateway takes nobody in.
Admit(r, s, streams) ==
    /\ phase[r] = "idle" /\ ~closed
    /\ s \in Named \cup {r}
    /\ phase' = [phase EXCEPT ![r] = "routing"]
    /\ view' = [view EXCEPT ![r] = config]
    /\ id' = [id EXCEPT ![r] = s]
    /\ stream' = [stream EXCEPT ![r] = streams]
    /\ UNCHANGED <<envVars, tableVars, route, lease, retain>>

Acquire(r, p) ==
    LET o == LimiterFor(view[r], p)
        m == EntriesOf(o)
    IN  /\ phase[r] = "routing" /\ view[r][p] # Absent
        /\ Admits(m, id[r], view[r][p])
        /\ updateMap(view[r], p, o, Acquired(m, id[r]))
        /\ phase' = [phase EXCEPT ![r] = "calling"]
        /\ route' = [route EXCEPT ![r] = p]
        /\ lease' = [lease EXCEPT ![r] = o]
        /\ UNCHANGED <<envVars, view, id, stream, retain>>

\* active_session_limit: the request is answered without a route.
AcquireRejected(r, p) ==
    LET o == LimiterFor(view[r], p)
        m == EntriesOf(o)
    IN  /\ phase[r] = "routing" /\ view[r][p] # Absent
        /\ ~Admits(m, id[r], view[r][p])
        /\ updateMap(view[r], p, o, m)
        /\ phase' = [phase EXCEPT ![r] = "ending"]
        /\ UNCHANGED <<envVars, view, id, stream, route, lease, retain>>

\* A canceled request gets no slot.  Whether it is rejected here or, without a
\* limit, by the adapter, it tries no other route.
AcquireCanceled(r, p) ==
    LET o == LimiterFor(view[r], p)
    IN  /\ phase[r] = "routing" /\ view[r][p] # Absent
        /\ providerSessions' = [Pruned(view[r]) EXCEPT ![p] = o]
        /\ limiters' = [Swept EXCEPT ![o] = EntriesOf(o)]
        /\ phase' = [phase EXCEPT ![r] = "ending"]
        /\ UNCHANGED <<envVars, view, id, stream, route, lease, retain>>

\* resolveRoutes finds no route any more.
RouteRejected(r) ==
    /\ phase[r] = "routing"
    /\ phase' = [phase EXCEPT ![r] = "ending"]
    /\ UNCHANGED <<envVars, tableVars, view, id, stream, route, lease, retain>>

\* releaseProvider, deferred by callRouteCandidate: a failed, canceled or
\* rejected call gives its slot back before another route is tried (how often
\* that is does not matter here).
CallFailed(r, again) ==
    /\ phase[r] = "calling"
    /\ limiters' = [limiters EXCEPT ![lease[r]] = Released(@, id[r], FALSE)]
    /\ route' = [route EXCEPT ![r] = None]
    /\ lease' = [lease EXCEPT ![r] = None]
    /\ phase' = [phase EXCEPT ![r] = IF again THEN "routing" ELSE "ending"]
    /\ UNCHANGED <<envVars, providerSessions, view, id, stream, retain>>

CallSucceeded(r) ==
    /\ phase[r] = "calling"
    /\ phase' = [phase EXCEPT ![r] = "delivering"]
    /\ UNCHANGED <<envVars, tableVars, view, id, stream, route,
                   lease, retain>>

\* send: every delivered frame of a stream is output activity.
Send(r) ==
    /\ stream[r] /\ phase[r] \in {"calling", "delivering"}
    /\ touchOutput(r)
    /\ UNCHANGED <<envVars, providerSessions, leaseVars>>

DeliveredRetainsAll(r) == ~stream[r]

\* persistentSession && !mode.Stream
DeliveredRetains(r) == id[r] \in Named /\ ~stream[r]

\* The end of serveHTTP: only a fully delivered answer of a named session that
\* did not stream retains it.
Delivered(r) ==
    /\ phase[r] = "delivering"
    /\ IF stream[r] THEN UNCHANGED limiters ELSE touchOutput(r)
    /\ retain' = [retain EXCEPT ![r] = DeliveredRetains(r)]
    /\ phase' = [phase EXCEPT ![r] = "ending"]
    /\ UNCHANGED <<envVars, providerSessions, view, id, stream,
                   route, lease>>

NotDelivered(r) ==
    /\ phase[r] = "delivering"
    /\ phase' = [phase EXCEPT ![r] = "ending"]
    /\ UNCHANGED <<envVars, tableVars, view, id, stream, route,
                   lease, retain>>

\* The deferred release(retainSession) of serveHTTP.
Release(r) ==
    /\ phase[r] = "ending"
    /\ limiters' = IF lease[r] = None THEN limiters
                   ELSE [limiters EXCEPT ![lease[r]] = Released(@, id[r], retain[r])]
    /\ phase' = [phase EXCEPT ![r] = "idle"]
    /\ view' = [view EXCEPT ![r] = NoConfig]
    /\ id' = [id EXCEPT ![r] = None]
    /\ stream' = [stream EXCEPT ![r] = FALSE]
    /\ route' = [route EXCEPT ![r] = None]
    /\ lease' = [lease EXCEPT ![r] = None]
    /\ retain' = [retain EXCEPT ![r] = FALSE]
    /\ UNCHANGED <<envVars, providerSessions>>

-----------------------------------------------------------------------------
(* The rest of the gateway.                                                *)

\* sessionStatus reads every limiter of the published view, which expires it.
Status ==
    /\ limiters' = [o \in Limiters |->
          IF \E p \in Providers : config[p] # Absent /\ providerSessions[p] = o
            THEN expire(limiters[o]) ELSE limiters[o]]
    /\ UNCHANGED <<envVars, providerSessions, leaseVars>>

Reload ==
    /\ reloads < MaxReloads
    /\ reloads' = reloads + 1
    /\ config' \in Configs
    /\ UNCHANGED <<closed, tableVars, leaseVars>>

\* closeProviderSessions, long after beginShutdown has stopped admission; when
\* the shutdown timed out, requests still run.
Close ==
    /\ ~closed
    /\ closed' = TRUE
    /\ providerSessions' = [p \in Providers |-> None]
    /\ limiters' = [o \in Limiters |-> IF o \in Mapped THEN Empty ELSE limiters[o]]
    /\ UNCHANGED <<config, reloads, leaseVars>>

\* The idle timeout of one direction of a session passes.
Age ==
    /\ \E o \in Mapped, s \in Ids :
          /\ limiters[o][s].known
          /\ \/ limiters' = [limiters EXCEPT ![o][s].inputIdle = TRUE]
             \/ limiters' = [limiters EXCEPT ![o][s].outputIdle = TRUE]
    /\ UNCHANGED <<envVars, providerSessions, leaseVars>>

RequestStep(r) ==
    \/ \E p \in Providers :
          Acquire(r, p) \/ AcquireRejected(r, p) \/ AcquireCanceled(r, p)
    \/ \E again \in BOOLEAN : CallFailed(r, again)
    \/ RouteRejected(r)
    \/ CallSucceeded(r)
    \/ Delivered(r)
    \/ NotDelivered(r)
    \/ Release(r)

Next ==
    \/ \E r \in Requests :
          \/ \E s \in Ids, streams \in BOOLEAN : Admit(r, s, streams)
          \/ RequestStep(r)
          \/ Send(r)
    \/ Status
    \/ Reload
    \/ Close
    \/ Age

Spec == Init /\ [][Next]_vars

-----------------------------------------------------------------------------
(* Properties.                                                             *)

Entry == [known : BOOLEAN, requests : Nat, inputIdle : BOOLEAN,
          outputIdle : BOOLEAN, retain : BOOLEAN]

\* The types of the limiters and of the requests.
TypeOK ==
    /\ reloads \in Nat
    /\ config \in Configs /\ closed \in BOOLEAN
    /\ providerSessions \in [Providers -> Limiters \cup {None}]
    /\ limiters \in [Limiters -> [Ids -> Entry]]
    /\ phase \in [Requests -> {"idle", "routing", "calling", "delivering", "ending"}]
    /\ view \in [Requests -> Configs]
    /\ id \in [Requests -> Ids \cup {None}]
    /\ stream \in [Requests -> BOOLEAN] /\ retain \in [Requests -> BOOLEAN]
    /\ route \in [Requests -> Providers \cup {None}]
    /\ lease \in [Requests -> Limiters \cup {None}]

\* The requests that hold a slot of provider p for session s.
Holders(p, s) == {r \in Requests : lease[r] # None /\ route[r] = p /\ id[r] = s}

\* The entry of session s at provider p.
EntryOf(p, s) ==
    IF providerSessions[p] = None THEN NoEntry ELSE limiters[providerSessions[p]][s]

\* "Pruning cannot split a provider's state": until the gateway closes, the
\* limiter the map has for a provider counts every request that holds one of
\* its slots, whatever view the request was admitted with, and no other.
LeasesCounted ==
    ~closed =>
        \A p \in Providers, s \in Ids :
            EntryOf(p, s).requests = Cardinality(Holders(p, s))

\* No slot leaks: a session has one only while a request of it holds it or
\* because it was retained, which no anonymous session is.
SlotsJustified ==
    \A p \in Providers, s \in Ids : EntryOf(p, s).known =>
        \/ EntryOf(p, s).requests > 0
        \/ EntryOf(p, s).retain /\ s \in Named

\* What the limiters and the requests have to do with each other: the types,
\* and the two invariants above.
LimitersConsistent == TypeOK /\ LeasesCounted /\ SlotsJustified

\* "Failures release their request's reference without removing another
\* request's retained state", and a removal of the provider keeps it: a
\* retained session loses its slot only when nobody uses it and both
\* directions have idled for the timeout, or when the gateway closes.
RetainedUntilIdle ==
    [][\A p \in Providers, s \in Ids :
          EntryOf(p, s).retain /\ ~EntryOf(p, s)'.retain =>
             \/ closed'
             \/ /\ Holders(p, s) = {}
                /\ EntryOf(p, s).inputIdle /\ EntryOf(p, s).outputIdle]_vars

\* The requests that use provider p: their lease points at its limiter.
UsersOf(p) ==
    {r \in Requests : lease[r] # None /\ route[r] = p /\ lease[r] = providerSessions[p]}

ActiveUses == [p \in Providers |-> {<<r, id[r]>> : r \in UsersOf(p)}]

RetainedSessions == [p \in Providers |-> {s \in Ids : EntryOf(p, s).retain}]

\* The limiters provide what SessionCapacity promises.
Capacity == INSTANCE SessionCapacity WITH
    caps     <- view,
    active   <- ActiveUses,
    retained <- RetainedSessions

\* Session admission implements the abstract capacity: caps count each
\* session once, over all models, keys and views of the provider.
ImplementsCapacity == Capacity!Spec

-----------------------------------------------------------------------------
(* The inductive invariant behind LimitersConsistent.                      *)

\* Two providers never share a limiter.
MapInjective ==
    \A p, q \in Providers :
        providerSessions[p] # None /\ providerSessions[p] = providerSessions[q] => p = q

\* A slot is held from a successful acquire to the release, and only a
\* delivered answer of a named session retains.
RequestsShaped ==
    \A r \in Requests :
        /\ phase[r] \in {"idle", "routing"} => lease[r] = None
        /\ phase[r] \in {"calling", "delivering"} => lease[r] # None
        /\ phase[r] # "idle" => id[r] \in Named \cup {r}
        /\ retain[r] => phase[r] = "ending" /\ id[r] \in Named

\* Every entry is justified; an absent one is blank.
EntriesShaped ==
    \A o \in Limiters, s \in Ids :
        LET e == limiters[o][s]
        IN  /\ ~e.known => e = NoEntry
            /\ e.known => e.requests > 0 \/ e.retain
            /\ e.retain => s \in Named

\* The requests whose lease points at limiter o, for session s.
LeaseHolders(o, s) == {r \in Requests : lease[r] = o /\ id[r] = s}

\* A limiter of the map counts the leases that point at it.
MappedCounts ==
    \A o \in Mapped, s \in Ids :
        limiters[o][s].requests = Cardinality(LeaseHolders(o, s))

\* A limiter the map has dropped has no entries: pruning takes empty ones and
\* closing empties all.
UnmappedEmpty == \A o \in Limiters \ Mapped : limiters[o] = Empty

\* A lease points at the limiter of its own provider or, once the gateway has
\* closed, at none of the map's.
LeasesRouted ==
    \A r \in Requests : lease[r] # None =>
        /\ route[r] \in Providers
        /\ \A p \in Providers : providerSessions[p] = lease[r] => route[r] = p
        /\ ~closed => providerSessions[route[r]] = lease[r]

IInv ==
    /\ TypeOK
    /\ MapInjective
    /\ RequestsShaped
    /\ EntriesShaped
    /\ MappedCounts
    /\ UnmappedEmpty
    /\ LeasesRouted
============================================================================
