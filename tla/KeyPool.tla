------------------------------ MODULE KeyPool ------------------------------
(***************************************************************************)
(* The credential pool of one provider profile (providerKeyPool) and the   *)
(* server-wait state it shares with the pools of later credential          *)
(* generations of the same endpoint (providerRetryState), driven by the    *)
(* requests of internal/gateway/route_recovery.go and                      *)
(* provider_dispatch.go.                                                   *)
(*                                                                         *)
(* Every critical section of pool.mu / server.mu is one action, so a       *)
(* request's claim, readiness check, outcome and release interleave freely *)
(* with those of the other requests, with configuration reloads and with   *)
(* the clock.  A request's rateRecoveryLease is identified by the request: *)
(* it has at most one.                                                     *)
(*                                                                         *)
(* Abstracted: the length of a local backoff is any member of Delays       *)
(* (boundedRecoveryBackoff adds random jitter); telemetry counters, labels *)
(* and failure classes are left out.                                       *)
(*                                                                         *)
(* Operators named after another one with a suffix (SilencedNone,          *)
(* FreshIgnoringServer, ...) are wrong variants of it, each a mistake that *)
(* one of the properties must notice; no action uses them.                 *)
(***************************************************************************)
EXTENDS Integers, FiniteSets

CONSTANTS
    Requests,    \* downstream requests
    MaxPools,    \* bound on credential generations
    Shapes,      \* profiles to check: how many credentials each generation has,
                 \* 0 if it is never made, the waits its upstream asks for, 0
                 \* among them, and bounds on publications and on the failures
                 \* recorded per pool
    MaxTime,     \* bound on the clock
    Delays,      \* delays of the local backoff
    Day,         \* the 24 h silence
    StreakLimit, \* 10 in the code: a longer streak silences for a Day
    None         \* no claim

Pools == 1 .. MaxPools

ASSUME BoundsAssumption ==
    /\ MaxPools \in Nat \ {0} /\ {MaxTime, StreakLimit} \subseteq Nat
    /\ Shapes \subseteq [keys : [Pools -> Nat], waits : SUBSET Nat,
                        reloads : Nat, failures : Nat]
    /\ \A shape \in Shapes : shape.keys[1] > 0
ASSUME DelaysAssumption == Delays \subseteq Nat /\ Day \in Nat \ {0}
ASSUME NoneAssumption   == None \notin Requests

VARIABLES
    profile,            \* the shape that was chosen
    now,                \* the wall clock; 0 is Go's zero time.Time
    epoch, latest,      \* the newest view's epoch, which fences results; its pool
    shown, active,      \* the epoch and the pool of the view requests are given
    serverOf,           \* pool.providerRetry: a server state, named by its first pool
    next,               \* pool.next, the round-robin start
    cooldowns, rateFailures, rateVersions,             \* per key
    rateStreak, rateVersion, rateProviderUntil, rateProbe, \* per pool
    until, version, probe,                             \* per server state
    phase,              \* where each request is
    view, pool,         \* the immutable view it was admitted with
    lease,              \* its rateRecoveryLease: none, pool-only, or with a server
    cands, scanning,    \* the adapter's candidates still to try; skipping some
    key, obs, held,     \* the key used, the versions observed, the deadline held
    sent, probing,      \* history: when it was dispatched, onto which recovery
    overtaken           \* history: the requests between the two halves of Ready
                        \* that a wait which was over at once came upon

viewVars   == <<epoch, latest, shown, active, serverOf>>
clockVars  == <<profile, now, viewVars>>
keyVars    == <<cooldowns, rateFailures, rateVersions>>
rateVars   == <<rateStreak, rateVersion, rateProviderUntil>>
serverVars == <<until, version>>
claimVars  == <<rateProbe, probe, lease>>
candVars   == <<view, pool, cands, scanning>>
sentVars   == <<key, obs, sent, probing>>
vars == <<clockVars, next, keyVars, rateVars, serverVars, claimVars,
          phase, candVars, sentVars, held, overtaken>>

NKeys(p) == profile.keys[p]
Keys(p) == 1 .. NKeys(p)

Larger(a, b) == IF a > b THEN a ELSE b

\* The server state behind pool p.
Srv(p) == serverOf[p]

NoObs == [key |-> 0, provider |-> 0, server |-> 0]

\* newProviderKeyPool: nothing cools, nothing was observed.
Init ==
    /\ profile \in Shapes
    /\ now = 1 /\ epoch = 0 /\ latest = 1 /\ shown = 0 /\ active = 1
    /\ serverOf = [p \in Pools |-> p]
    /\ next = [p \in Pools |-> 0]
    /\ cooldowns = [p \in Pools |-> [k \in Keys(p) |-> 0]]
    /\ rateFailures = [p \in Pools |-> [k \in Keys(p) |-> 0]]
    /\ rateVersions = [p \in Pools |-> [k \in Keys(p) |-> 0]]
    /\ rateStreak = [p \in Pools |-> 0]
    /\ rateVersion = [p \in Pools |-> 0]
    /\ rateProviderUntil = [p \in Pools |-> 0]
    /\ rateProbe = [p \in Pools |-> None]
    /\ until = [s \in Pools |-> 0]
    /\ version = [s \in Pools |-> 0]
    /\ probe = [s \in Pools |-> None]
    /\ phase = [r \in Requests |-> "idle"]
    /\ view = [r \in Requests |-> 0]
    /\ pool = [r \in Requests |-> 1]
    /\ lease = [r \in Requests |-> "none"]
    /\ cands = [r \in Requests |-> {}]
    /\ scanning = [r \in Requests |-> FALSE]
    /\ key = [r \in Requests |-> 1]
    /\ obs = [r \in Requests |-> NoObs]
    /\ held = [r \in Requests |-> 0]
    /\ sent = [r \in Requests |-> 0]
    /\ probing = [r \in Requests |-> "no"]
    /\ overtaken = {}

-----------------------------------------------------------------------------
(* The recovery claim: beginRateRecovery and finishRateRecovery.           *)

ClaimBusyServerOnly(p) == probe[Srv(p)] # None

ClaimBusy(p) == rateProbe[p] # None \/ probe[Srv(p)] # None

NeedsRecovery(p) ==
    \/ rateStreak[p] # 0 /\ rateProviderUntil[p] # 0
    \/ until[Srv(p)] # 0

PausedUntil(p) == Larger(rateProviderUntil[p], until[Srv(p)])

\* The 429 of beginRateRecovery: another request probes, or the wait lasts.
RecoveryBlocked(p) == ClaimBusy(p) \/ (NeedsRecovery(p) /\ PausedUntil(p) > now)

\* Its other returns: a nil lease on a healthy provider, or the single claim,
\* which covers the server state only when that one has a wait of its own.
beginRateRecovery(r, p) ==
    /\ ~RecoveryBlocked(p)
    /\ IF NeedsRecovery(p)
         THEN /\ rateProbe' = [rateProbe EXCEPT ![p] = r]
              /\ IF until[Srv(p)] # 0
                   THEN /\ probe' = [probe EXCEPT ![Srv(p)] = r]
                        /\ lease' = [lease EXCEPT ![r] = "server"]
                   ELSE /\ lease' = [lease EXCEPT ![r] = "pool"]
                        /\ UNCHANGED probe
         ELSE /\ lease' = [lease EXCEPT ![r] = "none"]
              /\ UNCHANGED <<rateProbe, probe>>

finishRateRecoveryPoolOnly(r, p) ==
    /\ lease' = [lease EXCEPT ![r] = "none"]
    /\ rateProbe' = IF lease[r] # "none" THEN [rateProbe EXCEPT ![p] = None] ELSE rateProbe
    /\ UNCHANGED probe

finishRateRecoveryLeaseOnly(r, p) ==
    lease' = [lease EXCEPT ![r] = "none"] /\ UNCHANGED <<rateProbe, probe>>

finishRateRecovery(r, p) ==
    /\ lease' = [lease EXCEPT ![r] = "none"]
    /\ IF lease[r] # "none" /\ rateProbe[p] = r
         THEN /\ rateProbe' = [rateProbe EXCEPT ![p] = None]
              /\ probe' = IF lease[r] = "server" /\ probe[Srv(p)] = r
                            THEN [probe EXCEPT ![Srv(p)] = None]
                            ELSE probe
         ELSE UNCHANGED <<rateProbe, probe>>

-----------------------------------------------------------------------------
(* Recording outcomes: holdProviderUntil, rateLimitedAt, CooldownAt and    *)
(* rateSucceeded.                                                          *)

\* Not fenced by the epoch: a late server wait still pauses the endpoint.
holdProviderUntil(p, deadline) ==
    /\ rateVersion' = [rateVersion EXCEPT ![p] = @ + 1]
    /\ version' = [version EXCEPT ![Srv(p)] = @ + 1]
    /\ until' = [until EXCEPT ![Srv(p)] = Larger(@, deadline)]

\* The bounded cooldown of one key: at least one unit, at most a Day, and a
\* Day once the key's own streak exceeds the limit.
KeyDelay(failures, delay) ==
    IF delay > Day \/ failures > StreakLimit THEN Day ELSE Larger(delay, 1)

SilencedNone(p, cooled) == cooled

\* The Day of silence extends the cooldown of every key.
Silenced(p, cooled) == [j \in Keys(p) |-> Larger(cooled[j], now + Day)]

\* A rejected attempt advances both streaks and both versions and cools its
\* key; once every key cools the provider pauses until the first is due, or
\* for a Day when the provider's streak exceeds the limit.
rateLimitedAt(p, k, delay) ==
    LET failures == rateFailures[p][k] + 1
        streak   == rateStreak[p] + 1
        cooled   == [cooldowns[p] EXCEPT ![k] =
                        Larger(@, now + KeyDelay(failures, delay))]
        allCooling == \A j \in Keys(p) : cooled[j] > now
    IN  /\ rateFailures' = [rateFailures EXCEPT ![p][k] = failures]
        /\ rateStreak' = [rateStreak EXCEPT ![p] = streak]
        /\ rateVersions' = [rateVersions EXCEPT ![p][k] = @ + 1]
        /\ rateVersion' = [rateVersion EXCEPT ![p] = @ + 1]
        /\ \/ /\ allCooling /\ streak > StreakLimit
              /\ cooldowns' = [cooldowns EXCEPT ![p] = Silenced(p, cooled)]
              /\ rateProviderUntil' = [rateProviderUntil EXCEPT ![p] = now + Day]
           \/ /\ allCooling /\ streak <= StreakLimit
              /\ cooldowns' = [cooldowns EXCEPT ![p] = cooled]
              /\ \E first \in Keys(p) :
                    /\ \A j \in Keys(p) : cooled[first] <= cooled[j]
                    /\ rateProviderUntil' =
                          [rateProviderUntil EXCEPT ![p] = cooled[first]]
           \/ /\ ~allCooling
              /\ cooldowns' = [cooldowns EXCEPT ![p] = cooled]
              /\ UNCHANGED rateProviderUntil
        /\ UNCHANGED serverVars

\* CooldownAt, for a rejected credential: it only ever extends.
CooldownAt(p, k, delay) ==
    LET bounded == Larger(IF delay > Day THEN Day ELSE delay, 1)
    IN  /\ cooldowns' = [cooldowns EXCEPT ![p][k] = Larger(@, now + bounded)]
        /\ UNCHANGED <<rateFailures, rateVersions, rateVars, serverVars>>

FreshIgnoringServer(p, seen) == rateVersion[p] = seen.provider

\* Nothing was recorded for the pool or its server state since the dispatch.
Fresh(p, seen) == rateVersion[p] = seen.provider /\ version[Srv(p)] = seen.server

\* A success resets its key's streak, the provider's streak and the server
\* wait, each only if nothing was recorded there since the dispatch.
rateSucceeded(p, k, seen) ==
    /\ rateFailures' = IF rateVersions[p][k] = seen.key
                         THEN [rateFailures EXCEPT ![p][k] = 0]
                         ELSE rateFailures
    /\ IF Fresh(p, seen)
         THEN /\ rateStreak' = [rateStreak EXCEPT ![p] = 0]
              /\ rateProviderUntil' = [rateProviderUntil EXCEPT ![p] = 0]
              /\ until' = [until EXCEPT ![Srv(p)] = 0]
              /\ version' = IF until[Srv(p)] # 0
                              THEN [version EXCEPT ![Srv(p)] = @ + 1]
                              ELSE version
         ELSE UNCHANGED <<rateStreak, rateProviderUntil, serverVars>>
    /\ UNCHANGED <<cooldowns, rateVersions, rateVersion>>

-----------------------------------------------------------------------------
(* The steps of a request.                                                 *)

\* callRouteWithRecovery: claim before route selection.
Begin(r) ==
    /\ phase[r] = "idle"
    /\ beginRateRecovery(r, active)
    /\ phase' = [phase EXCEPT ![r] = "selected"]
    /\ view' = [view EXCEPT ![r] = shown]
    /\ pool' = [pool EXCEPT ![r] = active]
    /\ UNCHANGED <<clockVars, next, keyVars, rateVars, serverVars,
                   cands, scanning, sentVars, held, overtaken>>

\* A blocked provider rejects the request, which leaves no trace.
BeginRejected(r) ==
    /\ phase[r] = "idle"
    /\ RecoveryBlocked(active)
    /\ UNCHANGED vars

NextStartUnwrapped(p, start) == start + 1

\* The round robin moves on by one key.
NextStart(p, start) == (start + 1) % NKeys(p)

\* CandidatesAt: nothing while the server wait lasts, otherwise the keys that
\* are not cooling, tried in round-robin order from next.
Candidates(r) ==
    LET p     == pool[r]
        ready == {k \in Keys(p) : cooldowns[p][k] <= now}
    IN  /\ phase[r] = "selected"
        /\ IF until[Srv(p)] > now
             THEN /\ phase' = [phase EXCEPT ![r] = "finishing"]
                  /\ UNCHANGED <<next, cooldowns, cands, key>>
             ELSE /\ next' = [next EXCEPT ![p] = NextStart(p, @)]
                  /\ cooldowns' = [cooldowns EXCEPT ![p] =
                        [k \in Keys(p) |-> IF k \in ready THEN 0 ELSE @[k]]]
                  /\ cands' = [cands EXCEPT ![r] = ready]
                  /\ key' = [key EXCEPT ![r] = next[p] + 1]
                  /\ phase' = [phase EXCEPT ![r] =
                        IF ready = {} THEN "finishing" ELSE "queued"]
        /\ UNCHANGED <<clockVars, rateFailures, rateVersions, rateVars,
                       serverVars, claimVars, view, pool, scanning,
                       obs, sent, probing, held, overtaken>>

\* k is the candidate the adapter's loop reaches first; until the dispatch
\* key[r] remembers where the round robin started.
IsNext(r, k) ==
    /\ k \in cands[r]
    /\ \A j \in cands[r] : (k - key[r]) % NKeys(pool[r]) <= (j - key[r]) % NKeys(pool[r])

\* The adapter skips candidate k and looks for a ready one behind it.
Skip(r, k) ==
    /\ cands' = [cands EXCEPT ![r] = @ \ {k}]
    /\ scanning' = [scanning EXCEPT ![r] = TRUE]
    /\ phase' = [phase EXCEPT ![r] =
                    IF cands[r] = {k} THEN "finishing" ELSE "queued"]

\* Ready, first half: a request without a claim asks for one again, because a
\* wait may have appeared and expired while it was queued.
ReadyClaim(r, k) ==
    /\ phase[r] = "queued" /\ lease[r] = "none" /\ IsNext(r, k)
    /\ \/ /\ RecoveryBlocked(pool[r])
          /\ Skip(r, k)
          /\ UNCHANGED claimVars
       \/ /\ beginRateRecovery(r, pool[r])
          /\ phase' = [phase EXCEPT ![r] = "claimed"]
          /\ UNCHANGED <<cands, scanning>>
    /\ UNCHANGED <<clockVars, next, keyVars, rateVars, serverVars,
                   view, pool, sentVars, held, overtaken>>

\* Which recovery a dispatch to pool p would be a probe of.
RecoveryKind(p) ==
    IF until[Srv(p)] # 0 THEN "server"
    ELSE IF NeedsRecovery(p) THEN "pool" ELSE "no"

KeyReadyAnyServer(p, k) == cooldowns[p][k] <= now

\* candidateStateAt: neither the key nor the endpoint waits.
KeyReady(p, k) == cooldowns[p][k] <= now /\ until[Srv(p)] <= now

\* Ready, second half: candidateStateAt.  A ready candidate found while
\* scanning is checked once more by the adapter's outer loop.
ReadyCheck(r, k) ==
    LET p == pool[r]
        ready == KeyReady(p, k)
    IN  /\ \/ phase[r] = "claimed"
           \/ phase[r] = "queued" /\ lease[r] # "none"
        /\ IsNext(r, k)
        /\ \/ /\ ~ready
              /\ Skip(r, k)
              /\ UNCHANGED <<cooldowns, sentVars>>
           \/ /\ ready /\ scanning[r]
              /\ cooldowns' = [cooldowns EXCEPT ![p][k] = 0]
              /\ scanning' = [scanning EXCEPT ![r] = FALSE]
              /\ phase' = [phase EXCEPT ![r] = "queued"]
              /\ UNCHANGED <<cands, sentVars>>
           \/ /\ ready /\ ~scanning[r]
              /\ cooldowns' = [cooldowns EXCEPT ![p][k] = 0]
              /\ phase' = [phase EXCEPT ![r] = "flight"]
              /\ key' = [key EXCEPT ![r] = k]
              /\ obs' = [obs EXCEPT ![r] =
                    [key |-> rateVersions[p][k], provider |-> rateVersion[p],
                     server |-> version[Srv(p)]]]
              /\ sent' = [sent EXCEPT ![r] = now]
              /\ probing' = [probing EXCEPT ![r] = RecoveryKind(p)]
              /\ cands' = [cands EXCEPT ![r] = {}]
              /\ UNCHANGED scanning
        /\ UNCHANGED <<clockVars, next, rateFailures, rateVersions, rateVars,
                       serverVars, claimVars, view, pool, held, overtaken>>

\* The caller cancels, or a local gate (session, budget, availability, audit)
\* rejects the request before any upstream attempt.
Cancel(r) ==
    /\ phase[r] \in {"selected", "queued"}
    /\ phase' = [phase EXCEPT ![r] = "finishing"]
    /\ UNCHANGED <<clockVars, next, keyVars, rateVars, serverVars, claimVars,
                   candVars, sentVars, held, overtaken>>

IsCurrentUnchecked(r) == TRUE

\* availability.withCurrent: key health of a view that is no longer published
\* is not recorded.
IsCurrent(r) == view[r] = epoch

\* Completed(nil): a success is reported to the pool.
Succeed(r) ==
    /\ phase[r] = "flight"
    /\ IF IsCurrent(r)
         THEN rateSucceeded(pool[r], key[r], obs[r])
         ELSE UNCHANGED <<keyVars, rateVars, serverVars>>
    /\ phase' = [phase EXCEPT ![r] = "finishing"]
    /\ UNCHANGED <<clockVars, next, claimVars, candVars, sentVars, held, overtaken>>

\* The requests that were told just now that they need no claim on the server
\* state of pool p.
Unclaimed(p) == {q \in Requests : /\ phase[q] = "claimed" /\ lease[q] = "none"
                                  /\ Srv(pool[q]) = Srv(p)}

\* Failed, with a server wait: hold the endpoint first, in any epoch ...
FailHold(r, wait) ==
    /\ phase[r] = "flight"
    /\ rateVersion[pool[r]] < profile.failures
    /\ holdProviderUntil(pool[r], now + wait)
    /\ held' = [held EXCEPT ![r] = Larger(until[Srv(pool[r])], now + wait)]
    /\ phase' = [phase EXCEPT ![r] = "held"]
    /\ overtaken' = IF wait = 0 THEN overtaken \cup Unclaimed(pool[r]) ELSE overtaken
    /\ UNCHANGED <<clockVars, next, keyVars, rateStreak, rateProviderUntil,
                   claimVars, candVars, sentVars>>

\* ... then, if the view is current and the failure is a rate limit, record
\* it with the rest of the held deadline as the key's delay.
FailRecord(r, limited) ==
    /\ phase[r] = "held"
    /\ IF limited /\ IsCurrent(r)
         THEN rateLimitedAt(pool[r], key[r], Larger(held[r] - now, 0))
         ELSE UNCHANGED <<keyVars, rateVars, serverVars>>
    /\ phase' = [phase EXCEPT ![r] = "finishing"]
    /\ held' = [held EXCEPT ![r] = 0]
    /\ UNCHANGED <<clockVars, next, claimVars, candVars, sentVars, overtaken>>

\* Failed, without a server wait: a rate limit or a rejected credential cools
\* the key, every other failure leaves the pool alone.
FailLocal(r, kind, delay) ==
    LET p == pool[r]
        k == key[r]
    IN  /\ phase[r] = "flight"
        /\ kind = "rate" => rateVersion[p] < profile.failures
        /\ IF IsCurrent(r) /\ kind # "other"
             THEN \/ kind = "rate" /\ rateLimitedAt(p, k, delay)
                  \/ kind = "auth" /\ CooldownAt(p, k, delay)
             ELSE UNCHANGED <<keyVars, rateVars, serverVars>>
        /\ phase' = [phase EXCEPT ![r] = "finishing"]
        /\ UNCHANGED <<clockVars, next, claimVars, candVars, sentVars, held, overtaken>>

\* The deferred release of callRouteWithRecovery.
Finish(r) ==
    /\ phase[r] = "finishing"
    /\ finishRateRecovery(r, pool[r])
    /\ phase' = [phase EXCEPT ![r] = "idle"]
    /\ cands' = [cands EXCEPT ![r] = {}]
    /\ scanning' = [scanning EXCEPT ![r] = FALSE]
    /\ key' = [key EXCEPT ![r] = 1]
    /\ obs' = [obs EXCEPT ![r] = NoObs]
    /\ sent' = [sent EXCEPT ![r] = 0]
    /\ probing' = [probing EXCEPT ![r] = "no"]
    /\ view' = [view EXCEPT ![r] = 0]
    /\ pool' = [pool EXCEPT ![r] = 1]
    /\ overtaken' = overtaken \ {r}
    /\ UNCHANGED <<clockVars, next, keyVars, rateVars, serverVars, held>>

-----------------------------------------------------------------------------
(* The environment: publications and the clock.                            *)

\* activateRouting of a view with unchanged connections: it keeps the pool.
ReloadPolicy ==
    /\ epoch < profile.reloads /\ shown = epoch
    /\ epoch' = epoch + 1
    /\ UNCHANGED <<profile, now, latest, shown, active, serverOf, next, keyVars, rateVars,
                   serverVars, claimVars, phase, candVars, sentVars, held, overtaken>>

\* Other credentials make a new pool; on the same endpoint it shares the
\* server state, on another endpoint or after a removal it starts afresh.
ReloadConnection(sameEndpoint) ==
    /\ epoch < profile.reloads /\ shown = epoch
    /\ latest < MaxPools /\ NKeys(latest + 1) > 0
    /\ epoch' = epoch + 1
    /\ latest' = latest + 1
    /\ serverOf' = IF sameEndpoint
                     THEN [serverOf EXCEPT ![latest + 1] = serverOf[latest]]
                     ELSE serverOf
    /\ UNCHANGED <<profile, now, shown, active, next, keyVars, rateVars, serverVars,
                   claimVars, phase, candVars, sentVars, held, overtaken>>

\* state.active.Store: only now do requests get the new view.
Publish ==
    /\ shown # epoch
    /\ shown' = epoch
    /\ active' = latest
    /\ UNCHANGED <<profile, now, epoch, latest, serverOf, next, keyVars, rateVars,
                   serverVars, claimVars, phase, candVars, sentVars, held, overtaken>>

\* A unit of time is a second or more: it does not pass between the two
\* consecutive critical sections of Ready.
Tick ==
    /\ now < MaxTime
    /\ \A r \in Requests : phase[r] # "claimed"
    /\ now' = now + 1
    /\ UNCHANGED <<profile, viewVars, next, keyVars, rateVars, serverVars, claimVars,
                   phase, candVars, sentVars, held, overtaken>>

Outcome(r) ==
    \/ Succeed(r)
    \/ \E w \in profile.waits : FailHold(r, w)
    \/ \E limited \in BOOLEAN : FailRecord(r, limited)
    \/ \E kind \in {"rate", "auth", "other"}, d \in Delays : FailLocal(r, kind, d)

RequestStep(r) ==
    \/ Candidates(r)
    \/ \E k \in Keys(pool[r]) : ReadyClaim(r, k) \/ ReadyCheck(r, k)
    \/ Outcome(r)
    \/ Finish(r)

Next ==
    \/ \E r \in Requests : Begin(r) \/ BeginRejected(r) \/ Cancel(r) \/ RequestStep(r)
    \/ ReloadPolicy
    \/ \E same \in BOOLEAN : ReloadConnection(same)
    \/ Publish
    \/ Tick

Spec == Init /\ [][Next]_vars

\* An admitted request keeps running: its goroutine is scheduled and every
\* upstream attempt ends (response, error, timeout or cancellation).
FairSpec == Spec /\ \A r \in Requests : WF_vars(RequestStep(r))

-----------------------------------------------------------------------------
(* Properties.                                                             *)

Phases == {"idle", "selected", "queued", "claimed", "flight", "held", "finishing"}

\* The types of the pool, the server states and the requests.
TypeOK ==
    /\ now \in Nat \ {0} /\ epoch \in Nat /\ shown \in Nat
    /\ latest \in Pools /\ active \in Pools
    /\ serverOf \in [Pools -> Pools]
    /\ next \in [Pools -> Nat]
    /\ \A p \in Pools :
          /\ NKeys(p) > 0 => next[p] < NKeys(p)
          /\ {cooldowns[p], rateFailures[p], rateVersions[p]} \subseteq [Keys(p) -> Nat]
    /\ rateStreak \in [Pools -> Nat]
    /\ rateVersion \in [Pools -> Nat]
    /\ rateProviderUntil \in [Pools -> Nat]
    /\ rateProbe \in [Pools -> Requests \cup {None}]
    /\ until \in [Pools -> Nat]
    /\ version \in [Pools -> Nat]
    /\ probe \in [Pools -> Requests \cup {None}]
    /\ phase \in [Requests -> Phases]
    /\ view \in [Requests -> Nat]
    /\ pool \in [Requests -> Pools]
    /\ lease \in [Requests -> {"none", "pool", "server"}]
    /\ \A r \in Requests : cands[r] \subseteq Keys(pool[r]) /\ key[r] \in Keys(pool[r])
    /\ scanning \in [Requests -> BOOLEAN]
    /\ obs \in [Requests -> [key : Nat, provider : Nat, server : Nat]]
    /\ held \in [Requests -> Nat]
    /\ sent \in [Requests -> Nat]
    /\ probing \in [Requests -> {"no", "pool", "server"}]
    /\ overtaken \subseteq Requests

\* No claim is orphaned: whoever blocks a pool or a server state is a live
\* request of that pool whose lease its own deferred finishRateRecovery will
\* give back, and a request that holds a lease is recorded as the owner.
ClaimsOwned ==
    /\ \A p \in Pools : rateProbe[p] # None =>
          /\ phase[rateProbe[p]] # "idle"
          /\ pool[rateProbe[p]] = p
          /\ lease[rateProbe[p]] # "none"
    /\ \A s \in Pools : probe[s] # None =>
          /\ phase[probe[s]] # "idle"
          /\ Srv(pool[probe[s]]) = s
          /\ lease[probe[s]] = "server"
    /\ \A r \in Requests :
          /\ lease[r] # "none" => rateProbe[pool[r]] = r
          /\ lease[r] = "server" => probe[Srv(pool[r])] = r

\* A provider-wide pause is always backed by every key: while
\* rateProviderUntil lies ahead, no key of the pool becomes ready before it.
PauseCoversKeys ==
    \A p \in Pools : rateProviderUntil[p] > now =>
        \A k \in Keys(p) : cooldowns[p][k] >= rateProviderUntil[p]

\* "Only one real request probes a rate-limited provider after silence":
\* of the requests a pool has in flight, at most one was dispatched while the
\* pool or its server state was still recovering.  The exception is what a
\* Retry-After of 0, which errors.go accepts, can do: the wait it begins is
\* over at once, and a request that Ready had just told it needs no claim
\* goes out beside the probe.
OneProbePerPool ==
    \A r1, r2 \in Requests \ overtaken :
        /\ r1 # r2 /\ pool[r1] = pool[r2]
        /\ phase[r1] = "flight" /\ phase[r2] = "flight"
        => probing[r1] = "no" \/ probing[r2] = "no"

\* "Sharing a server wait also shares this single probe": of all requests in
\* flight to one endpoint, whatever credential generation they use, at most
\* one was dispatched after a server wait that is not yet confirmed over.
OneProbePerServer ==
    \A r1, r2 \in Requests :
        /\ r1 # r2 /\ Srv(pool[r1]) = Srv(pool[r2])
        /\ phase[r1] = "flight" /\ phase[r2] = "flight"
        => ~(probing[r1] = "server" /\ probing[r2] = "server")

\* A request is sent upstream only when neither the server wait nor the
\* provider-wide pause of its pool lies ahead, although candidateStateAt looks
\* only at the server wait and one key.
DispatchOutsidePauses ==
    [][\A r \in Requests :
          phase[r] # "flight" /\ phase'[r] = "flight" =>
             /\ until[Srv(pool[r])] <= now
             /\ rateProviderUntil[pool[r]] <= now]_vars

\* "An older in-flight success cannot erase that pause; a shorter concurrent
\* wait cannot reduce it": a server wait or a provider pause is never
\* shortened, and is lifted only by the success of a request that was sent
\* when it had already elapsed.
PausesOutliveOlderSuccesses ==
    [][\A p \in Pools :
          /\ until'[p] < until[p] =>
                \E r \in Requests :
                   /\ phase[r] = "flight" /\ phase'[r] = "finishing"
                   /\ until'[p] = 0 /\ Srv(pool[r]) = p /\ sent[r] >= until[p]
          /\ rateProviderUntil'[p] < rateProviderUntil[p] =>
                \E r \in Requests :
                   /\ phase[r] = "flight" /\ phase'[r] = "finishing"
                   /\ rateProviderUntil'[p] = 0 /\ pool[r] = p
                   /\ sent[r] >= rateProviderUntil[p]]_vars

\* A result of an old view never touches key health: cooldowns, streaks and
\* pauses of a pool change under a request only if its view is published
\* (expired cooldowns may be cleared, and server waits are shared by design).
OldViewsLeaveKeyHealth ==
    [][\A r \in Requests :
          phase[r] \in {"flight", "held"} /\ phase'[r] = "finishing"
             /\ view[r] # epoch
          => UNCHANGED <<keyVars, rateStreak, rateProviderUntil>>]_vars

\* What the pools, claims and requests in flight have to do with each other:
\* the types, and the invariants above.
PoolsConsistent == TypeOK /\ ClaimsOwned /\ PauseCoversKeys /\ OneProbePerPool

\* Every recovery claim is given back, so a recovering provider is never
\* blocked for good by a request that was cancelled, rejected or failed.
ClaimsReleased ==
    \A p \in Pools : rateProbe[p] # None ~> rateProbe[p] = None

-----------------------------------------------------------------------------
(* The inductive invariant behind PoolsConsistent and the action           *)
(* properties.                                                             *)

\* Every pool made so far has a key, and requests use only pools made so far,
\* so that a server state taken over by a new pool is not yet in use there.
PoolsMade ==
    /\ profile \in Shapes
    /\ active <= latest
    /\ \A p \in Pools : p <= latest => NKeys(p) > 0
    /\ \A r \in Requests : pool[r] <= latest
    /\ DOMAIN cooldowns = Pools /\ DOMAIN rateFailures = Pools
    /\ DOMAIN rateVersions = Pools
    /\ DOMAIN cands = Requests /\ DOMAIN key = Requests

\* A request between two calls holds nothing.
IdleHoldsNothing ==
    \A r \in Requests : phase[r] = "idle" =>
        lease[r] = "none" /\ cands[r] = {} /\ key[r] = 1

\* Without a streak there is no pause, and no silence is longer than a Day:
\* this is why the Day of a long streak never shortens an earlier pause.
SilenceBounded ==
    \A p \in Pools :
        /\ rateStreak[p] = 0 => rateProviderUntil[p] = 0
        /\ rateProviderUntil[p] <= now + Day
        /\ \A k \in Keys(p) : cooldowns[p][k] <= now + Day

\* What a request in flight observed: while nothing newer was recorded for
\* its pool (its server state), the pause (the wait) is one that had elapsed
\* when it was sent.
ObservationsSound ==
    \A r \in Requests : phase[r] = "flight" =>
        LET p == pool[r]
        IN  /\ obs[r].provider <= rateVersion[p]
            /\ obs[r].server <= version[Srv(p)]
            /\ obs[r].provider = rateVersion[p] => rateProviderUntil[p] <= sent[r]
            /\ obs[r].server = version[Srv(p)] => until[Srv(p)] <= sent[r]

IInv ==
    /\ TypeOK /\ ClaimsOwned /\ PauseCoversKeys
    /\ PoolsMade /\ IdleHoldsNothing /\ SilenceBounded /\ ObservationsSound

\* A request that asked for a claim in this very instant and was told that
\* none is needed still has no elapsed pause or wait before it: one recorded
\* since then lies ahead, unless it was over at once.  And whoever was sent
\* while recovering has a claim.
ProbesClaimed ==
    \A r \in Requests \ overtaken :
        /\ phase[r] = "claimed" /\ lease[r] = "none" =>
              /\ rateProviderUntil[pool[r]] # 0 => rateProviderUntil[pool[r]] > now
              /\ until[Srv(pool[r])] # 0 => until[Srv(pool[r])] > now
        /\ phase[r] = "flight" /\ probing[r] # "no" => lease[r] # "none"
============================================================================
