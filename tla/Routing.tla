------------------------------ MODULE Routing -------------------------------
(***************************************************************************)
(* The choice of a route: the ordered chain behind model "auto"            *)
(* (auto_chain.go), the session affinity of a model several providers      *)
(* share (shared_model_affinity.go), the decision to wait for a cooling    *)
(* route or to switch (cooldown_switch.go), the resolution of both         *)
(* (routing.go), the attempt loop of gateway.go and the hand-over of all   *)
(* that at a reload (routing_reload.go).                                   *)
(*                                                                         *)
(* A request resolves its route in steps, each under another lock: it      *)
(* reads its session's binding, judges the bound route's health, and       *)
(* selects.  It does so once on arrival and once more before every call,   *)
(* and calls again only if the call was refused before its dispatch.       *)
(* Every configuration view owns a chain; the bindings are shared by all   *)
(* views, and written only by the one whose epoch is active.               *)
(*                                                                         *)
(* Abstracted: one model and one protocol; the health of a provider (the   *)
(* availability table and the key pool have modules of their own) is one   *)
(* of four values that change at any time.  The recovery of a gateway      *)
(* without availability table is not modelled: every gateway has one.      *)
(***************************************************************************)
EXTENDS Integers, Sequences, FiniteSets, FiniteSetsExt

CONSTANTS
    Requests, Providers, Sessions,
    AutoSets,     \* sets of requests for model "auto"; the others name the model
    SessionOf,    \* the session of a request or None
    Configs,      \* the configurations: auto_chain, shared_model_strategy and
                  \* the scope, the providers that serve the model
    FirstConfigs, \* those the gateway may start with
    Price,        \* the order of the providers by price
    Threshold,    \* whether provider_switch_threshold is positive
    MaxReloads,   \* bound on reloads
    MaxChanges,   \* bound on changes of a provider's health
    None

Views == 0 .. MaxReloads

\* paused: the key pool's known short wait; long: a known wait above the
\* threshold; probing: a wait of unknown length.
Health == {"ready", "paused", "long", "probing"}

ASSUME RoutingAssumptions ==
    /\ MaxReloads \in Nat /\ Threshold \in BOOLEAN
    /\ AutoSets \subseteq SUBSET Requests /\ MaxChanges \in Nat
    /\ SessionOf \in [Requests -> Sessions \cup {None}]
    /\ FirstConfigs \subseteq Configs
    /\ \A g \in Configs :
          /\ g.strategy \in {"random", "price_priority"}
          /\ g.scope \in (SUBSET Providers) \ {{}}
          /\ g.chain \in Seq(g.scope) \ {<<>>}
          /\ \A i, j \in DOMAIN g.chain : g.chain[i] = g.chain[j] => i = j
    /\ Price \in [Providers -> Nat] /\ IsFiniteSet(Providers)
    /\ None \notin Providers \cup Sessions

VARIABLES
    view,       \* per view: its auto_chain, strategy, scope, generations
    chain,      \* autoChainState of every view
    bindings,   \* sharedModelAffinity.bindings
    activeEpoch,\* its activeEpoch
    healthEpoch,\* availabilityState.epoch
    active,     \* the published view
    reload,     \* the reload: "idle" or the step it is at
    health, changes, \* of every provider, and how often one changed
    auto,       \* the requests for model "auto"
    phase, at,  \* where a request is, and the view it was admitted to
    route,      \* the route it looks at or has chosen: provider, index, hold
    tries,      \* -1 on arrival, then preDispatch
    sent,       \* how often it was dispatched
    agreed      \* history: what a session's requests have agreed on

routeVars == <<chain, bindings>>
viewVars == <<view, activeEpoch, healthEpoch, active, reload>>
healthVars == <<health, changes>>
reqVars == <<auto, phase, at, route, tries, sent>>
vars == <<routeVars, viewVars, healthVars, reqVars, agreed>>

NoRoute == [provider |-> None, index |-> 0, hold |-> FALSE]

\* A route that is no entry of the chain.
Direct(p) == [provider |-> p, index |-> 0, hold |-> FALSE]

NewChain(n) == [next |-> 1, failed |-> [i \in 1 .. n |-> "no"], session |-> [s \in Sessions |-> 0]]

ViewOf(g, reused, generation) ==
    [chain |-> g.chain, strategy |-> g.strategy, scope |-> g.scope,
     reused |-> reused, generation |-> generation]

NoBinding == [provider |-> None, generation |-> 0]

Init ==
    /\ \E g \in FirstConfigs :
          /\ view = [v \in Views |-> ViewOf(g, {}, [p \in Providers |-> 1])]
          /\ chain = [v \in Views |-> NewChain(Len(g.chain))]
    /\ bindings = [s \in Sessions |-> NoBinding]
    /\ activeEpoch = 0 /\ healthEpoch = 0 /\ active = 0 /\ reload = "idle"
    /\ health = [p \in Providers |-> "ready"]
    /\ changes = 0 /\ auto \in AutoSets
    /\ phase = [r \in Requests |-> "idle"] /\ at = [r \in Requests |-> 0]
    /\ route = [r \in Requests |-> NoRoute]
    /\ tries = [r \in Requests |-> -1] /\ sent = [r \in Requests |-> 0]
    /\ agreed = [k \in {"auto", "random"} |-> [s \in Sessions |-> None]]

-----------------------------------------------------------------------------
(* Health as a request of view v sees it.                                  *)

\* routeWaitLocked, modelRouteAvailable, begin: a view that is not the table's
\* sees only the key pool.
Blocked(v, p) ==
    \/ p \notin view[v].scope
    \/ health[p] = "paused"
    \/ v = healthEpoch /\ health[p] # "ready"

Available(v, p) == ~Blocked(v, p)

\* How its route is chosen, in the view it was admitted to.
Kind(r) == IF r \in auto THEN "auto" ELSE view[at[r]].strategy

\* The session that is bound; a price order binds none.
Key(r) == IF Kind(r) = "price_priority" THEN None ELSE SessionOf[r]

\* The routes a request of this kind may use.
Alternatives(r) ==
    LET v == view[at[r]] IN
    IF r \in auto THEN {v.chain[i] : i \in DOMAIN v.chain} \cap v.scope ELSE v.scope

\* cooldownChoice: a wait of unknown length or within the threshold is waited
\* for, and a long one if there is nowhere to go.
Retains(r) ==
    LET v == at[r]
        p == route[r].provider
    IN  /\ v = healthEpoch
        /\ p \in view[v].scope
        /\ Blocked(v, p)
        /\ Threshold
        /\ health[p] = "long" =>
              \A q \in Alternatives(r) \ {p} : Blocked(v, q)

-----------------------------------------------------------------------------
(* Requests.                                                               *)

moveTo(r, p) == phase' = [phase EXCEPT ![r] = p]

Admit(r) ==
    /\ phase[r] = "idle"
    /\ moveTo(r, "bound")
    /\ at' = [at EXCEPT ![r] = active]
    /\ UNCHANGED <<routeVars, viewVars, healthVars, auto, route, tries, sent, agreed>>

Chain(r) == chain[at[r]]

\* autoChainState.boundRoute
BoundInChain(r) ==
    LET i == IF Key(r) = None THEN 0 ELSE Chain(r).session[Key(r)]
    IN  IF i = 0 THEN NoRoute
        ELSE [provider |-> view[at[r]].chain[i], index |-> i, hold |-> FALSE]

\* sharedModelAffinity.boundRoute
BoundInTable(r) ==
    LET b == IF Key(r) = None THEN NoBinding ELSE bindings[Key(r)]
        v == at[r]
    IN  IF /\ b.provider \in view[v].scope /\ activeEpoch = v
           /\ b.generation = view[v].generation[b.provider]
          THEN Direct(b.provider)
          ELSE NoRoute

Cheapest(S) == CHOOSE p \in S : \A q \in S : Price[p] <= Price[q]

\* What resolveRoutes prefers; the price order has no binding.
Preferred(r) ==
    CASE Kind(r) = "auto"           -> BoundInChain(r)
      [] Kind(r) = "random"         -> BoundInTable(r)
      [] Kind(r) = "price_priority" -> Direct(Cheapest(view[at[r]].scope))

Look(r) ==
    /\ phase[r] = "bound"
    /\ route' = [route EXCEPT ![r] = Preferred(r)]
    /\ moveTo(r, IF Preferred(r).provider \in view[at[r]].scope THEN "choice" ELSE "select")
    /\ UNCHANGED <<routeVars, viewVars, healthVars, auto, at, tries, sent, agreed>>

\* After the first resolution comes the one before the call.
resolved(r, x) ==
    /\ route' = [route EXCEPT ![r] = x]
    /\ moveTo(r, IF tries[r] = -1 THEN "bound" ELSE "call")
    /\ tries' = [tries EXCEPT ![r] = IF @ = -1 THEN 0 ELSE @]

\* retainedRoute
Choose(r) ==
    /\ phase[r] = "choice"
    /\ \/ /\ Retains(r)
          /\ resolved(r, [route[r] EXCEPT !.hold = TRUE])
       \/ /\ ~Retains(r)
          /\ moveTo(r, "select") /\ UNCHANGED <<route, tries>>
    /\ UNCHANGED <<routeVars, viewVars, healthVars, auto, at, sent, agreed>>

reject(r) ==
    /\ moveTo(r, "done")
    /\ UNCHANGED <<route, tries>>

\* An entry may be used: its failure is over and its provider is available.
Valid(r, i) ==
    LET v == at[r] IN Chain(r).failed[i] # "cooling" /\ Available(v, view[v].chain[i])

FirstPastNext(r) ==
    LET n == Len(view[at[r]].chain)
        S == {i \in Chain(r).next .. n : Valid(r, i)}
    IN  IF S = {} THEN 0 ELSE Min(S)

\* selectForSessionAvailable: the binding, else a failed entry before next that
\* may be tried again, else the first valid one from next on; 0 if there is none.
SelectedEntry(r) ==
    LET s == Key(r)
        bound == IF s = None THEN 0 ELSE Chain(r).session[s]
        earlier == {i \in 1 .. Chain(r).next - 1 :
                       i <= Len(view[at[r]].chain) /\ Chain(r).failed[i] # "no" /\ Valid(r, i)}
    IN  IF bound # 0 /\ Valid(r, bound) THEN bound
        ELSE IF earlier # {} THEN Min(earlier)
        ELSE FirstPastNext(r)

\* Requests that select in the active view agree on what a session uses.
noteChoice(r, p) ==
    LET s == Key(r) IN
    IF s # None /\ at[r] = activeEpoch /\ at[r] = active /\ reload = "idle"
      THEN agreed' = [agreed EXCEPT ![Kind(r)][s] = p]
      ELSE UNCHANGED agreed

SelectInChain(r) ==
    LET i == SelectedEntry(r)
        v == at[r]
    IN  /\ phase[r] = "select" /\ Kind(r) = "auto"
        /\ chain' = IF Key(r) = None THEN chain
                    ELSE [chain EXCEPT ![v].session[Key(r)] = i]
        /\ IF i = 0 THEN reject(r) /\ UNCHANGED agreed
           ELSE /\ resolved(r, [provider |-> view[v].chain[i], index |-> i, hold |-> FALSE])
                /\ noteChoice(r, view[v].chain[i])
        /\ UNCHANGED <<bindings, viewVars, healthVars, auto, at, sent>>

Eligible(r) == {p \in view[at[r]].scope : Available(at[r], p)}

\* reusableRandomCandidates
Reusable(r, S) ==
    LET R == S \cap view[at[r]].reused IN IF R = {} THEN S ELSE R

KeepsBindingNever(r) == FALSE

\* selectProviderForView keeps an eligible provider of the same generation.
KeepsBinding(r) ==
    LET b == bindings[Key(r)]
    IN  b.provider \in Eligible(r) /\ b.generation = view[at[r]].generation[b.provider]

bindAlways(r, p) ==
    bindings' = [bindings EXCEPT ![Key(r)] =
                    IF p = None THEN NoBinding
                    ELSE [provider |-> p, generation |-> view[at[r]].generation[p]]]

\* Only the active epoch writes.
bind(r, p) ==
    bindings' = IF at[r] # activeEpoch THEN bindings
                ELSE [bindings EXCEPT ![Key(r)] =
                        IF p = None THEN NoBinding
                        ELSE [provider |-> p, generation |-> view[at[r]].generation[p]]]

SelectProvider(r) ==
    /\ phase[r] = "select" /\ Kind(r) = "random" /\ Key(r) # None
    /\ \/ /\ KeepsBinding(r)
          /\ LET p == bindings[Key(r)].provider IN
                /\ resolved(r, Direct(p))
                /\ noteChoice(r, p)
          /\ UNCHANGED bindings
       \/ /\ ~KeepsBinding(r)
          /\ \E p \in Reusable(r, Eligible(r)) :
                /\ bind(r, p)
                /\ resolved(r, Direct(p))
                /\ noteChoice(r, p)
       \/ /\ ~KeepsBinding(r) /\ Eligible(r) = {}
          /\ bind(r, None) /\ reject(r) /\ UNCHANGED agreed
    /\ UNCHANGED <<chain, viewVars, healthVars, auto, at, sent>>

\* A random choice for a request without session, or the order by price.
FirstInOrder(r, S) == IF Kind(r) = "random" THEN Reusable(r, S) ELSE {Cheapest(S)}

\* Without affinity a single candidate is taken whatever its health.
SelectUnbound(r) ==
    LET S == IF Cardinality(view[at[r]].scope) = 1 THEN view[at[r]].scope ELSE Eligible(r)
    IN  /\ phase[r] = "select" /\ Kind(r) # "auto"
        /\ Kind(r) = "random" => Key(r) = None
        /\ IF S = {} THEN reject(r) ELSE \E p \in FirstInOrder(r, S) : resolved(r, Direct(p))
        /\ UNCHANGED <<routeVars, viewVars, healthVars, auto, at, sent, agreed>>

-----------------------------------------------------------------------------
(* The attempt loop.                                                       *)

Dispatch(r) ==
    /\ phase[r] = "call" /\ ~Blocked(at[r], route[r].provider)
    /\ sent' = [sent EXCEPT ![r] = @ + 1]
    /\ moveTo(r, "sent")
    /\ UNCHANGED <<routeVars, viewVars, healthVars, auto, at, route, tries, agreed>>

\* A claim or a key check refuses the call before anything is sent.
Refuse(r) ==
    /\ phase[r] = "call" /\ Blocked(at[r], route[r].provider)
    /\ moveTo(r, "refused")
    /\ UNCHANGED <<routeVars, viewVars, healthVars, auto, at, route, tries, sent, agreed>>

\* Cancelled, out of budget or sessions.
Abort(r) ==
    /\ phase[r] = "call"
    /\ moveTo(r, "done")
    /\ UNCHANGED <<routeVars, viewVars, healthVars, auto, at, route, tries, sent, agreed>>

\* The loop ends: the held route is still worth waiting for (which is left to
\* the client), or every provider had its turn.
GivesUp(r) ==
    \/ route[r].hold /\ Retains(r)
    \/ tries[r] >= Cardinality(Providers)

Again(r) ==
    /\ phase[r] = "refused"
    /\ \/ GivesUp(r) /\ moveTo(r, "done") /\ UNCHANGED tries
       \/ ~GivesUp(r) /\ moveTo(r, "bound") /\ tries' = [tries EXCEPT ![r] = @ + 1]
    /\ UNCHANGED <<routeVars, viewVars, healthVars, auto, at, route, sent, agreed>>

AnswerReselects(r) == moveTo(r, "bound")

\* After a dispatch the loop ends whatever the answer is.
Answer(r) == moveTo(r, "done")

\* restoreProvider: a success clears the provider's failures.
restoreProviderPastNext(v, p) ==
    LET c == chain[v]
        S == {i \in DOMAIN c.failed : c.failed[i] # "no" /\ view[v].chain[i] = p}
    IN  [c EXCEPT !.failed = [i \in DOMAIN c.failed |-> IF i \in S THEN "no" ELSE c.failed[i]]]

restoreProvider(v, p) ==
    LET c == chain[v]
        S == {i \in DOMAIN c.failed : c.failed[i] # "no" /\ view[v].chain[i] = p}
    IN  [c EXCEPT !.failed = [i \in DOMAIN c.failed |-> IF i \in S THEN "no" ELSE c.failed[i]],
                  !.next = Min(S \cup {c.next})]

\* The availability table takes the success of a call of its own epoch and the
\* chain hears of it after that; any other answer that is not Fail leaves both.
Succeed(r) ==
    /\ phase[r] = "sent"
    /\ \/ at[r] = healthEpoch /\ moveTo(r, "restore")
       \/ Answer(r)
    /\ UNCHANGED <<routeVars, viewVars, healthVars, auto, at, route, tries, sent, agreed>>

Restore(r) ==
    /\ phase[r] = "restore"
    /\ moveTo(r, "done")
    /\ chain' = [chain EXCEPT ![at[r]] = restoreProvider(at[r], route[r].provider)]
    /\ UNCHANGED <<bindings, viewVars, healthVars, auto, at, route, tries, sent, agreed>>

\* recordFailure keeps the bindings; next passes all failed entries.
recordFailure(v, i) ==
    LET c == chain[v]
        f == [c.failed EXCEPT ![i] = "cooling"]
        open == {j \in c.next .. Len(f) : f[j] = "no"}
    IN  [c EXCEPT !.failed = f, !.next = IF open = {} THEN Len(f) + 1 ELSE Min(open)]

\* A failure that is safe to fail over from.
Fail(r) ==
    /\ phase[r] = "sent"
    /\ Answer(r)
    /\ chain' = IF Kind(r) # "auto" THEN chain
                ELSE [chain EXCEPT ![at[r]] = recordFailure(at[r], route[r].index)]
    /\ agreed' = [agreed EXCEPT !["auto"] = [s \in Sessions |->
                    IF @[s] = route[r].provider /\ Kind(r) = "auto" THEN None ELSE @[s]]]
    /\ UNCHANGED <<bindings, viewVars, healthVars, auto, at, route, tries, sent>>

-----------------------------------------------------------------------------
(* Time and health.                                                        *)

Elapse(v, i) ==
    /\ i \in DOMAIN chain[v].failed /\ chain[v].failed[i] = "cooling"
    /\ chain' = [chain EXCEPT ![v].failed[i] = "due"]
    /\ UNCHANGED <<bindings, viewVars, healthVars, reqVars, agreed>>

\* What the availability table and the key pool say of p changes.
SetHealth(p, h) ==
    /\ health[p] # h /\ changes < MaxChanges
    /\ changes' = changes + 1
    /\ health' = [health EXCEPT ![p] = h]
    /\ agreed' = [k \in DOMAIN agreed |-> [s \in Sessions |->
                     IF agreed[k][s] = p /\ h # "ready" THEN None ELSE agreed[k][s]]]
    /\ UNCHANGED <<routeVars, viewVars, reqVars>>

\* A session is idle for too long and its binding is swept.
ExpireBinding(s) ==
    /\ bindings[s] # NoBinding
    /\ bindings' = [bindings EXCEPT ![s] = NoBinding]
    /\ agreed' = [agreed EXCEPT !["random"][s] = None]
    /\ UNCHANGED <<chain, viewVars, healthVars, reqVars>>

ExpirePlace(v, s) ==
    /\ chain[v].session[s] # 0
    /\ chain' = [chain EXCEPT ![v].session[s] = 0]
    /\ agreed' = [agreed EXCEPT !["auto"][s] = None]
    /\ UNCHANGED <<bindings, viewVars, healthVars, reqVars>>

-----------------------------------------------------------------------------
(* Reload: prepareRouting, and the steps of activateRouting.               *)

New == active + 1

Prepare ==
    /\ reload = "idle" /\ active < MaxReloads
    /\ \E g \in Configs : \E reused \in SUBSET (g.scope \cap view[active].scope) :
          view' = [view EXCEPT ![New] = ViewOf(g, reused,
                    [p \in Providers |-> IF p \in reused THEN view[active].generation[p] ELSE New + 1])]
    /\ reload' = "prepared"
    /\ UNCHANGED <<routeVars, activeEpoch, healthEpoch, active, healthVars, reqVars, agreed>>

ActivateHealth ==
    /\ reload = "prepared"
    /\ healthEpoch' = New /\ reload' = "health"
    /\ agreed' = [k \in DOMAIN agreed |-> [s \in Sessions |-> None]]
    /\ UNCHANGED <<routeVars, view, activeEpoch, active, healthVars, reqVars>>

\* Where an entry of the old chain is in the new one, 0 if nowhere.
NewIndex(i) ==
    LET S == {j \in DOMAIN view[New].chain : view[New].chain[j] = view[active].chain[i]}
    IN  IF S = {} THEN 0 ELSE CHOOSE j \in S : TRUE

OldIndex(j) ==
    LET S == {i \in DOMAIN view[active].chain : NewIndex(i) = j}
    IN  IF S = {} THEN 0 ELSE CHOOSE i \in S : TRUE

\* prepareRouting: a failure belongs to a connection, a binding only to a route.
PreservesFailure(i) == view[active].chain[i] \in view[New].reused
PreservesBinding(i) == view[active].chain[i] \in view[New].scope

rebindByIndex(i) == IF i \in DOMAIN view[New].chain THEN i ELSE 0

\* A binding follows its route to its new place.
rebind(i) == IF i = 0 THEN 0 ELSE IF PreservesBinding(i) THEN NewIndex(i) ELSE 0

\* reconfiguredWithFailures
Reconfigured ==
    LET old == chain[active]
        n == Len(view[New].chain)
        changed == view[New].chain # view[active].chain
        forgiven == {NewIndex(i) : i \in {k \in DOMAIN old.failed :
                        old.failed[k] # "no" /\ ~PreservesFailure(k)}} \ {0}
    IN  [next    |-> IF changed THEN 1 ELSE Min(forgiven \cup {old.next}),
         failed  |-> [j \in 1 .. n |->
                        IF OldIndex(j) # 0 /\ PreservesFailure(OldIndex(j))
                          THEN old.failed[OldIndex(j)] ELSE "no"],
         session |-> [s \in Sessions |-> rebind(old.session[s])]]

ActivateChain ==
    /\ reload = "health"
    /\ chain' = [chain EXCEPT ![New] = Reconfigured]
    /\ reload' = "chain"
    /\ UNCHANGED <<bindings, view, activeEpoch, healthEpoch, active, healthVars, reqVars, agreed>>

regenerateAll(b) == b

\* A binding survives with the generation its provider has now.
regenerate(b) ==
    IF b.provider \in view[New].scope
      THEN [b EXCEPT !.generation = view[New].generation[b.provider]]
      ELSE NoBinding

\* activateForView
ActivateAffinity ==
    /\ reload = "chain"
    /\ activeEpoch' = New
    /\ bindings' = [s \in Sessions |-> regenerate(bindings[s])]
    /\ reload' = "affinity"
    /\ UNCHANGED <<chain, view, healthEpoch, active, healthVars, reqVars, agreed>>

Publish ==
    /\ reload = "affinity"
    /\ active' = New /\ reload' = "idle"
    /\ UNCHANGED <<routeVars, view, activeEpoch, healthEpoch, healthVars, reqVars, agreed>>

-----------------------------------------------------------------------------

Step(r) ==
    \/ Admit(r) \/ Look(r) \/ Choose(r)
    \/ SelectInChain(r) \/ SelectProvider(r) \/ SelectUnbound(r)
    \/ Dispatch(r) \/ Refuse(r) \/ Abort(r) \/ Again(r)
    \/ Succeed(r) \/ Restore(r) \/ Fail(r)

Next ==
    \/ \E r \in Requests : Step(r)
    \/ \E v \in Views : \E i \in 1 .. Cardinality(Providers) : Elapse(v, i)
    \/ \E p \in Providers : \E h \in Health : SetHealth(p, h)
    \/ \E s \in Sessions : ExpireBinding(s) \/ \E v \in Views : ExpirePlace(v, s)
    \/ Prepare \/ ActivateHealth \/ ActivateChain \/ ActivateAffinity \/ Publish

Spec == Init /\ [][Next]_vars

-----------------------------------------------------------------------------
(* Properties.                                                             *)

\* The types of the views, the chains, the bindings and the requests.
TypeOK ==
    /\ active \in Views /\ activeEpoch \in Views /\ healthEpoch \in Views
    /\ reload \in {"idle", "prepared", "health", "chain", "affinity"}
    /\ \A v \in Views : chain[v].next \in 1 .. Len(chain[v].failed) + 1
    /\ bindings \in [Sessions -> [provider : Providers \cup {None}, generation : 0 .. MaxReloads + 1]]
    /\ health \in [Providers -> Health] /\ auto \subseteq Requests
    /\ \A v \in Views : \A s \in Sessions :
          v <= active => chain[v].session[s] \in 0 .. Len(view[v].chain)
    /\ phase \in [Requests -> {"idle", "bound", "choice", "select", "call", "sent", "restore",
                               "refused", "done"}]
    /\ at \in [Requests -> Views] /\ sent \in [Requests -> Nat]
    /\ route \in [Requests -> [provider : Providers \cup {None}, index : 0 .. Cardinality(Providers),
                               hold : BOOLEAN]]
    /\ tries \in [Requests -> -1 .. Cardinality(Providers)]

\* No entry of a chain is forgotten: all entries before next are remembered as
\* failed, so each is reconsidered once its cooldown is over.  Concurrent
\* failures, successes and reloads move next in both directions.
NoEntryLost ==
    \A v \in Views : \A i \in DOMAIN chain[v].failed :
        i < chain[v].next => chain[v].failed[i] # "no"

\* Every shared binding names a provider the view of the active epoch serves,
\* with that view's generation, whatever requests of older views select.
BindingsUsable ==
    \A s \in Sessions :
        LET b == bindings[s] IN
        b.provider # None => /\ b.provider \in view[activeEpoch].scope
                             /\ b.generation = view[activeEpoch].generation[b.provider]

\* A session that keeps its place in the chain over a reload keeps its
\* provider, wherever the new chain has it.
BindingsKeepRoute ==
    [][ActivateChain => \A s \in Sessions :
          LET i == chain[active].session[s]
              j == chain'[New].session[s]
          IN  /\ j # 0 => i # 0 /\ view[New].chain[j] = view[active].chain[i]
              /\ i # 0 /\ view[active].chain[i] \in {view[New].chain[k] : k \in DOMAIN view[New].chain}
                    => j # 0]_vars

\* Requests of one session agree on its provider, the first ones included,
\* until that provider stops being ready, the session expires or a reload.
\* Another provider's recovery moves nobody.
SessionsAgree ==
    [][\A k \in DOMAIN agreed : \A s \in Sessions :
          agreed[k][s] # None /\ agreed'[k][s] # None => agreed'[k][s] = agreed[k][s]]_vars

\* A request is dispatched at most once, however often it selected before.
SingleDispatch == \A r \in Requests : sent[r] <= 1

\* The chains and the attempts belong together: the types, and the invariants
\* on entries and dispatches.
ChainsConsistent == TypeOK /\ NoEntryLost /\ SingleDispatch

-----------------------------------------------------------------------------
(* The inductive invariant behind ChainsConsistent, BindingsUsable and the *)
(* action properties.                                                      *)

\* The steps of a reload are taken in order, each by its own epoch, and no
\* request runs ahead of the published view.
EpochsInStep ==
    /\ reload # "idle" => active < MaxReloads
    /\ healthEpoch = IF reload \in {"idle", "prepared"} THEN active ELSE New
    /\ activeEpoch = IF reload = "affinity" THEN New ELSE active
    /\ \A r \in Requests : at[r] <= active

\* Every view is one a configuration makes.
ViewsShaped ==
    /\ view \in [Views -> [chain : Seq(Providers), strategy : {"random", "price_priority"},
                           scope : SUBSET Providers, reused : SUBSET Providers,
                           generation : [Providers -> 0 .. MaxReloads + 1]]]
    /\ \A v \in Views :
          /\ view[v].scope # {}
          /\ \A i \in DOMAIN view[v].chain : view[v].chain[i] \in view[v].scope
          /\ \A i, j \in DOMAIN view[v].chain :
                view[v].chain[i] = view[v].chain[j] => i = j

\* The newest view whose chain has taken over the state of the one before.
Reached == IF reload \in {"chain", "affinity"} THEN New ELSE active

\* The chain of a view that was reached has one mark per entry, and sessions
\* are bound to its entries.
ChainsShaped ==
    /\ chain \in [Views -> [next : Nat, failed : Seq({"no", "cooling", "due"}),
                            session : [Sessions -> Nat]]]
    /\ \A v \in Views : v <= Reached =>
          /\ Len(chain[v].failed) = Len(view[v].chain)
          /\ \A s \in Sessions : chain[v].session[s] <= Len(view[v].chain)

\* What a request has to do with its route and its dispatch.
RequestsInStep ==
    \A r \in Requests :
        /\ phase[r] \in {"choice", "call", "sent", "restore", "refused"} =>
              /\ route[r].provider \in view[at[r]].scope
              /\ r \in auto => /\ route[r].index \in DOMAIN view[at[r]].chain
                               /\ view[at[r]].chain[route[r].index] = route[r].provider
        /\ phase[r] \notin {"sent", "restore", "done"} => sent[r] = 0

\* What a session's requests agreed on is its binding in the active view, on
\* a provider that is ready and an entry that does not cool.
AgreedBound ==
    /\ agreed \in [{"auto", "random"} -> [Sessions -> Providers \cup {None}]]
    /\ \A s \in Sessions :
          /\ reload \notin {"idle", "prepared"} =>
                agreed["auto"][s] = None /\ agreed["random"][s] = None
          /\ agreed["auto"][s] # None =>
                LET i == chain[active].session[s] IN
                /\ health[agreed["auto"][s]] = "ready"
                /\ i # 0 /\ view[active].chain[i] = agreed["auto"][s]
                /\ chain[active].failed[i] # "cooling"
          /\ agreed["random"][s] # None =>
                /\ health[agreed["random"][s]] = "ready"
                /\ bindings[s].provider = agreed["random"][s]

IInv ==
    /\ ChainsConsistent /\ BindingsUsable
    /\ EpochsInStep /\ ViewsShaped /\ ChainsShaped /\ RequestsInStep /\ AgreedBound
=============================================================================
