--------------------------- MODULE RoutingProofs ---------------------------
(***************************************************************************)
(* Proofs about Routing for every set of requests and sessions, all        *)
(* configurations, reloads and changes of health: the inductive invariant  *)
(* IInv, from it that no entry of a chain is forgotten, that a request is  *)
(* dispatched once, that the bindings are usable, follow their route over  *)
(* a reload and that the requests of a session agree.                      *)
(***************************************************************************)
EXTENDS Routing, FiniteSetTheorems, WellFoundedInduction, TLAPS

-----------------------------------------------------------------------------
(* Minima and sequences.                                                   *)

\* A nonempty set of naturals has a least member.
LEMMA LeastMember ==
    ASSUME NEW S \in SUBSET Nat, S # {}
    PROVE  Min(S) \in S /\ \A y \in S : Min(S) <= y
<1>1. \E o \in S : \A q \in S : o <= q
  <2> DEFINE R == OpToRel(<, Nat)
  <2>1. IsWellFoundedOn(R, Nat)
    BY NatLessThanWellFounded
  <2>2. \A x, y \in Nat : <<x, y>> \in R <=> x < y
    BY DEF OpToRel
  <2> HIDE DEF R
  <2>3. PICK o \in S : \A q \in S : ~(<<q, o>> \in R)
    BY <2>1, WFMin
  <2>4. ASSUME NEW q \in S
        PROVE  o <= q
    <3>1. q \in Nat /\ o \in Nat
      OBVIOUS
    <3>2. ~(q < o)
      BY <2>2, <2>3, <3>1, Zenon
    <3> QED
      BY <3>1, <3>2
  <2> QED
    BY <2>4
<1> QED
  BY <1>1 DEF Min

\* Of any providers one is the cheapest.
LEMMA CheapestMember ==
    ASSUME NEW S \in SUBSET Providers, S # {}
    PROVE  Cheapest(S) \in S
<1> DEFINE T == {Price[p] : p \in S}
<1>1. T \in SUBSET Nat /\ T # {}
  BY RoutingAssumptions
<1> HIDE DEF T
<1>2. Min(T) \in T /\ \A y \in T : Min(T) <= y
  BY <1>1, LeastMember
<1>3. PICK p \in S : Price[p] = Min(T)
  BY <1>2 DEF T
<1>4. \A q \in S : Price[p] <= Price[q]
  BY <1>2, <1>3 DEF T
<1> QED
  BY <1>3, <1>4 DEF Cheapest

\* Functions on 1 .. n are the sequences of length n.
LEMMA SeqOf ==
    ASSUME NEW S, NEW n \in Nat, NEW f \in [1 .. n -> S]
    PROVE  f \in Seq(S) /\ Len(f) = n /\ DOMAIN f = 1 .. n
  OBVIOUS

LEMMA SeqFacts ==
    ASSUME NEW S, NEW f \in Seq(S)
    PROVE  /\ Len(f) \in Nat /\ DOMAIN f = 1 .. Len(f) /\ f \in [1 .. Len(f) -> S]
           /\ \A i \in 1 .. Len(f) : f[i] \in S
  OBVIOUS

\* An injective chain is no longer than there are providers.
LEMMA ChainLength ==
    ASSUME NEW c \in Seq(Providers), \A i, j \in DOMAIN c : c[i] = c[j] => i = j
    PROVE  Cardinality(Providers) \in Nat /\ Len(c) <= Cardinality(Providers)
<1>1. IsFiniteSet(Providers) /\ Cardinality(Providers) \in Nat
  BY RoutingAssumptions, FS_CardinalityType
<1>2. Len(c) \in Nat /\ DOMAIN c = 1 .. Len(c) /\ c \in [1 .. Len(c) -> Providers]
  BY SeqFacts
<1>3. c \in Injection(1 .. Len(c), Providers)
  BY <1>2 DEF Injection, IsInjective
<1>4. Cardinality(1 .. Len(c)) <= Cardinality(Providers)
  BY <1>1, <1>3, FS_Injection
<1>5. Cardinality(1 .. Len(c)) = Len(c)
  BY <1>2, FS_Interval
<1> QED
  BY <1>1, <1>4, <1>5
-----------------------------------------------------------------------------
(* One chain.                                                              *)

Marks == {"no", "cooling", "due"}
ChainRec == [next : Nat, failed : Seq(Marks), session : [Sessions -> Nat]]

\* The state of a chain is sound: next points into it or just behind it, and
\* every entry before next is marked.
Sound(c) ==
    /\ c \in ChainRec
    /\ c.next \in 1 .. Len(c.failed) + 1
    /\ \A i \in 1 .. Len(c.failed) : i < c.next => c.failed[i] # "no"

LEMMA SoundFacts ==
    ASSUME NEW c, Sound(c)
    PROVE  /\ c.next \in Nat /\ c.session \in [Sessions -> Nat]
           /\ Len(c.failed) \in Nat /\ c.failed \in [1 .. Len(c.failed) -> Marks]
           /\ DOMAIN c.failed = 1 .. Len(c.failed)
           /\ c.next >= 1 /\ c.next <= Len(c.failed) + 1
<1>1. c.next \in Nat /\ c.session \in [Sessions -> Nat] /\ c.failed \in Seq(Marks)
  BY DEF Sound, ChainRec
<1> QED
  BY <1>1, SeqFacts DEF Sound

Marked(c, f, n) == [c EXCEPT !.failed = f, !.next = n]

\* Replacing the marks and next.
LEMMA SoundUpdated ==
    ASSUME NEW c, Sound(c), NEW n \in Nat,
           NEW f \in [1 .. Len(c.failed) -> Marks],
           n >= 1, n <= Len(c.failed) + 1,
           \A i \in 1 .. Len(c.failed) : i < n => f[i] # "no"
    PROVE  /\ Sound(Marked(c, f, n)) /\ Marked(c, f, n).failed = f
           /\ Marked(c, f, n).session = c.session /\ Len(f) = Len(c.failed)
<1> DEFINE d == Marked(c, f, n)
<1>1. Len(c.failed) \in Nat /\ c \in ChainRec
  BY SoundFacts DEF Sound
<1>2. f \in Seq(Marks) /\ Len(f) = Len(c.failed)
  BY <1>1, SeqOf
<1>3. d \in ChainRec /\ d.failed = f /\ d.next = n /\ d.session = c.session
  BY <1>1, <1>2 DEF ChainRec, Marked
<1> HIDE DEF d
<1>4. Sound(d)
  BY <1>1, <1>2, <1>3 DEF Sound
<1> QED
  BY <1>2, <1>3, <1>4 DEF d

\* Binding a session to an entry.
LEMMA SoundBound ==
    ASSUME NEW c, Sound(c), NEW s \in Sessions, NEW i \in Nat
    PROVE  LET d == [c EXCEPT !.session[s] = i]
           IN  /\ Sound(d) /\ d.failed = c.failed /\ d.next = c.next
               /\ d.session = [c.session EXCEPT ![s] = i]
<1> DEFINE d == [c EXCEPT !.session[s] = i]
<1>1. d \in ChainRec /\ d.failed = c.failed /\ d.next = c.next
      /\ d.session = [c.session EXCEPT ![s] = i]
  BY DEF Sound, ChainRec
<1> HIDE DEF d
<1>2. Sound(d)
  BY <1>1 DEF Sound
<1> QED
  BY <1>1, <1>2 DEF d

\* A success clears marks and moves next back to the first entry it cleared.
LEMMA RestoreEffect ==
    ASSUME NEW v, NEW p, Sound(chain[v])
    PROVE  LET c == chain[v]
               d == restoreProvider(v, p)
           IN  /\ Sound(d) /\ d.session = c.session /\ Len(d.failed) = Len(c.failed)
               /\ \A i \in 1 .. Len(c.failed) : d.failed[i] \in {c.failed[i], "no"}
<1> DEFINE c == chain[v]
           S == {i \in DOMAIN c.failed : c.failed[i] # "no" /\ view[v].chain[i] = p}
           f == [i \in DOMAIN c.failed |-> IF i \in S THEN "no" ELSE c.failed[i]]
           n == Min(S \cup {c.next})
<1>1. /\ c.next \in Nat /\ Len(c.failed) \in Nat /\ c.failed \in [1 .. Len(c.failed) -> Marks]
      /\ DOMAIN c.failed = 1 .. Len(c.failed)
      /\ c.next >= 1 /\ c.next <= Len(c.failed) + 1
      /\ \A i \in 1 .. Len(c.failed) : i < c.next => c.failed[i] # "no"
  BY SoundFacts DEF Sound
<1>2. f \in [1 .. Len(c.failed) -> Marks]
  BY <1>1 DEF Marks
<1>3. S \cup {c.next} \in SUBSET Nat /\ S \cup {c.next} # {}
  BY <1>1
<1>4. n \in S \cup {c.next} /\ \A y \in S \cup {c.next} : n <= y
  BY <1>3, LeastMember
<1>5. n \in Nat /\ n >= 1 /\ n <= Len(c.failed) + 1 /\ n <= c.next
  BY <1>1, <1>4
<1>6. \A i \in 1 .. Len(c.failed) : i < n => f[i] # "no"
  <2> SUFFICES ASSUME NEW i \in 1 .. Len(c.failed), i < n
               PROVE  f[i] # "no"
    OBVIOUS
  <2>1. i \notin S
    <3> HIDE DEF n, S
    <3> QED
      BY <1>1, <1>4, <1>5
  <2>2. i < c.next
    BY <1>1, <1>5
  <2> QED
    BY <1>1, <2>1, <2>2
<1>7. restoreProvider(v, p) = Marked(c, f, n)
  BY DEF restoreProvider, Marked
<1>8. \A i \in 1 .. Len(c.failed) : f[i] \in {c.failed[i], "no"}
  BY <1>1
<1> HIDE DEF n, f, c
<1>9. Sound(c)
  BY DEF c
<1> QED
  <2>1. /\ Sound(Marked(c, f, n)) /\ Marked(c, f, n).failed = f
        /\ Marked(c, f, n).session = c.session /\ Len(f) = Len(c.failed)
    BY <1>2, <1>5, <1>6, <1>9, SoundUpdated
  <2> QED
    BY <1>7, <1>8, <2>1 DEF c

\* A failure marks its entry and moves next past all marked entries.
LEMMA FailureEffect ==
    ASSUME NEW v, Sound(chain[v]), NEW i \in 1 .. Len(chain[v].failed)
    PROVE  LET c == chain[v]
               d == recordFailure(v, i)
           IN  /\ Sound(d) /\ d.session = c.session /\ Len(d.failed) = Len(c.failed)
               /\ \A j \in 1 .. Len(c.failed) : j # i => d.failed[j] = c.failed[j]
<1> DEFINE c == chain[v]
           f == [c.failed EXCEPT ![i] = "cooling"]
           open == {j \in c.next .. Len(f) : f[j] = "no"}
           n == IF open = {} THEN Len(f) + 1 ELSE Min(open)
<1>1. /\ c.next \in Nat /\ Len(c.failed) \in Nat /\ c.failed \in [1 .. Len(c.failed) -> Marks]
      /\ c.next >= 1 /\ c.next <= Len(c.failed) + 1
      /\ \A j \in 1 .. Len(c.failed) : j < c.next => c.failed[j] # "no"
  BY SoundFacts DEF Sound
<1>2. f \in [1 .. Len(c.failed) -> Marks]
  BY <1>1 DEF Marks
<1>3. Len(f) = Len(c.failed)
  BY <1>1, <1>2, SeqOf
<1>4. \A j \in 1 .. Len(c.failed) : f[j] = IF j = i THEN "cooling" ELSE c.failed[j]
  BY <1>1
<1> HIDE DEF f, c
<1>5. open \in SUBSET Nat /\ \A j \in open : j <= Len(c.failed) /\ j >= 1
  BY <1>1, <1>3
<1>6. /\ n \in Nat /\ n >= 1 /\ n <= Len(c.failed) + 1
      /\ \A j \in 1 .. Len(c.failed) : j < n => f[j] # "no"
  <2>1. CASE open = {}
    <3>1. n = Len(c.failed) + 1
      BY <1>3, <2>1
    <3>2. \A j \in 1 .. Len(c.failed) : f[j] # "no"
      BY <1>1, <1>3, <1>4, <2>1
    <3> QED
      BY <1>1, <3>1, <3>2
  <2>2. CASE open # {}
    <3>1. Min(open) \in open /\ \A y \in open : Min(open) <= y
      BY <1>5, <2>2, LeastMember
    <3>2. n = Min(open)
      BY <2>2
    <3> HIDE DEF n
    <3>3. n \in Nat /\ n >= 1 /\ n <= Len(c.failed)
      BY <1>5, <3>1, <3>2
    <3>4. ASSUME NEW j \in 1 .. Len(c.failed), j < n
          PROVE  f[j] # "no"
      <4>1. j \notin open
        BY <3>1, <3>2, <3>3, <3>4
      <4> QED
        BY <1>1, <1>3, <1>4, <4>1
    <3> QED
      BY <1>1, <3>3, <3>4
  <2> QED
    BY <2>1, <2>2
<1>7. recordFailure(v, i) = Marked(c, f, n)
  BY DEF recordFailure, Marked, c, f
<1> HIDE DEF n
<1>8. Sound(c)
  BY DEF c
<1> QED
  <2>1. /\ Sound(Marked(c, f, n)) /\ Marked(c, f, n).failed = f
        /\ Marked(c, f, n).session = c.session /\ Len(f) = Len(c.failed)
    BY <1>2, <1>6, <1>8, SoundUpdated
  <2> QED
    BY <1>4, <1>7, <2>1 DEF c

\* A cooldown that elapses leaves the entry marked.
LEMMA ElapseEffect ==
    ASSUME NEW c, Sound(c), NEW i \in 1 .. Len(c.failed)
    PROVE  LET d == [c EXCEPT !.failed[i] = "due"]
           IN  /\ Sound(d) /\ d.session = c.session /\ Len(d.failed) = Len(c.failed)
               /\ \A j \in 1 .. Len(c.failed) : d.failed[j] \in {c.failed[j], "due"}
<1> DEFINE f == [c.failed EXCEPT ![i] = "due"]
<1>1. /\ c.next \in Nat /\ Len(c.failed) \in Nat /\ c.failed \in [1 .. Len(c.failed) -> Marks]
      /\ c.next >= 1 /\ c.next <= Len(c.failed) + 1 /\ c \in ChainRec
      /\ \A j \in 1 .. Len(c.failed) : j < c.next => c.failed[j] # "no"
  BY SoundFacts DEF Sound
<1>2. /\ f \in [1 .. Len(c.failed) -> Marks]
      /\ \A j \in 1 .. Len(c.failed) : f[j] \in {c.failed[j], "due"}
      /\ \A j \in 1 .. Len(c.failed) : j < c.next => f[j] # "no"
  BY <1>1 DEF Marks
<1>3. [c EXCEPT !.failed[i] = "due"] = Marked(c, f, c.next)
  BY <1>1 DEF ChainRec, Marked
<1> HIDE DEF f
<1>4. /\ Sound(Marked(c, f, c.next)) /\ Marked(c, f, c.next).failed = f
      /\ Marked(c, f, c.next).session = c.session /\ Len(f) = Len(c.failed)
  BY <1>1, <1>2, SoundUpdated
<1> QED
  BY <1>2, <1>3, <1>4
-----------------------------------------------------------------------------
(* The parts of the invariant.                                             *)

Phases == {"idle", "bound", "choice", "select", "call", "sent", "restore", "refused", "done"}

ViewRec == [chain : Seq(Providers), strategy : {"random", "price_priority"},
            scope : SUBSET Providers, reused : SUBSET Providers,
            generation : [Providers -> 0 .. MaxReloads + 1]]

\* One view is made from a configuration.
ViewShaped(w) ==
    /\ w \in ViewRec
    /\ w.scope # {}
    /\ \A i \in DOMAIN w.chain : w.chain[i] \in w.scope
    /\ \A i, j \in DOMAIN w.chain : w.chain[i] = w.chain[j] => i = j

\* The views, the epochs and where the requests are among them.
ViewsOK ==
    /\ active \in Views /\ activeEpoch \in Views /\ healthEpoch \in Views
    /\ reload \in {"idle", "prepared", "health", "chain", "affinity"}
    /\ at \in [Requests -> Views]
    /\ EpochsInStep
    /\ view \in [Views -> ViewRec] /\ \A v \in Views : ViewShaped(view[v])

\* The chain of v belongs to the view v.
Linked(v) ==
    /\ Len(chain[v].failed) = Len(view[v].chain)
    /\ \A s \in Sessions : chain[v].session[s] <= Len(view[v].chain)

ChainsOK ==
    /\ chain \in [Views -> ChainRec]
    /\ \A v \in Views : Sound(chain[v]) /\ (v <= Reached => Linked(v))

BindingRec == [provider : Providers \cup {None}, generation : 0 .. MaxReloads + 1]
BindingsOK == bindings \in [Sessions -> BindingRec] /\ BindingsUsable

RouteRec == [provider : Providers \cup {None}, index : 0 .. Cardinality(Providers),
             hold : BOOLEAN]
RequestsOK ==
    /\ health \in [Providers -> Health] /\ auto \subseteq Requests
    /\ phase \in [Requests -> Phases] /\ sent \in [Requests -> Nat]
    /\ route \in [Requests -> RouteRec]
    /\ tries \in [Requests -> -1 .. Cardinality(Providers)]
    /\ SingleDispatch /\ RequestsInStep

LEMMA ViewFacts ==
    ASSUME ViewsOK
    PROVE  /\ active \in Nat /\ New \in Nat /\ New > active
           /\ reload # "idle" => New \in Views
           /\ active < MaxReloads => New \in Views
           /\ active <= Reached /\ Reached \in Nat
           /\ \A v \in Views : v \in Nat
  BY RoutingAssumptions DEF ViewsOK, EpochsInStep, Views, New, Reached

\* The parts are the whole.
LEMMA Parts == IInv <=> ViewsOK /\ ChainsOK /\ BindingsOK /\ RequestsOK /\ AgreedBound
<1>1. ViewsShaped <=> view \in [Views -> ViewRec] /\ \A v \in Views : ViewShaped(view[v])
  BY DEF ViewsShaped, ViewRec, ViewShaped
<1>2. ASSUME IInv
      PROVE  ViewsOK /\ ChainsOK /\ BindingsOK /\ RequestsOK /\ AgreedBound
  <2>1. ViewsOK
    BY <1>1, <1>2 DEF IInv, ChainsConsistent, TypeOK, ViewsOK
  <2>2. ChainsOK
    <3>1. chain \in [Views -> ChainRec]
      BY <1>2 DEF IInv, ChainsShaped, ChainRec, Marks
    <3>2. \A v \in Views : Sound(chain[v])
      <4> SUFFICES ASSUME NEW v \in Views
                   PROVE  Sound(chain[v])
        OBVIOUS
      <4>1. chain[v] \in ChainRec /\ chain[v].failed \in Seq(Marks)
        BY <3>1 DEF ChainRec
      <4>2. DOMAIN chain[v].failed = 1 .. Len(chain[v].failed)
        BY <4>1, SeqFacts
      <4>3. /\ chain[v].next \in 1 .. Len(chain[v].failed) + 1
            /\ \A i \in DOMAIN chain[v].failed :
                  i < chain[v].next => chain[v].failed[i] # "no"
        BY <1>2 DEF IInv, ChainsConsistent, TypeOK, NoEntryLost
      <4> QED
        BY <4>1, <4>2, <4>3 DEF Sound
    <3> QED
      BY <1>2, <3>1, <3>2 DEF IInv, ChainsShaped, ChainsOK, Linked
  <2>3. BindingsOK
    BY <1>2 DEF IInv, ChainsConsistent, TypeOK, BindingsOK, BindingRec
  <2>4. RequestsOK
    BY <1>2 DEF IInv, ChainsConsistent, TypeOK, RequestsOK, RouteRec, Phases
  <2> QED
    BY <1>2, <2>1, <2>2, <2>3, <2>4 DEF IInv
<1>3. ASSUME ViewsOK, ChainsOK, BindingsOK, RequestsOK, AgreedBound
      PROVE  IInv
  <2>1. \A v \in Views : /\ chain[v].failed \in Seq(Marks)
                         /\ DOMAIN chain[v].failed = 1 .. Len(chain[v].failed)
                         /\ chain[v].session \in [Sessions -> Nat]
                         /\ chain[v].next \in 1 .. Len(chain[v].failed) + 1
    BY <1>3, SoundFacts DEF ChainsOK, ChainRec, Sound
  <2>2. NoEntryLost
    BY <1>3, <2>1 DEF NoEntryLost, ChainsOK, Sound
  <2>3. \A v \in Views : \A s \in Sessions :
           v <= active => chain[v].session[s] \in 0 .. Len(view[v].chain)
    <3> SUFFICES ASSUME NEW v \in Views, NEW s \in Sessions, v <= active
                 PROVE  chain[v].session[s] \in 0 .. Len(view[v].chain)
      OBVIOUS
    <3>1. v <= Reached
      BY <1>3, ViewFacts
    <3>2. chain[v].session[s] <= Len(view[v].chain) /\ chain[v].session[s] \in Nat
      BY <1>3, <2>1, <3>1 DEF ChainsOK, Linked
    <3>3. Len(view[v].chain) \in Nat
      BY <1>3, SeqFacts DEF ViewsOK, ViewRec
    <3> QED
      BY <3>2, <3>3
  <2>4. TypeOK
    BY <1>3, <2>1, <2>3 DEF TypeOK, ViewsOK, BindingsOK, BindingRec, RequestsOK, RouteRec, Phases
  <2>5. ChainsShaped
    BY <1>3 DEF ChainsShaped, ChainsOK, ChainRec, Marks, Linked
  <2> QED
    BY <1>1, <1>3, <2>2, <2>4, <2>5
       DEF IInv, ChainsConsistent, ViewsOK, BindingsOK, RequestsOK
<1> QED
  BY <1>2, <1>3

\* A view made from a configuration is well shaped.
LEMMA ViewMade ==
    ASSUME NEW g \in Configs, NEW reused \in SUBSET Providers,
           NEW gen \in [Providers -> 0 .. MaxReloads + 1]
    PROVE  ViewShaped(ViewOf(g, reused, gen))
<1>1. /\ g.strategy \in {"random", "price_priority"}
      /\ g.scope \in SUBSET Providers /\ g.scope # {}
      /\ g.chain \in Seq(g.scope)
      /\ \A i, j \in DOMAIN g.chain : g.chain[i] = g.chain[j] => i = j
  BY RoutingAssumptions
<1>2. g.chain \in Seq(Providers) /\ \A i \in DOMAIN g.chain : g.chain[i] \in g.scope
  BY <1>1
<1>3. /\ ViewOf(g, reused, gen) \in ViewRec
      /\ ViewOf(g, reused, gen).chain = g.chain /\ ViewOf(g, reused, gen).scope = g.scope
  BY <1>1, <1>2 DEF ViewOf, ViewRec
<1> QED
  BY <1>1, <1>2, <1>3 DEF ViewShaped
-----------------------------------------------------------------------------
(* Views and epochs.                                                       *)

\* The steps of a request change no view; only Admit moves the request.
LEMMA StepViews ==
    ASSUME NEW r \in Requests, Step(r)
    PROVE  /\ UNCHANGED <<viewVars, healthVars, auto>>
           /\ at' = at \/ (Admit(r) /\ at' = [at EXCEPT ![r] = active])
  BY DEF Step, Admit, Look, Choose, SelectInChain, SelectProvider, SelectUnbound, Dispatch,
         Refuse, Abort, Again, Succeed, Restore, Fail, viewVars, healthVars

\* The new view of a reload.
LEMMA PrepareViews ==
    ASSUME ViewsOK, Prepare
    PROVE  /\ ViewsOK' /\ New \in Views /\ active' = active
           /\ \A v \in Views : v # New => view'[v] = view[v]
<1>1. /\ active \in Nat /\ New \in Nat /\ New > active /\ New \in Views
  BY ViewFacts DEF Prepare
<1>2. PICK g \in Configs : \E reused \in SUBSET (g.scope \cap view[active].scope) :
         view' = [view EXCEPT ![New] = ViewOf(g, reused,
                    [p \in Providers |-> IF p \in reused THEN view[active].generation[p] ELSE New + 1])]
  BY DEF Prepare
<1>a. PICK reused \in SUBSET (g.scope \cap view[active].scope) :
         view' = [view EXCEPT ![New] = ViewOf(g, reused,
                    [p \in Providers |-> IF p \in reused THEN view[active].generation[p] ELSE New + 1])]
  BY <1>2
<1> DEFINE gen == [p \in Providers |-> IF p \in reused THEN view[active].generation[p] ELSE New + 1]
<1>3. gen \in [Providers -> 0 .. MaxReloads + 1]
  <2>1. New + 1 \in 0 .. MaxReloads + 1
    BY <1>1, RoutingAssumptions DEF Views
  <2>2. view[active].generation \in [Providers -> 0 .. MaxReloads + 1]
    BY DEF ViewsOK, ViewRec
  <2> QED
    BY <2>1, <2>2
<1>4. reused \in SUBSET Providers
  BY DEF ViewsOK, ViewRec
<1> HIDE DEF gen
<1>5. ViewShaped(ViewOf(g, reused, gen))
  BY <1>3, <1>4, ViewMade
<1>6. /\ view' \in [Views -> ViewRec]
      /\ view'[New] = ViewOf(g, reused, gen)
      /\ \A v \in Views : v # New => view'[v] = view[v]
  BY <1>1, <1>a, <1>5 DEF ViewsOK, ViewShaped, gen
<1>7. \A v \in Views : ViewShaped(view'[v])
  BY <1>5, <1>6 DEF ViewsOK
<1>8. /\ reload = "idle" /\ reload' = "prepared" /\ active < MaxReloads
      /\ UNCHANGED <<activeEpoch, healthEpoch, active, at>>
  BY DEF Prepare, reqVars
<1>9. EpochsInStep'
  BY <1>8 DEF ViewsOK, EpochsInStep, New
<1> QED
  BY <1>1, <1>6, <1>7, <1>8, <1>9 DEF ViewsOK

\* The other steps of a reload move the epochs.
LEMMA ActivateViews ==
    ASSUME ViewsOK, ActivateHealth \/ ActivateChain \/ ActivateAffinity \/ Publish
    PROVE  ViewsOK' /\ view' = view
<1>1. /\ view' = view /\ at' = at
  BY DEF ActivateHealth, ActivateChain, ActivateAffinity, Publish, reqVars
<1>2. active \in Nat /\ New \in Views /\ New > active /\ active < MaxReloads
  BY ViewFacts DEF ActivateHealth, ActivateChain, ActivateAffinity, Publish, ViewsOK,
        EpochsInStep
<1>3. \A r \in Requests : at[r] \in Views /\ at[r] \in Nat
  BY ViewFacts DEF ViewsOK
<1>4. CASE ActivateHealth \/ ActivateChain \/ ActivateAffinity
  <2>1. active' = active
    BY <1>4 DEF ActivateHealth, ActivateChain, ActivateAffinity
  <2>2. EpochsInStep' /\ healthEpoch' \in Views /\ activeEpoch' \in Views
        /\ reload' \in {"health", "chain", "affinity"}
    BY <1>1, <1>2, <1>4, <2>1 DEF ActivateHealth, ActivateChain, ActivateAffinity, ViewsOK,
          EpochsInStep, New
  <2> QED
    BY <1>1, <2>1, <2>2 DEF ViewsOK
<1>5. CASE Publish
  <2>1. /\ reload = "affinity" /\ reload' = "idle" /\ active' = New
        /\ healthEpoch' = healthEpoch /\ activeEpoch' = activeEpoch
    BY <1>5 DEF Publish
  <2>2. healthEpoch = New /\ activeEpoch = New
    BY <2>1 DEF ViewsOK, EpochsInStep
  <2>3. \A r \in Requests : at[r] <= New
    BY <1>2, <1>3 DEF ViewsOK, EpochsInStep, New
  <2>4. EpochsInStep'
    BY <1>1, <2>1, <2>2, <2>3 DEF EpochsInStep
  <2> QED
    BY <1>1, <1>2, <2>1, <2>2, <2>4 DEF ViewsOK
<1> QED
  BY <1>4, <1>5

\* Steps that touch no view.
LEMMA QuietViews ==
    ASSUME ViewsOK,
           UNCHANGED vars
           \/ (\E v \in Views : \E i \in 1 .. Cardinality(Providers) : Elapse(v, i))
           \/ (\E p \in Providers : \E h \in Health : SetHealth(p, h))
           \/ (\E s \in Sessions : ExpireBinding(s) \/ \E v \in Views : ExpirePlace(v, s))
    PROVE  ViewsOK' /\ viewVars' = viewVars /\ reqVars' = reqVars
<1>1. viewVars' = viewVars /\ reqVars' = reqVars
  BY DEF Elapse, SetHealth, ExpireBinding, ExpirePlace, vars, viewVars, reqVars
<1> QED
  BY <1>1 DEF ViewsOK, EpochsInStep, New, viewVars, reqVars

LEMMA ViewsNext ==
    ASSUME ViewsOK, [Next]_vars
    PROVE  ViewsOK'
<1>1. ASSUME NEW r \in Requests, Step(r)
      PROVE  ViewsOK'
  <2>1. /\ UNCHANGED viewVars
        /\ at' = at \/ at' = [at EXCEPT ![r] = active]
    BY <1>1, StepViews
  <2>2. /\ at' \in [Requests -> Views]
        /\ \A q \in Requests : at'[q] <= active
    BY <2>1, ViewFacts DEF ViewsOK, EpochsInStep
  <2> QED
    BY <2>1, <2>2 DEF ViewsOK, EpochsInStep, New, viewVars
<1> QED
  BY <1>1, PrepareViews, ActivateViews, QuietViews DEF Next
-----------------------------------------------------------------------------
(* Chains.                                                                 *)

\* The session a request is bound by, if any.
LEMMA KeyFacts ==
    ASSUME ViewsOK, NEW r \in Requests
    PROVE  /\ Key(r) \in Sessions \cup {None}
           /\ Key(r) # None => Key(r) \in Sessions
           /\ Kind(r) \in {"auto", "random", "price_priority"}
           /\ Kind(r) = "auto" <=> r \in auto
           /\ at[r] \in Views /\ at[r] \in Nat /\ at[r] <= active /\ at[r] <= Reached
           /\ ViewShaped(view[at[r]])
<1>1. at[r] \in Views /\ at[r] <= active /\ ViewShaped(view[at[r]])
  BY DEF ViewsOK, EpochsInStep
<1>2. view[at[r]].strategy \in {"random", "price_priority"}
  BY <1>1 DEF ViewShaped, ViewRec
<1>3. SessionOf[r] \in Sessions \cup {None}
  BY RoutingAssumptions
<1>4. at[r] \in Nat /\ active \in Nat /\ Reached \in Nat /\ active <= Reached
  BY <1>1, ViewFacts
<1>5. at[r] <= Reached
  BY <1>1, <1>4
<1> QED
  BY <1>1, <1>2, <1>3, <1>4, <1>5 DEF Key, Kind

\* The chain a request works with.
LEMMA OwnChain ==
    ASSUME ViewsOK, ChainsOK, NEW r \in Requests
    PROVE  /\ Sound(Chain(r)) /\ Linked(at[r])
           /\ Len(view[at[r]].chain) \in Nat
           /\ DOMAIN view[at[r]].chain = 1 .. Len(view[at[r]].chain)
           /\ Len(Chain(r).failed) = Len(view[at[r]].chain)
           /\ Chain(r).next \in Nat /\ Chain(r).next >= 1
           /\ \A s \in Sessions : /\ Chain(r).session[s] \in Nat
                                  /\ Chain(r).session[s] <= Len(view[at[r]].chain)
<1>1. at[r] \in Views /\ at[r] <= Reached /\ ViewShaped(view[at[r]])
  BY KeyFacts
<1>2. Sound(chain[at[r]]) /\ Linked(at[r])
  BY <1>1 DEF ChainsOK
<1>3. view[at[r]].chain \in Seq(Providers)
  BY <1>1 DEF ViewShaped, ViewRec
<1>4. Len(view[at[r]].chain) \in Nat /\ DOMAIN view[at[r]].chain = 1 .. Len(view[at[r]].chain)
  BY <1>3, SeqFacts
<1>5. /\ chain[at[r]].next \in Nat /\ chain[at[r]].next >= 1
      /\ chain[at[r]].session \in [Sessions -> Nat]
  BY <1>2, SoundFacts
<1> QED
  BY <1>2, <1>4, <1>5 DEF Linked, Chain

\* selectForSessionAvailable returns an entry that may be used, or none.
LEMMA Selected ==
    ASSUME ViewsOK, ChainsOK, NEW r \in Requests
    PROVE  /\ SelectedEntry(r) \in Nat /\ SelectedEntry(r) <= Len(view[at[r]].chain)
           /\ SelectedEntry(r) # 0 => /\ SelectedEntry(r) \in DOMAIN view[at[r]].chain
                                      /\ Valid(r, SelectedEntry(r))
<1> DEFINE n == Len(view[at[r]].chain)
           bound == IF Key(r) = None THEN 0 ELSE Chain(r).session[Key(r)]
           earlier == {i \in 1 .. Chain(r).next - 1 :
                          i <= n /\ Chain(r).failed[i] # "no" /\ Valid(r, i)}
           later == {i \in Chain(r).next .. n : Valid(r, i)}
<1>1. /\ n \in Nat /\ DOMAIN view[at[r]].chain = 1 .. n
      /\ Chain(r).next \in Nat /\ Chain(r).next >= 1
      /\ bound \in Nat /\ bound <= n
  BY OwnChain, KeyFacts
<1>2. earlier \in SUBSET Nat /\ \A i \in earlier : i >= 1 /\ i <= n /\ Valid(r, i)
  BY <1>1
<1>3. later \in SUBSET Nat /\ \A i \in later : i >= 1 /\ i <= n /\ Valid(r, i)
  BY <1>1
<1>4. SelectedEntry(r) = IF bound # 0 /\ Valid(r, bound) THEN bound
                         ELSE IF earlier # {} THEN Min(earlier)
                         ELSE IF later = {} THEN 0 ELSE Min(later)
  BY DEF SelectedEntry, FirstPastNext
<1>5. earlier # {} => Min(earlier) \in earlier
  BY <1>2, LeastMember
<1>6. later # {} => Min(later) \in later
  BY <1>3, LeastMember
<1> HIDE DEF n, bound, earlier, later
<1>7. \/ SelectedEntry(r) = 0
      \/ SelectedEntry(r) = bound /\ bound # 0 /\ Valid(r, bound)
      \/ SelectedEntry(r) \in earlier
      \/ SelectedEntry(r) \in later
  BY <1>4, <1>5, <1>6
<1>8. \/ SelectedEntry(r) = 0
      \/ /\ SelectedEntry(r) \in Nat /\ SelectedEntry(r) >= 1 /\ SelectedEntry(r) <= n
         /\ Valid(r, SelectedEntry(r))
  <2>1. CASE SelectedEntry(r) = bound /\ bound # 0 /\ Valid(r, bound)
    <3>1. bound >= 1
      BY <1>1, <2>1
    <3> QED
      BY <1>1, <2>1, <3>1, Zenon
  <2>2. CASE SelectedEntry(r) \in earlier
    BY <1>2, <2>2
  <2>3. CASE SelectedEntry(r) \in later
    BY <1>3, <2>3
  <2> QED
    BY <1>7, <2>1, <2>2, <2>3
<1> QED
  BY <1>1, <1>8 DEF n

\* One chain is replaced by another that belongs to the same view.
LEMMA ChainReplaced ==
    ASSUME ViewsOK, ChainsOK, NEW v \in Views, NEW d,
           chain' = [chain EXCEPT ![v] = d], Sound(d),
           UNCHANGED <<view, active, reload>>,
           v <= Reached => /\ Len(d.failed) = Len(view[v].chain)
                           /\ \A s \in Sessions : d.session[s] <= Len(view[v].chain)
    PROVE  ChainsOK'
<1>1. Reached' = Reached
  BY DEF Reached, New
<1>2. chain' \in [Views -> ChainRec]
  BY DEF ChainsOK, Sound
<1>3. chain'[v] = d /\ \A w \in Views : w # v => chain'[w] = chain[w]
  BY DEF ChainsOK
<1>4. ASSUME NEW w \in Views
      PROVE  Sound(chain'[w]) /\ (w <= Reached => Linked(w)')
  BY <1>3 DEF ChainsOK, Linked
<1> QED
  BY <1>1, <1>2, <1>4 DEF ChainsOK

\* No chain changes.
LEMMA ChainsSame ==
    ASSUME ViewsOK, ChainsOK, chain' = chain, UNCHANGED <<view, active, reload>>
    PROVE  ChainsOK'
  BY DEF ChainsOK, Linked, Reached, New

-----------------------------------------------------------------------------
(* Chains over a reload.                                                   *)

\* Both chains of a reload.
LEMMA BothChains ==
    ASSUME ViewsOK, New \in Views
    PROVE  \A v \in {active, New} :
              /\ Len(view[v].chain) \in Nat
              /\ DOMAIN view[v].chain = 1 .. Len(view[v].chain)
              /\ \A i, j \in DOMAIN view[v].chain : view[v].chain[i] = view[v].chain[j] => i = j
<1> SUFFICES ASSUME NEW v \in {active, New}
             PROVE  /\ Len(view[v].chain) \in Nat
                    /\ DOMAIN view[v].chain = 1 .. Len(view[v].chain)
                    /\ \A i, j \in DOMAIN view[v].chain :
                          view[v].chain[i] = view[v].chain[j] => i = j
  OBVIOUS
<1>1. ViewShaped(view[v])
  BY DEF ViewsOK
<1> QED
  BY <1>1, SeqFacts DEF ViewShaped, ViewRec

\* NewIndex finds the entry with the same provider, if there is one.
LEMMA NewIndexFacts ==
    ASSUME ViewsOK, New \in Views, NEW i
    PROVE  /\ NewIndex(i) \in Nat /\ NewIndex(i) <= Len(view[New].chain)
           /\ NewIndex(i) # 0 => /\ NewIndex(i) \in DOMAIN view[New].chain
                                 /\ view[New].chain[NewIndex(i)] = view[active].chain[i]
           /\ NewIndex(i) = 0 => \A k \in DOMAIN view[New].chain :
                                    view[New].chain[k] # view[active].chain[i]
<1> DEFINE S == {j \in DOMAIN view[New].chain : view[New].chain[j] = view[active].chain[i]}
<1>1. Len(view[New].chain) \in Nat /\ DOMAIN view[New].chain = 1 .. Len(view[New].chain)
  BY BothChains
<1>2. NewIndex(i) = IF S = {} THEN 0 ELSE CHOOSE j \in S : TRUE
  BY DEF NewIndex
<1>3. S # {} => NewIndex(i) \in S
  BY <1>2
<1>4. S = {} => NewIndex(i) = 0
  BY <1>2
<1>5. S # {} => NewIndex(i) \in Nat /\ NewIndex(i) # 0 /\ NewIndex(i) <= Len(view[New].chain)
  BY <1>1, <1>3
<1> QED
  BY <1>1, <1>3, <1>4, <1>5

\* OldIndex is where an entry of the new chain comes from.
LEMMA OldIndexFacts ==
    ASSUME ViewsOK, New \in Views, NEW j
    PROVE  OldIndex(j) # 0 => /\ OldIndex(j) \in DOMAIN view[active].chain
                              /\ NewIndex(OldIndex(j)) = j
<1> DEFINE S == {i \in DOMAIN view[active].chain : NewIndex(i) = j}
<1>1. OldIndex(j) = IF S = {} THEN 0 ELSE CHOOSE i \in S : TRUE
  BY DEF OldIndex
<1>2. OldIndex(j) # 0 => OldIndex(j) \in S
  BY <1>1
<1> QED
  BY <1>2

\* A chain that does not change keeps its places.
LEMMA SameIndex ==
    ASSUME ViewsOK, New \in Views, view[New].chain = view[active].chain,
           NEW i \in DOMAIN view[New].chain
    PROVE  NewIndex(i) = i /\ OldIndex(i) = i
<1>1. NewIndex(i) # 0
  BY NewIndexFacts
<1>2. NewIndex(i) = i
  BY <1>1, NewIndexFacts, BothChains
<1>3. \E k \in DOMAIN view[active].chain : NewIndex(k) = i
  BY <1>2
<1>4. 0 \notin DOMAIN view[New].chain
  BY BothChains
<1>5. OldIndex(i) \in {k \in DOMAIN view[active].chain : NewIndex(k) = i}
  <2> DEFINE S == {k \in DOMAIN view[active].chain : NewIndex(k) = i}
  <2>1. S # {}
    BY <1>3
  <2>2. OldIndex(i) = CHOOSE k \in S : TRUE
    BY <2>1 DEF OldIndex
  <2> QED
    BY <2>1, <2>2
<1>6. OldIndex(i) # 0 /\ NewIndex(OldIndex(i)) = i
  BY <1>4, <1>5
<1>7. view[New].chain[i] = view[active].chain[OldIndex(i)]
  BY <1>1, <1>2, <1>6, NewIndexFacts
<1> QED
  BY <1>2, <1>5, <1>7, BothChains

\* reconfiguredWithFailures makes a sound chain for the new view: what is
\* forgiven moves next back.
LEMMA ReconfiguredSound ==
    ASSUME ViewsOK, ChainsOK, New \in Views
    PROVE  /\ Sound(Reconfigured)
           /\ Len(Reconfigured.failed) = Len(view[New].chain)
           /\ \A s \in Sessions : Reconfigured.session[s] <= Len(view[New].chain)
<1> DEFINE old == chain[active]
           n == Len(view[New].chain)
           changed == view[New].chain # view[active].chain
           forgiven == {NewIndex(i) : i \in {k \in DOMAIN old.failed :
                           old.failed[k] # "no" /\ ~PreservesFailure(k)}} \ {0}
           next == IF changed THEN 1 ELSE Min(forgiven \cup {old.next})
           failed == [j \in 1 .. n |->
                        IF OldIndex(j) # 0 /\ PreservesFailure(OldIndex(j))
                          THEN old.failed[OldIndex(j)] ELSE "no"]
           session == [s \in Sessions |-> rebind(old.session[s])]
<1>1. active \in Views /\ active <= Reached
  BY ViewFacts DEF ViewsOK
<1>2. Sound(old) /\ Linked(active)
  BY <1>1 DEF ChainsOK
<1>3. /\ old.next \in Nat /\ old.next >= 1 /\ old.next <= Len(old.failed) + 1
      /\ Len(old.failed) \in Nat /\ DOMAIN old.failed = 1 .. Len(old.failed)
      /\ old.failed \in [1 .. Len(old.failed) -> Marks]
      /\ \A i \in 1 .. Len(old.failed) : i < old.next => old.failed[i] # "no"
  BY <1>2, SoundFacts DEF Sound
<1>4. /\ n \in Nat /\ DOMAIN view[New].chain = 1 .. n
      /\ Len(view[active].chain) \in Nat
      /\ DOMAIN view[active].chain = 1 .. Len(view[active].chain)
      /\ Len(old.failed) = Len(view[active].chain)
  BY <1>2, BothChains DEF Linked
<1>5. failed \in [1 .. n -> Marks]
  <2> SUFFICES ASSUME NEW j \in 1 .. n
               PROVE  (IF OldIndex(j) # 0 /\ PreservesFailure(OldIndex(j))
                         THEN old.failed[OldIndex(j)] ELSE "no") \in Marks
    OBVIOUS
  <2>1. OldIndex(j) # 0 => OldIndex(j) \in 1 .. Len(old.failed)
    BY <1>4, OldIndexFacts
  <2> QED
    BY <1>3, <2>1 DEF Marks
<1>6. session \in [Sessions -> Nat] /\ \A s \in Sessions : session[s] <= n
  <2> SUFFICES ASSUME NEW i
               PROVE  rebind(i) \in Nat /\ rebind(i) <= n
    OBVIOUS
  <2> QED
    BY <1>4, NewIndexFacts DEF rebind
<1>7. /\ next \in Nat /\ next >= 1 /\ next <= n + 1
      /\ \A i \in 1 .. n : i < next => failed[i] # "no"
  <2>1. CASE changed
    BY <1>4, <2>1
  <2>2. CASE ~changed
    <3>1. Len(old.failed) = n
      BY <1>4, <2>2
    <3>2. \A i \in 1 .. n : NewIndex(i) = i /\ OldIndex(i) = i
      BY <1>4, <2>2, SameIndex
    <3>3. forgiven = {i \in 1 .. n : old.failed[i] # "no" /\ ~PreservesFailure(i)}
      BY <1>3, <1>4, <3>1, <3>2
    <3>4. \A i \in 1 .. n : failed[i] = IF PreservesFailure(i) THEN old.failed[i] ELSE "no"
      BY <3>2
    <3>5. next = Min(forgiven \cup {old.next})
      BY <2>2
    <3> HIDE DEF old, n, forgiven, next, failed
    <3>6. forgiven \cup {old.next} \in SUBSET Nat /\ forgiven \cup {old.next} # {}
      BY <1>3, <3>3
    <3>7. next \in forgiven \cup {old.next} /\ \A y \in forgiven \cup {old.next} : next <= y
      BY <3>5, <3>6, LeastMember
    <3>8. next \in Nat /\ next >= 1 /\ next <= n + 1 /\ next <= old.next
      BY <1>3, <1>4, <3>1, <3>3, <3>7
    <3>9. ASSUME NEW i \in 1 .. n, i < next
          PROVE  failed[i] # "no"
      <4>1. i < old.next /\ i \notin forgiven
        BY <1>3, <3>7, <3>8, <3>9
      <4>2. old.failed[i] # "no"
        BY <1>3, <3>1, <4>1
      <4> QED
        BY <3>3, <3>4, <4>1, <4>2
    <3> QED
      BY <3>8, <3>9
  <2> QED
    BY <2>1, <2>2
<1>8. Reconfigured = [next |-> next, failed |-> failed, session |-> session]
  BY DEF Reconfigured
<1> HIDE DEF next, failed, session, n
<1>9. failed \in Seq(Marks) /\ Len(failed) = n
  BY <1>4, <1>5, SeqOf
<1>10. Reconfigured \in ChainRec
  BY <1>6, <1>7, <1>8, <1>9 DEF ChainRec
<1>11. Sound(Reconfigured)
  BY <1>4, <1>7, <1>8, <1>9, <1>10 DEF Sound
<1> QED
  BY <1>6, <1>8, <1>9, <1>11 DEF n

\* Reload steps that leave the chains.
LEMMA ReloadChains ==
    ASSUME ViewsOK, ChainsOK, Prepare \/ ActivateHealth \/ ActivateAffinity \/ Publish
    PROVE  ChainsOK'
<1>1. chain' = chain
  BY DEF Prepare, ActivateHealth, ActivateAffinity, Publish, routeVars
<1>2. active \in Nat /\ New > active /\ New \in Nat /\ \A v \in Views : v \in Nat
  BY ViewFacts
<1>3. Reached' = Reached
  BY <1>2 DEF Reached, New, Prepare, ActivateHealth, ActivateAffinity, Publish
<1>4. \A v \in Views : v <= Reached => view'[v] = view[v]
  <2>1. CASE Prepare
    <3>1. Reached = active /\ \A v \in Views : v # New => view'[v] = view[v]
      BY <2>1, PrepareViews DEF Reached, Prepare
    <3> QED
      BY <1>2, <3>1
  <2>2. CASE ~Prepare
    BY <2>2 DEF ActivateHealth, ActivateAffinity, Publish
  <2> QED
    BY <2>1, <2>2
<1> QED
  BY <1>1, <1>3, <1>4 DEF ChainsOK, Linked

\* ActivateChain gives the new view its chain.
LEMMA ActivateChainChains ==
    ASSUME ViewsOK, ChainsOK, ActivateChain
    PROVE  ChainsOK'
<1>1. active \in Nat /\ New \in Views /\ New = active + 1 /\ \A v \in Views : v \in Nat
  BY ViewFacts DEF ActivateChain, New
<1>2. /\ Sound(Reconfigured) /\ Len(Reconfigured.failed) = Len(view[New].chain)
      /\ \A s \in Sessions : Reconfigured.session[s] <= Len(view[New].chain)
  BY <1>1, ReconfiguredSound
<1>3. /\ chain' = [chain EXCEPT ![New] = Reconfigured] /\ view' = view
      /\ Reached = active /\ Reached' = New
  BY DEF ActivateChain, Reached, New
<1> HIDE DEF ActivateChain
<1>4. /\ chain' \in [Views -> ChainRec] /\ chain'[New] = Reconfigured
      /\ \A v \in Views : v # New => chain'[v] = chain[v]
  BY <1>1, <1>2, <1>3 DEF ChainsOK, Sound
<1>5. ASSUME NEW v \in Views
      PROVE  Sound(chain'[v]) /\ (v <= New => Linked(v)')
  <2>1. CASE v = New
    BY <1>2, <1>3, <1>4, <2>1 DEF Linked
  <2>2. CASE v # New
    <3>1. v <= New => v <= active
      BY <1>1, <2>2
    <3> QED
      BY <1>3, <1>4, <2>2, <3>1 DEF ChainsOK, Linked
  <2> QED
    BY <2>1, <2>2
<1> QED
  BY <1>3, <1>4, <1>5 DEF ChainsOK

\* The steps of a request.
LEMMA StepChains ==
    ASSUME ViewsOK, ChainsOK, RequestsOK, NEW r \in Requests, Step(r)
    PROVE  ChainsOK'
<1>1. UNCHANGED <<view, active, reload>>
  BY StepViews DEF viewVars
<1>2. /\ at[r] \in Views /\ Sound(chain[at[r]]) /\ Linked(at[r])
  BY KeyFacts, OwnChain DEF Chain
<1>3. CASE SelectInChain(r)
  <2>1. CASE Key(r) = None
    BY <1>1, <1>3, <2>1, ChainsSame DEF SelectInChain
  <2>2. CASE Key(r) # None
    <3> DEFINE i == SelectedEntry(r)
               d == [chain[at[r]] EXCEPT !.session[Key(r)] = i]
    <3>1. chain' = [chain EXCEPT ![at[r]] = d]
      BY <1>3, <2>2 DEF SelectInChain
    <3>2. i \in Nat /\ i <= Len(view[at[r]].chain) /\ Key(r) \in Sessions
      BY <2>2, Selected, KeyFacts
    <3> HIDE DEF i
    <3>3. /\ Sound(d) /\ d.failed = chain[at[r]].failed
          /\ d.session = [chain[at[r]].session EXCEPT ![Key(r)] = i]
      BY <1>2, <3>2, SoundBound
    <3>4. chain[at[r]].session \in [Sessions -> Nat]
      BY <1>2, SoundFacts
    <3> HIDE DEF d
    <3>5. Len(d.failed) = Len(view[at[r]].chain)
          /\ \A s \in Sessions : d.session[s] <= Len(view[at[r]].chain)
      BY <1>2, <3>2, <3>3, <3>4 DEF Linked
    <3> QED
      BY <1>1, <1>2, <3>1, <3>3, <3>5, ChainReplaced
  <2> QED
    BY <2>1, <2>2
<1>4. CASE Restore(r)
  <2> DEFINE d == restoreProvider(at[r], route[r].provider)
  <2>1. chain' = [chain EXCEPT ![at[r]] = d]
    BY <1>4 DEF Restore
  <2>2. Sound(d) /\ d.session = chain[at[r]].session /\ Len(d.failed) = Len(chain[at[r]].failed)
    BY <1>2, RestoreEffect
  <2> HIDE DEF d
  <2>3. Len(d.failed) = Len(view[at[r]].chain)
        /\ \A s \in Sessions : d.session[s] <= Len(view[at[r]].chain)
    BY <1>2, <2>2 DEF Linked
  <2> QED
    BY <1>1, <1>2, <2>1, <2>2, <2>3, ChainReplaced
<1>5. CASE Fail(r)
  <2>1. CASE Kind(r) # "auto"
    BY <1>1, <1>5, <2>1, ChainsSame DEF Fail
  <2>2. CASE Kind(r) = "auto"
    <3> DEFINE d == recordFailure(at[r], route[r].index)
    <3>1. chain' = [chain EXCEPT ![at[r]] = d]
      BY <1>5, <2>2 DEF Fail
    <3>2. phase[r] = "sent" /\ r \in auto
      BY <1>5, <2>2, KeyFacts DEF Fail
    <3>3. route[r].index \in 1 .. Len(chain[at[r]].failed)
      BY <1>2, <3>2, OwnChain DEF RequestsOK, RequestsInStep, Linked
    <3>4. Sound(d) /\ d.session = chain[at[r]].session /\ Len(d.failed) = Len(chain[at[r]].failed)
      BY <1>2, <3>3, FailureEffect
    <3> HIDE DEF d
    <3>5. Len(d.failed) = Len(view[at[r]].chain)
          /\ \A s \in Sessions : d.session[s] <= Len(view[at[r]].chain)
      BY <1>2, <3>4 DEF Linked
    <3> QED
      BY <1>1, <1>2, <3>1, <3>4, <3>5, ChainReplaced
  <2> QED
    BY <2>1, <2>2
<1>6. CASE ~SelectInChain(r) /\ ~Restore(r) /\ ~Fail(r)
  <2>1. chain' = chain
    BY <1>6 DEF Step, Admit, Look, Choose, SelectProvider, SelectUnbound, Dispatch, Refuse,
          Abort, Again, Succeed, routeVars
  <2> QED
    BY <1>1, <2>1, ChainsSame
<1> QED
  BY <1>3, <1>4, <1>5, <1>6

LEMMA ChainsNext ==
    ASSUME ViewsOK, ChainsOK, RequestsOK, [Next]_vars
    PROVE  ChainsOK'
<1>1. ASSUME NEW v \in Views, NEW i, Elapse(v, i)
      PROVE  ChainsOK'
  <2> DEFINE d == [chain[v] EXCEPT !.failed[i] = "due"]
  <2>1. /\ chain' = [chain EXCEPT ![v] = d] /\ UNCHANGED <<view, active, reload>>
        /\ i \in DOMAIN chain[v].failed
    BY <1>1 DEF Elapse, viewVars
  <2>2. Sound(chain[v]) /\ (v <= Reached => Linked(v))
    BY DEF ChainsOK
  <2>3. i \in 1 .. Len(chain[v].failed)
    BY <2>1, <2>2, SoundFacts
  <2>4. Sound(d) /\ d.session = chain[v].session /\ Len(d.failed) = Len(chain[v].failed)
    BY <2>2, <2>3, ElapseEffect
  <2> HIDE DEF d
  <2> QED
    BY <2>1, <2>2, <2>4, ChainReplaced DEF Linked
<1>2. ASSUME NEW v \in Views, NEW s \in Sessions, ExpirePlace(v, s)
      PROVE  ChainsOK'
  <2> DEFINE d == [chain[v] EXCEPT !.session[s] = 0]
  <2>1. /\ chain' = [chain EXCEPT ![v] = d] /\ UNCHANGED <<view, active, reload>>
    BY <1>2 DEF ExpirePlace, viewVars
  <2>2. Sound(chain[v]) /\ (v <= Reached => Linked(v))
    BY DEF ChainsOK
  <2>3. /\ Sound(d) /\ d.failed = chain[v].failed
        /\ d.session = [chain[v].session EXCEPT ![s] = 0]
    BY <2>2, SoundBound
  <2>4. chain[v].session \in [Sessions -> Nat] /\ Len(view[v].chain) \in Nat
    BY <2>2, SoundFacts, SeqFacts DEF ViewsOK, ViewRec
  <2> HIDE DEF d
  <2>5. v <= Reached => /\ Len(d.failed) = Len(view[v].chain)
                        /\ \A q \in Sessions : d.session[q] <= Len(view[v].chain)
    BY <2>2, <2>3, <2>4 DEF Linked
  <2> QED
    BY <2>1, <2>3, <2>5, ChainReplaced
<1>3. ASSUME UNCHANGED vars \/ (\E p \in Providers : \E h \in Health : SetHealth(p, h))
             \/ (\E s \in Sessions : ExpireBinding(s))
      PROVE  ChainsOK'
  <2>1. chain' = chain /\ UNCHANGED <<view, active, reload>>
    BY <1>3 DEF SetHealth, ExpireBinding, vars, viewVars, routeVars
  <2> QED
    BY <2>1, ChainsSame
<1> QED
  BY <1>1, <1>2, <1>3, StepChains, ReloadChains, ActivateChainChains DEF Next

-----------------------------------------------------------------------------
(* Bindings.                                                               *)

\* A binding is usable in view v.
Usable(b, v) ==
    b.provider # None => /\ b.provider \in view[v].scope
                         /\ b.generation = view[v].generation[b.provider]

\* The binding of p made by view v, or none.
BindingTo(p, v) ==
    IF p = None THEN NoBinding ELSE [provider |-> p, generation |-> view[v].generation[p]]

LEMMA BindingMade ==
    ASSUME ViewsOK, NEW v \in Views, NEW p \in view[v].scope \cup {None}
    PROVE  BindingTo(p, v) \in BindingRec /\ Usable(BindingTo(p, v), v)
<1>1. /\ view[v].scope \in SUBSET Providers
      /\ view[v].generation \in [Providers -> 0 .. MaxReloads + 1]
  BY DEF ViewsOK, ViewRec
<1>2. 0 \in 0 .. MaxReloads + 1
  BY RoutingAssumptions
<1>3. CASE p = None
  BY <1>2, <1>3 DEF BindingTo, NoBinding, BindingRec, Usable
<1>4. CASE p # None
  <2>1. p \in view[v].scope /\ p \in Providers /\ view[v].generation[p] \in 0 .. MaxReloads + 1
    BY <1>1, <1>4
  <2> QED
    BY <1>4, <2>1 DEF BindingTo, BindingRec, Usable
<1> QED
  BY <1>3, <1>4

LEMMA UsableAll == BindingsUsable <=> \A s \in Sessions : Usable(bindings[s], activeEpoch)
  BY DEF BindingsUsable, Usable

\* Who may be chosen at random.
LEMMA ReusableFacts ==
    ASSUME NEW r, NEW S
    PROVE  Reusable(r, S) \subseteq S /\ (S # {} => Reusable(r, S) # {})
  BY DEF Reusable

\* Selecting a provider for a session.
LEMMA SelectProviderBindings ==
    ASSUME ViewsOK, NEW r \in Requests, SelectProvider(r)
    PROVE  \/ bindings' = bindings
           \/ /\ at[r] = activeEpoch /\ Key(r) \in Sessions
              /\ \E p \in view[at[r]].scope \cup {None} :
                    bindings' = [bindings EXCEPT ![Key(r)] = BindingTo(p, at[r])]
<1>1. Key(r) \in Sessions
  BY KeyFacts DEF SelectProvider
<1>2. Reusable(r, Eligible(r)) \subseteq view[at[r]].scope
  BY ReusableFacts DEF Eligible
<1>3. \/ bindings' = bindings
      \/ \E p \in view[at[r]].scope \cup {None} : bind(r, p)
  BY <1>2 DEF SelectProvider
<1> QED
  BY <1>1, <1>3 DEF bind, BindingTo

LEMMA BindingsNext ==
    ASSUME ViewsOK, BindingsOK, [Next]_vars
    PROVE  BindingsOK'
<1>1. /\ bindings \in [Sessions -> BindingRec]
      /\ \A s \in Sessions : Usable(bindings[s], activeEpoch)
      /\ activeEpoch \in Views
  BY UsableAll DEF BindingsOK, ViewsOK
<1>2. ASSUME bindings' \in [Sessions -> BindingRec], activeEpoch' = activeEpoch,
             view'[activeEpoch] = view[activeEpoch],
             \A s \in Sessions : Usable(bindings'[s], activeEpoch)
      PROVE  BindingsOK'
  BY <1>2 DEF BindingsOK, BindingsUsable, Usable
<1>3. ASSUME NEW s \in Sessions, NEW b \in BindingRec, Usable(b, activeEpoch),
             bindings' = [bindings EXCEPT ![s] = b], UNCHANGED <<activeEpoch, view>>
      PROVE  BindingsOK'
  <2>1. bindings' \in [Sessions -> BindingRec]
        /\ \A q \in Sessions : bindings'[q] = IF q = s THEN b ELSE bindings[q]
    BY <1>1, <1>3
  <2>2. \A q \in Sessions : Usable(bindings'[q], activeEpoch)
    BY <1>1, <1>3, <2>1
  <2> QED
    BY <1>2, <1>3, <2>1, <2>2
<1>4. ASSUME bindings' = bindings, UNCHANGED <<activeEpoch, view>>
      PROVE  BindingsOK'
  BY <1>1, <1>2, <1>4
<1>5. ASSUME NEW r \in Requests, Step(r)
      PROVE  BindingsOK'
  <2>1. UNCHANGED <<activeEpoch, view>>
    BY <1>5, StepViews DEF viewVars
  <2>2. CASE SelectProvider(r)
    <3>1. CASE bindings' = bindings
      BY <1>4, <2>1, <3>1
    <3>2. CASE bindings' # bindings
      <4>1. PICK p \in view[at[r]].scope \cup {None} :
               bindings' = [bindings EXCEPT ![Key(r)] = BindingTo(p, at[r])]
        BY <2>2, <3>2, SelectProviderBindings
      <4>2. at[r] = activeEpoch /\ Key(r) \in Sessions
        BY <2>2, <3>2, SelectProviderBindings
      <4>3. BindingTo(p, at[r]) \in BindingRec /\ Usable(BindingTo(p, at[r]), activeEpoch)
        BY <1>1, <4>2, BindingMade
      <4> QED
        BY <1>3, <2>1, <4>1, <4>2, <4>3
    <3> QED
      BY <3>1, <3>2
  <2>3. CASE ~SelectProvider(r)
    <3>1. bindings' = bindings
      BY <1>5, <2>3 DEF Step, Admit, Look, Choose, SelectInChain, SelectUnbound, Dispatch,
            Refuse, Abort, Again, Succeed, Restore, Fail, routeVars
    <3> QED
      BY <1>4, <2>1, <3>1
  <2> QED
    BY <2>2, <2>3
<1>6. ASSUME NEW s \in Sessions, ExpireBinding(s)
      PROVE  BindingsOK'
  <2>1. BindingTo(None, activeEpoch) = NoBinding
    BY DEF BindingTo
  <2>2. NoBinding \in BindingRec /\ Usable(NoBinding, activeEpoch)
    BY <1>1, <2>1, BindingMade
  <2>3. bindings' = [bindings EXCEPT ![s] = NoBinding] /\ UNCHANGED <<activeEpoch, view>>
    BY <1>6 DEF ExpireBinding, viewVars
  <2> QED
    BY <1>3, <2>2, <2>3
<1>7. CASE Prepare
  <2>1. /\ \A v \in Views : v # New => view'[v] = view[v]
        /\ activeEpoch' = activeEpoch /\ bindings' = bindings
        /\ activeEpoch = active /\ active # New
    BY <1>7, PrepareViews, ViewFacts DEF Prepare, ViewsOK, EpochsInStep, routeVars
  <2>2. view'[activeEpoch] = view[activeEpoch]
    BY <1>1, <2>1
  <2> QED
    BY <1>1, <1>2, <2>1, <2>2
<1>8. CASE ActivateAffinity
  <2>1. /\ activeEpoch' = New /\ view' = view /\ New \in Views
        /\ bindings' = [s \in Sessions |-> regenerate(bindings[s])]
    BY <1>8, ViewFacts DEF ActivateAffinity
  <2>2. ASSUME NEW s \in Sessions
        PROVE  \E p \in view[New].scope \cup {None} : regenerate(bindings[s]) = BindingTo(p, New)
    <3>1. bindings[s] \in BindingRec
      BY <1>1
    <3>2. CASE bindings[s].provider \in view[New].scope
      <4> DEFINE p == bindings[s].provider
      <4>1. p # None
        BY <2>1, <3>2, RoutingAssumptions DEF ViewsOK, ViewRec
      <4>2. regenerate(bindings[s]) = [provider |-> p, generation |-> view[New].generation[p]]
        BY <3>1, <3>2 DEF regenerate, BindingRec
      <4> QED
        BY <3>2, <4>1, <4>2 DEF BindingTo
    <3>3. CASE bindings[s].provider \notin view[New].scope
      BY <3>3 DEF regenerate, BindingTo
    <3> QED
      BY <3>2, <3>3
  <2>3. \A s \in Sessions : /\ regenerate(bindings[s]) \in BindingRec
                            /\ Usable(regenerate(bindings[s]), New)
    BY <2>1, <2>2, BindingMade
  <2>4. bindings' \in [Sessions -> BindingRec] /\ \A s \in Sessions : Usable(bindings'[s], New)
    BY <2>1, <2>3
  <2> QED
    BY <2>1, <2>4 DEF BindingsOK, BindingsUsable, Usable
<1>9. ASSUME \/ UNCHANGED vars
             \/ ActivateHealth \/ ActivateChain \/ Publish
             \/ \E v \in Views : \E i \in 1 .. Cardinality(Providers) : Elapse(v, i)
             \/ \E p \in Providers : \E h \in Health : SetHealth(p, h)
             \/ \E s \in Sessions : \E v \in Views : ExpirePlace(v, s)
      PROVE  BindingsOK'
  <2>1. bindings' = bindings /\ UNCHANGED <<activeEpoch, view>>
    BY <1>9 DEF vars, ActivateHealth, ActivateChain, Publish, Elapse, SetHealth, ExpirePlace,
          routeVars, viewVars
  <2> QED
    BY <1>4, <2>1
<1> QED
  BY <1>5, <1>6, <1>7, <1>8, <1>9 DEF Next

-----------------------------------------------------------------------------
(* Requests.                                                               *)

Tries == -1 .. Cardinality(Providers)

\* The phases in which a request has a route, and those after its dispatch.
Holding == {"choice", "call", "sent", "restore", "refused"}
Dispatched == {"sent", "restore", "done"}

\* A route that r may take in its view.
Routed(r, x) ==
    /\ x \in RouteRec
    /\ x.provider \in view[at[r]].scope
    /\ r \in auto => /\ x.index \in DOMAIN view[at[r]].chain
                     /\ view[at[r]].chain[x.index] = x.provider

LEMMA EntryRouted ==
    ASSUME ViewsOK, NEW r \in Requests, NEW i \in DOMAIN view[at[r]].chain
    PROVE  Routed(r, [provider |-> view[at[r]].chain[i], index |-> i, hold |-> FALSE])
<1>1. ViewShaped(view[at[r]])
  BY KeyFacts
<1>2. /\ view[at[r]].chain \in Seq(Providers)
      /\ \A k, j \in DOMAIN view[at[r]].chain : view[at[r]].chain[k] = view[at[r]].chain[j] => k = j
      /\ view[at[r]].chain[i] \in view[at[r]].scope /\ view[at[r]].chain[i] \in Providers
  BY <1>1 DEF ViewShaped, ViewRec
<1>3. i \in 1 .. Len(view[at[r]].chain) /\ Len(view[at[r]].chain) \in Nat
  BY <1>2, SeqFacts
<1>4. Cardinality(Providers) \in Nat /\ Len(view[at[r]].chain) <= Cardinality(Providers)
  BY <1>2, ChainLength
<1>5. i \in 0 .. Cardinality(Providers)
  BY <1>3, <1>4
<1> QED
  BY <1>2, <1>5 DEF Routed, RouteRec

LEMMA DirectRouted ==
    ASSUME ViewsOK, NEW r \in Requests, r \notin auto, NEW p \in view[at[r]].scope
    PROVE  Routed(r, Direct(p))
<1>1. view[at[r]].scope \in SUBSET Providers
  BY KeyFacts DEF ViewShaped, ViewRec
<1>2. 0 \in 0 .. Cardinality(Providers)
  BY RoutingAssumptions, FS_CardinalityType
<1> QED
  BY <1>1, <1>2 DEF Routed, RouteRec, Direct

LEMMA NoRouteFacts == NoRoute \in RouteRec /\ NoRoute.provider \notin Providers
<1>1. 0 \in 0 .. Cardinality(Providers)
  BY RoutingAssumptions, FS_CardinalityType
<1> QED
  BY <1>1, RoutingAssumptions DEF NoRoute, RouteRec

\* What resolveRoutes prefers is a route of the view, or none.
LEMMA PreferredFacts ==
    ASSUME ViewsOK, ChainsOK, NEW r \in Requests
    PROVE  /\ Preferred(r) \in RouteRec
           /\ Preferred(r).provider \in view[at[r]].scope => Routed(r, Preferred(r))
<1>1. view[at[r]].scope \in SUBSET Providers /\ view[at[r]].scope # {}
  BY KeyFacts DEF ViewShaped, ViewRec
<1>2. NoRoute \in RouteRec /\ NoRoute.provider \notin view[at[r]].scope
  BY <1>1, NoRouteFacts
<1>3. CASE Kind(r) = "auto"
  <2> DEFINE i == IF Key(r) = None THEN 0 ELSE Chain(r).session[Key(r)]
  <2>1. i \in Nat /\ i <= Len(view[at[r]].chain)
        /\ DOMAIN view[at[r]].chain = 1 .. Len(view[at[r]].chain)
        /\ Len(view[at[r]].chain) \in Nat
    BY OwnChain, KeyFacts
  <2>2. Preferred(r) = IF i = 0 THEN NoRoute
                       ELSE [provider |-> view[at[r]].chain[i], index |-> i, hold |-> FALSE]
    BY <1>3 DEF Preferred, BoundInChain
  <2> HIDE DEF i
  <2>3. CASE i = 0
    BY <1>2, <2>2, <2>3
  <2>4. CASE i # 0
    <3>1. i \in DOMAIN view[at[r]].chain
      BY <2>1, <2>4
    <3>2. Routed(r, Preferred(r))
      BY <2>2, <2>4, <3>1, EntryRouted
    <3> QED
      BY <3>2 DEF Routed
  <2> QED
    BY <2>3, <2>4
<1>4. CASE Kind(r) = "random"
  <2>1. Preferred(r) = BoundInTable(r) /\ r \notin auto
    BY <1>4, KeyFacts DEF Preferred
  <2>2. \/ BoundInTable(r) = NoRoute
        \/ \E p \in view[at[r]].scope : BoundInTable(r) = Direct(p)
    BY DEF BoundInTable
  <2>3. CASE BoundInTable(r) = NoRoute
    BY <1>2, <2>1, <2>3
  <2>4. CASE \E p \in view[at[r]].scope : BoundInTable(r) = Direct(p)
    <3>1. Routed(r, Preferred(r))
      BY <2>1, <2>4, DirectRouted
    <3> QED
      BY <3>1 DEF Routed
  <2> QED
    BY <2>2, <2>3, <2>4
<1>5. CASE Kind(r) = "price_priority"
  <2>1. Preferred(r) = Direct(Cheapest(view[at[r]].scope)) /\ r \notin auto
    BY <1>5, KeyFacts DEF Preferred
  <2>2. Routed(r, Preferred(r))
    BY <1>1, <2>1, CheapestMember, DirectRouted
  <2> QED
    BY <2>2 DEF Routed
<1> QED
  BY <1>3, <1>4, <1>5, KeyFacts

\* A step of r gives it a phase, a route, a number of tries and of dispatches.
LEMMA RequestReplaced ==
    ASSUME ViewsOK, RequestsOK, NEW r \in Requests, NEW ph \in Phases, NEW x \in RouteRec,
           NEW t \in Tries, NEW n \in {0, 1},
           phase' = [phase EXCEPT ![r] = ph], route' = [route EXCEPT ![r] = x],
           tries' = [tries EXCEPT ![r] = t], sent' = [sent EXCEPT ![r] = n],
           UNCHANGED <<view, auto, health>>, \A q \in Requests : q # r => at'[q] = at[q],
           ph \in Holding => Routed(r, x) /\ at'[r] = at[r],
           ph \notin Dispatched => n = 0
    PROVE  RequestsOK'
<1>1. /\ phase' \in [Requests -> Phases] /\ sent' \in [Requests -> Nat]
      /\ route' \in [Requests -> RouteRec] /\ tries' \in [Requests -> Tries]
      /\ phase'[r] = ph /\ route'[r] = x /\ sent'[r] = n
      /\ \A q \in Requests : q # r => /\ phase'[q] = phase[q] /\ route'[q] = route[q]
                                      /\ sent'[q] = sent[q]
  BY DEF RequestsOK, Tries
<1>2. SingleDispatch'
  BY <1>1 DEF RequestsOK, SingleDispatch
<1>3. RequestsInStep'
  BY <1>1 DEF RequestsOK, RequestsInStep, Routed, Holding, Dispatched
<1> QED
  BY <1>1, <1>2, <1>3 DEF RequestsOK, Tries

\* What holds of a request before its step.
LEMMA RequestFacts ==
    ASSUME RequestsOK, NEW r \in Requests
    PROVE  /\ route' = route => route' = [route EXCEPT ![r] = route[r]]
           /\ tries' = tries => tries' = [tries EXCEPT ![r] = tries[r]]
           /\ sent' = sent => sent' = [sent EXCEPT ![r] = sent[r]]
           /\ route[r] \in RouteRec /\ tries[r] \in Tries /\ sent[r] \in {0, 1}
           /\ phase[r] \in Holding => Routed(r, route[r])
           /\ phase[r] \notin Dispatched => sent[r] = 0
  BY DEF RequestsOK, RequestsInStep, SingleDispatch, Routed, Holding, Dispatched, Tries

\* A resolution ends.
LEMMA ResolvedRequest ==
    ASSUME ViewsOK, RequestsOK, NEW r \in Requests, phase[r] \in {"choice", "select"},
           NEW x, Routed(r, x), resolved(r, x), UNCHANGED <<view, auto, health, at, sent>>
    PROVE  RequestsOK'
<1> DEFINE ph == IF tries[r] = -1 THEN "bound" ELSE "call"
           t == IF tries[r] = -1 THEN 0 ELSE tries[r]
<1>1. /\ phase' = [phase EXCEPT ![r] = ph] /\ route' = [route EXCEPT ![r] = x]
      /\ tries' = [tries EXCEPT ![r] = t]
  BY DEF resolved, moveTo, RequestsOK
<1>2. ph \in Phases /\ x \in RouteRec /\ ph \notin Dispatched
  BY DEF Phases, Routed, Dispatched
<1>3. t \in Tries
  <2>1. 0 \in Tries
    BY RoutingAssumptions, FS_CardinalityType DEF Tries
  <2> QED
    BY <2>1, RequestFacts
<1>4. sent[r] = 0 /\ sent' = [sent EXCEPT ![r] = 0]
  BY RequestFacts DEF Dispatched
<1> HIDE DEF ph, t
<1> QED
  BY <1>1, <1>2, <1>3, <1>4, RequestReplaced

\* A request moves on and keeps the rest.
LEMMA MovedRequest ==
    ASSUME ViewsOK, RequestsOK, NEW r \in Requests, NEW ph \in Phases, moveTo(r, ph),
           UNCHANGED <<view, auto, health, route, tries, sent>>,
           \A q \in Requests : q # r => at'[q] = at[q],
           ph \in Holding => phase[r] \in Holding /\ at'[r] = at[r],
           ph \notin Dispatched => phase[r] \notin Dispatched
    PROVE  RequestsOK'
<1>1. phase' = [phase EXCEPT ![r] = ph]
  BY DEF moveTo
<1>2. /\ route' = [route EXCEPT ![r] = route[r]] /\ tries' = [tries EXCEPT ![r] = tries[r]]
      /\ sent' = [sent EXCEPT ![r] = sent[r]]
      /\ route[r] \in RouteRec /\ tries[r] \in Tries /\ sent[r] \in {0, 1}
      /\ phase[r] \in Holding => Routed(r, route[r])
      /\ phase[r] \notin Dispatched => sent[r] = 0
  BY RequestFacts
<1>3. /\ ph \in Holding => Routed(r, route[r]) /\ at'[r] = at[r]
      /\ ph \notin Dispatched => sent[r] = 0
  BY <1>2
<1>4. UNCHANGED <<view, auto, health>> /\ \A q \in Requests : q # r => at'[q] = at[q]
  OBVIOUS
<1> QED
  BY ONLY ViewsOK, RequestsOK, <1>1, <1>2, <1>3, <1>4, RequestReplaced

\* The steps of a request that only move it.
LEMMA QuietRequests ==
    ASSUME ViewsOK, RequestsOK, NEW r \in Requests,
           Admit(r) \/ Refuse(r) \/ Abort(r) \/ Succeed(r) \/ Restore(r) \/ Fail(r)
    PROVE  RequestsOK'
<1>1. UNCHANGED <<view, auto, health, route, tries, sent>>
  BY DEF Admit, Refuse, Abort, Succeed, Restore, Fail, viewVars, healthVars
<1>2. \A q \in Requests : q # r => at'[q] = at[q]
  BY DEF Admit, Refuse, Abort, Succeed, Restore, Fail, ViewsOK
<1>3. \E ph \in Phases : /\ moveTo(r, ph)
                         /\ ph \in Holding => phase[r] \in Holding /\ at'[r] = at[r]
                         /\ ph \notin Dispatched => phase[r] \notin Dispatched
  <2>1. CASE Admit(r)
    BY <2>1 DEF Admit, Phases, Holding, Dispatched
  <2>2. CASE Refuse(r)
    BY <2>2 DEF Refuse, Phases, Holding, Dispatched
  <2>3. CASE Abort(r)
    BY <2>3 DEF Abort, Phases, Holding, Dispatched
  <2>4. CASE Succeed(r)
    BY <2>4 DEF Succeed, Answer, Phases, Holding, Dispatched
  <2>5. CASE Restore(r)
    BY <2>5 DEF Restore, Phases, Holding, Dispatched
  <2>6. CASE Fail(r)
    BY <2>6 DEF Fail, Answer, Phases, Holding, Dispatched
  <2> QED
    BY <2>1, <2>2, <2>3, <2>4, <2>5, <2>6
<1> QED
  BY <1>1, <1>2, <1>3, MovedRequest

LEMMA LookRequests ==
    ASSUME ViewsOK, ChainsOK, RequestsOK, NEW r \in Requests, Look(r)
    PROVE  RequestsOK'
<1> DEFINE x == Preferred(r)
           ph == IF x.provider \in view[at[r]].scope THEN "choice" ELSE "select"
<1>1. /\ phase' = [phase EXCEPT ![r] = ph] /\ route' = [route EXCEPT ![r] = x]
      /\ UNCHANGED <<view, auto, health, at, tries, sent>> /\ phase[r] = "bound"
  BY DEF Look, moveTo, viewVars, healthVars
<1>2. x \in RouteRec /\ (ph = "choice" => Routed(r, x))
  BY PreferredFacts
<1>3. ph \in Phases /\ ph \notin Dispatched /\ (ph \in Holding => ph = "choice")
  BY DEF Phases, Dispatched, Holding
<1> HIDE DEF x, ph
<1>4. /\ tries' = [tries EXCEPT ![r] = tries[r]] /\ tries[r] \in Tries
      /\ sent' = [sent EXCEPT ![r] = sent[r]] /\ sent[r] = 0
  BY <1>1, RequestFacts DEF Dispatched
<1> QED
  BY <1>1, <1>2, <1>3, <1>4, RequestReplaced

LEMMA ChooseRequests ==
    ASSUME ViewsOK, RequestsOK, NEW r \in Requests, Choose(r)
    PROVE  RequestsOK'
<1>1. UNCHANGED <<view, auto, health, at, sent>> /\ phase[r] = "choice"
  BY DEF Choose, viewVars, healthVars
<1>2. Routed(r, route[r])
  BY <1>1, RequestFacts DEF Holding
<1>3. CASE resolved(r, [route[r] EXCEPT !.hold = TRUE])
  <2>1. Routed(r, [route[r] EXCEPT !.hold = TRUE])
    BY <1>2 DEF Routed, RouteRec
  <2> QED
    BY <1>1, <1>3, <2>1, ResolvedRequest
<1>4. CASE moveTo(r, "select") /\ UNCHANGED <<route, tries>>
  BY <1>1, <1>4, MovedRequest DEF Phases, Holding, Dispatched
<1> QED
  BY <1>3, <1>4 DEF Choose

\* A request that finds no route is rejected.
LEMMA RejectedRequest ==
    ASSUME ViewsOK, RequestsOK, NEW r \in Requests, reject(r),
           UNCHANGED <<view, auto, health, at, sent>>
    PROVE  RequestsOK'
<1>1. moveTo(r, "done") /\ UNCHANGED <<route, tries>> /\ "done" \in Phases
      /\ "done" \notin Holding /\ "done" \in Dispatched
  BY DEF reject, Phases, Holding, Dispatched
<1> QED
  BY <1>1, MovedRequest

LEMMA SelectRequests ==
    ASSUME ViewsOK, ChainsOK, RequestsOK, NEW r \in Requests,
           SelectInChain(r) \/ SelectProvider(r) \/ SelectUnbound(r)
    PROVE  RequestsOK'
<1>1. UNCHANGED <<view, auto, health, at, sent>> /\ phase[r] = "select"
  BY DEF SelectInChain, SelectProvider, SelectUnbound, viewVars, healthVars
<1>2. reject(r) \/ \E x : Routed(r, x) /\ resolved(r, x)
  <2>1. CASE SelectInChain(r)
    <3> DEFINE i == SelectedEntry(r)
    <3>1. i # 0 => i \in DOMAIN view[at[r]].chain
      BY Selected
    <3>2. \/ reject(r)
          \/ i # 0 /\ resolved(r, [provider |-> view[at[r]].chain[i], index |-> i, hold |-> FALSE])
      BY <2>1 DEF SelectInChain
    <3> HIDE DEF i
    <3> QED
      BY <3>1, <3>2, EntryRouted
  <2>2. CASE SelectProvider(r) \/ SelectUnbound(r)
    <3>1. r \notin auto
      BY <2>2, KeyFacts DEF SelectProvider, SelectUnbound
    <3>2. reject(r) \/ \E p \in view[at[r]].scope : resolved(r, Direct(p))
      <4>1. CASE SelectProvider(r)
        <5>1. KeepsBinding(r) => bindings[Key(r)].provider \in view[at[r]].scope
          BY DEF KeepsBinding, Eligible
        <5>2. Reusable(r, Eligible(r)) \subseteq view[at[r]].scope
          BY ReusableFacts DEF Eligible
        <5> QED
          BY <4>1, <5>1, <5>2 DEF SelectProvider
      <4>2. CASE SelectUnbound(r)
        <5> DEFINE S == IF Cardinality(view[at[r]].scope) = 1 THEN view[at[r]].scope
                        ELSE Eligible(r)
        <5>1. S \subseteq view[at[r]].scope /\ view[at[r]].scope \in SUBSET Providers
          BY KeyFacts DEF Eligible, ViewShaped, ViewRec
        <5>2. S # {} => FirstInOrder(r, S) \subseteq S
          BY <5>1, ReusableFacts, CheapestMember DEF FirstInOrder
        <5>3. IF S = {} THEN reject(r) ELSE \E p \in FirstInOrder(r, S) : resolved(r, Direct(p))
          BY <4>2 DEF SelectUnbound
        <5> HIDE DEF S
        <5> QED
          BY <5>1, <5>2, <5>3
      <4> QED
        BY <2>2, <4>1, <4>2
    <3> QED
      BY <3>1, <3>2, DirectRouted
  <2> QED
    BY <2>1, <2>2
<1> QED
  BY <1>1, <1>2, ResolvedRequest, RejectedRequest

LEMMA DispatchRequests ==
    ASSUME ViewsOK, RequestsOK, NEW r \in Requests, Dispatch(r)
    PROVE  RequestsOK'
<1>1. /\ UNCHANGED <<view, auto, health, at, route, tries>> /\ phase[r] = "call"
      /\ phase' = [phase EXCEPT ![r] = "sent"] /\ sent' = [sent EXCEPT ![r] = sent[r] + 1]
  BY DEF Dispatch, moveTo, viewVars, healthVars, RequestsOK
<1>2. /\ sent[r] = 0 /\ Routed(r, route[r]) /\ route[r] \in RouteRec /\ tries[r] \in Tries
      /\ route' = [route EXCEPT ![r] = route[r]] /\ tries' = [tries EXCEPT ![r] = tries[r]]
  BY <1>1, RequestFacts DEF Holding, Dispatched
<1>3. "sent" \in Phases /\ "sent" \in Dispatched
  BY DEF Phases, Dispatched
<1>4. sent' = [sent EXCEPT ![r] = 1]
  BY <1>1, <1>2
<1> QED
  BY <1>1, <1>2, <1>3, <1>4, RequestReplaced

\* Going round the attempt loop.
LEMMA AgainRequests ==
    ASSUME ViewsOK, RequestsOK, NEW r \in Requests, Again(r)
    PROVE  RequestsOK'
<1>1. UNCHANGED <<view, auto, health, at, route, sent>> /\ phase[r] = "refused"
  BY DEF Again, viewVars, healthVars
<1>2. CASE GivesUp(r) /\ moveTo(r, "done") /\ UNCHANGED tries
  BY <1>1, <1>2, MovedRequest DEF Phases, Holding, Dispatched
<1>3. CASE ~GivesUp(r) /\ moveTo(r, "bound") /\ tries' = [tries EXCEPT ![r] = @ + 1]
  <2>1. tries[r] \in Tries /\ tries[r] < Cardinality(Providers) /\ Cardinality(Providers) \in Nat
    <3>1. tries[r] \in Tries /\ ~(tries[r] >= Cardinality(Providers))
      BY <1>3, RequestFacts DEF GivesUp
    <3>2. Cardinality(Providers) \in Nat
      BY RoutingAssumptions, FS_CardinalityType
    <3> QED
      BY <3>1, <3>2 DEF Tries
  <2>2. tries[r] + 1 \in Tries /\ tries' = [tries EXCEPT ![r] = tries[r] + 1]
    BY <1>3, <2>1 DEF Tries
  <2>3. /\ phase' = [phase EXCEPT ![r] = "bound"] /\ "bound" \in Phases
        /\ "bound" \notin Holding
    BY <1>3 DEF moveTo, Phases, Holding
  <2>4. /\ route[r] \in RouteRec /\ sent[r] = 0 /\ route' = [route EXCEPT ![r] = route[r]]
        /\ sent' = [sent EXCEPT ![r] = sent[r]]
    BY <1>1, RequestFacts DEF Dispatched
  <2> QED
    BY <1>1, <2>2, <2>3, <2>4, RequestReplaced
<1> QED
  BY <1>2, <1>3 DEF Again

LEMMA RequestsNext ==
    ASSUME ViewsOK, ChainsOK, RequestsOK, [Next]_vars
    PROVE  RequestsOK'
<1>1. ASSUME NEW r \in Requests, Step(r)
      PROVE  RequestsOK'
  BY <1>1, QuietRequests, LookRequests, ChooseRequests, SelectRequests, DispatchRequests,
     AgainRequests DEF Step
<1>2. ASSUME reqVars' = reqVars, health' \in [Providers -> Health],
             \A r \in Requests : view'[at[r]] = view[at[r]]
      PROVE  RequestsOK'
  BY <1>2 DEF reqVars, RequestsOK, SingleDispatch, RequestsInStep
<1>3. ASSUME NEW p \in Providers, NEW h \in Health, SetHealth(p, h)
      PROVE  RequestsOK'
  <2>1. reqVars' = reqVars /\ view' = view /\ health' \in [Providers -> Health]
    BY <1>3 DEF SetHealth, viewVars, RequestsOK
  <2> QED
    BY <1>2, <2>1
<1>4. CASE Prepare
  <2>1. reqVars' = reqVars /\ health' = health
    BY <1>4 DEF Prepare, healthVars
  <2>2. \A r \in Requests : view'[at[r]] = view[at[r]]
    <3> SUFFICES ASSUME NEW r \in Requests
                 PROVE  view'[at[r]] = view[at[r]]
      OBVIOUS
    <3>1. at[r] \in Views /\ at[r] # New
      BY KeyFacts, ViewFacts
    <3> QED
      BY <1>4, <3>1, PrepareViews
  <2> QED
    BY <1>2, <2>1, <2>2 DEF RequestsOK
<1>5. ASSUME \/ UNCHANGED vars
             \/ ActivateHealth \/ ActivateChain \/ ActivateAffinity \/ Publish
             \/ \E v \in Views : \E i \in 1 .. Cardinality(Providers) : Elapse(v, i)
             \/ \E s \in Sessions : ExpireBinding(s) \/ \E v \in Views : ExpirePlace(v, s)
      PROVE  RequestsOK'
  <2>1. reqVars' = reqVars /\ view' = view /\ health' = health
    BY <1>5 DEF vars, ActivateHealth, ActivateChain, ActivateAffinity, Publish, Elapse,
          ExpireBinding, ExpirePlace, viewVars, healthVars, reqVars
  <2> QED
    BY <1>2, <2>1 DEF RequestsOK
<1> QED
  BY <1>1, <1>3, <1>4, <1>5 DEF Next

-----------------------------------------------------------------------------
(* What the requests of a session agree on.                                *)

Agreements == [{"auto", "random"} -> [Sessions -> Providers \cup {None}]]

\* Session s keeps to p in the chain of the active view, in the bindings.
AutoBound(s, p) ==
    p # None => /\ health[p] = "ready" /\ chain[active].session[s] # 0
                /\ view[active].chain[chain[active].session[s]] = p
                /\ chain[active].failed[chain[active].session[s]] # "cooling"
RandomBound(s, p) == p # None => health[p] = "ready" /\ bindings[s].provider = p

Bound(s) == AutoBound(s, agreed["auto"][s]) /\ RandomBound(s, agreed["random"][s])
Unagreed == \A s \in Sessions : agreed["auto"][s] = None /\ agreed["random"][s] = None

LEMMA AgreedParts ==
    AgreedBound <=> /\ agreed \in Agreements
                    /\ reload \notin {"idle", "prepared"} => Unagreed
                    /\ \A s \in Sessions : Bound(s)
  BY DEF AgreedBound, Agreements, Unagreed, Bound, AutoBound, RandomBound

\* An agreement is given up, or stays as it is.
Steady ==
    \A k \in {"auto", "random"} : \A s \in Sessions :
        agreed[k][s] # None /\ agreed'[k][s] # None => agreed'[k][s] = agreed[k][s]

\* The agreements of a step that changes no reload: some are given up, the
\* others are still bound.
LEMMA AgreedReduced ==
    ASSUME AgreedBound, UNCHANGED reload, agreed' \in Agreements,
           \A k \in {"auto", "random"} : \A s \in Sessions :
              agreed'[k][s] \in {agreed[k][s], None},
           \A s \in Sessions : Bound(s)'
    PROVE  AgreedBound' /\ Steady
<1>1. reload' \notin {"idle", "prepared"} => Unagreed'
  BY AgreedParts DEF Unagreed
<1>2. Steady
  BY DEF Steady
<1> QED
  BY <1>1, <1>2, AgreedParts DEF AgreedBound, Agreements, Bound, AutoBound, RandomBound

\* Nothing that an agreement is about changes.
LEMMA AgreedSame ==
    ASSUME AgreedBound, UNCHANGED <<agreed, reload, health, bindings, active>>,
           view'[active] = view[active], chain'[active] = chain[active]
    PROVE  AgreedBound' /\ Steady
<1>1. agreed' \in Agreements /\ \A s \in Sessions : Bound(s)
  BY AgreedParts
<1>2. \A s \in Sessions : Bound(s)'
  BY <1>1 DEF Bound, AutoBound, RandomBound
<1>3. \A k \in {"auto", "random"} : \A s \in Sessions : agreed'[k][s] \in {agreed[k][s], None}
  OBVIOUS
<1> QED
  BY <1>1, <1>2, <1>3, AgreedReduced

\* A request that selects in the active view is noted.
Notes(r) == Key(r) # None /\ at[r] = activeEpoch /\ at[r] = active /\ reload = "idle"

LEMMA Noted ==
    ASSUME ViewsOK, agreed \in Agreements, NEW r \in Requests, NEW p \in Providers,
           Kind(r) \in {"auto", "random"}, noteChoice(r, p)
    PROVE  /\ agreed' \in Agreements
           /\ \A k \in {"auto", "random"} : \A s \in Sessions :
                 agreed'[k][s] = IF Notes(r) /\ k = Kind(r) /\ s = Key(r) THEN p ELSE agreed[k][s]
<1>1. CASE Notes(r)
  <2>1. agreed' = [agreed EXCEPT ![Kind(r)][Key(r)] = p] /\ Key(r) \in Sessions
    BY <1>1, KeyFacts DEF Notes, noteChoice
  <2> QED
    BY <1>1, <2>1 DEF Agreements
<1>2. CASE ~Notes(r)
  <2>1. agreed' = agreed
    BY <1>2 DEF Notes, noteChoice
  <2> QED
    BY <1>2, <2>1
<1> QED
  BY <1>1, <1>2

\* What a valid choice of the active view means.
LEMMA AvailableReady ==
    ASSUME ViewsOK, NEW r \in Requests, NEW p, Notes(r), Available(at[r], p)
    PROVE  health[p] = "ready" /\ p \in view[active].scope
<1>1. at[r] = active /\ healthEpoch = active
  BY DEF Notes, ViewsOK, EpochsInStep
<1> QED
  BY <1>1 DEF Available, Blocked

\* While a session's requests agree, selecting in the chain finds the same
\* entry again.
LEMMA AutoKept ==
    ASSUME ViewsOK, ChainsOK, AgreedBound, NEW r \in Requests, at[r] = active,
           Kind(r) = "auto", Key(r) # None, agreed["auto"][Key(r)] # None
    PROVE  /\ SelectedEntry(r) = chain[active].session[Key(r)] /\ SelectedEntry(r) # 0
           /\ view[active].chain[SelectedEntry(r)] = agreed["auto"][Key(r)]
<1> DEFINE i == chain[active].session[Key(r)]
           p == agreed["auto"][Key(r)]
<1>1. Key(r) \in Sessions
  BY KeyFacts
<1>2. /\ health[p] = "ready" /\ i # 0 /\ view[active].chain[i] = p
      /\ chain[active].failed[i] # "cooling"
  BY <1>1, AgreedParts DEF Bound, AutoBound
<1>3. i \in Nat /\ i <= Len(view[active].chain)
      /\ DOMAIN view[active].chain = 1 .. Len(view[active].chain)
      /\ Len(view[active].chain) \in Nat
  BY <1>1, OwnChain DEF Chain
<1>4. i \in DOMAIN view[active].chain
  BY <1>2, <1>3
<1>5. p \in view[active].scope
  BY <1>2, <1>4, KeyFacts DEF ViewShaped
<1>6. Available(active, p)
  BY <1>2, <1>5 DEF Available, Blocked
<1>7. Valid(r, i)
  BY <1>2, <1>6 DEF Valid, Chain
<1>8. SelectedEntry(r) = i
  BY <1>2, <1>7 DEF SelectedEntry, Chain
<1> QED
  BY <1>2, <1>8

\* And selecting a provider keeps the binding.
LEMMA RandomKept ==
    ASSUME ViewsOK, BindingsOK, AgreedBound, NEW r \in Requests, at[r] = activeEpoch,
           Key(r) # None, agreed["random"][Key(r)] # None
    PROVE  KeepsBinding(r) /\ bindings[Key(r)].provider = agreed["random"][Key(r)]
<1> DEFINE b == bindings[Key(r)]
<1>1. Key(r) \in Sessions
  BY KeyFacts
<1>2. health[b.provider] = "ready" /\ b.provider = agreed["random"][Key(r)]
  BY <1>1, AgreedParts DEF Bound, RandomBound
<1>3. b.provider \in view[at[r]].scope /\ b.generation = view[at[r]].generation[b.provider]
  BY <1>1, <1>2 DEF BindingsOK, BindingsUsable
<1>4. b.provider \in Eligible(r)
  BY <1>2, <1>3 DEF Eligible, Available, Blocked
<1> QED
  BY <1>2, <1>3, <1>4 DEF KeepsBinding

LEMMA SelectInChainAgreed ==
    ASSUME ViewsOK, ChainsOK, AgreedBound, NEW r \in Requests, SelectInChain(r)
    PROVE  AgreedBound' /\ Steady
<1> DEFINE i == SelectedEntry(r)
           s == Key(r)
<1>1. /\ UNCHANGED <<view, active, reload, health, bindings>> /\ Kind(r) = "auto"
      /\ chain' = IF s = None THEN chain ELSE [chain EXCEPT ![at[r]].session[s] = i]
      /\ IF i = 0 THEN agreed' = agreed ELSE noteChoice(r, view[at[r]].chain[i])
  BY DEF SelectInChain, viewVars, healthVars
<1>2. agreed \in Agreements /\ \A q \in Sessions : Bound(q)
  BY AgreedParts
<1>3. /\ at[r] \in Views /\ active \in Views /\ (s # None => s \in Sessions)
      /\ chain \in [Views -> ChainRec] /\ ViewShaped(view[at[r]])
  BY KeyFacts DEF ViewsOK, ChainsOK
<1>4. i # 0 => /\ Valid(r, i) /\ view[at[r]].chain[i] \in Providers
  BY <1>3, Selected DEF ViewShaped, ViewRec
<1>5. /\ agreed' \in Agreements
      /\ \A k \in {"auto", "random"} : \A q \in Sessions :
            agreed'[k][q] = IF Notes(r) /\ i # 0 /\ k = "auto" /\ q = s
                              THEN view[at[r]].chain[i] ELSE agreed[k][q]
  <2>1. CASE i = 0
    BY <1>1, <1>2, <2>1
  <2>2. CASE i # 0
    BY <1>1, <1>2, <1>4, <2>2, Noted
  <2> QED
    BY <2>1, <2>2
<1>6. /\ chain'[active].failed = chain[active].failed
      /\ \A q \in Sessions : chain'[active].session[q] =
            IF at[r] = active /\ s # None /\ q = s THEN i ELSE chain[active].session[q]
  <2>1. CASE s = None
    BY <1>1, <2>1
  <2>2. CASE s # None
    <3>1. chain[at[r]] \in ChainRec
      BY <1>3
    <3>2. /\ [chain[at[r]] EXCEPT !.session[s] = i].failed = chain[at[r]].failed
          /\ [chain[at[r]] EXCEPT !.session[s] = i].session = [chain[at[r]].session EXCEPT ![s] = i]
          /\ chain[at[r]].session \in [Sessions -> Nat]
      BY <3>1 DEF ChainRec
    <3>3. chain'[active] = IF at[r] = active THEN [chain[at[r]] EXCEPT !.session[s] = i]
                           ELSE chain[active]
      BY <1>1, <1>3, <2>2
    <3> HIDE DEF s, i
    <3> QED
      BY <1>3, <2>2, <3>2, <3>3
  <2> QED
    BY <2>1, <2>2
<1>7. at[r] = active /\ s # None /\ agreed["auto"][s] # None =>
         /\ i = chain[active].session[s] /\ i # 0
         /\ view[active].chain[i] = agreed["auto"][s]
  BY <1>1, AutoKept
<1>8. Notes(r) => at[r] = active /\ s # None /\ reload = "idle"
  BY DEF Notes
<1>9. Notes(r) /\ i # 0 => /\ health[view[active].chain[i]] = "ready"
                           /\ chain[active].failed[i] # "cooling"
  BY <1>4, <1>8, AvailableReady DEF Valid, Chain
<1> HIDE DEF i, s
<1>10. ASSUME NEW q \in Sessions
       PROVE  Bound(q)'
  <2>1. RandomBound(q, agreed["random"][q])'
    BY <1>1, <1>2, <1>5 DEF Bound, RandomBound
  <2>2. AutoBound(q, agreed["auto"][q])'
    <3>1. CASE at[r] = active /\ s # None /\ q = s
      <4>1. CASE Notes(r) /\ i # 0
        BY <1>1, <1>5, <1>6, <1>8, <1>9, <3>1, <4>1 DEF AutoBound
      <4>2. CASE ~(Notes(r) /\ i # 0)
        <5>1. agreed'["auto"][q] = agreed["auto"][q]
          BY <1>5, <4>2
        <5>2. agreed["auto"][q] # None => chain'[active].session[q] = chain[active].session[q]
          BY <1>6, <1>7, <3>1
        <5> QED
          BY <1>1, <1>2, <1>6, <5>1, <5>2 DEF Bound, AutoBound
      <4> QED
        BY <4>1, <4>2
    <3>2. CASE ~(at[r] = active /\ s # None /\ q = s)
      <4>1. /\ agreed'["auto"][q] = agreed["auto"][q]
            /\ chain'[active].session[q] = chain[active].session[q]
        BY <1>5, <1>6, <1>8, <3>2
      <4> QED
        BY <1>1, <1>2, <1>6, <4>1 DEF Bound, AutoBound
    <3> QED
      BY <3>1, <3>2
  <2> QED
    BY <2>1, <2>2 DEF Bound
<1>11. Steady
  BY <1>5, <1>7, <1>8 DEF Steady
<1>12. reload' \notin {"idle", "prepared"} => Unagreed'
  <2>1. reload \notin {"idle", "prepared"} => Unagreed /\ ~Notes(r)
    BY <1>8, AgreedParts
  <2> QED
    BY <1>1, <1>5, <2>1 DEF Unagreed
<1>13. AgreedBound'
  BY <1>5, <1>10, <1>12, AgreedParts DEF AgreedBound, Agreements, Unagreed, Bound, AutoBound,
        RandomBound
<1> QED
  BY <1>11, <1>13

LEMMA SelectProviderAgreed ==
    ASSUME ViewsOK, BindingsOK, AgreedBound, NEW r \in Requests, SelectProvider(r)
    PROVE  AgreedBound' /\ Steady
<1> DEFINE s == Key(r)
<1>1. /\ UNCHANGED <<view, active, reload, health, chain>> /\ Kind(r) = "random"
      /\ s \in Sessions /\ s # None
  BY KeyFacts DEF SelectProvider, viewVars, healthVars
<1>2. agreed \in Agreements /\ bindings \in [Sessions -> BindingRec] /\ \A q \in Sessions : Bound(q)
  BY AgreedParts DEF BindingsOK
<1>3. view[at[r]].scope \in SUBSET Providers /\ None \notin Providers
  BY KeyFacts, RoutingAssumptions DEF ViewShaped, ViewRec
<1>4. at[r] = activeEpoch /\ agreed["random"][s] # None =>
         KeepsBinding(r) /\ bindings[s].provider = agreed["random"][s]
  BY <1>1, RandomKept
<1>5. Notes(r) => at[r] = activeEpoch /\ reload = "idle"
  BY DEF Notes
<1>6. \E p \in Providers \cup {None} :
         /\ p # None => Available(at[r], p) /\ noteChoice(r, p)
         /\ p = None => agreed' = agreed
         /\ KeepsBinding(r) => bindings' = bindings /\ p = bindings[s].provider /\ p # None
         /\ ~KeepsBinding(r) => bind(r, p)
  <2>1. CASE KeepsBinding(r)
    <3> DEFINE p == bindings[s].provider
    <3>1. p \in view[at[r]].scope /\ Available(at[r], p)
      BY <2>1 DEF KeepsBinding, Eligible
    <3>2. bindings' = bindings /\ noteChoice(r, p)
      BY <2>1 DEF SelectProvider
    <3>3. p \in Providers /\ p # None
      BY <1>3, <3>1
    <3> QED
      BY <2>1, <3>1, <3>2, <3>3
  <2>2. CASE ~KeepsBinding(r) /\ \E p \in Reusable(r, Eligible(r)) : bind(r, p) /\ noteChoice(r, p)
    <3>1. PICK p \in Reusable(r, Eligible(r)) : bind(r, p) /\ noteChoice(r, p)
      BY <2>2
    <3>2. p \in view[at[r]].scope /\ Available(at[r], p)
      BY ReusableFacts DEF Eligible
    <3>3. p \in Providers /\ p # None
      BY <1>3, <3>2
    <3> QED
      BY <2>2, <3>1, <3>2, <3>3
  <2>3. CASE ~KeepsBinding(r) /\ bind(r, None) /\ agreed' = agreed
    BY <2>3
  <2> QED
    BY <2>1, <2>2, <2>3 DEF SelectProvider
<1>7. PICK p \in Providers \cup {None} :
         /\ p # None => Available(at[r], p) /\ noteChoice(r, p)
         /\ p = None => agreed' = agreed
         /\ KeepsBinding(r) => bindings' = bindings /\ p = bindings[s].provider /\ p # None
         /\ ~KeepsBinding(r) => bind(r, p)
  BY <1>6
<1>8. /\ agreed' \in Agreements
      /\ \A k \in {"auto", "random"} : \A q \in Sessions :
            agreed'[k][q] = IF Notes(r) /\ p # None /\ k = "random" /\ q = s
                              THEN p ELSE agreed[k][q]
  <2>1. CASE p = None
    BY <1>2, <1>7, <2>1
  <2>2. CASE p # None
    BY <1>1, <1>2, <1>7, <2>2, Noted
  <2> QED
    BY <2>1, <2>2
<1>9. \A q \in Sessions : q # s => bindings'[q] = bindings[q]
  BY <1>2, <1>7 DEF bind
<1>10. /\ at[r] # activeEpoch => bindings' = bindings
       /\ at[r] = activeEpoch => bindings'[s].provider = p
  <2>1. CASE KeepsBinding(r)
    BY <1>7, <2>1
  <2>2. CASE ~KeepsBinding(r)
    BY <1>1, <1>2, <1>7, <2>2 DEF bind, NoBinding
  <2> QED
    BY <2>1, <2>2
<1>11. Notes(r) /\ p # None => health[p] = "ready"
  BY <1>7, AvailableReady
<1>12. at[r] = activeEpoch /\ agreed["random"][s] # None => p = agreed["random"][s]
  BY <1>4, <1>7
<1> HIDE DEF s
<1>13. ASSUME NEW q \in Sessions
       PROVE  Bound(q)'
  <2>1. AutoBound(q, agreed["auto"][q])'
    BY <1>1, <1>2, <1>8 DEF Bound, AutoBound
  <2>2. RandomBound(q, agreed["random"][q])'
    <3>1. CASE q = s /\ at[r] = activeEpoch
      <4>1. CASE Notes(r) /\ p # None
        BY <1>1, <1>8, <1>10, <1>11, <3>1, <4>1 DEF RandomBound
      <4>2. CASE ~(Notes(r) /\ p # None)
        BY <1>1, <1>2, <1>8, <1>10, <1>12, <3>1, <4>2 DEF Bound, RandomBound
      <4> QED
        BY <4>1, <4>2
    <3>2. CASE ~(q = s /\ at[r] = activeEpoch)
      <4>1. bindings'[q] = bindings[q] /\ agreed'["random"][q] = agreed["random"][q]
        BY <1>5, <1>8, <1>9, <1>10, <3>2
      <4> QED
        BY <1>1, <1>2, <4>1 DEF Bound, RandomBound
    <3> QED
      BY <3>1, <3>2
  <2> QED
    BY <2>1, <2>2 DEF Bound
<1>14. Steady
  BY <1>5, <1>8, <1>12 DEF Steady
<1>15. reload' \notin {"idle", "prepared"} => Unagreed'
  <2>1. reload \notin {"idle", "prepared"} => Unagreed /\ ~Notes(r)
    BY <1>5, AgreedParts
  <2> QED
    BY <1>1, <1>8, <2>1 DEF Unagreed
<1>16. AgreedBound'
  BY <1>8, <1>13, <1>15, AgreedParts DEF AgreedBound, Agreements, Unagreed, Bound, AutoBound,
        RandomBound
<1> QED
  BY <1>14, <1>16

\* A step that changes the marks of a chain where nobody agreed.
LEMMA AgreedMarks ==
    ASSUME AgreedBound, UNCHANGED <<view, active, reload, health, bindings>>,
           agreed' \in Agreements,
           \A k \in {"auto", "random"} : \A s \in Sessions :
              agreed'[k][s] \in {agreed[k][s], None},
           chain'[active].session = chain[active].session,
           \A s \in Sessions : agreed'["auto"][s] # None =>
              LET i == chain[active].session[s] IN
              chain[active].failed[i] # "cooling" => chain'[active].failed[i] # "cooling"
    PROVE  AgreedBound' /\ Steady
<1>1. \A s \in Sessions : Bound(s)
  BY AgreedParts
<1>2. ASSUME NEW s \in Sessions
      PROVE  Bound(s)'
  <2>1. RandomBound(s, agreed["random"][s])'
    BY <1>1 DEF Bound, RandomBound
  <2>2. AutoBound(s, agreed["auto"][s])'
    BY <1>1 DEF Bound, AutoBound
  <2> QED
    BY <2>1, <2>2 DEF Bound
<1> QED
  BY <1>2, AgreedReduced

\* The place of a session that agreed is an entry of the active chain.
LEMMA AgreedPlace ==
    ASSUME ViewsOK, ChainsOK, AgreedBound, NEW s \in Sessions, agreed["auto"][s] # None
    PROVE  /\ chain[active].session[s] \in 1 .. Len(chain[active].failed)
           /\ view[active].chain[chain[active].session[s]] = agreed["auto"][s]
<1>1. active \in Views /\ Sound(chain[active]) /\ Linked(active)
  BY ViewFacts DEF ViewsOK, ChainsOK
<1>2. chain[active].session[s] \in Nat /\ Len(chain[active].failed) \in Nat
  BY <1>1, SoundFacts
<1>3. chain[active].session[s] # 0 /\ view[active].chain[chain[active].session[s]] = agreed["auto"][s]
  BY AgreedParts DEF Bound, AutoBound
<1> QED
  BY <1>1, <1>2, <1>3 DEF Linked

LEMMA RestoreAgreed ==
    ASSUME ViewsOK, ChainsOK, AgreedBound, NEW r \in Requests, Restore(r)
    PROVE  AgreedBound' /\ Steady
<1> DEFINE d == restoreProvider(at[r], route[r].provider)
<1>1. /\ UNCHANGED <<view, active, reload, health, bindings, agreed>>
      /\ chain' = [chain EXCEPT ![at[r]] = d]
  BY DEF Restore, viewVars, healthVars
<1>2. at[r] \in Views /\ active \in Views /\ Sound(chain[at[r]]) /\ chain \in [Views -> ChainRec]
  BY KeyFacts, OwnChain DEF ViewsOK, ChainsOK, Chain
<1>3. /\ d.session = chain[at[r]].session
      /\ \A i \in 1 .. Len(chain[at[r]].failed) : d.failed[i] \in {chain[at[r]].failed[i], "no"}
  BY <1>2, RestoreEffect
<1>4. chain'[active] = IF at[r] = active THEN d ELSE chain[active]
  BY <1>1, <1>2
<1> HIDE DEF d
<1>5. chain'[active].session = chain[active].session
  BY <1>3, <1>4
<1>6. \A i \in 1 .. Len(chain[active].failed) :
         chain[active].failed[i] # "cooling" => chain'[active].failed[i] # "cooling"
  BY <1>3, <1>4
<1>7. \A s \in Sessions : agreed'["auto"][s] # None =>
         chain[active].session[s] \in 1 .. Len(chain[active].failed)
  BY <1>1, AgreedPlace
<1>8. agreed' \in Agreements /\ \A k \in {"auto", "random"} : \A s \in Sessions :
         agreed'[k][s] \in {agreed[k][s], None}
  BY <1>1, AgreedParts
<1> QED
  BY <1>1, <1>5, <1>6, <1>7, <1>8, AgreedMarks

LEMMA FailAgreed ==
    ASSUME ViewsOK, ChainsOK, RequestsOK, AgreedBound, NEW r \in Requests, Fail(r)
    PROVE  AgreedBound' /\ Steady
<1> DEFINE d == recordFailure(at[r], route[r].index)
           p == route[r].provider
<1>1. /\ UNCHANGED <<view, active, reload, health, bindings>> /\ phase[r] = "sent"
      /\ chain' = IF Kind(r) # "auto" THEN chain ELSE [chain EXCEPT ![at[r]] = d]
      /\ agreed' = [agreed EXCEPT !["auto"] = [s \in Sessions |->
            IF agreed["auto"][s] = p /\ Kind(r) = "auto" THEN None ELSE agreed["auto"][s]]]
  BY DEF Fail, viewVars, healthVars
<1>2. at[r] \in Views /\ active \in Views /\ Sound(chain[at[r]]) /\ chain \in [Views -> ChainRec]
  BY KeyFacts, OwnChain DEF ViewsOK, ChainsOK, Chain
<1>3. agreed \in Agreements
  BY AgreedParts
<1>4. /\ agreed' \in Agreements
      /\ \A s \in Sessions : agreed'["random"][s] = agreed["random"][s]
      /\ \A s \in Sessions : agreed'["auto"][s] =
            IF agreed["auto"][s] = p /\ Kind(r) = "auto" THEN None ELSE agreed["auto"][s]
  BY <1>1, <1>3 DEF Agreements
<1>5. \A k \in {"auto", "random"} : \A s \in Sessions : agreed'[k][s] \in {agreed[k][s], None}
  BY <1>4
<1>6. CASE Kind(r) # "auto" \/ at[r] # active
  <2>1. chain'[active] = chain[active]
    BY <1>1, <1>2, <1>6
  <2> QED
    BY <1>1, <1>4, <1>5, <2>1, AgreedMarks
<1>7. CASE Kind(r) = "auto" /\ at[r] = active
  <2>1. /\ r \in auto /\ route[r].index \in DOMAIN view[active].chain
        /\ view[active].chain[route[r].index] = p
    BY <1>1, <1>7, KeyFacts DEF RequestsOK, RequestsInStep
  <2>2. route[r].index \in 1 .. Len(chain[at[r]].failed)
    BY <1>7, <2>1, OwnChain DEF Linked
  <2>3. /\ d.session = chain[active].session
        /\ \A j \in 1 .. Len(chain[active].failed) :
              j # route[r].index => d.failed[j] = chain[active].failed[j]
    BY <1>2, <1>7, <2>2, FailureEffect
  <2>4. chain'[active] = d
    BY <1>1, <1>2, <1>7
  <2> HIDE DEF d
  <2>5. ASSUME NEW s \in Sessions, agreed'["auto"][s] # None
        PROVE  chain'[active].failed[chain[active].session[s]]
                  = chain[active].failed[chain[active].session[s]]
    <3>1. agreed["auto"][s] # None /\ agreed["auto"][s] # p
      BY <1>4, <1>7, <2>5
    <3>2. /\ chain[active].session[s] \in 1 .. Len(chain[active].failed)
          /\ view[active].chain[chain[active].session[s]] # p
      BY <3>1, AgreedPlace
    <3>3. chain[active].session[s] # route[r].index
      BY <2>1, <3>2
    <3> QED
      BY <2>3, <2>4, <3>2, <3>3
  <2> QED
    BY <1>1, <1>4, <1>5, <2>3, <2>4, <2>5, AgreedMarks
<1> QED
  BY <1>6, <1>7

LEMMA ElapseAgreed ==
    ASSUME ViewsOK, ChainsOK, AgreedBound, NEW v \in Views, NEW i, Elapse(v, i)
    PROVE  AgreedBound' /\ Steady
<1> DEFINE d == [chain[v] EXCEPT !.failed[i] = "due"]
<1>1. /\ UNCHANGED <<view, active, reload, health, bindings, agreed>>
      /\ chain' = [chain EXCEPT ![v] = d] /\ i \in DOMAIN chain[v].failed
  BY DEF Elapse, viewVars, healthVars
<1>2. active \in Views /\ Sound(chain[v]) /\ chain \in [Views -> ChainRec]
  BY DEF ViewsOK, ChainsOK
<1>3. i \in 1 .. Len(chain[v].failed)
  BY <1>1, <1>2, SoundFacts
<1>4. /\ d.session = chain[v].session
      /\ \A j \in 1 .. Len(chain[v].failed) : d.failed[j] \in {chain[v].failed[j], "due"}
  BY <1>2, <1>3, ElapseEffect
<1>5. chain'[active] = IF v = active THEN d ELSE chain[active]
  BY <1>1, <1>2
<1> HIDE DEF d
<1>6. chain'[active].session = chain[active].session
  BY <1>4, <1>5
<1>7. \A j \in 1 .. Len(chain[active].failed) :
         chain[active].failed[j] # "cooling" => chain'[active].failed[j] # "cooling"
  BY <1>4, <1>5
<1>8. \A s \in Sessions : agreed'["auto"][s] # None =>
         chain[active].session[s] \in 1 .. Len(chain[active].failed)
  BY <1>1, AgreedPlace
<1>9. agreed' \in Agreements /\ \A k \in {"auto", "random"} : \A s \in Sessions :
         agreed'[k][s] \in {agreed[k][s], None}
  BY <1>1, AgreedParts
<1> QED
  BY <1>1, <1>6, <1>7, <1>8, <1>9, AgreedMarks

LEMMA SetHealthAgreed ==
    ASSUME RequestsOK, AgreedBound, NEW p \in Providers, NEW h \in Health, SetHealth(p, h)
    PROVE  AgreedBound' /\ Steady
<1>1. /\ UNCHANGED <<view, active, reload, chain, bindings>>
      /\ health' = [health EXCEPT ![p] = h]
      /\ agreed' = [k \in DOMAIN agreed |-> [s \in Sessions |->
                     IF agreed[k][s] = p /\ h # "ready" THEN None ELSE agreed[k][s]]]
  BY DEF SetHealth, viewVars, routeVars
<1>2. agreed \in Agreements /\ \A s \in Sessions : Bound(s)
  BY AgreedParts
<1>3. /\ agreed' \in Agreements
      /\ \A k \in {"auto", "random"} : \A s \in Sessions : agreed'[k][s] =
            IF agreed[k][s] = p /\ h # "ready" THEN None ELSE agreed[k][s]
  BY <1>1, <1>2 DEF Agreements
<1>4. \A q \in Providers : health'[q] = IF q = p THEN h ELSE health[q]
  BY <1>1 DEF RequestsOK
<1>5. \A k \in {"auto", "random"} : \A s \in Sessions : agreed[k][s] \in Providers \cup {None}
  BY <1>2 DEF Agreements
<1>6. ASSUME NEW s \in Sessions
      PROVE  Bound(s)'
  <2>1. RandomBound(s, agreed["random"][s])'
    BY <1>1, <1>2, <1>3, <1>4, <1>5 DEF Bound, RandomBound
  <2>2. AutoBound(s, agreed["auto"][s])'
    BY <1>1, <1>2, <1>3, <1>4, <1>5 DEF Bound, AutoBound
  <2> QED
    BY <2>1, <2>2 DEF Bound
<1>7. \A k \in {"auto", "random"} : \A s \in Sessions : agreed'[k][s] \in {agreed[k][s], None}
  BY <1>3
<1> QED
  BY <1>1, <1>3, <1>6, <1>7, AgreedReduced

LEMMA ExpireAgreed ==
    ASSUME ViewsOK, ChainsOK, BindingsOK, AgreedBound, NEW s \in Sessions,
           ExpireBinding(s) \/ \E v \in Views : ExpirePlace(v, s)
    PROVE  AgreedBound' /\ Steady
<1>1. UNCHANGED <<view, active, reload, health>>
  BY DEF ExpireBinding, ExpirePlace, viewVars, healthVars
<1>2. agreed \in Agreements /\ active \in Views /\ \A q \in Sessions : Bound(q)
  BY AgreedParts DEF ViewsOK
<1>3. CASE ExpireBinding(s)
  <2>1. /\ bindings' = [bindings EXCEPT ![s] = NoBinding] /\ chain' = chain
        /\ agreed' = [agreed EXCEPT !["random"][s] = None]
    BY <1>3 DEF ExpireBinding
  <2>2. \A q \in Sessions : q # s => bindings'[q] = bindings[q]
    BY <2>1 DEF BindingsOK
  <2>3. /\ agreed' \in Agreements
        /\ \A q \in Sessions : agreed'["auto"][q] = agreed["auto"][q]
        /\ \A q \in Sessions : agreed'["random"][q] = IF q = s THEN None ELSE agreed["random"][q]
    BY <1>2, <2>1 DEF Agreements
  <2>4. \A q \in Sessions : Bound(q)'
    BY <1>1, <1>2, <2>1, <2>2, <2>3 DEF Bound, AutoBound, RandomBound
  <2>5. \A k \in {"auto", "random"} : \A q \in Sessions : agreed'[k][q] \in {agreed[k][q], None}
    BY <2>3
  <2> QED
    BY <1>1, <2>3, <2>4, <2>5, AgreedReduced
<1>4. ASSUME NEW v \in Views, ExpirePlace(v, s)
      PROVE  AgreedBound' /\ Steady
  <2> DEFINE d == [chain[v] EXCEPT !.session[s] = 0]
  <2>1. /\ bindings' = bindings /\ chain' = [chain EXCEPT ![v] = d]
        /\ agreed' = [agreed EXCEPT !["auto"][s] = None]
    BY <1>4 DEF ExpirePlace
  <2>2. Sound(chain[v]) /\ chain \in [Views -> ChainRec]
    BY DEF ChainsOK
  <2>3. /\ d.failed = chain[v].failed /\ d.session = [chain[v].session EXCEPT ![s] = 0]
        /\ chain[v].session \in [Sessions -> Nat]
    BY <2>2, SoundBound, SoundFacts
  <2>4. chain'[active] = IF v = active THEN d ELSE chain[active]
    BY <1>2, <2>1, <2>2
  <2> HIDE DEF d
  <2>5. /\ chain'[active].failed = chain[active].failed
        /\ \A q \in Sessions : q # s => chain'[active].session[q] = chain[active].session[q]
    BY <2>3, <2>4
  <2>6. /\ agreed' \in Agreements
        /\ \A q \in Sessions : agreed'["random"][q] = agreed["random"][q]
        /\ \A q \in Sessions : agreed'["auto"][q] = IF q = s THEN None ELSE agreed["auto"][q]
    BY <1>2, <2>1 DEF Agreements
  <2>7. \A q \in Sessions : Bound(q)'
    BY <1>1, <1>2, <2>1, <2>5, <2>6 DEF Bound, AutoBound, RandomBound
  <2>8. \A k \in {"auto", "random"} : \A q \in Sessions : agreed'[k][q] \in {agreed[k][q], None}
    BY <2>6
  <2> QED
    BY <1>1, <2>6, <2>7, <2>8, AgreedReduced
<1> QED
  BY <1>3, <1>4

\* During a reload nobody has agreed on anything.
LEMMA ReloadAgreed ==
    ASSUME ViewsOK, AgreedBound,
           Prepare \/ ActivateHealth \/ ActivateChain \/ ActivateAffinity \/ Publish
    PROVE  AgreedBound' /\ Steady
<1>1. agreed \in Agreements
  BY AgreedParts
<1>2. CASE Prepare
  <2>1. /\ view'[active] = view[active] /\ active' = active
        /\ UNCHANGED <<agreed, health, bindings, chain>>
        /\ reload = "idle" /\ reload' = "prepared"
    BY <1>2, PrepareViews, ViewFacts DEF Prepare, ViewsOK, routeVars, healthVars
  <2>2. \A s \in Sessions : Bound(s)'
    BY <2>1, AgreedParts DEF Bound, AutoBound, RandomBound
  <2>3. AgreedBound'
    BY <1>1, <2>1, <2>2 DEF AgreedBound, Agreements, Bound, AutoBound, RandomBound
  <2> QED
    BY <2>1, <2>3 DEF Steady
<1>3. CASE ActivateHealth \/ ActivateChain \/ ActivateAffinity \/ Publish
  <2>1. agreed' \in Agreements /\ Unagreed'
    <3>1. CASE ActivateHealth
      <4>1. agreed' = [k \in DOMAIN agreed |-> [s \in Sessions |-> None]]
        BY <3>1 DEF ActivateHealth
      <4> QED
        BY <1>1, <4>1 DEF Agreements, Unagreed
    <3>2. CASE ActivateChain \/ ActivateAffinity \/ Publish
      <4>1. agreed' = agreed /\ Unagreed
        BY <3>2, AgreedParts DEF ActivateChain, ActivateAffinity, Publish
      <4> QED
        BY <1>1, <4>1 DEF Unagreed
    <3> QED
      BY <1>3, <3>1, <3>2
  <2>2. AgreedBound'
    BY <2>1 DEF AgreedBound, Agreements, Unagreed
  <2>3. Steady
    BY <2>1 DEF Steady, Unagreed
  <2> QED
    BY <2>2, <2>3
<1> QED
  BY <1>2, <1>3

LEMMA AgreedNext ==
    ASSUME ViewsOK, ChainsOK, BindingsOK, RequestsOK, AgreedBound, [Next]_vars
    PROVE  AgreedBound' /\ Steady
<1>1. ASSUME NEW r \in Requests, Step(r), ~SelectInChain(r), ~SelectProvider(r), ~Restore(r),
             ~Fail(r)
      PROVE  AgreedBound' /\ Steady
  <2>1. UNCHANGED <<agreed, reload, health, bindings, active, view, chain>>
    BY <1>1 DEF Step, Admit, Look, Choose, SelectUnbound, Dispatch, Refuse, Abort, Again,
          Succeed, routeVars, viewVars, healthVars
  <2> QED
    BY <2>1, AgreedSame
<1>2. ASSUME NEW r \in Requests, Step(r)
      PROVE  AgreedBound' /\ Steady
  BY <1>1, <1>2, SelectInChainAgreed, SelectProviderAgreed, RestoreAgreed, FailAgreed
<1>3. CASE UNCHANGED vars
  BY <1>3, AgreedSame DEF vars, routeVars, viewVars, healthVars
<1> QED
  BY <1>2, <1>3, ElapseAgreed, SetHealthAgreed, ExpireAgreed, ReloadAgreed DEF Next

-----------------------------------------------------------------------------
(* The inductive invariant.                                                *)

LEMMA InitInvariant == Init => IInv
<1> SUFFICES ASSUME Init
             PROVE  IInv
  OBVIOUS
<1>1. PICK g \in FirstConfigs :
         /\ view = [v \in Views |-> ViewOf(g, {}, [p \in Providers |-> 1])]
         /\ chain = [v \in Views |-> NewChain(Len(g.chain))]
  BY DEF Init
<1>2. g \in Configs /\ 0 \in Views /\ 1 \in 0 .. MaxReloads + 1 /\ 0 \in 0 .. MaxReloads + 1
  BY RoutingAssumptions DEF Views
<1>3. Cardinality(Providers) \in Nat /\ None \notin Providers
  BY RoutingAssumptions, FS_CardinalityType
<1>4. ViewsOK
  <2> DEFINE w == ViewOf(g, {}, [p \in Providers |-> 1])
  <2>1. [p \in Providers |-> 1] \in [Providers -> 0 .. MaxReloads + 1]
    BY <1>2
  <2>2. ViewShaped(w)
    BY <1>2, <2>1, ViewMade
  <2> HIDE DEF w
  <2>3. view = [v \in Views |-> w]
    BY <1>1 DEF w
  <2>4. view \in [Views -> ViewRec] /\ \A v \in Views : ViewShaped(view[v])
    BY <2>2, <2>3 DEF ViewShaped
  <2>5. /\ active = 0 /\ activeEpoch = 0 /\ healthEpoch = 0 /\ reload = "idle"
        /\ at = [r \in Requests |-> 0]
    BY DEF Init
  <2>6. EpochsInStep
    BY <2>5 DEF EpochsInStep
  <2> QED
    BY <1>2, <2>4, <2>5, <2>6 DEF ViewsOK
<1>5. ChainsOK
  <2> DEFINE n == Len(g.chain)
             c == NewChain(n)
  <2>1. n \in Nat
    BY <1>2, RoutingAssumptions, SeqFacts
  <2> HIDE DEF n
  <2>2. /\ c.next = 1 /\ c.failed = [i \in 1 .. n |-> "no"]
        /\ c.session = [s \in Sessions |-> 0]
    BY DEF NewChain
  <2>3. c.failed \in [1 .. n -> Marks]
    BY <2>2 DEF Marks
  <2>4. c.failed \in Seq(Marks) /\ Len(c.failed) = n
    BY <2>1, <2>3, SeqOf
  <2>5. c \in ChainRec
    BY <2>2, <2>4 DEF NewChain, ChainRec
  <2>6. Sound(c)
    BY <2>1, <2>2, <2>4, <2>5 DEF Sound
  <2> HIDE DEF c
  <2>7. chain = [v \in Views |-> c]
    BY <1>1 DEF c, n
  <2>8. \A v \in Views : Len(view[v].chain) = n
    BY <1>1 DEF ViewOf, n
  <2>9. \A v \in Views : Linked(v)
    BY <2>1, <2>2, <2>4, <2>7, <2>8 DEF Linked
  <2> QED
    BY <2>5, <2>6, <2>7, <2>9 DEF ChainsOK
<1>6. BindingsOK
  BY <1>2 DEF Init, NoBinding, BindingsOK, BindingRec, BindingsUsable
<1>7. RequestsOK
  <2>1. /\ health = [p \in Providers |-> "ready"] /\ auto \in AutoSets
        /\ phase = [r \in Requests |-> "idle"] /\ route = [r \in Requests |-> NoRoute]
        /\ tries = [r \in Requests |-> -1] /\ sent = [r \in Requests |-> 0]
    BY DEF Init
  <2>2. -1 \in -1 .. Cardinality(Providers) /\ auto \subseteq Requests
    BY <1>3, <2>1, RoutingAssumptions
  <2>3. /\ health \in [Providers -> Health] /\ phase \in [Requests -> Phases]
        /\ route \in [Requests -> RouteRec] /\ sent \in [Requests -> Nat]
        /\ tries \in [Requests -> -1 .. Cardinality(Providers)]
    BY <2>1, <2>2, NoRouteFacts DEF Health, Phases
  <2>4. SingleDispatch /\ RequestsInStep
    BY <2>1 DEF SingleDispatch, RequestsInStep
  <2> QED
    BY <2>2, <2>3, <2>4 DEF RequestsOK
<1>8. AgreedBound
  BY DEF Init, AgreedBound
<1> QED
  BY <1>4, <1>5, <1>6, <1>7, <1>8, Parts

LEMMA NextInvariant ==
    ASSUME IInv, [Next]_vars
    PROVE  IInv' /\ Steady
<1>1. ViewsOK /\ ChainsOK /\ BindingsOK /\ RequestsOK /\ AgreedBound
  BY Parts
<1>2. ViewsOK' /\ ChainsOK' /\ BindingsOK' /\ RequestsOK' /\ AgreedBound' /\ Steady
  BY <1>1, ViewsNext, ChainsNext, BindingsNext, RequestsNext, AgreedNext
<1> QED
  BY <1>2, Parts, PTL

\* The inductive invariant of the routes, the bindings and the reload.
THEOREM Inductive == Spec => []IInv
<1>1. IInv /\ [Next]_vars => IInv'
  BY NextInvariant
<1> QED
  BY <1>1, InitInvariant, PTL DEF Spec

\* No entry of a chain is ever passed over and forgotten, and no request is
\* dispatched twice, however many requests select, fail and recover beside each
\* other and beside reloads, for every configuration.
THEOREM ChainsSound == Spec => []ChainsConsistent
<1>1. IInv => ChainsConsistent
  BY DEF IInv
<1> QED
  BY <1>1, Inductive, PTL

\* Every shared binding stays usable by the view of the active epoch.
THEOREM BindingsStayUsable == Spec => []BindingsUsable
<1>1. IInv => BindingsUsable
  BY DEF IInv
<1> QED
  BY <1>1, Inductive, PTL

\* A session keeps its provider over a reload, wherever the new chain has it,
\* and loses its place only with that provider.
THEOREM RoutesKept == Spec => BindingsKeepRoute
<1> DEFINE Kept(s) ==
              LET i == chain[active].session[s]
                  j == chain'[New].session[s]
              IN  /\ j # 0 => i # 0 /\ view[New].chain[j] = view[active].chain[i]
                  /\ i # 0 /\ view[active].chain[i] \in {view[New].chain[k] : k \in DOMAIN view[New].chain}
                        => j # 0
<1>1. ASSUME IInv, ActivateChain, NEW s \in Sessions
      PROVE  Kept(s)
  <2> DEFINE i == chain[active].session[s]
             j == chain'[New].session[s]
  <2>1. ViewsOK /\ ChainsOK /\ New \in Views
    BY <1>1, Parts, ViewFacts DEF ActivateChain
  <2>2. chain'[New] = Reconfigured
    BY <1>1, <2>1 DEF ActivateChain, ChainsOK
  <2>3. j = rebind(i)
    BY <2>2 DEF Reconfigured
  <2>4. ViewShaped(view[New])
    BY <2>1 DEF ViewsOK
  <2>5. i # 0 /\ view[active].chain[i] \in {view[New].chain[k] : k \in DOMAIN view[New].chain}
           => PreservesBinding(i) /\ NewIndex(i) # 0
    BY <2>1, <2>4, NewIndexFacts DEF PreservesBinding, ViewShaped
  <2>6. NewIndex(i) # 0 => view[New].chain[NewIndex(i)] = view[active].chain[i]
    BY <2>1, NewIndexFacts
  <2> HIDE DEF i, j
  <2>7. j # 0 => i # 0 /\ j = NewIndex(i)
    BY <2>3 DEF rebind
  <2>8. i # 0 /\ PreservesBinding(i) => j = NewIndex(i)
    BY <2>3 DEF rebind
  <2> QED
    BY <2>5, <2>6, <2>7, <2>8 DEF i, j
<1>2. IInv /\ [Next]_vars => [ActivateChain => \A s \in Sessions : Kept(s)]_vars
  BY <1>1
<1> QED
  BY <1>2, Inductive, PTL DEF Spec, BindingsKeepRoute

\* Requests of one session agree on its provider until that provider stops
\* being ready, the session expires or a reload takes over.
THEOREM SessionsStayAgreed == Spec => SessionsAgree
<1>1. ASSUME IInv, [Next]_vars
      PROVE  \A k \in DOMAIN agreed : \A s \in Sessions :
                agreed[k][s] # None /\ agreed'[k][s] # None => agreed'[k][s] = agreed[k][s]
  <2>1. DOMAIN agreed = {"auto", "random"}
    BY <1>1, Parts, AgreedParts DEF Agreements
  <2> QED
    BY <1>1, <2>1, NextInvariant DEF Steady
<1>2. IInv /\ [Next]_vars => [\A k \in DOMAIN agreed : \A s \in Sessions :
          agreed[k][s] # None /\ agreed'[k][s] # None => agreed'[k][s] = agreed[k][s]]_vars
  BY <1>1
<1> QED
  BY <1>2, Inductive, PTL DEF Spec, SessionsAgree
============================================================================
