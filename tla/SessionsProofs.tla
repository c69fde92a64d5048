--------------------------- MODULE SessionsProofs ---------------------------
(***************************************************************************)
(* Proofs about Sessions for every finite set of requests, sessions and    *)
(* providers and all limits: the inductive invariant IInv, from it that    *)
(* the limiters count what the requests hold and keep what was retained,   *)
(* and that they implement SessionCapacity.                                *)
(***************************************************************************)
EXTENDS Sessions, FiniteSetTheorems, WellFoundedInduction, TLAPS

EntryMaps == [Ids -> Entry]

\* EntriesShaped, of one entry.
Shaped(e, s) ==
    /\ ~e.known => e = NoEntry
    /\ e.known => e.requests > 0 \/ e.retain
    /\ e.retain => s \in Named

ShapedMap(m) == m \in EntryMaps /\ \A s \in Ids : Shaped(m[s], s)

-----------------------------------------------------------------------------
(* One limiter.                                                            *)

\* A blank entry is well typed and shaped.
LEMMA NoEntryTyped ==
    /\ NoEntry \in Entry /\ ~NoEntry.known /\ ~NoEntry.retain
    /\ NoEntry.requests = 0
    /\ \A s \in Ids : Shaped(NoEntry, s)
  BY DEF NoEntry, Entry, Shaped

\* A limiter without entries.
LEMMA EmptyShaped == ShapedMap(Empty) /\ \A s \in Ids : Empty[s] = NoEntry
  BY NoEntryTyped DEF Empty, ShapedMap, EntryMaps

\* expireLocked keeps an entry as it is or drops one that no request uses and
\* that is idle in both directions.
LEMMA ExpireEffect ==
    ASSUME NEW m, ShapedMap(m)
    PROVE  /\ ShapedMap(expire(m))
           /\ \A s \in Ids :
                 /\ expire(m)[s].requests = m[s].requests
                 /\ expire(m)[s].retain => m[s].retain
                 /\ \/ expire(m)[s] = m[s]
                    \/ /\ expire(m)[s] = NoEntry
                       /\ m[s].requests = 0 /\ m[s].inputIdle /\ m[s].outputIdle
<1>1. \A s \in Ids :
         \/ expire(m)[s] = m[s]
         \/ /\ expire(m)[s] = NoEntry
            /\ m[s].requests = 0 /\ m[s].inputIdle /\ m[s].outputIdle
  BY DEF expire, Idle
<1>2. expire(m) \in EntryMaps
  BY NoEntryTyped DEF expire, ShapedMap, EntryMaps
<1> QED
  BY <1>1, <1>2, NoEntryTyped DEF ShapedMap

\* Updating the fields of an entry leaves an entry.
LEMMA UpdatedTyped ==
    ASSUME NEW e \in Entry, NEW n \in Nat, NEW b \in BOOLEAN
    PROVE  /\ [e EXCEPT !.known = TRUE, !.requests = n, !.inputIdle = FALSE] \in Entry
           /\ [e EXCEPT !.requests = n, !.retain = b] \in Entry
           /\ [e EXCEPT !.outputIdle = b] \in Entry
           /\ [e EXCEPT !.inputIdle = b] \in Entry
  BY DEF Entry

\* Acquiring counts one request more for the session and nothing else.
LEMMA AcquiredEffect ==
    ASSUME NEW m, ShapedMap(m), NEW s \in Ids
    PROVE  /\ ShapedMap(Acquired(m, s))
           /\ Acquired(m, s)[s].requests = m[s].requests + 1
           /\ Acquired(m, s)[s].retain = m[s].retain
           /\ \A u \in Ids : u # s => Acquired(m, s)[u] = m[u]
<1> DEFINE e == [m[s] EXCEPT !.known = TRUE, !.requests = @ + 1, !.inputIdle = FALSE]
<1>1. m \in EntryMaps /\ m[s] \in Entry
  BY DEF ShapedMap, EntryMaps
<1>2. m[s].requests + 1 \in Nat /\ m[s].requests + 1 > 0
  BY <1>1 DEF Entry
<1>3. /\ e.known /\ e.requests = m[s].requests + 1
      /\ e.retain = m[s].retain
  BY <1>1 DEF Entry
<1>4. e \in Entry
  BY <1>1, <1>2, UpdatedTyped
<1>5. Acquired(m, s) = [m EXCEPT ![s] = e]
  BY DEF Acquired
<1> HIDE DEF e
<1>6. Acquired(m, s) \in EntryMaps /\ Acquired(m, s)[s] = e
      /\ \A u \in Ids : u # s => Acquired(m, s)[u] = m[u]
  BY <1>1, <1>4, <1>5 DEF EntryMaps
<1>7. Shaped(e, s)
  BY <1>2, <1>3 DEF Shaped, ShapedMap
<1> QED
  BY <1>3, <1>6, <1>7 DEF ShapedMap

\* Releasing counts one request less; the entry goes with its last request
\* unless it is retained.
LEMMA ReleasedEffect ==
    ASSUME NEW m, ShapedMap(m), NEW s \in Ids, NEW keep \in BOOLEAN,
           keep => s \in Named
    PROVE  /\ ShapedMap(Released(m, s, keep))
           /\ \A u \in Ids : u # s => Released(m, s, keep)[u] = m[u]
           /\ ~m[s].known => Released(m, s, keep) = m
           /\ m[s].requests > 0 =>
                 /\ Released(m, s, keep)[s].requests = m[s].requests - 1
                 /\ Released(m, s, keep)[s].retain <=> m[s].retain \/ keep
<1>1. m \in EntryMaps /\ m[s] \in Entry /\ Shaped(m[s], s)
  BY DEF ShapedMap, EntryMaps
<1>2. CASE ~m[s].known
  <2>1. m[s].requests = 0
    BY <1>1, <1>2, NoEntryTyped DEF Shaped
  <2> QED
    BY <1>1, <1>2, <2>1 DEF Released
<1>3. CASE m[s].known
  <2> DEFINE n == IF m[s].requests > 0 THEN m[s].requests - 1 ELSE m[s].requests
             b == m[s].retain \/ keep
             e == [m[s] EXCEPT !.requests = n, !.retain = b]
             f == IF e.requests = 0 /\ ~e.retain THEN NoEntry ELSE e
  <2>1. n \in Nat /\ b \in BOOLEAN /\ (m[s].requests > 0 => n = m[s].requests - 1)
    BY <1>1 DEF Entry
  <2>2. Released(m, s, keep) = [m EXCEPT ![s] = f]
    BY <1>3 DEF Released
  <2>3. f = e \/ (f = NoEntry /\ e.requests = 0 /\ ~e.retain)
    OBVIOUS
  <2>4. f = e => e.requests # 0 \/ e.retain \/ e = NoEntry
    OBVIOUS
  <2> HIDE DEF n, b, f
  <2>5. e \in Entry /\ e.known /\ e.requests = n /\ (e.retain <=> b)
    <3>1. e.known = m[s].known /\ e.requests = n /\ e.retain = b
      BY <1>1 DEF Entry
    <3> QED
      BY <1>1, <1>3, <2>1, <3>1, UpdatedTyped
  <2> HIDE DEF e
  <2>6. /\ f \in Entry
        /\ m[s].requests > 0 => f.requests = m[s].requests - 1
        /\ f.retain <=> b
    BY <2>1, <2>3, <2>5, NoEntryTyped
  <2>7. Shaped(f, s)
    <3>1. f = e => e.requests > 0 \/ e.retain
      BY <2>1, <2>4, <2>5, NoEntryTyped
    <3>2. b => s \in Named
      BY <1>1 DEF b, Shaped
    <3> QED
      BY <2>3, <2>5, <3>1, <3>2, NoEntryTyped DEF Shaped
  <2>8. /\ Released(m, s, keep) \in EntryMaps /\ Released(m, s, keep)[s] = f
        /\ \A u \in Ids : u # s => Released(m, s, keep)[u] = m[u]
    BY <1>1, <2>2, <2>6 DEF EntryMaps
  <2> QED
    BY <1>3, <2>6, <2>7, <2>8 DEF ShapedMap, b
<1> QED
  BY <1>2, <1>3

\* A limiter that counts no session is empty.
LEMMA CountZero ==
    ASSUME NEW m, ShapedMap(m), Count(m) = 0
    PROVE  m = Empty
<1>1. IsFiniteSet(Ids)
  BY SessionBounds, FS_Union DEF Ids
<1>2. IsFiniteSet({s \in Ids : m[s].known})
  BY <1>1, FS_Subset
<1>3. {s \in Ids : m[s].known} = {}
  BY <1>2, FS_EmptySet DEF Count
<1>4. \A s \in Ids : m[s] = NoEntry
  BY <1>3 DEF ShapedMap, Shaped
<1> QED
  BY <1>4 DEF Empty, ShapedMap, EntryMaps

-----------------------------------------------------------------------------
(* The map of limiters.                                                    *)

\* The limiters of a state that satisfies the invariant.
LEMMA LimitersShaped ==
    ASSUME IInv
    PROVE  /\ Mapped \subseteq Limiters
           /\ \A o \in Limiters : ShapedMap(limiters[o])
           /\ None \notin Limiters
           /\ \A p \in Providers : providerSessions[p] # None =>
                 providerSessions[p] \in Mapped
  BY SessionBounds
     DEF IInv, TypeOK, EntriesShaped, Shaped, ShapedMap, EntryMaps, Mapped

\* A set of requests is finite, and no lease means no holder.
LEMMA HoldersFinite ==
    ASSUME NEW o, NEW s
    PROVE  /\ IsFiniteSet(LeaseHolders(o, s))
           /\ Cardinality(LeaseHolders(o, s)) \in Nat
           /\ Cardinality(LeaseHolders(o, s)) = 0 <=> LeaseHolders(o, s) = {}
<1>1. LeaseHolders(o, s) \in SUBSET Requests
  BY DEF LeaseHolders
<1>2. IsFiniteSet(LeaseHolders(o, s))
  BY <1>1, SessionBounds, FS_Subset
<1> QED
  BY <1>2, FS_CardinalityType, FS_EmptySet

\* The sweep of Stats: entries are kept or were idle and unused.
LEMMA SweptEffect ==
    ASSUME IInv
    PROVE  /\ Swept \in [Limiters -> EntryMaps]
           /\ \A o \in Limiters :
                 /\ ShapedMap(Swept[o])
                 /\ o \notin Mapped => Swept[o] = Empty
                 /\ \A s \in Ids :
                       /\ Swept[o][s].requests = limiters[o][s].requests
                       /\ Swept[o][s].retain => limiters[o][s].retain
                       /\ \/ Swept[o][s] = limiters[o][s]
                          \/ /\ limiters[o][s].requests = 0
                             /\ limiters[o][s].inputIdle /\ limiters[o][s].outputIdle
<1>1. \A o \in Limiters : ShapedMap(limiters[o])
  BY LimitersShaped
<1>2. ASSUME NEW o \in Limiters
      PROVE  /\ ShapedMap(Swept[o])
             /\ o \notin Mapped => Swept[o] = Empty
             /\ \A s \in Ids :
                   /\ Swept[o][s].requests = limiters[o][s].requests
                   /\ Swept[o][s].retain => limiters[o][s].retain
                   /\ \/ Swept[o][s] = limiters[o][s]
                      \/ /\ limiters[o][s].requests = 0
                         /\ limiters[o][s].inputIdle /\ limiters[o][s].outputIdle
  <2>1. CASE o \in Mapped
    <3>1. Swept[o] = expire(limiters[o])
      BY <2>1 DEF Swept
    <3> QED
      BY <1>1, <2>1, <3>1, ExpireEffect
  <2>2. CASE o \notin Mapped
    <3>1. Swept[o] = limiters[o] /\ limiters[o] = Empty
      BY <2>2 DEF Swept, IInv, UnmappedEmpty
    <3> QED
      BY <1>1, <3>1
  <2> QED
    BY <2>1, <2>2
<1> QED
  BY <1>2 DEF Swept, ShapedMap

\* Pruning drops only empty limiters, to which no lease points.
LEMMA PrunedEffect ==
    ASSUME IInv, NEW c, NEW p \in Providers, Pruned(c)[p] # providerSessions[p]
    PROVE  /\ Pruned(c)[p] = None /\ providerSessions[p] \in Mapped
           /\ Swept[providerSessions[p]] = Empty
           /\ \A s \in Ids : LeaseHolders(providerSessions[p], s) = {}
           /\ \A r \in Requests : lease[r] # providerSessions[p]
<1> DEFINE o == providerSessions[p]
<1>1. Pruned(c)[p] = None /\ o # None /\ Count(Swept[o]) = 0
  BY DEF Pruned
<1>2. o \in Mapped /\ o \in Limiters
  BY <1>1, LimitersShaped
<1> HIDE DEF o
<1>3. Swept[o] = Empty
  BY <1>1, <1>2, CountZero, SweptEffect
<1>4. ASSUME NEW s \in Ids
      PROVE  LeaseHolders(o, s) = {}
  <2>1. limiters[o][s].requests = 0
    BY <1>2, <1>3, SweptEffect, EmptyShaped, NoEntryTyped
  <2> QED
    BY <1>2, <2>1, HoldersFinite DEF IInv, MappedCounts
<1>5. ASSUME NEW r \in Requests, lease[r] = o
      PROVE  FALSE
  <2>1. phase[r] # "idle"
    BY <1>1, <1>5 DEF IInv, RequestsShaped, o
  <2>2. id[r] \in Ids
    BY <2>1 DEF IInv, RequestsShaped, Ids
  <2> QED
    BY <1>4, <1>5, <2>2 DEF LeaseHolders
<1> QED
  BY <1>1, <1>2, <1>3, <1>4, <1>5 DEF o

\* There is always an object that nothing points at: the map has one limiter
\* per provider and the request that asks has no lease.
LEMMA FreeLimiter ==
    ASSUME IInv, NEW r \in Requests, lease[r] = None
    PROVE  NewLimiter \in Limiters \ (Mapped \cup {lease[q] : q \in Requests})
<1> DEFINE others == Requests \ {r}
           L == {lease[q] : q \in others}
           U == Mapped \cup {lease[q] : q \in Requests}
           nP == Cardinality(Providers)
           nR == Cardinality(Requests)
<1>1. /\ IsFiniteSet(Providers) /\ nP \in Nat
      /\ IsFiniteSet(Requests) /\ nR \in Nat
      /\ IsFiniteSet(others) /\ Cardinality(others) = nR - 1
  BY SessionBounds, FS_CardinalityType, FS_RemoveElement
<1>2. IsFiniteSet(Mapped) /\ Cardinality(Mapped) <= nP /\ Cardinality(Mapped) \in Nat
  <2> DEFINE M == {providerSessions[p] : p \in Providers}
  <2>1. providerSessions \in Surjection(Providers, M)
    BY DEF IInv, TypeOK, Surjection
  <2>2. IsFiniteSet(M) /\ Cardinality(M) <= nP /\ Cardinality(M) \in Nat
    BY <1>1, <2>1, FS_Surjection, FS_CardinalityType
  <2>3. Mapped \in SUBSET M
    BY DEF Mapped
  <2>4. IsFiniteSet(Mapped) /\ Cardinality(Mapped) <= Cardinality(M)
    BY <2>2, <2>3, FS_Subset
  <2>5. Cardinality(Mapped) \in Nat
    BY <2>4, FS_CardinalityType
  <2> HIDE DEF M, nP
  <2> QED
    BY <1>1, <2>2, <2>4, <2>5
<1>3. IsFiniteSet(L) /\ Cardinality(L) <= nR - 1 /\ Cardinality(L) \in Nat
  <2> DEFINE f == [q \in others |-> lease[q]]
  <2>1. f \in Surjection(others, L)
    BY DEF Surjection
  <2>2. IsFiniteSet(L) /\ Cardinality(L) <= Cardinality(others)
    BY <1>1, <2>1, FS_Surjection
  <2> QED
    BY <1>1, <2>2, FS_CardinalityType
<1>4. IsFiniteSet(Limiters) /\ Cardinality(Limiters) = nP + nR
  <2>1. nP + nR \in Nat /\ nP + nR \in Int /\ 1 \in Int
    BY <1>1
  <2>2. Limiters = 1 .. (nP + nR)
    BY DEF Limiters
  <2> HIDE DEF nP, nR
  <2> QED
    BY <1>1, <2>1, <2>2, FS_Interval
<1>5. Limiters \ U # {}
  <2>1. SUFFICES ASSUME Limiters \subseteq U PROVE FALSE
    OBVIOUS
  <2>2. None \notin Limiters
    BY SessionBounds
  <2>3. Limiters \in SUBSET (Mapped \cup L)
    BY <2>1, <2>2
  <2>4. IsFiniteSet(Mapped \cup L)
        /\ Cardinality(Mapped \cup L) = Cardinality(Mapped) + Cardinality(L)
                                          - Cardinality(Mapped \cap L)
    BY <1>2, <1>3, FS_Union
  <2>5. IsFiniteSet(Mapped \cap L) /\ Cardinality(Mapped \cap L) \in Nat
    <3>1. Mapped \cap L \in SUBSET L
      OBVIOUS
    <3> QED
      BY <1>3, <3>1, FS_Subset, FS_CardinalityType
  <2>6. Cardinality(Limiters) <= Cardinality(Mapped \cup L)
    BY <2>3, <2>4, FS_Subset
  <2> HIDE DEF nP, nR, L
  <2> QED
    BY <1>1, <1>2, <1>3, <1>4, <2>4, <2>5, <2>6
<1> DEFINE S == Limiters \ U
<1>6. S \subseteq Nat
  BY <1>1 DEF Limiters
<1>7. \E o \in S : \A q \in S : o <= q
  <2> DEFINE R == OpToRel(<, Nat)
  <2>1. IsWellFoundedOn(R, Nat)
    BY NatLessThanWellFounded
  <2>2. \A x, y \in Nat : <<x, y>> \in R <=> x < y
    BY DEF OpToRel
  <2>3. S # {}
    BY <1>5
  <2> HIDE DEF S, R
  <2>4. PICK o \in S : \A q \in S : ~(<<q, o>> \in R)
    BY <1>6, <2>1, <2>3, WFMin
  <2>5. ASSUME NEW q \in S
        PROVE  o <= q
    <3>1. q \in Nat /\ o \in Nat
      BY <1>6
    <3>2. ~(q < o)
      BY <2>2, <2>4, <3>1, Zenon
    <3> QED
      BY <3>1, <3>2
  <2> QED
    BY <2>5
<1> HIDE DEF S
<1>8. NewLimiter = CHOOSE o \in S : \A q \in S : o <= q
  BY DEF NewLimiter, S
<1> QED
  BY <1>7, <1>8 DEF S

\* acquireProvider's look-up for a request without a lease: the limiter it
\* uses is the provider's own or one nothing points at.
LEMMA LookupEffect ==
    ASSUME IInv, NEW r \in Requests, lease[r] = None, NEW c, NEW p \in Providers
    PROVE  LET o == LimiterFor(c, p)
           IN  /\ o \in Limiters
               /\ EntriesOf(o) = Swept[o]
               /\ \/ o = providerSessions[p]
                  \/ /\ o \notin Mapped /\ \A q \in Requests : lease[q] # o
                     /\ providerSessions[p] # None =>
                           /\ Swept[providerSessions[p]] = Empty
                           /\ \A q \in Requests : lease[q] # providerSessions[p]
<1> DEFINE o == LimiterFor(c, p)
<1>1. CASE Pruned(c)[p] # None
  <2>1. o = Pruned(c)[p] /\ Pruned(c)[p] = providerSessions[p]
    BY <1>1, PrunedEffect DEF LimiterFor
  <2>2. o \in Mapped /\ o \in Limiters
    BY <1>1, <2>1, LimitersShaped
  <2> QED
    BY <2>1, <2>2 DEF EntriesOf
<1>2. CASE Pruned(c)[p] = None
  <2>1. o \in Limiters /\ o \notin Mapped /\ \A q \in Requests : lease[q] # o
    BY <1>2, FreeLimiter DEF LimiterFor
  <2>2. EntriesOf(o) = Swept[o]
    BY <2>1, SweptEffect DEF EntriesOf
  <2>3. providerSessions[p] # None =>
           /\ Swept[providerSessions[p]] = Empty
           /\ \A q \in Requests : lease[q] # providerSessions[p]
    BY <1>2, PrunedEffect
  <2> QED
    BY <2>1, <2>2, <2>3
<1> QED
  BY <1>1, <1>2

\* What the map is after acquireProvider: still injective, without a limiter
\* that has sessions, and with the limiters all leases point at.
LEMMA MapEffect ==
    ASSUME IInv, NEW r \in Requests, lease[r] = None, NEW c, NEW p \in Providers,
           providerSessions' = [Pruned(c) EXCEPT ![p] = LimiterFor(c, p)]
    PROVE  /\ providerSessions' \in [Providers -> Limiters \cup {None}]
           /\ providerSessions'[p] = LimiterFor(c, p)
           /\ MapInjective'
           /\ \A o \in Limiters \ Mapped' : Swept[o] = Empty
           /\ \A o \in Mapped', s \in Ids :
                 Swept[o][s].requests = Cardinality(LeaseHolders(o, s))
           /\ \A q \in Providers : \A x \in Requests :
                 lease[x] # None =>
                    (providerSessions'[q] = lease[x] <=> providerSessions[q] = lease[x])
           /\ \A q \in Providers : providerSessions'[q] # providerSessions[q] =>
                 /\ providerSessions[q] # None => Swept[providerSessions[q]] = Empty
                 /\ providerSessions'[q] # None => Swept[providerSessions'[q]] = Empty
<1> DEFINE o == LimiterFor(c, p)
<1>1. /\ o \in Limiters
      /\ \/ o = providerSessions[p]
         \/ /\ o \notin Mapped /\ \A q \in Requests : lease[q] # o
            /\ providerSessions[p] # None =>
                  /\ Swept[providerSessions[p]] = Empty
                  /\ \A q \in Requests : lease[q] # providerSessions[p]
  BY LookupEffect
<1>2. \A q \in Providers : providerSessions'[q] = IF q = p THEN o ELSE Pruned(c)[q]
  BY DEF Pruned
<1> HIDE DEF o
<1>3. /\ providerSessions \in [Providers -> Limiters \cup {None}]
      /\ None \notin Limiters /\ Mapped \subseteq Limiters
      /\ \A q \in Providers : providerSessions[q] # None => providerSessions[q] \in Mapped
  BY LimitersShaped DEF IInv, TypeOK
<1>4. \A q \in Providers : Pruned(c)[q] = providerSessions[q] \/ Pruned(c)[q] = None
  BY PrunedEffect
<1>5. providerSessions' \in [Providers -> Limiters \cup {None}]
  BY <1>1, <1>3, <1>4 DEF Pruned, o
<1>6. MapInjective'
  BY <1>1, <1>2, <1>3, <1>4 DEF IInv, MapInjective
<1>7. \A q \in Providers : providerSessions'[q] # providerSessions[q] =>
         /\ providerSessions[q] # None =>
               /\ Swept[providerSessions[q]] = Empty
               /\ \A x \in Requests : lease[x] # providerSessions[q]
         /\ \/ providerSessions'[q] = None
            \/ /\ q = p /\ providerSessions'[q] = o /\ o \notin Mapped
               /\ \A x \in Requests : lease[x] # o
  BY <1>1, <1>2, <1>4, PrunedEffect
<1>8. \A x \in Limiters : x \in Mapped' <=> \E q \in Providers : x = providerSessions'[q]
  BY <1>3 DEF Mapped
<1>9. ASSUME NEW x \in Limiters \ Mapped'
      PROVE  Swept[x] = Empty
  <2>1. CASE x \notin Mapped
    BY <2>1, SweptEffect
  <2>2. CASE x \in Mapped
    <3>1. PICK q \in Providers : x = providerSessions[q]
      BY <2>2 DEF Mapped
    <3>2. providerSessions'[q] # x /\ x # None
      BY <1>3, <1>8, <1>9, <3>1
    <3> QED
      BY <1>7, <3>1, <3>2
  <2> QED
    BY <2>1, <2>2
<1>10. ASSUME NEW x \in Mapped', NEW s \in Ids
       PROVE  Swept[x][s].requests = Cardinality(LeaseHolders(x, s))
  <2>1. PICK q \in Providers : x = providerSessions'[q] /\ x # None
    BY DEF Mapped
  <2>2. x \in Limiters
    BY <1>5, <2>1
  <2>3. CASE x = providerSessions[q]
    <3>1. x \in Mapped
      BY <1>3, <2>1, <2>3
    <3> QED
      BY <2>2, <3>1, SweptEffect DEF IInv, MappedCounts
  <2>4. CASE x # providerSessions[q]
    <3>1. x \notin Mapped /\ \A y \in Requests : lease[y] # x
      BY <1>7, <2>1, <2>4
    <3>2. LeaseHolders(x, s) = {}
      BY <3>1 DEF LeaseHolders
    <3> QED
      BY <2>2, <3>1, <3>2, SweptEffect, EmptyShaped, NoEntryTyped, FS_EmptySet
  <2> QED
    BY <2>3, <2>4
<1>11. \A q \in Providers : \A x \in Requests :
          lease[x] # None =>
             (providerSessions'[q] = lease[x] <=> providerSessions[q] = lease[x])
  BY <1>7
<1>12. \A q \in Providers : providerSessions'[q] # providerSessions[q] =>
          /\ providerSessions[q] # None => Swept[providerSessions[q]] = Empty
          /\ providerSessions'[q] # None => Swept[providerSessions'[q]] = Empty
  BY <1>1, <1>7, SweptEffect
<1>13. providerSessions'[p] = o
  BY <1>2
<1> QED
  BY <1>5, <1>6, <1>9, <1>10, <1>11, <1>12, <1>13 DEF o

-----------------------------------------------------------------------------
(* The initial states and the actions.                                     *)

\* Without requests and limiters the invariant holds.
LEMMA InitInv == Init => IInv
<1> SUFFICES ASSUME Init PROVE IInv
  OBVIOUS
<1>1. NoConfig \in Configs
  BY DEF NoConfig, Configs
<1>2. Empty \in EntryMaps /\ \A s \in Ids : Empty[s] = NoEntry
  BY EmptyShaped DEF ShapedMap
<1>3. TypeOK
  BY <1>1, <1>2 DEF Init, TypeOK, EntryMaps
<1>4. Mapped = {}
  BY DEF Init, Mapped
<1>5. EntriesShaped
  BY <1>2, NoEntryTyped DEF Init, EntriesShaped
<1> QED
  BY <1>3, <1>4, <1>5
     DEF Init, IInv, MapInjective, RequestsShaped, MappedCounts, UnmappedEmpty, LeasesRouted

\* A step that leaves the map and the leases alone keeps the invariant if it
\* keeps the counts and the shape of the entries.
LEMMA EntriesInv ==
    ASSUME IInv, TypeOK', RequestsShaped',
           UNCHANGED <<closed, providerSessions, lease, route>>,
           \A r \in Requests : lease[r] # None => id'[r] = id[r],
           \A o \in Limiters : ShapedMap(limiters'[o]),
           \A o \in Limiters : o \notin Mapped => limiters'[o] = limiters[o],
           \A o \in Limiters, s \in Ids :
              limiters'[o][s].requests = limiters[o][s].requests
    PROVE  IInv'
<1>1. Mapped' = Mapped /\ Mapped \subseteq Limiters /\ None \notin Mapped
  BY LimitersShaped DEF Mapped
<1>2. MapInjective' /\ LeasesRouted'
  BY DEF IInv, MapInjective, LeasesRouted
<1>3. EntriesShaped'
  BY DEF EntriesShaped, ShapedMap, Shaped
<1>4. UnmappedEmpty'
  BY <1>1 DEF IInv, UnmappedEmpty
<1>5. MappedCounts'
  <2> SUFFICES ASSUME NEW o \in Mapped, NEW s \in Ids
               PROVE  limiters'[o][s].requests = Cardinality(LeaseHolders(o, s)')
    BY <1>1 DEF MappedCounts
  <2>1. LeaseHolders(o, s)' = LeaseHolders(o, s)
    BY <1>1 DEF LeaseHolders
  <2> QED
    BY <1>1, <2>1 DEF IInv, MappedCounts
<1> QED
  BY <1>2, <1>3, <1>4, <1>5 DEF IInv

\* Admission gives a request without a lease its view and its session.
LEMMA AdmitInv ==
    ASSUME IInv, NEW r \in Requests, NEW s \in Ids, NEW streams \in BOOLEAN,
           Admit(r, s, streams)
    PROVE  IInv'
<1>1. TypeOK'
  BY DEF IInv, TypeOK, Admit, envVars, tableVars
<1>2. RequestsShaped' /\ lease[r] = None
  BY DEF IInv, TypeOK, RequestsShaped, Admit
<1> QED
  BY <1>1, <1>2, EntriesInv, LimitersShaped
     DEF Admit, envVars, tableVars, IInv, TypeOK

\* A rejected route, a successful call and a failed delivery only move the
\* request.
LEMMA MoveInv ==
    ASSUME IInv, NEW r \in Requests,
           RouteRejected(r) \/ CallSucceeded(r) \/ NotDelivered(r)
    PROVE  IInv'
<1> USE DEF RouteRejected, CallSucceeded, NotDelivered, envVars, tableVars
<1>1. TypeOK'
  BY DEF IInv, TypeOK
<1>2. RequestsShaped'
  BY DEF IInv, TypeOK, RequestsShaped
<1> QED
  BY <1>1, <1>2, EntriesInv, LimitersShaped

\* TouchOutput changes one entry's idle time.
LEMMA TouchEffect ==
    ASSUME IInv, NEW r \in Requests, touchOutput(r)
    PROVE  /\ limiters' \in [Limiters -> EntryMaps]
           /\ \A o \in Limiters :
                 /\ ShapedMap(limiters'[o])
                 /\ o \notin Mapped => limiters'[o] = limiters[o]
                 /\ \A s \in Ids :
                       /\ limiters'[o][s].requests = limiters[o][s].requests
                       /\ limiters'[o][s].retain = limiters[o][s].retain
<1>1. /\ limiters \in [Limiters -> EntryMaps]
      /\ \A o \in Limiters : ShapedMap(limiters[o])
  BY LimitersShaped DEF IInv, TypeOK, EntryMaps
<1>2. CASE ~(lease[r] # None /\ limiters[lease[r]][id[r]].known)
  BY <1>1, <1>2 DEF touchOutput
<1>3. CASE lease[r] # None /\ limiters[lease[r]][id[r]].known
  <2> DEFINE o == lease[r]
             s == id[r]
             e == [limiters[o][s] EXCEPT !.outputIdle = FALSE]
  <2>1. o \in Limiters /\ s \in Ids
    <3>1. phase[r] # "idle"
      BY <1>3 DEF IInv, RequestsShaped
    <3> QED
      BY <1>3, <3>1 DEF IInv, TypeOK, RequestsShaped, Ids
  <2>2. limiters[o][s] \in Entry /\ Shaped(limiters[o][s], s) /\ limiters[o][s].known
    BY <1>1, <1>3, <2>1 DEF ShapedMap, EntryMaps
  <2>3. limiters' = [limiters EXCEPT ![o] = [limiters[o] EXCEPT ![s] = e]]
    BY <1>3 DEF touchOutput
  <2>4. /\ e.requests = limiters[o][s].requests
        /\ e.retain = limiters[o][s].retain /\ e.known = limiters[o][s].known
    BY <2>2 DEF Entry
  <2>5. e \in Entry
    BY <2>2, UpdatedTyped
  <2>6. o \in Mapped
    BY <2>1, <2>2, EmptyShaped, NoEntryTyped DEF IInv, UnmappedEmpty
  <2> HIDE DEF o, s, e
  <2>7. Shaped(e, s)
    BY <2>2, <2>4 DEF Shaped
  <2>8. [limiters[o] EXCEPT ![s] = e] \in EntryMaps
    BY <1>1, <2>1, <2>5 DEF EntryMaps
  <2>9. limiters' \in [Limiters -> EntryMaps]
    BY <1>1, <2>1, <2>3, <2>8
  <2>10. \A x \in Limiters, y \in Ids :
            limiters'[x][y] = IF x = o /\ y = s THEN e ELSE limiters[x][y]
    BY <1>1, <2>1, <2>3, <2>8 DEF EntryMaps
  <2>11. \A x \in Limiters : x # o => limiters'[x] = limiters[x]
    BY <1>1, <2>1, <2>3
  <2>12. \A x \in Limiters : ShapedMap(limiters'[x])
    BY <1>1, <2>7, <2>9, <2>10 DEF ShapedMap
  <2> QED
    BY <2>4, <2>6, <2>9, <2>10, <2>11, <2>12
<1> QED
  BY <1>2, <1>3

\* Frames and delivered answers touch one entry; the answer of a named session
\* that did not stream will retain it.
LEMMA DeliverInv ==
    ASSUME IInv, NEW r \in Requests, Send(r) \/ Delivered(r)
    PROVE  IInv'
<1>1. \/ touchOutput(r)
      \/ limiters' = limiters
  BY DEF Send, Delivered
<1>2. /\ limiters' \in [Limiters -> EntryMaps]
      /\ \A o \in Limiters :
            /\ ShapedMap(limiters'[o])
            /\ o \notin Mapped => limiters'[o] = limiters[o]
            /\ \A s \in Ids : limiters'[o][s].requests = limiters[o][s].requests
  <2>1. CASE touchOutput(r)
    BY <2>1, TouchEffect
  <2>2. CASE limiters' = limiters
    BY <2>2, LimitersShaped DEF IInv, TypeOK, EntryMaps
  <2> QED
    BY <1>1, <2>1, <2>2
<1>3. UNCHANGED <<closed, config, reloads, providerSessions, view, id, stream, route, lease>>
  BY DEF Send, Delivered, envVars, leaseVars
<1>4. CASE Send(r)
  <2>1. phase' = phase /\ retain' = retain
    BY <1>4 DEF Send, leaseVars
  <2>2. TypeOK'
    BY <1>2, <1>3, <2>1 DEF IInv, TypeOK, EntryMaps
  <2>3. RequestsShaped'
    BY <1>3, <2>1 DEF IInv, RequestsShaped
  <2> QED
    BY <1>2, <1>3, <2>2, <2>3, EntriesInv
<1>5. CASE Delivered(r)
  <2>1. /\ phase[r] = "delivering" /\ phase' = [phase EXCEPT ![r] = "ending"]
        /\ retain' = [retain EXCEPT ![r] = DeliveredRetains(r)]
    BY <1>5 DEF Delivered
  <2>2. DeliveredRetains(r) \in BOOLEAN /\ (DeliveredRetains(r) => id[r] \in Named)
    BY DEF DeliveredRetains
  <2>3. TypeOK'
    BY <1>2, <1>3, <2>1, <2>2 DEF IInv, TypeOK, EntryMaps
  <2>4. RequestsShaped'
    BY <1>3, <2>1, <2>2 DEF IInv, TypeOK, RequestsShaped
  <2> QED
    BY <1>2, <1>3, <2>3, <2>4, EntriesInv
<1> QED
  BY <1>4, <1>5

\* acquireProvider, whatever it answers: the sweep, the pruning and the new
\* limiter keep the invariant, and an admitted request is counted.
LEMMA AcquireInv ==
    ASSUME IInv, NEW r \in Requests, NEW p \in Providers,
           Acquire(r, p) \/ AcquireRejected(r, p) \/ AcquireCanceled(r, p)
    PROVE  IInv'
<1> DEFINE c == view[r]
           o == LimiterFor(c, p)
<1>1. phase[r] = "routing" /\ lease[r] = None /\ id[r] \in Ids
  BY DEF IInv, RequestsShaped, Acquire, AcquireRejected, AcquireCanceled, Ids
<1>2. /\ providerSessions' = [Pruned(c) EXCEPT ![p] = o]
      /\ UNCHANGED <<config, reloads, closed, view, id, stream, retain>>
  BY DEF Acquire, AcquireRejected, AcquireCanceled, updateMap, envVars
<1>3. o \in Limiters /\ EntriesOf(o) = Swept[o]
  BY <1>1, LookupEffect
<1>4. /\ providerSessions' \in [Providers -> Limiters \cup {None}]
      /\ providerSessions'[p] = o
      /\ MapInjective'
      /\ \A x \in Limiters \ Mapped' : Swept[x] = Empty
      /\ \A x \in Mapped', s \in Ids :
            Swept[x][s].requests = Cardinality(LeaseHolders(x, s))
      /\ \A q \in Providers : \A x \in Requests :
            lease[x] # None =>
               (providerSessions'[q] = lease[x] <=> providerSessions[q] = lease[x])
  BY <1>1, <1>2, MapEffect
<1>5. Swept \in [Limiters -> EntryMaps] /\ \A x \in Limiters : ShapedMap(Swept[x])
  BY SweptEffect
<1>6. None \notin Limiters /\ o # None
  BY <1>3, LimitersShaped
<1>7. \/ o = providerSessions[p]
      \/ \A q \in Requests : lease[q] # o
  BY <1>1, LookupEffect
<1> HIDE DEF c, o
<1>8. Mapped' \subseteq Limiters
  BY <1>4 DEF Mapped
<1>9. CASE AcquireRejected(r, p) \/ AcquireCanceled(r, p)
  <2>1. limiters' = [Swept EXCEPT ![o] = EntriesOf(o)]
    BY <1>9 DEF AcquireRejected, AcquireCanceled, updateMap, c, o
  <2>2. limiters' = Swept
    BY <1>3, <1>5, <2>1
  <2>3. phase' = [phase EXCEPT ![r] = "ending"] /\ route' = route /\ lease' = lease
    BY <1>9 DEF AcquireRejected, AcquireCanceled
  <2>4. TypeOK'
    BY <1>2, <1>4, <1>5, <2>2, <2>3 DEF IInv, TypeOK, EntryMaps
  <2>5. RequestsShaped'
    BY <1>1, <1>2, <2>3 DEF IInv, TypeOK, RequestsShaped
  <2>6. EntriesShaped'
    BY <1>5, <2>2 DEF EntriesShaped, ShapedMap, Shaped
  <2>7. \A x, s : LeaseHolders(x, s)' = LeaseHolders(x, s)
    BY <1>2, <2>3 DEF LeaseHolders
  <2>8. MappedCounts'
    BY <1>4, <2>2, <2>7 DEF MappedCounts
  <2>9. UnmappedEmpty' /\ LeasesRouted'
    BY <1>2, <1>4, <2>2, <2>3 DEF IInv, UnmappedEmpty, LeasesRouted
  <2> QED
    BY <1>4, <2>4, <2>5, <2>6, <2>8, <2>9 DEF IInv
<1>10. CASE Acquire(r, p)
  <2> DEFINE s == id[r]
             m == Acquired(Swept[o], s)
  <2>1. /\ limiters' = [Swept EXCEPT ![o] = m]
        /\ phase' = [phase EXCEPT ![r] = "calling"]
        /\ route' = [route EXCEPT ![r] = p]
        /\ lease' = [lease EXCEPT ![r] = o]
    BY <1>3, <1>10 DEF Acquire, updateMap, c, o
  <2>2. /\ ShapedMap(m)
        /\ m[s].requests = Swept[o][s].requests + 1
        /\ \A u \in Ids : u # s => m[u] = Swept[o][u]
    BY <1>1, <1>3, <1>5, AcquiredEffect
  <2> HIDE DEF m
  <2>3. /\ limiters' \in [Limiters -> EntryMaps]
        /\ \A x \in Limiters : limiters'[x] = IF x = o THEN m ELSE Swept[x]
    BY <1>3, <1>5, <2>1, <2>2 DEF ShapedMap
  <2>4. TypeOK'
    BY <1>2, <1>3, <1>4, <2>1, <2>3 DEF IInv, TypeOK, EntryMaps
  <2>5. RequestsShaped'
    BY <1>1, <1>2, <1>6, <2>1 DEF IInv, TypeOK, RequestsShaped
  <2>6. EntriesShaped'
    BY <1>5, <2>2, <2>3 DEF EntriesShaped, ShapedMap, Shaped
  <2>7. \A q \in Requests : q # r => lease'[q] = lease[q] /\ route'[q] = route[q]
    BY <2>1 DEF IInv, TypeOK
  <2>8. lease'[r] = o /\ route'[r] = p
    BY <2>1 DEF IInv, TypeOK
  <2>9. MappedCounts'
    <3> SUFFICES ASSUME NEW x \in Mapped', NEW u \in Ids
                 PROVE  limiters'[x][u].requests = Cardinality(LeaseHolders(x, u)')
      BY DEF MappedCounts
    <3>1. x \in Limiters /\ Swept[x][u].requests = Cardinality(LeaseHolders(x, u))
      BY <1>4, <1>8
    <3>2. CASE x = o /\ u = s
      <4>1. LeaseHolders(x, u)' = LeaseHolders(x, u) \cup {r}
        BY <1>2, <2>7, <2>8, <3>2 DEF LeaseHolders
      <4>2. r \notin LeaseHolders(x, u)
        BY <1>1, <1>6, <3>2 DEF LeaseHolders
      <4>3. Cardinality(LeaseHolders(x, u)') = Cardinality(LeaseHolders(x, u)) + 1
        BY <4>1, <4>2, HoldersFinite, FS_AddElement
      <4> QED
        BY <2>2, <2>3, <3>1, <3>2, <4>3
    <3>3. CASE ~(x = o /\ u = s)
      <4>1. LeaseHolders(x, u)' = LeaseHolders(x, u)
        <5>1. x # None
          BY <1>6, <3>1
        <5> QED
          BY <1>1, <1>2, <2>7, <2>8, <3>3, <5>1 DEF LeaseHolders
      <4>2. limiters'[x][u] = Swept[x][u]
        BY <2>2, <2>3, <3>1, <3>3
      <4> QED
        BY <3>1, <4>1, <4>2
    <3> QED
      BY <3>2, <3>3
  <2>10. UnmappedEmpty'
    <3>1. o \in Mapped'
      BY <1>4, <1>6 DEF Mapped
    <3> QED
      BY <1>4, <2>3, <3>1 DEF UnmappedEmpty
  <2>11. LeasesRouted'
    <3> SUFFICES ASSUME NEW q \in Requests, lease'[q] # None
                 PROVE  /\ route'[q] \in Providers
                        /\ \A x \in Providers :
                              providerSessions'[x] = lease'[q] => route'[q] = x
                        /\ ~closed => providerSessions'[route'[q]] = lease'[q]
      BY <1>2 DEF LeasesRouted
    <3>1. CASE q = r
      BY <1>4, <1>6, <2>8, <3>1 DEF MapInjective
    <3>2. CASE q # r
      BY <1>4, <2>7, <3>2 DEF IInv, LeasesRouted
    <3> QED
      BY <3>1, <3>2
  <2> QED
    BY <1>4, <2>4, <2>5, <2>6, <2>9, <2>10, <2>11 DEF IInv
<1> QED
  BY <1>9, <1>10

\* The effect of giving back a lease, in CallFailed and Release: one request
\* less is counted where the map still has the limiter, and nothing happens
\* where closing has emptied it.
LEMMA LeaseDropped ==
    ASSUME IInv, NEW r \in Requests, lease[r] # None, NEW keep \in BOOLEAN,
           keep => id[r] \in Named,
           limiters' = [limiters EXCEPT ![lease[r]] = Released(@, id[r], keep)]
    PROVE  LET o == lease[r]
               s == id[r]
           IN  /\ o \in Limiters /\ s \in Ids
               /\ limiters' \in [Limiters -> EntryMaps]
               /\ \A x \in Limiters :
                     /\ ShapedMap(limiters'[x])
                     /\ x \notin Mapped => limiters'[x] = limiters[x]
                     /\ \A u \in Ids : x # o \/ u # s => limiters'[x][u] = limiters[x][u]
               /\ o \in Mapped =>
                     /\ limiters[o][s].requests > 0
                     /\ limiters'[o][s].requests = limiters[o][s].requests - 1
                     /\ limiters'[o][s].retain <=> limiters[o][s].retain \/ keep
<1> DEFINE o == lease[r]
           s == id[r]
           m == Released(limiters[o], s, keep)
<1>1. o \in Limiters /\ s \in Ids
  <2>1. phase[r] # "idle"
    BY DEF IInv, RequestsShaped
  <2> QED
    BY <2>1 DEF IInv, TypeOK, RequestsShaped, Ids
<1>2. /\ limiters \in [Limiters -> EntryMaps]
      /\ \A x \in Limiters : ShapedMap(limiters[x])
  BY LimitersShaped DEF IInv, TypeOK, EntryMaps
<1>3. /\ ShapedMap(m)
      /\ \A u \in Ids : u # s => m[u] = limiters[o][u]
      /\ ~limiters[o][s].known => m = limiters[o]
      /\ limiters[o][s].requests > 0 =>
            /\ m[s].requests = limiters[o][s].requests - 1
            /\ m[s].retain <=> limiters[o][s].retain \/ keep
  BY <1>1, <1>2, ReleasedEffect
<1>4. limiters' = [limiters EXCEPT ![o] = m]
  OBVIOUS
<1>5. r \in LeaseHolders(o, s)
  BY DEF LeaseHolders
<1> HIDE DEF m, o, s
<1>6. /\ limiters' \in [Limiters -> EntryMaps]
      /\ \A x \in Limiters : limiters'[x] = IF x = o THEN m ELSE limiters[x]
  BY <1>1, <1>2, <1>3, <1>4 DEF ShapedMap
<1>7. o \in Mapped => limiters[o][s].requests > 0
  <2> SUFFICES ASSUME o \in Mapped PROVE limiters[o][s].requests > 0
    OBVIOUS
  <2>1. limiters[o][s].requests = Cardinality(LeaseHolders(o, s))
    BY <1>1 DEF IInv, MappedCounts
  <2>2. Cardinality(LeaseHolders(o, s)) \in Nat /\ Cardinality(LeaseHolders(o, s)) # 0
    BY <1>5, HoldersFinite
  <2> QED
    BY <2>1, <2>2
<1>8. o \notin Mapped => m = limiters[o]
  <2> SUFFICES ASSUME o \notin Mapped PROVE m = limiters[o]
    OBVIOUS
  <2>1. limiters[o] = Empty
    BY <1>1 DEF IInv, UnmappedEmpty
  <2> QED
    BY <1>1, <1>3, <2>1, EmptyShaped, NoEntryTyped
<1> QED
  BY <1>1, <1>2, <1>3, <1>6, <1>7, <1>8 DEF o, s

\* Giving back a lease keeps the invariant.
LEMMA DropInv ==
    ASSUME IInv, NEW r \in Requests, lease[r] # None, NEW keep \in BOOLEAN,
           keep => id[r] \in Named,
           limiters' = [limiters EXCEPT ![lease[r]] = Released(@, id[r], keep)],
           TypeOK', RequestsShaped', UNCHANGED <<providerSessions, closed>>,
           lease' = [lease EXCEPT ![r] = None],
           \A q \in Requests : q # r => id'[q] = id[q] /\ route'[q] = route[q]
    PROVE  IInv'
<1> DEFINE o == lease[r]
           s == id[r]
<1>1. /\ o \in Limiters /\ s \in Ids
      /\ \A x \in Limiters :
            /\ ShapedMap(limiters'[x])
            /\ x \notin Mapped => limiters'[x] = limiters[x]
            /\ \A u \in Ids : x # o \/ u # s => limiters'[x][u] = limiters[x][u]
      /\ o \in Mapped => limiters'[o][s].requests = limiters[o][s].requests - 1
  BY LeaseDropped
<1>2. /\ Mapped' = Mapped /\ Mapped \subseteq Limiters /\ None \notin Limiters
  BY LimitersShaped DEF Mapped
<1>3. lease'[r] = None /\ \A q \in Requests : q # r => lease'[q] = lease[q]
  BY DEF IInv, TypeOK
<1>4. r \in LeaseHolders(o, s)
  BY DEF LeaseHolders
<1>5. \A x \in Limiters, u \in Ids : x # o \/ u # s =>
         LeaseHolders(x, u)' = LeaseHolders(x, u)
  BY <1>2, <1>3 DEF LeaseHolders
<1>6. \A x \in Limiters, u \in Ids : x = o /\ u = s =>
         LeaseHolders(x, u)' = LeaseHolders(x, u) \ {r}
  BY <1>1, <1>2, <1>3 DEF LeaseHolders
<1> HIDE DEF o, s
<1>7. MapInjective' /\ LeasesRouted'
  BY <1>3 DEF IInv, MapInjective, LeasesRouted
<1>8. EntriesShaped'
  BY <1>1 DEF EntriesShaped, ShapedMap, Shaped
<1>9. UnmappedEmpty'
  BY <1>1, <1>2 DEF IInv, UnmappedEmpty
<1>10. MappedCounts'
  <2> SUFFICES ASSUME NEW x \in Mapped, NEW u \in Ids
               PROVE  limiters'[x][u].requests = Cardinality(LeaseHolders(x, u)')
    BY <1>2 DEF MappedCounts
  <2>1. x \in Limiters /\ limiters[x][u].requests = Cardinality(LeaseHolders(x, u))
    BY <1>2 DEF IInv, MappedCounts
  <2>2. CASE x = o /\ u = s
    <3>1. LeaseHolders(x, u)' = LeaseHolders(x, u) \ {r} /\ r \in LeaseHolders(x, u)
      BY <1>4, <1>6, <2>1, <2>2
    <3>2. Cardinality(LeaseHolders(x, u)') = Cardinality(LeaseHolders(x, u)) - 1
      <4>1. IsFiniteSet(LeaseHolders(x, u))
        BY HoldersFinite
      <4>2. Cardinality(LeaseHolders(x, u) \ {r}) = Cardinality(LeaseHolders(x, u)) - 1
        BY <3>1, <4>1, FS_RemoveElement
      <4> QED
        BY <3>1, <4>2
    <3> QED
      BY <1>1, <2>1, <2>2, <3>2
  <2>3. CASE x # o \/ u # s
    BY <1>1, <1>5, <2>1, <2>3
  <2> QED
    BY <2>2, <2>3
<1> QED
  BY <1>7, <1>8, <1>9, <1>10 DEF IInv

\* A failed call and the end of a request give back what the request holds.
LEMMA ReleaseInv ==
    ASSUME IInv, NEW r \in Requests,
           Release(r) \/ \E again \in BOOLEAN : CallFailed(r, again)
    PROVE  IInv'
<1>1. ASSUME NEW again \in BOOLEAN, CallFailed(r, again)
      PROVE  IInv'
  <2>1. lease[r] # None
    BY <1>1 DEF IInv, RequestsShaped, CallFailed
  <2>2. /\ limiters' = [limiters EXCEPT ![lease[r]] = Released(@, id[r], FALSE)]
        /\ lease' = [lease EXCEPT ![r] = None]
        /\ route' = [route EXCEPT ![r] = None]
        /\ phase' = [phase EXCEPT ![r] = IF again THEN "routing" ELSE "ending"]
        /\ UNCHANGED <<config, reloads, closed, providerSessions, view, id, stream, retain>>
        /\ phase[r] = "calling"
    BY <1>1 DEF CallFailed, envVars
  <2>3. limiters' \in [Limiters -> EntryMaps]
    BY <2>1, <2>2, LeaseDropped
  <2>4. TypeOK'
    BY <2>2, <2>3 DEF IInv, TypeOK, EntryMaps
  <2>5. RequestsShaped'
    BY <2>2 DEF IInv, TypeOK, RequestsShaped
  <2> QED
    BY <2>1, <2>2, <2>4, <2>5, DropInv DEF IInv, TypeOK
<1>2. CASE Release(r)
  <2>1. /\ limiters' = IF lease[r] = None THEN limiters
                       ELSE [limiters EXCEPT ![lease[r]] = Released(@, id[r], retain[r])]
        /\ phase' = [phase EXCEPT ![r] = "idle"]
        /\ view' = [view EXCEPT ![r] = NoConfig]
        /\ id' = [id EXCEPT ![r] = None]
        /\ stream' = [stream EXCEPT ![r] = FALSE]
        /\ route' = [route EXCEPT ![r] = None]
        /\ lease' = [lease EXCEPT ![r] = None]
        /\ retain' = [retain EXCEPT ![r] = FALSE]
        /\ UNCHANGED <<config, reloads, closed, providerSessions>>
    BY <1>2 DEF Release, envVars
  <2>2. retain[r] \in BOOLEAN /\ (retain[r] => id[r] \in Named)
    BY DEF IInv, TypeOK, RequestsShaped
  <2>3. limiters' \in [Limiters -> EntryMaps]
    <3>1. CASE lease[r] = None
      BY <2>1, <3>1 DEF IInv, TypeOK, EntryMaps
    <3>2. CASE lease[r] # None
      BY <2>1, <2>2, <3>2, LeaseDropped
    <3> QED
      BY <3>1, <3>2
  <2>4. NoConfig \in Configs
    BY DEF NoConfig, Configs
  <2>5. TypeOK'
    BY <2>1, <2>3, <2>4 DEF IInv, TypeOK, EntryMaps
  <2>6. RequestsShaped'
    BY <2>1 DEF IInv, TypeOK, RequestsShaped
  <2>7. \A q \in Requests : q # r => id'[q] = id[q] /\ route'[q] = route[q]
    BY <2>1 DEF IInv, TypeOK
  <2>8. CASE lease[r] # None
    BY <2>1, <2>2, <2>5, <2>6, <2>7, <2>8, DropInv
  <2>9. CASE lease[r] = None
    <3>1. lease' = lease /\ limiters' = limiters
      BY <2>1, <2>9 DEF IInv, TypeOK
    <3>2. Mapped' = Mapped /\ None \notin Mapped
      BY <2>1 DEF Mapped
    <3>3. \A x \in Mapped, u \in Ids : LeaseHolders(x, u)' = LeaseHolders(x, u)
      BY <2>7, <2>9, <3>1, <3>2 DEF LeaseHolders
    <3>4. MapInjective' /\ UnmappedEmpty' /\ EntriesShaped'
      BY <2>1, <3>1, <3>2 DEF IInv, MapInjective, UnmappedEmpty, EntriesShaped
    <3>5. LeasesRouted'
      BY <2>1, <2>7, <2>9, <3>1 DEF IInv, LeasesRouted
    <3>6. MappedCounts'
      BY <3>1, <3>2, <3>3 DEF IInv, MappedCounts
    <3> QED
      BY <2>5, <2>6, <3>4, <3>5, <3>6 DEF IInv
  <2> QED
    BY <2>8, <2>9
<1> QED
  BY <1>1, <1>2

\* sessionStatus expires entries as the sweep does.
LEMMA StatusEffect ==
    ASSUME IInv, Status
    PROVE  /\ limiters' \in [Limiters -> EntryMaps]
           /\ \A o \in Limiters :
                 /\ ShapedMap(limiters'[o])
                 /\ o \notin Mapped => limiters'[o] = limiters[o]
                 /\ \A s \in Ids :
                       /\ limiters'[o][s].requests = limiters[o][s].requests
                       /\ limiters'[o][s].retain => limiters[o][s].retain
                       /\ \/ limiters'[o][s] = limiters[o][s]
                          \/ /\ limiters[o][s].requests = 0
                             /\ limiters[o][s].inputIdle /\ limiters[o][s].outputIdle
<1>1. /\ limiters \in [Limiters -> EntryMaps]
      /\ \A o \in Limiters : ShapedMap(limiters[o])
  BY LimitersShaped DEF IInv, TypeOK, EntryMaps
<1>2. \A o \in Limiters : \/ limiters'[o] = limiters[o]
                          \/ o \in Mapped /\ limiters'[o] = expire(limiters[o])
  BY LimitersShaped DEF Status, Mapped
<1>3. \A o \in Limiters :
         /\ ShapedMap(limiters'[o])
         /\ \A s \in Ids :
               /\ limiters'[o][s].requests = limiters[o][s].requests
               /\ limiters'[o][s].retain => limiters[o][s].retain
               /\ \/ limiters'[o][s] = limiters[o][s]
                  \/ /\ limiters[o][s].requests = 0
                     /\ limiters[o][s].inputIdle /\ limiters[o][s].outputIdle
  BY <1>1, <1>2, ExpireEffect
<1>4. limiters' \in [Limiters -> EntryMaps]
  BY <1>3 DEF Status, ShapedMap
<1> QED
  BY <1>2, <1>3, <1>4

\* Time marks one direction of one entry as idle.
LEMMA AgeEffect ==
    ASSUME IInv, Age
    PROVE  /\ limiters' \in [Limiters -> EntryMaps]
           /\ \A o \in Limiters :
                 /\ ShapedMap(limiters'[o])
                 /\ o \notin Mapped => limiters'[o] = limiters[o]
                 /\ \A s \in Ids :
                       /\ limiters'[o][s].requests = limiters[o][s].requests
                       /\ limiters'[o][s].retain = limiters[o][s].retain
<1>1. /\ limiters \in [Limiters -> EntryMaps]
      /\ \A o \in Limiters : ShapedMap(limiters[o])
  BY LimitersShaped DEF IInv, TypeOK, EntryMaps
<1>2. PICK o \in Mapped, s \in Ids :
         /\ limiters[o][s].known
         /\ \/ limiters' = [limiters EXCEPT ![o][s].inputIdle = TRUE]
            \/ limiters' = [limiters EXCEPT ![o][s].outputIdle = TRUE]
  BY DEF Age
<1>3. o \in Limiters /\ limiters[o][s] \in Entry /\ Shaped(limiters[o][s], s)
  BY <1>1, LimitersShaped DEF ShapedMap, EntryMaps
<1>4. PICK e : /\ limiters' = [limiters EXCEPT ![o] = [limiters[o] EXCEPT ![s] = e]]
               /\ \/ e = [limiters[o][s] EXCEPT !.inputIdle = TRUE]
                  \/ e = [limiters[o][s] EXCEPT !.outputIdle = TRUE]
  BY <1>2
<1>5. /\ e.requests = limiters[o][s].requests
      /\ e.retain = limiters[o][s].retain /\ e.known = limiters[o][s].known
  BY <1>3, <1>4 DEF Entry
<1>6. e \in Entry /\ Shaped(e, s)
  BY <1>2, <1>3, <1>4, <1>5, UpdatedTyped DEF Shaped
<1>7. [limiters[o] EXCEPT ![s] = e] \in EntryMaps
  BY <1>1, <1>3, <1>6 DEF EntryMaps
<1>8. limiters' \in [Limiters -> EntryMaps]
  BY <1>1, <1>3, <1>4, <1>7
<1>9. \A x \in Limiters, y \in Ids :
         limiters'[x][y] = IF x = o /\ y = s THEN e ELSE limiters[x][y]
  BY <1>1, <1>3, <1>4, <1>7 DEF EntryMaps
<1>10. \A x \in Limiters : x # o => limiters'[x] = limiters[x]
  BY <1>1, <1>3, <1>4
<1>11. \A x \in Limiters : ShapedMap(limiters'[x])
  BY <1>1, <1>6, <1>8, <1>9 DEF ShapedMap
<1> QED
  BY <1>5, <1>8, <1>9, <1>10, <1>11

\* Status, reloads, the shutdown and time keep the invariant.
LEMMA BackgroundInv ==
    ASSUME IInv, Status \/ Reload \/ Close \/ Age \/ UNCHANGED vars
    PROVE  IInv'
<1>1. UNCHANGED <<phase, view, id, stream, route, lease, retain>>
  BY DEF Status, Reload, Close, Age, vars, leaseVars
<1>2. RequestsShaped'
  BY <1>1 DEF IInv, RequestsShaped
<1>3. CASE Status \/ Age
  <2>1. /\ limiters' \in [Limiters -> EntryMaps]
        /\ \A o \in Limiters :
              /\ ShapedMap(limiters'[o])
              /\ o \notin Mapped => limiters'[o] = limiters[o]
              /\ \A s \in Ids : limiters'[o][s].requests = limiters[o][s].requests
    BY <1>3, StatusEffect, AgeEffect
  <2>2. UNCHANGED <<config, reloads, closed, providerSessions>>
    BY <1>3 DEF Status, Age, envVars
  <2>3. TypeOK'
    BY <1>1, <2>1, <2>2 DEF IInv, TypeOK, EntryMaps
  <2> QED
    BY <1>1, <1>2, <2>1, <2>2, <2>3, EntriesInv
<1>4. CASE Reload \/ UNCHANGED vars
  <2>1. UNCHANGED <<closed, providerSessions, limiters>>
    BY <1>4 DEF Reload, vars, envVars, tableVars
  <2>2. TypeOK'
    BY <1>1, <1>4, <2>1, SessionBounds DEF IInv, TypeOK, Reload, vars, envVars
  <2> QED
    BY <1>1, <1>2, <2>1, <2>2, EntriesInv, LimitersShaped
<1>5. CASE Close
  <2>1. /\ closed' = TRUE /\ UNCHANGED <<config, reloads>>
        /\ providerSessions' = [p \in Providers |-> None]
        /\ limiters' = [o \in Limiters |-> IF o \in Mapped THEN Empty ELSE limiters[o]]
    BY <1>5 DEF Close
  <2>2. limiters' = [o \in Limiters |-> Empty]
    BY <2>1 DEF IInv, UnmappedEmpty
  <2>3. ShapedMap(Empty)
    BY EmptyShaped
  <2>4. TypeOK'
    BY <1>1, <2>1, <2>2, <2>3 DEF IInv, TypeOK, ShapedMap, EntryMaps
  <2>5. EntriesShaped'
    BY <2>2, <2>3 DEF EntriesShaped, ShapedMap, Shaped
  <2>6. Mapped' = {}
    BY <2>1 DEF Mapped
  <2>7. MapInjective' /\ MappedCounts' /\ UnmappedEmpty'
    BY <2>1, <2>2, <2>6 DEF MapInjective, MappedCounts, UnmappedEmpty
  <2>8. LeasesRouted'
    BY <1>1, <2>1 DEF IInv, LeasesRouted
  <2> QED
    BY <1>2, <2>4, <2>5, <2>7, <2>8 DEF IInv
<1> QED
  BY <1>3, <1>4, <1>5

\* Every step keeps the invariant.
LEMMA NextInv == IInv /\ [Next]_vars => IInv'
<1> SUFFICES ASSUME IInv, [Next]_vars PROVE IInv'
  OBVIOUS
<1>1. ASSUME NEW r \in Requests, NEW s \in Ids, NEW streams \in BOOLEAN,
             Admit(r, s, streams)
      PROVE  IInv'
  BY <1>1, AdmitInv
<1>2. ASSUME NEW r \in Requests, RequestStep(r)
      PROVE  IInv'
  BY <1>2, AcquireInv, ReleaseInv, MoveInv, DeliverInv DEF RequestStep
<1>3. ASSUME NEW r \in Requests, Send(r)
      PROVE  IInv'
  BY <1>3, DeliverInv
<1>4. CASE Status \/ Reload \/ Close \/ Age \/ UNCHANGED vars
  BY <1>4, BackgroundInv
<1> QED
  BY <1>1, <1>2, <1>3, <1>4 DEF Next

-----------------------------------------------------------------------------
(* Theorems.                                                               *)

\* The inductive invariant of the limiters, their map and the leases.
THEOREM Inductive == Spec => []IInv
<1> QED
  BY InitInv, NextInv, PTL DEF Spec

\* The holders of a provider's slots are the leases on its limiter.
LEMMA HoldersAreLeases ==
    ASSUME IInv, ~closed, NEW p \in Providers, NEW s \in Ids
    PROVE  /\ providerSessions[p] = None => Holders(p, s) = {}
           /\ providerSessions[p] # None =>
                 Holders(p, s) = LeaseHolders(providerSessions[p], s)
<1>1. \A r \in Requests : lease[r] # None =>
         (route[r] = p <=> lease[r] = providerSessions[p])
  BY DEF IInv, LeasesRouted
<1> QED
  BY <1>1 DEF Holders, LeaseHolders

\* The entry of a session at a provider, by cases on the map.
LEMMA EntryOfShaped ==
    ASSUME IInv, NEW p \in Providers, NEW s \in Ids
    PROVE  /\ EntryOf(p, s) \in Entry /\ Shaped(EntryOf(p, s), s)
           /\ ~closed => EntryOf(p, s).requests = Cardinality(Holders(p, s))
<1>1. CASE providerSessions[p] = None
  <2>1. EntryOf(p, s) = NoEntry
    BY <1>1 DEF EntryOf
  <2>2. ~closed => Cardinality(Holders(p, s)) = 0
    BY <1>1, HoldersAreLeases, FS_EmptySet
  <2> QED
    BY <2>1, <2>2, NoEntryTyped
<1>2. CASE providerSessions[p] # None
  <2> DEFINE o == providerSessions[p]
  <2>1. o \in Mapped /\ o \in Limiters /\ EntryOf(p, s) = limiters[o][s]
    BY <1>2, LimitersShaped DEF EntryOf
  <2>2. limiters[o][s] \in Entry /\ Shaped(limiters[o][s], s)
    BY <2>1, LimitersShaped DEF ShapedMap, EntryMaps
  <2>3. ~closed => limiters[o][s].requests = Cardinality(Holders(p, s))
    BY <1>2, <2>1, HoldersAreLeases DEF IInv, MappedCounts
  <2> QED
    BY <2>1, <2>2, <2>3
<1> QED
  BY <1>1, <1>2

\* For any numbers of requests, sessions, providers and reloads: the limiter
\* of a provider counts exactly the requests that hold its slots, of whatever
\* view, and every slot is in use or was retained for a named session.
THEOREM LimitersSound == Spec => []LimitersConsistent
<1>1. IInv => LimitersConsistent
  <2> SUFFICES ASSUME IInv PROVE LimitersConsistent
    OBVIOUS
  <2>1. TypeOK
    BY DEF IInv
  <2>2. LeasesCounted
    BY EntryOfShaped DEF LeasesCounted
  <2>3. SlotsJustified
    BY EntryOfShaped DEF SlotsJustified, Shaped
  <2> QED
    BY <2>1, <2>2, <2>3 DEF LimitersConsistent
<1> QED
  BY <1>1, Inductive, PTL

-----------------------------------------------------------------------------
(* What one step may do to the entries of a provider.                      *)

\* The entry of a session at a provider after the sweep.
SweptEntry(p, s) ==
    IF providerSessions[p] = None THEN NoEntry ELSE Swept[providerSessions[p]][s]

\* The sweep drops only idle entries that no request uses.
LEMMA SweptEntryEffect ==
    ASSUME IInv, NEW p \in Providers, NEW s \in Ids
    PROVE  /\ SweptEntry(p, s).retain => EntryOf(p, s).retain
           /\ \/ SweptEntry(p, s) = EntryOf(p, s)
              \/ /\ EntryOf(p, s).requests = 0
                 /\ EntryOf(p, s).inputIdle /\ EntryOf(p, s).outputIdle
<1>1. providerSessions[p] # None => providerSessions[p] \in Limiters
  BY LimitersShaped
<1> QED
  BY <1>1, SweptEffect DEF SweptEntry, EntryOf

\* acquireProvider leaves what the sweep retained, for every provider.
LEMMA AcquireEntries ==
    ASSUME IInv, NEW r \in Requests, NEW p \in Providers,
           Acquire(r, p) \/ AcquireRejected(r, p) \/ AcquireCanceled(r, p),
           NEW q \in Providers, NEW s \in Ids
    PROVE  EntryOf(q, s)'.retain = SweptEntry(q, s).retain
<1> DEFINE o == LimiterFor(view[r], p)
           m == Acquired(Swept[o], id[r])
<1>1. lease[r] = None /\ id[r] \in Ids
  BY DEF IInv, RequestsShaped, Acquire, AcquireRejected, AcquireCanceled, Ids
<1>2. /\ providerSessions' = [Pruned(view[r]) EXCEPT ![p] = o]
      /\ \/ limiters' = [Swept EXCEPT ![o] = EntriesOf(o)]
         \/ limiters' = [Swept EXCEPT ![o] = Acquired(EntriesOf(o), id[r])]
  BY DEF Acquire, AcquireRejected, AcquireCanceled, updateMap
<1>3. o \in Limiters /\ EntriesOf(o) = Swept[o]
  BY <1>1, LookupEffect
<1>4. Swept \in [Limiters -> EntryMaps] /\ ShapedMap(Swept[o])
  BY <1>3, SweptEffect
<1>5. ShapedMap(m) /\ m[s].retain = Swept[o][s].retain
  BY <1>1, <1>4, AcquiredEffect
<1>6. /\ providerSessions' \in [Providers -> Limiters \cup {None}]
      /\ providerSessions'[q] # providerSessions[q] =>
            /\ providerSessions[q] # None => Swept[providerSessions[q]] = Empty
            /\ providerSessions'[q] # None => Swept[providerSessions'[q]] = Empty
  BY <1>1, <1>2, MapEffect
<1>7. EntryOf(q, s)' = IF providerSessions'[q] = None THEN NoEntry
                       ELSE limiters'[providerSessions'[q]][s]
  BY DEF EntryOf
<1> HIDE DEF o, m
<1>8. \A x \in Limiters : limiters'[x][s].retain = Swept[x][s].retain
  BY <1>2, <1>3, <1>4, <1>5 DEF m
<1>9. NoEntry.retain = FALSE /\ Empty[s].retain = FALSE
  BY DEF NoEntry, Empty
<1>10. CASE providerSessions'[q] = None
  <2>1. EntryOf(q, s)'.retain = FALSE
    BY <1>7, <1>9, <1>10
  <2>2. SweptEntry(q, s).retain = FALSE
    BY <1>6, <1>9, <1>10 DEF SweptEntry
  <2> QED
    BY <2>1, <2>2
<1>11. CASE providerSessions'[q] # None
  <2> DEFINE x == providerSessions'[q]
  <2>1. x \in Limiters
    BY <1>6, <1>11
  <2>2. EntryOf(q, s)' = limiters'[x][s]
    BY <1>7, <1>11
  <2>3. EntryOf(q, s)'.retain = Swept[x][s].retain
    BY <1>8, <2>1, <2>2
  <2>4. CASE x = providerSessions[q]
    <3>1. SweptEntry(q, s) = Swept[x][s]
      BY <1>11, <2>4 DEF SweptEntry
    <3> QED
      BY <2>3, <3>1
  <2>5. CASE x # providerSessions[q]
    <3>1. EntryOf(q, s)'.retain = FALSE
      BY <1>6, <1>9, <1>11, <2>3, <2>5
    <3>2. SweptEntry(q, s).retain = FALSE
      BY <1>6, <1>9, <2>5 DEF SweptEntry
    <3> QED
      BY <3>1, <3>2
  <2> QED
    BY <2>4, <2>5
<1> QED
  BY <1>10, <1>11

\* Giving back a lease retains what was retained and what the request asks for.
LEMMA DropEntries ==
    ASSUME IInv, NEW r \in Requests, lease[r] # None, NEW keep \in BOOLEAN,
           keep => id[r] \in Named,
           limiters' = [limiters EXCEPT ![lease[r]] = Released(@, id[r], keep)],
           providerSessions' = providerSessions,
           NEW q \in Providers, NEW s \in Ids
    PROVE  EntryOf(q, s)'.retain <=>
              \/ EntryOf(q, s).retain
              \/ keep /\ lease[r] = providerSessions[q] /\ s = id[r]
<1> DEFINE o == providerSessions[q]
<1>1. EntryOf(q, s)' = IF o = None THEN NoEntry ELSE limiters'[o][s]
  BY DEF EntryOf
<1>2. CASE o = None
  BY <1>1, <1>2, NoEntryTyped DEF EntryOf
<1>3. CASE o # None
  <2>1. o \in Limiters /\ o \in Mapped
    BY <1>3, LimitersShaped
  <2>2. CASE lease[r] = o /\ s = id[r]
    <3>1. limiters'[o][s].retain <=> limiters[o][s].retain \/ keep
      BY <2>1, <2>2, LeaseDropped
    <3> QED
      BY <1>1, <1>3, <2>2, <3>1 DEF EntryOf
  <2>3. CASE ~(lease[r] = o /\ s = id[r])
    <3>1. \A x \in Limiters, u \in Ids :
             x # lease[r] \/ u # id[r] => limiters'[x][u] = limiters[x][u]
      BY LeaseDropped
    <3>2. limiters'[o][s] = limiters[o][s]
      BY <2>1, <2>3, <3>1
    <3> QED
      BY <1>1, <1>3, <2>3, <3>2 DEF EntryOf
  <2> QED
    BY <2>2, <2>3
<1> QED
  BY <1>2, <1>3

\* The steps that neither acquire nor give back nor close.
LEMMA OtherEntries ==
    ASSUME IInv, NEW q \in Providers, NEW s \in Ids,
           \/ \E r \in Requests :
                 \/ \E x \in Ids, streams \in BOOLEAN : Admit(r, x, streams)
                 \/ RouteRejected(r) \/ CallSucceeded(r) \/ NotDelivered(r)
                 \/ Send(r) \/ Delivered(r)
           \/ Reload \/ Age \/ UNCHANGED vars
    PROVE  EntryOf(q, s)'.retain = EntryOf(q, s).retain
<1>1. providerSessions' = providerSessions
  BY DEF Admit, RouteRejected, CallSucceeded, NotDelivered, Send, Delivered,
         Reload, Age, vars, tableVars
<1>2. \A o \in Limiters : limiters'[o][s].retain = limiters[o][s].retain
  <2>1. CASE limiters' = limiters
    BY <2>1
  <2>2. ASSUME NEW r \in Requests, touchOutput(r)
        PROVE  \A o \in Limiters : limiters'[o][s].retain = limiters[o][s].retain
    BY <2>2, TouchEffect
  <2>3. CASE Age
    BY <2>3, AgeEffect
  <2> QED
    BY <2>1, <2>2, <2>3
       DEF Admit, RouteRejected, CallSucceeded, NotDelivered, Send, Delivered,
           Reload, vars, tableVars
<1>3. providerSessions[q] # None => providerSessions[q] \in Limiters
  BY LimitersShaped
<1> QED
  BY <1>1, <1>2, <1>3 DEF EntryOf

\* The look at the status drops only idle entries that no request uses.
LEMMA StatusEntries ==
    ASSUME IInv, Status, NEW q \in Providers, NEW s \in Ids
    PROVE  /\ EntryOf(q, s)'.retain => EntryOf(q, s).retain
           /\ \/ EntryOf(q, s)'.retain = EntryOf(q, s).retain
              \/ /\ EntryOf(q, s).requests = 0
                 /\ EntryOf(q, s).inputIdle /\ EntryOf(q, s).outputIdle
<1>1. providerSessions' = providerSessions
  BY DEF Status
<1>2. providerSessions[q] # None => providerSessions[q] \in Limiters
  BY LimitersShaped
<1> QED
  BY <1>1, <1>2, StatusEffect DEF EntryOf

\* Every step that is not the shutdown drops a retained session only when it
\* is idle and unused.
LEMMA RetainedEffect ==
    ASSUME IInv, [Next]_vars, NEW q \in Providers, NEW s \in Ids,
           EntryOf(q, s).retain, ~EntryOf(q, s)'.retain
    PROVE  \/ Close
           \/ /\ EntryOf(q, s).requests = 0
              /\ EntryOf(q, s).inputIdle /\ EntryOf(q, s).outputIdle
<1>1. ASSUME NEW r \in Requests, NEW p \in Providers,
             Acquire(r, p) \/ AcquireRejected(r, p) \/ AcquireCanceled(r, p)
      PROVE  /\ EntryOf(q, s).requests = 0
             /\ EntryOf(q, s).inputIdle /\ EntryOf(q, s).outputIdle
  BY <1>1, AcquireEntries, SweptEntryEffect
<1>2. ASSUME NEW r \in Requests, NEW again \in BOOLEAN, CallFailed(r, again)
      PROVE  FALSE
  <2>1. lease[r] # None /\ providerSessions' = providerSessions
    BY <1>2 DEF IInv, RequestsShaped, CallFailed
  <2>2. limiters' = [limiters EXCEPT ![lease[r]] = Released(@, id[r], FALSE)]
    BY <1>2 DEF CallFailed
  <2> QED
    BY <2>1, <2>2, DropEntries
<1>3. ASSUME NEW r \in Requests, Release(r)
      PROVE  FALSE
  <2>1. providerSessions' = providerSessions
    BY <1>3 DEF Release
  <2>2. retain[r] \in BOOLEAN /\ (retain[r] => id[r] \in Named)
    BY DEF IInv, TypeOK, RequestsShaped
  <2>3. CASE lease[r] = None
    BY <1>3, <2>1, <2>3 DEF Release, EntryOf
  <2>4. CASE lease[r] # None
    <3>1. limiters' = [limiters EXCEPT ![lease[r]] = Released(@, id[r], retain[r])]
      BY <1>3, <2>4 DEF Release
    <3> QED
      BY <2>1, <2>2, <2>4, <3>1, DropEntries
  <2> QED
    BY <2>3, <2>4
<1>4. CASE Status
  BY <1>4, StatusEntries
<1> QED
  BY <1>1, <1>2, <1>3, <1>4, OtherEntries DEF Next, RequestStep

RetainedStep ==
    \A p \in Providers, s \in Ids :
        EntryOf(p, s).retain /\ ~EntryOf(p, s)'.retain =>
           \/ closed'
           \/ /\ Holders(p, s) = {}
              /\ EntryOf(p, s).inputIdle /\ EntryOf(p, s).outputIdle

\* An entry that no request uses has no holders until the gateway closes.
LEMMA RetainedNext ==
    ASSUME IInv, [Next]_vars
    PROVE  RetainedStep
<1> SUFFICES ASSUME NEW p \in Providers, NEW s \in Ids,
                    EntryOf(p, s).retain, ~EntryOf(p, s)'.retain, ~closed'
             PROVE  /\ Holders(p, s) = {}
                    /\ EntryOf(p, s).inputIdle /\ EntryOf(p, s).outputIdle
  BY DEF RetainedStep
<1>1. closed' = closed \/ closed' = TRUE
  BY DEF Next, RequestStep, Admit, Acquire, AcquireRejected, AcquireCanceled,
         CallFailed, RouteRejected, CallSucceeded, Delivered, NotDelivered, Release,
         Send, Status, Reload, Close, Age, vars, envVars
<1>2. ~closed /\ ~Close
  BY <1>1 DEF Close
<1>3. /\ EntryOf(p, s).requests = 0
      /\ EntryOf(p, s).inputIdle /\ EntryOf(p, s).outputIdle
  BY <1>2, RetainedEffect
<1>4. Cardinality(Holders(p, s)) = 0
  BY <1>2, <1>3, EntryOfShaped
<1>5. Holders(p, s) \in SUBSET Requests
  BY DEF Holders
<1>6. IsFiniteSet(Holders(p, s))
  BY <1>5, SessionBounds, FS_Subset
<1> QED
  BY <1>3, <1>4, <1>6, FS_EmptySet

\* A retained session keeps its slot until it has idled out in both
\* directions, through failures of its other requests, removals of the
\* provider, pruning and reloads.
THEOREM RetentionKept == Spec => RetainedUntilIdle
<1>1. IInv /\ [Next]_vars => [RetainedStep]_vars
  BY RetainedNext
<1> QED
  BY <1>1, Inductive, PTL DEF Spec, RetainedUntilIdle, RetainedStep

-----------------------------------------------------------------------------
(* The limiters implement SessionCapacity.                                 *)

\* The uses of a provider are the leases on its limiter.
LEMMA UsersAreLeases ==
    ASSUME IInv, NEW p \in Providers
    PROVE  /\ \A r \in Requests :
                 r \in UsersOf(p) <=> lease[r] # None /\ lease[r] = providerSessions[p]
           /\ \A r \in UsersOf(p) : id[r] \in Ids
<1>1. \A r \in Requests : lease[r] # None => phase[r] # "idle"
  BY DEF IInv, RequestsShaped
<1> QED
  BY <1>1 DEF IInv, LeasesRouted, RequestsShaped, UsersOf, Ids

\* A session has users exactly if its entry counts requests.
LEMMA CapacityUsers ==
    ASSUME IInv, NEW p \in Providers
    PROVE  /\ Capacity!Users(p) \subseteq Ids
           /\ \A s \in Ids : s \in Capacity!Users(p) <=> EntryOf(p, s).requests # 0
<1>1. Capacity!Users(p) = {id[r] : r \in UsersOf(p)}
  <2>1. ActiveUses[p] = {<<r, id[r]>> : r \in UsersOf(p)}
    BY DEF ActiveUses
  <2>2. Capacity!Users(p) = {use[2] : use \in ActiveUses[p]}
    BY DEF Capacity!Users
  <2>3. ASSUME NEW r \in UsersOf(p)
        PROVE  id[r] \in Capacity!Users(p)
    <3>1. <<r, id[r]>> \in ActiveUses[p] /\ <<r, id[r]>>[2] = id[r]
      BY <2>1
    <3> QED
      BY <2>2, <3>1
  <2>4. ASSUME NEW s \in Capacity!Users(p)
        PROVE  s \in {id[r] : r \in UsersOf(p)}
    <3>1. PICK use \in ActiveUses[p] : s = use[2]
      BY <2>2
    <3>2. PICK r \in UsersOf(p) : use = <<r, id[r]>>
      BY <2>1
    <3>3. s = id[r]
      BY <3>1, <3>2
    <3> QED
      BY <3>3
  <2> QED
    BY <2>3, <2>4
<1>2. Capacity!Users(p) \subseteq Ids
  BY <1>1, UsersAreLeases
<1>3. ASSUME NEW s \in Ids
      PROVE  s \in Capacity!Users(p) <=> EntryOf(p, s).requests # 0
  <2>1. CASE providerSessions[p] = None
    BY <1>1, <2>1, UsersAreLeases, NoEntryTyped DEF EntryOf, UsersOf
  <2>2. CASE providerSessions[p] # None
    <3> DEFINE o == providerSessions[p]
    <3>1. o \in Mapped
      BY <2>2, LimitersShaped
    <3>2. EntryOf(p, s).requests = Cardinality(LeaseHolders(o, s))
      BY <2>2, <3>1 DEF IInv, MappedCounts, EntryOf
    <3>3. s \in Capacity!Users(p) <=> LeaseHolders(o, s) # {}
      <4>1. \A r \in Requests : r \in UsersOf(p) <=> lease[r] = o
        BY <2>2, UsersAreLeases
      <4>2. UsersOf(p) \subseteq Requests
        BY DEF UsersOf
      <4> QED
        BY <1>1, <4>1, <4>2 DEF LeaseHolders
    <3> QED
      BY <3>2, <3>3, HoldersFinite
  <2> QED
    BY <2>1, <2>2
<1> QED
  BY <1>2, <1>3

\* The same uses.
LEMMA ActiveSame ==
    ASSUME \A p \in Providers : UsersOf(p)' = UsersOf(p),
           \A p \in Providers : \A r \in UsersOf(p) : id'[r] = id[r]
    PROVE  ActiveUses' = ActiveUses
<1>1. \A p \in Providers : {<<r, id'[r]>> : r \in UsersOf(p)'} = {<<r, id[r]>> : r \in UsersOf(p)}
  OBVIOUS
<1> QED
  BY <1>1 DEF ActiveUses

\* The same retained sessions.
LEMMA RetainedSame ==
    ASSUME \A p \in Providers, s \in Ids : EntryOf(p, s)'.retain <=> EntryOf(p, s).retain
    PROVE  RetainedSessions' = RetainedSessions
<1>1. \A p \in Providers : {s \in Ids : EntryOf(p, s)'.retain} = {s \in Ids : EntryOf(p, s).retain}
  OBVIOUS
<1> QED
  BY <1>1 DEF RetainedSessions

\* Dropping retained sessions that are not in use is idling out.
LEMMA IdleOutStep ==
    ASSUME IInv,
           \A p \in Providers, s \in Ids :
              /\ EntryOf(p, s)'.retain => EntryOf(p, s).retain
              /\ \/ EntryOf(p, s)'.retain <=> EntryOf(p, s).retain
                 \/ EntryOf(p, s).requests = 0
    PROVE  Capacity!IdleOut
<1> SUFFICES ASSUME NEW p \in Providers
             PROVE  /\ RetainedSessions'[p] \subseteq RetainedSessions[p]
                    /\ (RetainedSessions[p] \ RetainedSessions'[p]) \cap Capacity!Users(p) = {}
  BY DEF Capacity!IdleOut
<1>1. /\ RetainedSessions[p] = {s \in Ids : EntryOf(p, s).retain}
      /\ RetainedSessions'[p] = {s \in Ids : EntryOf(p, s)'.retain}
  BY DEF RetainedSessions
<1> QED
  BY <1>1, CapacityUsers

\* An initial state of the gateway has free slots only.
LEMMA CapacityInit == Init => Capacity!Init
<1> SUFFICES ASSUME Init PROVE Capacity!Init
  OBVIOUS
<1>1. view \in [Requests -> Configs]
  BY InitInv DEF IInv, TypeOK
<1>2. \A p \in Providers : UsersOf(p) = {}
  BY DEF Init, UsersOf
<1>3. ActiveUses = [p \in Providers |-> {}]
  <2>1. \A p \in Providers : {<<r, id[r]>> : r \in UsersOf(p)} = {}
    BY <1>2
  <2> QED
    BY <2>1 DEF ActiveUses
<1>4. \A p \in Providers, s \in Ids : ~EntryOf(p, s).retain
  BY NoEntryTyped DEF Init, EntryOf
<1>5. RetainedSessions = [p \in Providers |-> {}]
  <2>1. \A p \in Providers : {s \in Ids : EntryOf(p, s).retain} = {}
    BY <1>4
  <2> QED
    BY <2>1 DEF RetainedSessions
<1> QED
  BY <1>1, <1>3, <1>5 DEF Capacity!Init

\* SessionCapacity counts as this module does.
LEMMA SameCardinality ==
    ASSUME NEW S
    PROVE  Capacity!Cardinality(S) = Cardinality(S)
  BY DEF Capacity!Cardinality, Cardinality

\* An admitted request is entered with a slot.
LEMMA CapacityEnter ==
    ASSUME IInv, IInv', NEW r \in Requests, NEW p \in Providers, Acquire(r, p)
    PROVE  Capacity!Enter(r, id[r], p)
<1> DEFINE c == view[r]
           o == LimiterFor(c, p)
           s == id[r]
           m == Swept[o]
<1>1. lease[r] = None /\ s \in Ids
  BY DEF IInv, RequestsShaped, Acquire, Ids
<1>2. /\ providerSessions' = [Pruned(c) EXCEPT ![p] = o]
      /\ route' = [route EXCEPT ![r] = p] /\ lease' = [lease EXCEPT ![r] = o]
      /\ view' = view /\ id' = id
      /\ Admits(EntriesOf(o), s, c[p])
  BY DEF Acquire, updateMap
<1>3. /\ o \in Limiters /\ EntriesOf(o) = m
      /\ \/ o = providerSessions[p]
         \/ /\ o \notin Mapped /\ \A q \in Requests : lease[q] # o
            /\ providerSessions[p] # None =>
                  /\ Swept[providerSessions[p]] = Empty
                  /\ \A q \in Requests : lease[q] # providerSessions[p]
  BY <1>1, LookupEffect
<1>4. /\ providerSessions'[p] = o /\ o # None
      /\ \A q \in Providers : \A x \in Requests :
            lease[x] # None =>
               (providerSessions'[q] = lease[x] <=> providerSessions[q] = lease[x])
  BY <1>1, <1>2, <1>3, MapEffect, LimitersShaped
<1> HIDE DEF o, c
<1>5. lease'[r] = o /\ \A q \in Requests : q # r => lease'[q] = lease[q]
  BY <1>2 DEF IInv, TypeOK
<1>6. \A q \in Providers, x \in Requests :
         /\ x \in UsersOf(q) <=> lease[x] # None /\ lease[x] = providerSessions[q]
         /\ x \in UsersOf(q)' <=> lease'[x] # None /\ lease'[x] = providerSessions'[q]
  <2>1. \A q \in Providers, x \in Requests :
           x \in UsersOf(q)' <=> lease'[x] # None /\ lease'[x] = providerSessions'[q]
    BY DEF IInv, LeasesRouted, UsersOf
  <2> QED
    BY <2>1, UsersAreLeases
<1>7. UsersOf(p)' = UsersOf(p) \cup {r}
  <2>1. UsersOf(p) \subseteq Requests /\ UsersOf(p)' \subseteq Requests
    BY DEF UsersOf
  <2> QED
    BY <1>4, <1>5, <1>6, <2>1
<1>8. ASSUME NEW q \in Providers, q # p
      PROVE  UsersOf(q)' = UsersOf(q)
  <2>1. UsersOf(q) \subseteq Requests /\ UsersOf(q)' \subseteq Requests
    BY DEF UsersOf
  <2>2. providerSessions'[q] # o
    BY <1>4, <1>8 DEF IInv, MapInjective
  <2> QED
    BY <1>1, <1>4, <1>5, <1>6, <2>1, <2>2
<1>9. ActiveUses' = [ActiveUses EXCEPT ![p] = @ \cup {<<r, s>>}]
  <2>1. ActiveUses' = [q \in Providers |-> {<<x, id[x]>> : x \in UsersOf(q)'}]
    BY <1>2 DEF ActiveUses
  <2>2. {<<x, id[x]>> : x \in UsersOf(p)'} = {<<x, id[x]>> : x \in UsersOf(p)} \cup {<<r, s>>}
    BY <1>7
  <2>3. \A q \in Providers : q # p =>
           {<<x, id[x]>> : x \in UsersOf(q)'} = {<<x, id[x]>> : x \in UsersOf(q)}
    BY <1>8
  <2> QED
    BY <2>1, <2>2, <2>3 DEF ActiveUses
<1>10. \A q \in Providers, u \in Ids : EntryOf(q, u)'.retain = SweptEntry(q, u).retain
  BY AcquireEntries
<1>11. Capacity!IdleOut
  BY <1>10, SweptEntryEffect, IdleOutStep
<1>12. ShapedMap(m)
  BY <1>3, SweptEffect
<1>13. \A u \in Ids : m[u].requests = EntryOf(p, u).requests /\ m[u].retain = SweptEntry(p, u).retain
  <2> SUFFICES ASSUME NEW u \in Ids
               PROVE  /\ m[u].requests = EntryOf(p, u).requests
                      /\ m[u].retain = SweptEntry(p, u).retain
    OBVIOUS
  <2>1. CASE o = providerSessions[p]
    BY <1>3, <1>4, <2>1, SweptEffect DEF EntryOf, SweptEntry
  <2>2. CASE o # providerSessions[p]
    <3>1. m = Empty
      BY <1>3, <2>2, SweptEffect
    <3>2. m[u] = NoEntry
      BY <3>1, EmptyShaped
    <3>3. CASE providerSessions[p] = None
      BY <3>2, <3>3 DEF EntryOf, SweptEntry
    <3>4. CASE providerSessions[p] # None
      <4>1. providerSessions[p] \in Limiters /\ Swept[providerSessions[p]] = Empty
        BY <1>3, <2>2, <3>4, LimitersShaped
      <4>2. Swept[providerSessions[p]][u] = NoEntry
        BY <4>1, EmptyShaped
      <4> QED
        BY <3>2, <3>4, <4>1, <4>2, SweptEffect DEF EntryOf, SweptEntry
    <3> QED
      BY <3>3, <3>4
  <2> QED
    BY <2>1, <2>2
<1>14. Capacity!Users(p) \cup RetainedSessions'[p] = {u \in Ids : m[u].known}
  <2>1. RetainedSessions'[p] = {u \in Ids : m[u].retain}
    <3>1. RetainedSessions'[p] = {u \in Ids : EntryOf(p, u)'.retain}
      BY DEF RetainedSessions
    <3> QED
      BY <1>10, <1>13, <3>1
  <2>2. Capacity!Users(p) = {u \in Ids : m[u].requests # 0}
    BY <1>13, CapacityUsers
  <2>3. \A u \in Ids : m[u].known <=> m[u].requests # 0 \/ m[u].retain
    <3> SUFFICES ASSUME NEW u \in Ids
                 PROVE  m[u].known <=> m[u].requests # 0 \/ m[u].retain
      OBVIOUS
    <3>1. Shaped(m[u], u) /\ m[u].requests \in Nat
      BY <1>12 DEF ShapedMap, EntryMaps, Entry
    <3>2. m[u].requests > 0 <=> m[u].requests # 0
      BY <3>1
    <3> HIDE DEF m
    <3> QED
      BY <3>1, <3>2, NoEntryTyped DEF Shaped
  <2> QED
    BY <2>1, <2>2, <2>3
<1>15. LET occupied == Capacity!Users(p) \cup RetainedSessions'[p]
       IN  \/ s \in occupied
           \/ view[r][p] = 0
           \/ Cardinality(occupied) < view[r][p]
  <2>1. m[s].known \/ c[p] = 0 \/ Count(m) < c[p]
    BY <1>2, <1>3 DEF Admits
  <2> QED
    BY <1>1, <1>14, <2>1 DEF Count, c
<1> QED
  BY <1>2, <1>9, <1>11, <1>15, SameCardinality DEF Capacity!Enter

\* Giving back a lease leaves the slot or, once closing has dropped it, does
\* nothing: the uses and the retained sessions after it.
LEMMA CapacityDrop ==
    ASSUME IInv, NEW r \in Requests, lease[r] # None, NEW keep \in BOOLEAN,
           keep => id[r] \in Named,
           limiters' = [limiters EXCEPT ![lease[r]] = Released(@, id[r], keep)],
           UNCHANGED providerSessions,
           lease' = [lease EXCEPT ![r] = None],
           \A q \in Requests : q # r => id'[q] = id[q] /\ route'[q] = route[q],
           view' = view \/ \E c \in Configs : view' = [view EXCEPT ![r] = c]
    PROVE  \/ \E p \in Providers : Capacity!Leave(r, id[r], p, keep)
           \/ /\ UNCHANGED <<ActiveUses, RetainedSessions>>
              /\ \A p \in Providers : \A use \in ActiveUses[p] : use[1] # r
<1> DEFINE s == id[r]
<1>1. s \in Ids
  BY LeaseDropped
<1>2. lease'[r] = None /\ \A q \in Requests : q # r => lease'[q] = lease[q]
  BY DEF IInv, TypeOK
<1>3. \A p \in Providers : UsersOf(p)' = UsersOf(p) \ {r}
  BY <1>2 DEF UsersOf
<1>4. \A p \in Providers : \A x \in UsersOf(p) : x \in Requests
  BY DEF UsersOf
<1>5. ActiveUses' = [p \in Providers |-> {<<x, id[x]>> : x \in UsersOf(p) \ {r}}]
  <2>1. \A p \in Providers : {<<x, id'[x]>> : x \in UsersOf(p)'} =
                             {<<x, id[x]>> : x \in UsersOf(p) \ {r}}
    <3>1. \A p \in Providers : \A x \in UsersOf(p) \ {r} : id'[x] = id[x]
      BY <1>4
    <3> QED
      BY <1>3, <3>1
  <2> QED
    BY <2>1 DEF ActiveUses
<1>6. \A q \in Providers, u \in Ids :
         EntryOf(q, u)'.retain <=> \/ EntryOf(q, u).retain
                                   \/ keep /\ lease[r] = providerSessions[q] /\ u = s
  BY DropEntries
<1>7. \A p \in Providers : r \in UsersOf(p) <=> lease[r] = providerSessions[p]
  BY UsersAreLeases
<1>8. CASE \E p \in Providers : lease[r] = providerSessions[p]
  <2>1. PICK p \in Providers : lease[r] = providerSessions[p]
    BY <1>8
  <2>2. \A q \in Providers : lease[r] = providerSessions[q] => q = p
    BY <2>1 DEF IInv, MapInjective
  <2>3. r \in UsersOf(p) /\ \A q \in Providers : q # p => r \notin UsersOf(q)
    BY <1>7, <2>1, <2>2
  <2>4. <<r, s>> \in ActiveUses[p]
    BY <2>3 DEF ActiveUses
  <2>5. ActiveUses' = [ActiveUses EXCEPT ![p] = @ \ {<<r, s>>}]
    <3>1. {<<x, id[x]>> : x \in UsersOf(p) \ {r}} =
          {<<x, id[x]>> : x \in UsersOf(p)} \ {<<r, s>>}
      OBVIOUS
    <3>2. \A q \in Providers : q # p => UsersOf(q) \ {r} = UsersOf(q)
      BY <2>3
    <3> QED
      BY <1>5, <3>1, <3>2 DEF ActiveUses
  <2>6. RetainedSessions' = IF keep THEN [RetainedSessions EXCEPT ![p] = @ \cup {s}]
                            ELSE RetainedSessions
    <3>1. \A q \in Providers : {u \in Ids : EntryOf(q, u)'.retain} =
             IF keep /\ q = p THEN {u \in Ids : EntryOf(q, u).retain} \cup {s}
                              ELSE {u \in Ids : EntryOf(q, u).retain}
      BY <1>1, <1>6, <2>1, <2>2
    <3>2. RetainedSessions' = [q \in Providers |-> {u \in Ids : EntryOf(q, u)'.retain}]
      BY DEF RetainedSessions
    <3>3. CASE keep
      BY <3>1, <3>2, <3>3 DEF RetainedSessions
    <3>4. CASE ~keep
      BY <3>1, <3>2, <3>4 DEF RetainedSessions
    <3> QED
      BY <3>3, <3>4
  <2>7. Capacity!Leave(r, s, p, keep)
    BY <2>4, <2>5, <2>6 DEF Capacity!Leave
  <2> QED
    BY <2>7
<1>9. CASE ~\E p \in Providers : lease[r] = providerSessions[p]
  <2>1. \A p \in Providers : r \notin UsersOf(p)
    BY <1>7, <1>9
  <2>2. ActiveUses' = ActiveUses
    <3>1. \A p \in Providers : UsersOf(p) \ {r} = UsersOf(p)
      BY <2>1
    <3> QED
      BY <1>5, <3>1 DEF ActiveUses
  <2>3. RetainedSessions' = RetainedSessions
    BY <1>6, <1>9, RetainedSame
  <2>4. ASSUME NEW p \in Providers, NEW use \in ActiveUses[p]
        PROVE  use[1] # r
    <3>1. PICK x \in UsersOf(p) : use = <<x, id[x]>>
      BY DEF ActiveUses
    <3> QED
      BY <2>1, <3>1
  <2> QED
    BY <2>2, <2>3, <2>4
<1> QED
  BY <1>8, <1>9

\* A request without a lease uses no provider.
LEMMA NoUse ==
    ASSUME NEW r \in Requests, lease[r] = None
    PROVE  \A p \in Providers : \A use \in ActiveUses[p] : use[1] # r
<1> SUFFICES ASSUME NEW p \in Providers, NEW use \in ActiveUses[p]
             PROVE  use[1] # r
  OBVIOUS
<1>1. PICK x \in UsersOf(p) : use = <<x, id[x]>>
  BY DEF ActiveUses
<1> QED
  BY <1>1 DEF UsersOf

\* Every step of the gateway is a step of SessionCapacity or changes nothing
\* of it.
LEMMA CapacityNext ==
    ASSUME IInv, IInv', [Next]_vars
    PROVE  Capacity!Next \/ UNCHANGED <<view, ActiveUses, RetainedSessions>>
<1>1. ASSUME UNCHANGED <<providerSessions, lease, route>>,
             \A q \in Requests : lease[q] # None => id'[q] = id[q]
      PROVE  ActiveUses' = ActiveUses
  BY <1>1, ActiveSame DEF UsersOf
<1>2. ASSUME NEW r \in Requests, NEW s \in Ids, NEW streams \in BOOLEAN,
             Admit(r, s, streams)
      PROVE  Capacity!Configure(r)
  <2>1. lease[r] = None /\ config \in Configs
    BY <1>2 DEF IInv, TypeOK, RequestsShaped, Admit
  <2>2. ActiveUses' = ActiveUses
    BY <1>1, <1>2, <2>1 DEF Admit, tableVars, IInv, TypeOK
  <2>3. RetainedSessions' = RetainedSessions
    BY <1>2, OtherEntries, RetainedSame
  <2> QED
    BY <1>2, <2>1, <2>2, <2>3, NoUse DEF Admit, Capacity!Configure
<1>3. ASSUME NEW r \in Requests, NEW p \in Providers, Acquire(r, p)
      PROVE  id[r] \in Ids /\ Capacity!Enter(r, id[r], p)
  <2>1. id[r] \in Ids
    BY <1>3 DEF IInv, RequestsShaped, Acquire, Ids
  <2> QED
    BY <1>3, <2>1, CapacityEnter
<1>4. ASSUME NEW r \in Requests, NEW p \in Providers,
             AcquireRejected(r, p) \/ AcquireCanceled(r, p)
      PROVE  Capacity!Expire
  <2>1. UNCHANGED <<view, lease, route, id>>
    BY <1>4 DEF AcquireRejected, AcquireCanceled
  <2>2. lease[r] = None
    BY <1>4 DEF IInv, RequestsShaped, AcquireRejected, AcquireCanceled
  <2>3. providerSessions' = [Pruned(view[r]) EXCEPT ![p] = LimiterFor(view[r], p)]
    BY <1>4 DEF AcquireRejected, AcquireCanceled, updateMap
  <2>4. \A q \in Providers : \A x \in Requests :
           lease[x] # None =>
              (providerSessions'[q] = lease[x] <=> providerSessions[q] = lease[x])
    BY <2>2, <2>3, MapEffect
  <2>5. \A q \in Providers : UsersOf(q)' = UsersOf(q)
    BY <2>1, <2>4 DEF UsersOf
  <2>6. ActiveUses' = ActiveUses
    BY <2>1, <2>5, ActiveSame
  <2>7. Capacity!IdleOut
    BY <1>4, AcquireEntries, SweptEntryEffect, IdleOutStep
  <2> QED
    BY <2>1, <2>6, <2>7 DEF Capacity!Expire
<1>5. ASSUME NEW r \in Requests, NEW again \in BOOLEAN, CallFailed(r, again)
      PROVE  \/ \E p \in Providers : id[r] \in Ids /\ Capacity!Leave(r, id[r], p, FALSE)
             \/ UNCHANGED <<view, ActiveUses, RetainedSessions>>
  <2>1. /\ lease[r] # None /\ UNCHANGED <<providerSessions, view, id>>
        /\ lease' = [lease EXCEPT ![r] = None] /\ route' = [route EXCEPT ![r] = None]
        /\ limiters' = [limiters EXCEPT ![lease[r]] = Released(@, id[r], FALSE)]
    BY <1>5 DEF IInv, RequestsShaped, CallFailed
  <2>2. id[r] \in Ids
    BY <2>1, LeaseDropped
  <2>3. \A q \in Requests : q # r => id'[q] = id[q] /\ route'[q] = route[q]
    BY <2>1 DEF IInv, TypeOK
  <2> QED
    BY <2>1, <2>2, <2>3, CapacityDrop
<1>6. ASSUME NEW r \in Requests, Release(r)
      PROVE  \/ \E p \in Providers, keep \in BOOLEAN :
                   id[r] \in Ids /\ Capacity!Leave(r, id[r], p, keep)
             \/ Capacity!Configure(r)
  <2>1. /\ UNCHANGED providerSessions
        /\ view' = [view EXCEPT ![r] = NoConfig]
        /\ id' = [id EXCEPT ![r] = None]
        /\ lease' = [lease EXCEPT ![r] = None] /\ route' = [route EXCEPT ![r] = None]
        /\ limiters' = IF lease[r] = None THEN limiters
                       ELSE [limiters EXCEPT ![lease[r]] = Released(@, id[r], retain[r])]
    BY <1>6 DEF Release
  <2>2. NoConfig \in Configs
    BY DEF NoConfig, Configs
  <2>3. retain[r] \in BOOLEAN /\ (retain[r] => id[r] \in Named)
    BY DEF IInv, TypeOK, RequestsShaped
  <2>4. \A q \in Requests : q # r => id'[q] = id[q] /\ route'[q] = route[q]
                                      /\ lease'[q] = lease[q]
    BY <2>1 DEF IInv, TypeOK
  <2>5. CASE lease[r] # None
    <3>1. id[r] \in Ids
      BY <2>1, <2>3, <2>5, LeaseDropped
    <3>2. \/ \E p \in Providers : Capacity!Leave(r, id[r], p, retain[r])
          \/ /\ UNCHANGED <<ActiveUses, RetainedSessions>>
             /\ \A p \in Providers : \A use \in ActiveUses[p] : use[1] # r
      BY <2>1, <2>2, <2>3, <2>4, <2>5, CapacityDrop
    <3> QED
      BY <2>1, <2>2, <2>3, <3>1, <3>2 DEF Capacity!Configure
  <2>6. CASE lease[r] = None
    <3>1. lease' = lease
      BY <2>1, <2>6 DEF IInv, TypeOK
    <3>2. ActiveUses' = ActiveUses
      <4>1. \A p \in Providers : UsersOf(p)' = UsersOf(p)
        BY <2>1, <2>4, <2>6, <3>1 DEF UsersOf
      <4>2. \A p \in Providers : \A q \in UsersOf(p) : id'[q] = id[q]
        BY <2>4, <2>6 DEF UsersOf
      <4> QED
        BY <4>1, <4>2, ActiveSame
    <3>3. \A p \in Providers, s \in Ids : EntryOf(p, s)' = EntryOf(p, s)
      BY <2>1, <2>6 DEF EntryOf
    <3>4. RetainedSessions' = RetainedSessions
      BY <3>3, RetainedSame
    <3> QED
      BY <2>1, <2>2, <2>6, <3>2, <3>4, NoUse DEF Capacity!Configure
  <2> QED
    BY <2>5, <2>6
<1>7. CASE \/ \E r \in Requests : \/ RouteRejected(r) \/ CallSucceeded(r)
                                  \/ NotDelivered(r) \/ Send(r) \/ Delivered(r)
           \/ Reload \/ Age \/ UNCHANGED vars
  <2>1. UNCHANGED <<providerSessions, lease, route, id, view>>
    BY <1>7 DEF RouteRejected, CallSucceeded, NotDelivered, Send, Delivered,
                Reload, Age, vars, tableVars, leaseVars
  <2>2. \A p \in Providers, s \in Ids : EntryOf(p, s)'.retain = EntryOf(p, s).retain
    BY <1>7, OtherEntries
  <2> QED
    BY <1>1, <2>1, <2>2, RetainedSame
<1>8. CASE Status
  <2>1. UNCHANGED <<providerSessions, lease, route, id, view>>
    BY <1>8 DEF Status, leaseVars
  <2>2. Capacity!IdleOut
    BY <1>8, StatusEntries, IdleOutStep
  <2>3. Capacity!Expire
    BY <1>1, <2>1, <2>2 DEF Capacity!Expire
  <2> QED
    BY <2>3 DEF Capacity!Next
<1>9. CASE Close
  <2>1. /\ providerSessions' = [p \in Providers |-> None]
        /\ UNCHANGED <<view, lease>>
    BY <1>9 DEF Close, leaseVars
  <2>2. \A p \in Providers : UsersOf(p)' = {}
    BY <2>1 DEF UsersOf
  <2>3. \A p \in Providers, s \in Ids : EntryOf(p, s)' = NoEntry
    BY <2>1 DEF EntryOf
  <2>4. ActiveUses' = [p \in Providers |-> {}]
    <3>1. \A p \in Providers : {<<r, id'[r]>> : r \in UsersOf(p)'} = {}
      BY <2>2
    <3> QED
      BY <3>1 DEF ActiveUses
  <2>5. RetainedSessions' = [p \in Providers |-> {}]
    <3>1. \A p \in Providers : {s \in Ids : EntryOf(p, s)'.retain} = {}
      BY <2>3, NoEntryTyped
    <3> QED
      BY <3>1 DEF RetainedSessions
  <2>6. Capacity!Close
    BY <2>1, <2>4, <2>5 DEF Capacity!Close
  <2> QED
    BY <2>6 DEF Capacity!Next
<1> QED
  BY <1>2, <1>3, <1>4, <1>5, <1>6, <1>7, <1>8, <1>9 DEF Next, RequestStep, Capacity!Next

\* The gateway's limiters implement the slots of SessionCapacity, for every
\* finite set of requests, sessions and providers: caps count each session
\* once, over all views.
THEOREM CapacityRefined == Spec => ImplementsCapacity
<1>1. IInv /\ IInv' /\ [Next]_vars => [Capacity!Next]_(Capacity!vars)
  BY CapacityNext DEF Capacity!vars
<1> QED
  BY <1>1, CapacityInit, Inductive, PTL DEF Spec, ImplementsCapacity, Capacity!Spec
=============================================================================
