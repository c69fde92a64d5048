--------------------------- MODULE KeyPoolProofs ---------------------------
(***************************************************************************)
(* Proofs about KeyPool for every set of requests, all profiles, waits and *)
(* clocks: the inductive invariant IInv, from it that claims are owned and *)
(* pauses are backed by the keys, that nothing is sent into a pause, that  *)
(* an older success lifts none, and that only one request probes a pool.   *)
(***************************************************************************)
EXTENDS KeyPool, TLAPS

\* A table of one number per key of each pool.
KeyTable(f) == DOMAIN f = Pools /\ \A p \in Pools : f[p] \in [Keys(p) -> Nat]

\* The part of IInv about key health, pauses and server waits.
HealthOK ==
    /\ profile \in Shapes /\ now \in Nat \ {0}
    /\ KeyTable(cooldowns) /\ KeyTable(rateFailures) /\ KeyTable(rateVersions)
    /\ rateStreak \in [Pools -> Nat] /\ rateVersion \in [Pools -> Nat]
    /\ rateProviderUntil \in [Pools -> Nat]
    /\ until \in [Pools -> Nat] /\ version \in [Pools -> Nat]
    /\ PauseCoversKeys /\ SilenceBounded

\* The part about the claims and who holds them.
ClaimsOK ==
    /\ latest \in Pools /\ active \in Pools /\ active <= latest
    /\ serverOf \in [Pools -> Pools]
    /\ rateProbe \in [Pools -> Requests \cup {None}]
    /\ probe \in [Pools -> Requests \cup {None}]
    /\ phase \in [Requests -> Phases]
    /\ pool \in [Requests -> Pools]
    /\ lease \in [Requests -> {"none", "pool", "server"}]
    /\ \A r \in Requests : pool[r] <= latest /\ (phase[r] = "idle" => lease[r] = "none")
    /\ ClaimsOwned

\* The part about the requests and the round robin.
RequestsOK ==
    /\ epoch \in Nat /\ shown \in Nat
    /\ next \in [Pools -> Nat]
    /\ \A p \in Pools :
          /\ NKeys(p) > 0 => next[p] < NKeys(p)
          /\ p <= latest => NKeys(p) > 0
    /\ view \in [Requests -> Nat]
    /\ DOMAIN cands = Requests /\ DOMAIN key = Requests
    /\ \A r \in Requests :
          /\ cands[r] \subseteq Keys(pool[r]) /\ key[r] \in Keys(pool[r])
          /\ phase[r] = "idle" => cands[r] = {} /\ key[r] = 1
    /\ scanning \in [Requests -> BOOLEAN]
    /\ obs \in [Requests -> [key : Nat, provider : Nat, server : Nat]]
    /\ held \in [Requests -> Nat] /\ sent \in [Requests -> Nat]
    /\ probing \in [Requests -> {"no", "pool", "server"}]

OvertakenTyped == overtaken \subseteq Requests

\* The parts are the whole.
LEMMA Parts == IInv <=> /\ HealthOK /\ ClaimsOK /\ RequestsOK /\ ObservationsSound
                        /\ OvertakenTyped
<1>1. \A p \in Pools : {cooldowns[p], rateFailures[p], rateVersions[p]} \subseteq [Keys(p) -> Nat]
         <=> /\ cooldowns[p] \in [Keys(p) -> Nat]
             /\ rateFailures[p] \in [Keys(p) -> Nat]
             /\ rateVersions[p] \in [Keys(p) -> Nat]
  OBVIOUS
<1> QED
  BY <1>1, Zenon DEF IInv, TypeOK, PoolsMade, IdleHoldsNothing, HealthOK, ClaimsOK,
        RequestsOK, KeyTable, OvertakenTyped

LEMMA WaitsTyped ==
    ASSUME IInv, NEW w \in profile.waits
    PROVE  w \in Nat
  BY Parts, BoundsAssumption DEF HealthOK

-----------------------------------------------------------------------------
(* Recording outcomes.                                                     *)

\* Every pool has a number of keys, and the keys are its numbers.
LEMMA KeysTyped ==
    ASSUME profile \in Shapes
    PROVE  \A p \in Pools : NKeys(p) \in Nat /\ \A k \in Keys(p) : k \in Nat \ {0}
  BY BoundsAssumption DEF NKeys, Keys, Pools

LEMMA LargerTyped ==
    \A a, b \in Nat : /\ Larger(a, b) \in Nat
                      /\ Larger(a, b) >= a /\ Larger(a, b) >= b
                      /\ Larger(a, b) = a \/ Larger(a, b) = b
  BY DEF Larger

\* A key cools for at least one unit and at most a Day.
LEMMA KeyDelayBounds ==
    ASSUME NEW failures \in Nat, NEW delay \in Nat
    PROVE  /\ KeyDelay(failures, delay) \in Nat
           /\ KeyDelay(failures, delay) > 0 /\ KeyDelay(failures, delay) <= Day
  BY DelaysAssumption DEF KeyDelay, Larger

\* Changing one key's number leaves a table.
LEMMA KeyUpdated ==
    ASSUME NEW f, KeyTable(f), NEW p \in Pools, NEW k \in Keys(p), NEW n \in Nat
    PROVE  KeyTable([f EXCEPT ![p][k] = n])
  BY DEF KeyTable

\* A recorded rate limit keeps the key health sound: it extends cooldowns
\* and pauses, never beyond a Day, and every pause it makes lies ahead.
LEMMA RateLimitedEffect ==
    ASSUME HealthOK, NEW p \in Pools, NEW k \in Keys(p), NEW delay \in Nat,
           rateLimitedAt(p, k, delay), profile' = profile, now' = now
    PROVE  /\ HealthOK'
           /\ rateVersion' = [rateVersion EXCEPT ![p] = @ + 1]
           /\ \A q \in Pools :
                 \/ rateProviderUntil'[q] = rateProviderUntil[q]
                 \/ /\ q = p /\ rateProviderUntil'[q] > now
                    /\ rateProviderUntil'[q] >= rateProviderUntil[q]
           /\ until' = until /\ version' = version
<1> DEFINE failures == rateFailures[p][k] + 1
           d        == KeyDelay(failures, delay)
           old      == cooldowns[p]
           c        == Larger(old[k], now + d)
           cooled   == [old EXCEPT ![k] = c]
           streak   == rateStreak[p] + 1
           allCooling == \A j \in Keys(p) : cooled[j] > now
<1>1. /\ profile \in Shapes /\ now \in Nat
      /\ KeyTable(cooldowns) /\ KeyTable(rateFailures) /\ KeyTable(rateVersions)
      /\ rateStreak \in [Pools -> Nat] /\ rateVersion \in [Pools -> Nat]
      /\ rateProviderUntil \in [Pools -> Nat] /\ now # 0
      /\ until \in [Pools -> Nat] /\ version \in [Pools -> Nat]
  BY DEF HealthOK
<1>2. failures \in Nat /\ streak \in Nat /\ streak # 0 /\ rateVersions[p][k] + 1 \in Nat
  BY <1>1 DEF KeyTable
<1>3. d \in Nat /\ d > 0 /\ d <= Day /\ Day \in Nat
  BY <1>2, KeyDelayBounds, DelaysAssumption
<1>4. old \in [Keys(p) -> Nat] /\ \A j \in Keys(p) : old[j] <= now + Day
  BY <1>1 DEF KeyTable, HealthOK, SilenceBounded
<1>5. c \in Nat /\ c >= old[k] /\ c >= now + d /\ c <= now + Day
  <2>1. now + d \in Nat /\ now + d <= now + Day /\ old[k] \in Nat
    BY <1>1, <1>3, <1>4
  <2> QED
    BY <2>1, <1>4, LargerTyped
<1>6. /\ cooled \in [Keys(p) -> Nat] /\ cooled[k] > now
      /\ \A j \in Keys(p) : cooled[j] >= old[j] /\ cooled[j] <= now + Day
  BY <1>1, <1>3, <1>4, <1>5
<1>7. /\ rateFailures' = [rateFailures EXCEPT ![p][k] = failures]
      /\ rateVersions' = [rateVersions EXCEPT ![p][k] = rateVersions[p][k] + 1]
      /\ rateStreak' = [rateStreak EXCEPT ![p] = streak]
      /\ rateVersion' = [rateVersion EXCEPT ![p] = @ + 1]
      /\ until' = until /\ version' = version
  BY <1>1 DEF rateLimitedAt, serverVars, KeyTable
<1>8. \/ /\ allCooling
         /\ cooldowns' = [cooldowns EXCEPT ![p] = Silenced(p, cooled)]
         /\ rateProviderUntil' = [rateProviderUntil EXCEPT ![p] = now + Day]
      \/ /\ allCooling
         /\ cooldowns' = [cooldowns EXCEPT ![p] = cooled]
         /\ \E first \in Keys(p) :
               /\ \A j \in Keys(p) : cooled[first] <= cooled[j]
               /\ rateProviderUntil' = [rateProviderUntil EXCEPT ![p] = cooled[first]]
      \/ /\ ~allCooling
         /\ cooldowns' = [cooldowns EXCEPT ![p] = cooled]
         /\ rateProviderUntil' = rateProviderUntil
  BY DEF rateLimitedAt
<1>9. \A q \in Pools : Keys(q)' = Keys(q)
  BY DEF Keys, NKeys
<1> HIDE DEF failures, d, c, cooled, streak, allCooling
<1>10. /\ KeyTable(rateFailures') /\ KeyTable(rateVersions')
       /\ rateStreak' \in [Pools -> Nat] /\ rateVersion' \in [Pools -> Nat]
       /\ until' \in [Pools -> Nat] /\ version' \in [Pools -> Nat]
       /\ rateStreak'[p] # 0 /\ \A q \in Pools : q # p => rateStreak'[q] = rateStreak[q]
  <2>1. KeyTable(rateFailures') /\ KeyTable(rateVersions')
    BY <1>1, <1>2, <1>7, KeyUpdated
  <2> QED
    BY <2>1, <1>1, <1>2, <1>7
\* The pool's own cooldowns and pause, and those of the others.
<1>11. \E g \in [Keys(p) -> Nat], u \in Nat :
          /\ cooldowns' = [cooldowns EXCEPT ![p] = g]
          /\ rateProviderUntil' = [rateProviderUntil EXCEPT ![p] = u]
          /\ \A j \in Keys(p) : g[j] <= now + Day
          /\ u <= now + Day /\ u >= rateProviderUntil[p]
          /\ u > now => \A j \in Keys(p) : g[j] >= u
          /\ u = rateProviderUntil[p] \/ u > now
  <2>1. /\ rateProviderUntil[p] \in Nat /\ rateProviderUntil[p] <= now + Day
        /\ rateProviderUntil[p] > now => \A j \in Keys(p) : old[j] >= rateProviderUntil[p]
    BY <1>1 DEF HealthOK, SilenceBounded, PauseCoversKeys
  <2>2. CASE /\ allCooling
             /\ cooldowns' = [cooldowns EXCEPT ![p] = Silenced(p, cooled)]
             /\ rateProviderUntil' = [rateProviderUntil EXCEPT ![p] = now + Day]
    <3> DEFINE g1 == Silenced(p, cooled)
               u1 == now + Day
    <3>1. /\ Silenced(p, cooled) \in [Keys(p) -> Nat]
          /\ \A j \in Keys(p) : Silenced(p, cooled)[j] = now + Day
      <4>1. \A j \in Keys(p) : Larger(cooled[j], now + Day) = now + Day
        <5> SUFFICES ASSUME NEW j \in Keys(p)
                     PROVE  Larger(cooled[j], now + Day) = now + Day
          OBVIOUS
        <5>1. cooled[j] \in Nat /\ cooled[j] <= now + Day
          BY <1>6
        <5> QED
          BY <5>1, <1>1, <1>3 DEF Larger
      <4> QED
        BY <4>1, <1>1, <1>3 DEF Silenced
    <3>2. now + Day \in Nat /\ now + Day > now
      BY <1>1, <1>3, DelaysAssumption
    <3>3. u1 >= rateProviderUntil[p] /\ u1 <= now + Day
      BY <3>2, <2>1
    <3>4. \A j \in Keys(p) : g1[j] <= now + Day /\ g1[j] >= u1
      BY <3>1, <3>2
    <3> HIDE DEF g1
    <3> QED
      BY <3>1, <3>2, <3>3, <3>4, <2>2 DEF g1
  <2>3. CASE /\ allCooling
             /\ cooldowns' = [cooldowns EXCEPT ![p] = cooled]
             /\ \E first \in Keys(p) :
                   /\ \A j \in Keys(p) : cooled[first] <= cooled[j]
                   /\ rateProviderUntil' = [rateProviderUntil EXCEPT ![p] = cooled[first]]
    <3>1. PICK first \in Keys(p) :
                   /\ \A j \in Keys(p) : cooled[first] <= cooled[j]
                   /\ rateProviderUntil' = [rateProviderUntil EXCEPT ![p] = cooled[first]]
      BY <2>3
    <3>2. cooled[first] \in Nat /\ cooled[first] > now /\ cooled[first] <= now + Day
      BY <2>3, <1>6 DEF allCooling
    <3>3. cooled[first] >= old[first] /\ old[first] \in Nat
      BY <1>4, <1>6
    <3>4. cooled[first] >= rateProviderUntil[p]
      BY <3>2, <3>3, <2>1, <1>1
    <3>5. \A j \in Keys(p) : cooled[j] >= cooled[first]
      BY <3>1, <1>6, <3>2
    <3> QED
      BY <3>1, <3>2, <3>4, <3>5, <2>3, <1>6
  <2>4. CASE /\ ~allCooling
             /\ cooldowns' = [cooldowns EXCEPT ![p] = cooled]
             /\ rateProviderUntil' = rateProviderUntil
    <3>1. rateProviderUntil' = [rateProviderUntil EXCEPT ![p] = rateProviderUntil[p]]
      BY <2>4, <1>1
    <3>2. rateProviderUntil[p] > now => \A j \in Keys(p) : cooled[j] >= rateProviderUntil[p]
      BY <1>4, <1>6, <2>1
    <3>3. rateProviderUntil[p] >= rateProviderUntil[p]
      BY <2>1
    <3> QED
      BY <3>1, <3>2, <3>3, <2>1, <2>4, <1>6
  <2> QED
    BY <1>8, <2>2, <2>3, <2>4
<1>12. PICK g \in [Keys(p) -> Nat], u \in Nat :
          /\ cooldowns' = [cooldowns EXCEPT ![p] = g]
          /\ rateProviderUntil' = [rateProviderUntil EXCEPT ![p] = u]
          /\ \A j \in Keys(p) : g[j] <= now + Day
          /\ u <= now + Day /\ u >= rateProviderUntil[p]
          /\ u > now => \A j \in Keys(p) : g[j] >= u
          /\ u = rateProviderUntil[p] \/ u > now
  BY <1>11
<1>13. /\ KeyTable(cooldowns') /\ cooldowns'[p] = g
       /\ \A q \in Pools : q # p => cooldowns'[q] = cooldowns[q]
  BY <1>1, <1>12 DEF KeyTable
<1>14. /\ rateProviderUntil' \in [Pools -> Nat] /\ rateProviderUntil'[p] = u
       /\ \A q \in Pools : q # p => rateProviderUntil'[q] = rateProviderUntil[q]
  BY <1>1, <1>12
<1>15. PauseCoversKeys'
  BY <1>9, <1>12, <1>13, <1>14 DEF PauseCoversKeys, HealthOK
<1>16. SilenceBounded'
  BY <1>9, <1>10, <1>12, <1>13, <1>14 DEF SilenceBounded, HealthOK
<1>17. HealthOK'
  BY <1>1, <1>9, <1>10, <1>13, <1>14, <1>15, <1>16 DEF HealthOK, KeyTable
<1> QED
  BY <1>7, <1>12, <1>14, <1>17
\* What any step may do to pauses and server waits: a pause that begins lies
\* ahead, versions grow, and as long as a version stays the same its pause is
\* not extended.
PausesOrdered ==
    \A q \in Pools :
        /\ rateVersion'[q] >= rateVersion[q] /\ version'[q] >= version[q]
        /\ \/ rateProviderUntil'[q] = rateProviderUntil[q]
           \/ rateProviderUntil'[q] = 0
           \/ rateVersion'[q] > rateVersion[q] /\ rateProviderUntil'[q] > now
        /\ \/ until'[q] = until[q]
           \/ until'[q] = 0
           \/ version'[q] > version[q]

\* A rejected credential cools its own key, for at most a Day.
LEMMA CooldownEffect ==
    ASSUME HealthOK, NEW p \in Pools, NEW k \in Keys(p), NEW delay \in Nat,
           CooldownAt(p, k, delay), profile' = profile, now' = now
    PROVE  HealthOK' /\ rateVars' = rateVars /\ serverVars' = serverVars
<1> DEFINE bounded == Larger(IF delay > Day THEN Day ELSE delay, 1)
           c == Larger(cooldowns[p][k], now + bounded)
<1>1. /\ profile \in Shapes /\ now \in Nat
      /\ KeyTable(cooldowns) /\ KeyTable(rateFailures) /\ KeyTable(rateVersions)
  BY DEF HealthOK
<1>2. cooldowns[p][k] \in Nat /\ cooldowns[p][k] <= now + Day
  BY <1>1 DEF KeyTable, HealthOK, SilenceBounded
<1>3. bounded \in Nat /\ bounded <= Day
  BY DelaysAssumption DEF Larger
<1>4. c \in Nat /\ c >= cooldowns[p][k] /\ c <= now + Day
  <2> HIDE DEF bounded
  <2>1. now + bounded \in Nat /\ now + bounded <= now + Day /\ now + Day \in Nat
    BY <1>1, <1>3, DelaysAssumption
  <2> QED
    BY <2>1, <1>2, LargerTyped
<1>5. cooldowns' = [cooldowns EXCEPT ![p][k] = c]
  BY <1>1 DEF CooldownAt, KeyTable
<1>6. /\ rateFailures' = rateFailures /\ rateVersions' = rateVersions
      /\ rateVars' = rateVars /\ serverVars' = serverVars
  BY DEF CooldownAt, rateVars, serverVars
<1> HIDE DEF c
<1>7. /\ KeyTable(cooldowns')
      /\ \A q \in Pools : \A j \in Keys(q) :
            /\ cooldowns'[q][j] >= cooldowns[q][j] /\ cooldowns'[q][j] <= now + Day
  <2>1. KeyTable(cooldowns')
    BY <1>1, <1>4, <1>5, KeyUpdated
  <2>2. \A q \in Pools : \A j \in Keys(q) :
            /\ cooldowns'[q][j] = IF q = p /\ j = k THEN c ELSE cooldowns[q][j]
            /\ cooldowns[q][j] \in Nat /\ cooldowns[q][j] <= now + Day
    BY <1>1, <1>5 DEF KeyTable, HealthOK, SilenceBounded
  <2> QED
    BY <2>1, <2>2, <1>4
<1>8. \A q \in Pools : Keys(q)' = Keys(q)
  BY DEF Keys, NKeys
<1>9. PauseCoversKeys'
  <2> SUFFICES ASSUME NEW q \in Pools, rateProviderUntil[q] > now, NEW j \in Keys(q)
               PROVE  cooldowns'[q][j] >= rateProviderUntil[q]
    BY <1>6, <1>8 DEF PauseCoversKeys, rateVars
  <2>1. /\ cooldowns[q][j] >= rateProviderUntil[q] /\ rateProviderUntil[q] \in Nat
        /\ cooldowns[q][j] \in Nat /\ cooldowns'[q][j] \in Nat
    BY <1>1, <1>7, <1>8 DEF HealthOK, PauseCoversKeys, KeyTable
  <2> QED
    BY <2>1, <1>7
<1>10. SilenceBounded'
  BY <1>6, <1>7, <1>8 DEF SilenceBounded, HealthOK, rateVars
<1> QED
  BY <1>1, <1>6, <1>7, <1>8, <1>9, <1>10 DEF HealthOK, KeyTable, rateVars, serverVars

\* Clearing elapsed cooldowns of a pool changes nothing else and uncovers no
\* pause.
LEMMA ClearedEffect ==
    ASSUME HealthOK, profile' = profile, now' = now,
           rateFailures' = rateFailures, rateVersions' = rateVersions,
           rateVars' = rateVars, serverVars' = serverVars,
           KeyTable(cooldowns'),
           \A q \in Pools : \A j \in Keys(q) :
              \/ cooldowns'[q][j] = cooldowns[q][j]
              \/ cooldowns'[q][j] = 0 /\ cooldowns[q][j] <= now
    PROVE  HealthOK'
<1>1. \A q \in Pools : Keys(q)' = Keys(q)
  BY DEF Keys, NKeys
<1>2. \A q \in Pools : \A j \in Keys(q) : cooldowns[q][j] \in Nat
  BY DEF HealthOK, KeyTable
<1>3. PauseCoversKeys'
  <2> SUFFICES ASSUME NEW q \in Pools, rateProviderUntil[q] > now, NEW j \in Keys(q)
               PROVE  cooldowns'[q][j] >= rateProviderUntil[q]
    BY <1>1 DEF PauseCoversKeys, rateVars
  <2>1. /\ cooldowns[q][j] >= rateProviderUntil[q] /\ rateProviderUntil[q] \in Nat
        /\ cooldowns[q][j] \in Nat /\ now \in Nat
    BY <1>2 DEF HealthOK, PauseCoversKeys
  <2> QED
    BY <2>1
<1>4. SilenceBounded'
  <2>1. now \in Nat /\ Day \in Nat /\ 0 <= now + Day
    BY DelaysAssumption DEF HealthOK
  <2> QED
    BY <1>1, <2>1 DEF SilenceBounded, HealthOK, rateVars
<1> QED
  BY <1>1, <1>3, <1>4 DEF HealthOK, KeyTable, rateVars, serverVars

\* A success may reset its key's streak, and lifts pause and wait together
\* or neither.
LEMMA SucceededEffect ==
    ASSUME HealthOK, serverOf \in [Pools -> Pools],
           NEW p \in Pools, NEW k \in Keys(p), NEW seen,
           rateSucceeded(p, k, seen), profile' = profile, now' = now
    PROVE  /\ HealthOK' /\ PausesOrdered
           /\ \/ rateProviderUntil' = rateProviderUntil /\ until' = until
              \/ /\ Fresh(p, seen)
                 /\ rateProviderUntil' = [rateProviderUntil EXCEPT ![p] = 0]
                 /\ until' = [until EXCEPT ![Srv(p)] = 0]
<1>1. /\ profile \in Shapes /\ now \in Nat
      /\ KeyTable(cooldowns) /\ KeyTable(rateFailures) /\ KeyTable(rateVersions)
      /\ rateStreak \in [Pools -> Nat] /\ rateVersion \in [Pools -> Nat]
      /\ rateProviderUntil \in [Pools -> Nat] /\ now # 0
      /\ until \in [Pools -> Nat] /\ version \in [Pools -> Nat]
      /\ PauseCoversKeys /\ SilenceBounded /\ Srv(p) \in Pools
  BY DEF HealthOK, Srv
<1>2. /\ cooldowns' = cooldowns /\ rateVersions' = rateVersions
      /\ rateVersion' = rateVersion
  BY DEF rateSucceeded
<1>3. KeyTable(rateFailures')
  <2>1. 0 \in Nat
    OBVIOUS
  <2>2. CASE rateFailures' = [rateFailures EXCEPT ![p][k] = 0]
    BY <2>2, <2>1, <1>1, KeyUpdated
  <2>3. CASE rateFailures' = rateFailures
    BY <2>3, <1>1
  <2> QED
    BY <2>2, <2>3 DEF rateSucceeded
<1>4. \A q \in Pools : Keys(q)' = Keys(q)
  BY DEF Keys, NKeys
<1>5. CASE Fresh(p, seen)
  <2>1. /\ rateStreak' = [rateStreak EXCEPT ![p] = 0]
        /\ rateProviderUntil' = [rateProviderUntil EXCEPT ![p] = 0]
        /\ until' = [until EXCEPT ![Srv(p)] = 0]
        /\ \/ version' = [version EXCEPT ![Srv(p)] = @ + 1]
           \/ version' = version
    BY <1>5 DEF rateSucceeded
  <2>2. version' \in [Pools -> Nat] /\ \A q \in Pools : version'[q] >= version[q]
    BY <2>1, <1>1
  <2>3. /\ rateStreak' \in [Pools -> Nat] /\ until' \in [Pools -> Nat]
        /\ rateProviderUntil' \in [Pools -> Nat]
    BY <2>1, <1>1
  <2>4. PauseCoversKeys'
    BY <2>1, <1>1, <1>2, <1>4 DEF PauseCoversKeys
  <2>5. SilenceBounded'
    <3>1. 0 <= now + Day
      BY <1>1, DelaysAssumption
    <3> QED
      BY <3>1, <2>1, <1>1, <1>2, <1>4 DEF SilenceBounded
  <2>6. HealthOK'
    BY <2>2, <2>3, <2>4, <2>5, <1>1, <1>2, <1>3, <1>4 DEF HealthOK, KeyTable
  <2>7. PausesOrdered
    BY <2>1, <2>2, <1>1, <1>2 DEF PausesOrdered
  <2> QED
    BY <1>5, <2>1, <2>6, <2>7
<1>6. CASE ~Fresh(p, seen)
  <2>1. /\ rateStreak' = rateStreak /\ rateProviderUntil' = rateProviderUntil
        /\ until' = until /\ version' = version
    BY <1>6 DEF rateSucceeded, serverVars
  <2>2. PauseCoversKeys' /\ SilenceBounded'
    BY <2>1, <1>1, <1>2, <1>4 DEF PauseCoversKeys, SilenceBounded
  <2>3. HealthOK'
    BY <2>1, <2>2, <1>1, <1>2, <1>3, <1>4 DEF HealthOK, KeyTable
  <2>4. PausesOrdered
    BY <2>1, <1>1, <1>2 DEF PausesOrdered
  <2> QED
    BY <2>1, <2>3, <2>4
<1> QED
  BY <1>5, <1>6

\* A server wait extends the endpoint's wait and leaves the keys alone.
LEMMA HeldEffect ==
    ASSUME HealthOK, serverOf \in [Pools -> Pools],
           NEW p \in Pools, NEW deadline \in Nat, holdProviderUntil(p, deadline),
           keyVars' = keyVars, rateStreak' = rateStreak,
           rateProviderUntil' = rateProviderUntil, profile' = profile, now' = now
    PROVE  /\ HealthOK' /\ PausesOrdered
           /\ \A q \in Pools :
                 \/ until'[q] = until[q]
                 \/ q = Srv(p) /\ until'[q] = deadline /\ deadline > until[q]
<1>1. /\ profile \in Shapes /\ now \in Nat
      /\ KeyTable(cooldowns) /\ KeyTable(rateFailures) /\ KeyTable(rateVersions)
      /\ rateStreak \in [Pools -> Nat] /\ rateVersion \in [Pools -> Nat]
      /\ rateProviderUntil \in [Pools -> Nat] /\ now # 0
      /\ until \in [Pools -> Nat] /\ version \in [Pools -> Nat]
      /\ PauseCoversKeys /\ SilenceBounded /\ Srv(p) \in Pools
  BY DEF HealthOK, Srv
<1>2. /\ rateVersion' = [rateVersion EXCEPT ![p] = @ + 1]
      /\ version' = [version EXCEPT ![Srv(p)] = @ + 1]
      /\ until' = [until EXCEPT ![Srv(p)] = Larger(until[Srv(p)], deadline)]
  BY DEF holdProviderUntil
<1>3. /\ rateVersion' \in [Pools -> Nat] /\ version' \in [Pools -> Nat]
      /\ \A q \in Pools : rateVersion'[q] >= rateVersion[q] /\ version'[q] >= version[q]
      /\ version'[Srv(p)] > version[Srv(p)]
  BY <1>1, <1>2
<1>4. /\ until' \in [Pools -> Nat]
      /\ \A q \in Pools :
            \/ until'[q] = until[q]
            \/ q = Srv(p) /\ until'[q] = deadline /\ deadline > until[q]
  <2>1. until[Srv(p)] \in Nat
    BY <1>1
  <2>2. \/ Larger(until[Srv(p)], deadline) = until[Srv(p)]
        \/ Larger(until[Srv(p)], deadline) = deadline /\ deadline > until[Srv(p)]
    BY <2>1 DEF Larger
  <2> QED
    BY <1>1, <1>2, <2>1, <2>2
<1>5. \A q \in Pools : Keys(q)' = Keys(q)
  BY DEF Keys, NKeys
<1>6. PauseCoversKeys' /\ SilenceBounded'
  BY <1>1, <1>5 DEF PauseCoversKeys, SilenceBounded, keyVars
<1>7. HealthOK'
  BY <1>1, <1>3, <1>4, <1>5, <1>6 DEF HealthOK, KeyTable, keyVars
<1>8. PausesOrdered
  BY <1>3, <1>4 DEF PausesOrdered
<1> QED
  BY <1>4, <1>7, <1>8
\* A step that records nothing.
LEMMA NothingRecorded ==
    ASSUME HealthOK, keyVars' = keyVars, rateVars' = rateVars,
           serverVars' = serverVars, profile' = profile, now' = now
    PROVE  HealthOK' /\ PausesOrdered
<1>1. \A q \in Pools : Keys(q)' = Keys(q)
  BY DEF Keys, NKeys
<1>2. PauseCoversKeys' /\ SilenceBounded'
  BY <1>1 DEF PauseCoversKeys, SilenceBounded, HealthOK, keyVars, rateVars
<1>3. HealthOK'
  BY <1>1, <1>2 DEF HealthOK, KeyTable, keyVars, rateVars, serverVars
<1>4. PausesOrdered
  BY DEF HealthOK, PausesOrdered, rateVars, serverVars
<1> QED
  BY <1>3, <1>4

\* The same versions and pauses are in order.
LEMMA OrderedUnchanged ==
    ASSUME HealthOK, rateVars' = rateVars, serverVars' = serverVars
    PROVE  PausesOrdered
  BY DEF HealthOK, PausesOrdered, rateVars, serverVars

\* The steps of a request before the outcome only clear elapsed cooldowns.
LEMMA CandidatesHealth ==
    ASSUME IInv, NEW r \in Requests, Candidates(r)
    PROVE  HealthOK' /\ PausesOrdered
<1> DEFINE p == pool[r]
           ready == {k \in Keys(p) : cooldowns[p][k] <= now}
<1>1. HealthOK /\ p \in Pools
  BY Parts DEF ClaimsOK
<1>2. /\ profile' = profile /\ now' = now /\ rateFailures' = rateFailures
      /\ rateVersions' = rateVersions /\ rateVars' = rateVars
      /\ serverVars' = serverVars
  BY DEF Candidates, clockVars, rateVars, serverVars
<1>3. CASE cooldowns' = cooldowns
  BY <1>1, <1>2, <1>3, NothingRecorded DEF keyVars
<1>4. CASE cooldowns' = [cooldowns EXCEPT ![p] =
                            [k \in Keys(p) |-> IF k \in ready THEN 0 ELSE @[k]]]
  <2> DEFINE g == [k \in Keys(p) |-> IF k \in ready THEN 0 ELSE cooldowns[p][k]]
  <2>1. KeyTable(cooldowns)
    BY <1>1 DEF HealthOK
  <2>2. cooldowns' = [cooldowns EXCEPT ![p] = g]
    BY <1>1, <1>4, <2>1 DEF KeyTable
  <2>3. /\ g \in [Keys(p) -> Nat]
        /\ \A j \in Keys(p) : \/ g[j] = cooldowns[p][j]
                              \/ g[j] = 0 /\ cooldowns[p][j] <= now
    BY <1>1, <2>1 DEF KeyTable
  <2> HIDE DEF g
  <2>4. /\ KeyTable(cooldowns') /\ cooldowns'[p] = g
        /\ \A q \in Pools : q # p => cooldowns'[q] = cooldowns[q]
    BY <1>1, <2>1, <2>2, <2>3 DEF KeyTable
  <2> HIDE DEF p
  <2>5. \A q \in Pools : \A j \in Keys(q) :
           \/ cooldowns'[q][j] = cooldowns[q][j]
           \/ cooldowns'[q][j] = 0 /\ cooldowns[q][j] <= now
    BY <2>3, <2>4
  <2>6. HealthOK'
    BY <1>1, <1>2, <2>4, <2>5, ClearedEffect
  <2> QED
    BY <1>1, <1>2, <2>6, OrderedUnchanged
<1> QED
  BY <1>3, <1>4 DEF Candidates

LEMMA ReadyHealth ==
    ASSUME IInv, NEW r \in Requests, NEW k \in Keys(pool[r]), ReadyCheck(r, k)
    PROVE  HealthOK' /\ PausesOrdered
<1> DEFINE p == pool[r]
<1>1. HealthOK /\ p \in Pools
  BY Parts DEF ClaimsOK
<1>2. /\ profile' = profile /\ now' = now /\ rateFailures' = rateFailures
      /\ rateVersions' = rateVersions /\ rateVars' = rateVars
      /\ serverVars' = serverVars
  BY DEF ReadyCheck, clockVars, rateVars, serverVars
<1>3. CASE cooldowns' = cooldowns
  BY <1>1, <1>2, <1>3, NothingRecorded DEF keyVars
<1>4. CASE cooldowns[p][k] <= now /\ cooldowns' = [cooldowns EXCEPT ![p][k] = 0]
  <2>1. KeyTable(cooldowns) /\ 0 \in Nat /\ k \in Keys(p)
    BY <1>1 DEF HealthOK
  <2> HIDE DEF p
  <2>2. KeyTable(cooldowns')
    BY <1>1, <1>4, <2>1, KeyUpdated
  <2>3. \A q \in Pools : \A j \in Keys(q) :
           cooldowns'[q][j] = IF q = p /\ j = k THEN 0 ELSE cooldowns[q][j]
    BY <1>1, <1>4, <2>1 DEF KeyTable
  <2>4. \A q \in Pools : \A j \in Keys(q) :
           \/ cooldowns'[q][j] = cooldowns[q][j]
           \/ cooldowns'[q][j] = 0 /\ cooldowns[q][j] <= now
    BY <2>3, <1>4
  <2>5. HealthOK'
    BY <1>1, <1>2, <2>2, <2>4, ClearedEffect
  <2> QED
    BY <1>1, <1>2, <2>5, OrderedUnchanged
<1> QED
  BY <1>3, <1>4 DEF ReadyCheck, KeyReady

\* The pauses after a recorded rate limit are in order.
LEMMA RateLimitedOrder ==
    ASSUME HealthOK, NEW p \in Pools, NEW k \in Keys(p), NEW delay \in Nat,
           rateLimitedAt(p, k, delay), profile' = profile, now' = now
    PROVE  /\ HealthOK' /\ PausesOrdered
           /\ until' = until
           /\ \A q \in Pools : rateProviderUntil'[q] >= rateProviderUntil[q]
<1>1. /\ HealthOK' /\ until' = until /\ version' = version
      /\ rateVersion' = [rateVersion EXCEPT ![p] = @ + 1]
      /\ \A q \in Pools :
                 \/ rateProviderUntil'[q] = rateProviderUntil[q]
                 \/ /\ q = p /\ rateProviderUntil'[q] > now
                    /\ rateProviderUntil'[q] >= rateProviderUntil[q]
  BY RateLimitedEffect
<1>2. /\ rateVersion \in [Pools -> Nat] /\ version \in [Pools -> Nat]
      /\ rateProviderUntil \in [Pools -> Nat]
  BY DEF HealthOK
<1>3. /\ rateVersion'[p] > rateVersion[p]
      /\ \A q \in Pools : rateVersion'[q] >= rateVersion[q] /\ version'[q] >= version[q]
  BY <1>1, <1>2
<1> QED
  BY <1>1, <1>2, <1>3 DEF PausesOrdered

LEMMA OutcomeHealth ==
    ASSUME IInv, NEW r \in Requests, Outcome(r)
    PROVE  HealthOK' /\ PausesOrdered
<1> DEFINE p == pool[r]
           k == key[r]
<1>1. /\ HealthOK /\ p \in Pools /\ k \in Keys(p) /\ held[r] \in Nat /\ now \in Nat
      /\ serverOf \in [Pools -> Pools]
  BY Parts DEF ClaimsOK, RequestsOK, HealthOK
<1>2. profile' = profile /\ now' = now
  BY DEF Outcome, Succeed, FailHold, FailRecord, FailLocal, clockVars
<1> HIDE DEF p, k
<1>3. CASE Succeed(r)
  <2>1. rateSucceeded(p, k, obs[r]) \/ UNCHANGED <<keyVars, rateVars, serverVars>>
    BY <1>3 DEF Succeed, p, k
  <2>2. CASE UNCHANGED <<keyVars, rateVars, serverVars>>
    BY <1>1, <1>2, <2>2, NothingRecorded
  <2>3. CASE rateSucceeded(p, k, obs[r])
    BY <1>1, <1>2, <2>3, SucceededEffect
  <2> QED
    BY <2>1, <2>2, <2>3
<1>4. ASSUME NEW w \in profile.waits, FailHold(r, w)
      PROVE  HealthOK' /\ PausesOrdered
  <2>1. /\ holdProviderUntil(p, now + w) /\ keyVars' = keyVars
        /\ rateStreak' = rateStreak /\ rateProviderUntil' = rateProviderUntil
    BY <1>4 DEF FailHold, keyVars, p
  <2>2. now + w \in Nat
    BY <1>1, WaitsTyped
  <2> QED
    BY <1>1, <1>2, <2>1, <2>2, HeldEffect
<1>5. ASSUME NEW limited \in BOOLEAN, FailRecord(r, limited)
      PROVE  HealthOK' /\ PausesOrdered
  <2> DEFINE d == Larger(held[r] - now, 0)
  <2>1. rateLimitedAt(p, k, d) \/ UNCHANGED <<keyVars, rateVars, serverVars>>
    BY <1>5 DEF FailRecord, p, k
  <2>2. d \in Nat
    BY <1>1 DEF Larger
  <2> HIDE DEF d
  <2>3. CASE rateLimitedAt(p, k, d)
    BY <1>1, <1>2, <2>2, <2>3, RateLimitedOrder
  <2>4. CASE UNCHANGED <<keyVars, rateVars, serverVars>>
    BY <1>1, <1>2, <2>4, NothingRecorded
  <2> QED
    BY <2>1, <2>3, <2>4
<1>6. ASSUME NEW kind \in {"rate", "auth", "other"}, NEW d \in Delays,
             FailLocal(r, kind, d)
      PROVE  HealthOK' /\ PausesOrdered
  <2>1. \/ rateLimitedAt(p, k, d) \/ CooldownAt(p, k, d)
        \/ UNCHANGED <<keyVars, rateVars, serverVars>>
    BY <1>6 DEF FailLocal, p, k
  <2>2. d \in Nat
    BY DelaysAssumption
  <2>3. CASE rateLimitedAt(p, k, d)
    BY <1>1, <1>2, <2>2, <2>3, RateLimitedOrder
  <2>4. CASE CooldownAt(p, k, d)
    BY <1>1, <1>2, <2>2, <2>4, CooldownEffect, OrderedUnchanged
  <2>5. CASE UNCHANGED <<keyVars, rateVars, serverVars>>
    BY <1>1, <1>2, <2>5, NothingRecorded
  <2> QED
    BY <2>1, <2>3, <2>4, <2>5
<1> QED
  BY <1>3, <1>4, <1>5, <1>6 DEF Outcome

\* Time passing brings every pause nearer.
LEMMA TickHealth ==
    ASSUME IInv, Tick
    PROVE  HealthOK' /\ PausesOrdered
<1>1. HealthOK
  BY Parts
<1>2. /\ profile' = profile /\ now' = now + 1 /\ keyVars' = keyVars
      /\ rateVars' = rateVars /\ serverVars' = serverVars
  BY DEF Tick, keyVars, rateVars, serverVars
<1>3. now \in Nat /\ Day \in Nat /\ now' \in Nat \ {0}
  BY <1>1, <1>2, DelaysAssumption DEF HealthOK
<1>4. \A q \in Pools : Keys(q)' = Keys(q)
  BY <1>2 DEF Keys, NKeys
<1>5. /\ cooldowns' = cooldowns /\ rateProviderUntil' = rateProviderUntil
      /\ rateStreak' = rateStreak
  BY <1>2 DEF keyVars, rateVars
<1>6. /\ rateProviderUntil \in [Pools -> Nat]
      /\ \A q \in Pools : \A j \in Keys(q) : cooldowns[q][j] \in Nat
  BY <1>1 DEF HealthOK, KeyTable
<1>7. PauseCoversKeys'
  <2> SUFFICES ASSUME NEW q \in Pools, rateProviderUntil[q] > now', NEW j \in Keys(q)
               PROVE  cooldowns[q][j] >= rateProviderUntil[q]
    BY <1>4, <1>5 DEF PauseCoversKeys
  <2>1. rateProviderUntil[q] > now
    BY <1>2, <1>3, <1>6
  <2> QED
    BY <2>1, <1>1 DEF HealthOK, PauseCoversKeys
<1>8. SilenceBounded'
  <2> SUFFICES ASSUME NEW q \in Pools
               PROVE  /\ rateStreak[q] = 0 => rateProviderUntil[q] = 0
                      /\ rateProviderUntil[q] <= now' + Day
                      /\ \A j \in Keys(q) : cooldowns[q][j] <= now' + Day
    BY <1>4, <1>5 DEF SilenceBounded
  <2>1. /\ rateStreak[q] = 0 => rateProviderUntil[q] = 0
        /\ rateProviderUntil[q] <= now + Day
        /\ \A j \in Keys(q) : cooldowns[q][j] <= now + Day
    BY <1>1 DEF HealthOK, SilenceBounded
  <2> QED
    BY <2>1, <1>2, <1>3, <1>6
<1> QED
  BY <1>1, <1>2, <1>3, <1>4, <1>7, <1>8, OrderedUnchanged
     DEF HealthOK, KeyTable, keyVars, rateVars, serverVars

\* Every step keeps the key health sound and the pauses in order.
LEMMA HealthNext ==
    ASSUME IInv, [Next]_vars
    PROVE  HealthOK' /\ PausesOrdered
<1>1. HealthOK
  BY Parts
<1>2. CASE UNCHANGED <<profile, now, keyVars, rateVars, serverVars>>
  BY <1>1, <1>2, NothingRecorded
<1>3. ASSUME NEW r \in Requests,
             Begin(r) \/ BeginRejected(r) \/ Cancel(r) \/ Finish(r)
             \/ \E k \in Keys(pool[r]) : ReadyClaim(r, k)
      PROVE  HealthOK' /\ PausesOrdered
  BY <1>2, <1>3 DEF Begin, BeginRejected, Cancel, Finish, ReadyClaim, clockVars, vars
<1>4. ASSUME NEW r \in Requests, RequestStep(r)
      PROVE  HealthOK' /\ PausesOrdered
  BY <1>3, <1>4, CandidatesHealth, ReadyHealth, OutcomeHealth DEF RequestStep
<1>5. CASE ReloadPolicy \/ (\E same \in BOOLEAN : ReloadConnection(same)) \/ Publish
  BY <1>2, <1>5 DEF ReloadPolicy, ReloadConnection, Publish
<1>6. CASE UNCHANGED vars
  BY <1>2, <1>6 DEF vars, clockVars
<1> QED
  BY <1>3, <1>4, <1>5, <1>6, TickHealth DEF Next
-----------------------------------------------------------------------------
(* Claims.                                                                 *)

\* A request without a lease owns no claim.
LEMMA NoLeaseNoClaim ==
    ASSUME ClaimsOK, NEW r \in Requests, lease[r] = "none"
    PROVE  \A q \in Pools : rateProbe[q] # r /\ probe[q] # r
  BY NoneAssumption DEF ClaimsOK, ClaimsOwned

\* A request that goes on without leaving keeps its claims.
LEMMA ClaimsKept ==
    ASSUME ClaimsOK, NEW r \in Requests, phase[r] # "idle",
           NEW x \in Phases \ {"idle"}, phase' = [phase EXCEPT ![r] = x],
           UNCHANGED <<claimVars, pool, latest, active, serverOf>>
    PROVE  ClaimsOK'
<1>1. /\ phase' \in [Requests -> Phases]
      /\ \A q \in Requests : phase'[q] = "idle" <=> phase[q] = "idle"
  BY DEF ClaimsOK
<1>2. /\ rateProbe' = rateProbe /\ probe' = probe /\ lease' = lease
      /\ pool' = pool /\ serverOf' = serverOf
      /\ latest' = latest /\ active' = active
  BY DEF claimVars
<1>3. ClaimsOwned'
  <2>1. /\ \A q \in Pools : rateProbe[q] # None => rateProbe[q] \in Requests
        /\ \A q \in Pools : probe[q] # None => probe[q] \in Requests
    BY DEF ClaimsOK
  <2> QED
    BY <1>1, <1>2, <2>1 DEF ClaimsOK, ClaimsOwned, Srv
<1> QED
  BY <1>1, <1>2, <1>3 DEF ClaimsOK

\* A request that asks for recovery of pool p gets at most the claims that
\* nobody else has.
LEMMA ClaimTaken ==
    ASSUME ClaimsOK, NEW r \in Requests, lease[r] = "none",
           NEW p \in Pools, p <= latest, beginRateRecovery(r, p),
           NEW x \in Phases \ {"idle"}, phase' = [phase EXCEPT ![r] = x],
           pool' = [pool EXCEPT ![r] = p],
           UNCHANGED <<latest, active, serverOf>>
    PROVE  ClaimsOK'
<1>1. /\ serverOf \in [Pools -> Pools] /\ Srv(p) \in Pools
      /\ rateProbe \in [Pools -> Requests \cup {None}]
      /\ probe \in [Pools -> Requests \cup {None}]
      /\ phase \in [Requests -> Phases] /\ pool \in [Requests -> Pools]
      /\ lease \in [Requests -> {"none", "pool", "server"}]
      /\ ClaimsOwned
  BY DEF ClaimsOK, Srv
<1>2. /\ phase' \in [Requests -> Phases] /\ pool' \in [Requests -> Pools]
      /\ phase'[r] # "idle" /\ pool'[r] = p
      /\ \A q \in Requests : q # r => phase'[q] = phase[q] /\ pool'[q] = pool[q]
  BY <1>1
<1>3. rateProbe[p] = None /\ probe[Srv(p)] = None
  BY DEF beginRateRecovery, RecoveryBlocked, ClaimBusy
<1>4. \A q \in Pools : rateProbe[q] # r /\ probe[q] # r
  BY NoLeaseNoClaim
<1>5. r # None
  BY NoneAssumption
<1>6. \A q \in Requests : lease'[q] # lease[q] => q = r
  BY <1>1 DEF beginRateRecovery
<1>7. \/ lease'[r] = "none" /\ rateProbe' = rateProbe /\ probe' = probe
      \/ lease'[r] = "pool" /\ rateProbe' = [rateProbe EXCEPT ![p] = r] /\ probe' = probe
      \/ /\ lease'[r] = "server" /\ rateProbe' = [rateProbe EXCEPT ![p] = r]
         /\ probe' = [probe EXCEPT ![Srv(p)] = r]
  BY <1>1 DEF beginRateRecovery
<1>8. /\ lease' \in [Requests -> {"none", "pool", "server"}]
      /\ rateProbe' \in [Pools -> Requests \cup {None}]
      /\ probe' \in [Pools -> Requests \cup {None}]
  BY <1>1 DEF beginRateRecovery
<1>9. \A q \in Pools : Srv(q)' = Srv(q) /\ Srv(q) \in Pools
  BY <1>1 DEF Srv
<1>10. ASSUME NEW q \in Pools, rateProbe'[q] # None
       PROVE  /\ phase'[rateProbe'[q]] # "idle" /\ pool'[rateProbe'[q]] = q
              /\ lease'[rateProbe'[q]] # "none"
  <2>1. CASE rateProbe'[q] = r
    <3>1. q = p /\ lease'[r] # "none"
      BY <1>1, <1>4, <1>7, <2>1
    <3> QED
      BY <1>2, <2>1, <3>1
  <2>2. CASE rateProbe'[q] # r
    <3>1. rateProbe'[q] = rateProbe[q] /\ rateProbe[q] \in Requests
      BY <1>1, <1>7, <1>10, <2>2
    <3> QED
      BY <1>1, <1>2, <1>6, <1>10, <2>2, <3>1 DEF ClaimsOwned
  <2> QED
    BY <2>1, <2>2
<1>11. ASSUME NEW q \in Pools, probe'[q] # None
       PROVE  /\ phase'[probe'[q]] # "idle" /\ serverOf'[pool'[probe'[q]]] = q
              /\ lease'[probe'[q]] = "server"
  <2>1. CASE probe'[q] = r
    <3>1. q = Srv(p) /\ lease'[r] = "server"
      BY <1>1, <1>4, <1>7, <2>1
    <3> QED
      BY <1>2, <1>9, <2>1, <3>1 DEF Srv
  <2>2. CASE probe'[q] # r
    <3>1. probe'[q] = probe[q] /\ probe[q] \in Requests
      BY <1>1, <1>7, <1>11, <2>2
    <3>2. Srv(pool[probe[q]]) = q /\ phase[probe[q]] # "idle" /\ lease[probe[q]] = "server"
      BY <1>1, <1>11, <3>1 DEF ClaimsOwned
    <3> QED
      BY <1>2, <1>6, <2>2, <3>1, <3>2 DEF Srv
  <2> QED
    BY <2>1, <2>2
<1>12. ASSUME NEW q \in Requests
       PROVE  /\ lease'[q] # "none" => rateProbe'[pool'[q]] = q
              /\ lease'[q] = "server" => probe'[serverOf'[pool'[q]]] = q
  <2>1. CASE q = r
    <3>1. Srv(pool[r])' = Srv(p)
      BY <1>2 DEF Srv
    <3> QED
      BY <1>1, <1>2, <1>7, <2>1, <3>1 DEF Srv
  <2>2. CASE q # r
    <3>1. lease'[q] = lease[q] /\ pool'[q] = pool[q] /\ Srv(pool[q])' = Srv(pool[q])
      BY <1>2, <1>6, <2>2 DEF Srv
    <3>2. /\ lease[q] # "none" => rateProbe[pool[q]] = q
          /\ lease[q] = "server" => probe[Srv(pool[q])] = q
          /\ pool[q] \in Pools /\ Srv(pool[q]) \in Pools /\ q # None
      BY <1>1, NoneAssumption DEF ClaimsOwned, Srv
    <3>3. lease[q] # "none" => pool[q] # p
      BY <1>3, <3>2
    <3>4. lease[q] = "server" => Srv(pool[q]) # Srv(p)
      BY <1>3, <3>2
    <3> QED
      BY <1>1, <1>7, <3>1, <3>2, <3>3, <3>4 DEF Srv
  <2> QED
    BY <2>1, <2>2
<1>13. ClaimsOwned'
  BY <1>10, <1>11, <1>12 DEF ClaimsOwned, Srv
<1>14. \A q \in Requests : pool'[q] <= latest' /\ (phase'[q] = "idle" => lease'[q] = "none")
  BY <1>2, <1>6 DEF ClaimsOK
<1> QED
  BY <1>1, <1>2, <1>8, <1>13, <1>14 DEF ClaimsOK

\* A request that leaves gives back what it claimed.
LEMMA ClaimGivenBack ==
    ASSUME ClaimsOK, NEW r \in Requests, finishRateRecovery(r, pool[r]),
           phase' = [phase EXCEPT ![r] = "idle"], pool' = [pool EXCEPT ![r] = 1],
           UNCHANGED <<latest, active, serverOf>>
    PROVE  ClaimsOK'
<1> DEFINE p == pool[r]
<1>1. /\ serverOf \in [Pools -> Pools] /\ p \in Pools /\ Srv(p) \in Pools
      /\ rateProbe \in [Pools -> Requests \cup {None}]
      /\ probe \in [Pools -> Requests \cup {None}]
      /\ phase \in [Requests -> Phases] /\ pool \in [Requests -> Pools]
      /\ lease \in [Requests -> {"none", "pool", "server"}]
      /\ ClaimsOwned /\ r # None /\ latest \in Pools
  BY NoneAssumption DEF ClaimsOK, Srv
<1>2. 1 \in Pools /\ 1 <= latest
  BY <1>1, BoundsAssumption DEF Pools
<1>3. /\ phase' \in [Requests -> Phases] /\ pool' \in [Requests -> Pools]
      /\ lease' = [lease EXCEPT ![r] = "none"]
      /\ phase'[r] = "idle" /\ pool'[r] = 1
      /\ \A q \in Requests : q # r => phase'[q] = phase[q] /\ pool'[q] = pool[q]
  BY <1>1, <1>2 DEF finishRateRecovery, Phases
<1>4. /\ lease' \in [Requests -> {"none", "pool", "server"}] /\ lease'[r] = "none"
      /\ \A q \in Requests : q # r => lease'[q] = lease[q]
  BY <1>1, <1>3
<1>5. /\ lease[r] # "none" => rateProbe[p] = r
      /\ lease[r] = "server" => probe[Srv(p)] = r
  BY <1>1 DEF ClaimsOwned
<1>6. /\ \A q \in Pools : rateProbe[q] = r => q = p /\ lease[r] # "none"
      /\ \A q \in Pools : probe[q] = r => q = Srv(p) /\ lease[r] = "server"
  BY <1>1 DEF ClaimsOwned
<1> HIDE DEF p
<1>7. /\ rateProbe' = IF lease[r] # "none" THEN [rateProbe EXCEPT ![p] = None] ELSE rateProbe
      /\ probe' = IF lease[r] = "server" THEN [probe EXCEPT ![Srv(p)] = None] ELSE probe
  BY <1>5 DEF finishRateRecovery, p
<1>8. \A q \in Pools :
         /\ rateProbe'[q] = IF rateProbe[q] = r THEN None ELSE rateProbe[q]
         /\ probe'[q] = IF probe[q] = r THEN None ELSE probe[q]
  BY <1>1, <1>5, <1>6, <1>7
<1>9. /\ rateProbe' \in [Pools -> Requests \cup {None}]
      /\ probe' \in [Pools -> Requests \cup {None}]
  BY <1>1, <1>7
<1>10. \A q \in Requests : q # r => Srv(pool[q])' = Srv(pool[q]) /\ Srv(pool[q]) \in Pools
  BY <1>1, <1>3 DEF Srv
<1>11. ASSUME NEW q \in Pools, rateProbe'[q] # None
       PROVE  /\ phase'[rateProbe'[q]] # "idle" /\ pool'[rateProbe'[q]] = q
              /\ lease'[rateProbe'[q]] # "none"
  <2>1. rateProbe'[q] = rateProbe[q] /\ rateProbe[q] \in Requests /\ rateProbe[q] # r
    BY <1>1, <1>8, <1>11
  <2> QED
    BY <1>1, <1>3, <1>4, <1>11, <2>1 DEF ClaimsOwned
<1>12. ASSUME NEW q \in Pools, probe'[q] # None
       PROVE  /\ phase'[probe'[q]] # "idle" /\ serverOf'[pool'[probe'[q]]] = q
              /\ lease'[probe'[q]] = "server"
  <2>1. probe'[q] = probe[q] /\ probe[q] \in Requests /\ probe[q] # r
    BY <1>1, <1>8, <1>12
  <2>2. Srv(pool[probe[q]]) = q /\ phase[probe[q]] # "idle" /\ lease[probe[q]] = "server"
    BY <1>1, <1>12, <2>1 DEF ClaimsOwned
  <2> QED
    BY <1>3, <1>4, <2>1, <2>2 DEF Srv
<1>13. ASSUME NEW q \in Requests
       PROVE  /\ lease'[q] # "none" => rateProbe'[pool'[q]] = q
              /\ lease'[q] = "server" => probe'[serverOf'[pool'[q]]] = q
  <2>1. CASE q = r
    BY <1>4, <2>1
  <2>2. CASE q # r
    <3>1. /\ lease[q] # "none" => rateProbe[pool[q]] = q
          /\ lease[q] = "server" => probe[Srv(pool[q])] = q
          /\ pool[q] \in Pools /\ Srv(pool[q]) \in Pools
      BY <1>1 DEF ClaimsOwned, Srv
    <3> QED
      BY <1>3, <1>4, <1>8, <1>10, <2>2, <3>1 DEF Srv
  <2> QED
    BY <2>1, <2>2
<1>14. ClaimsOwned'
  BY <1>11, <1>12, <1>13 DEF ClaimsOwned, Srv
<1>15. \A q \in Requests : pool'[q] <= latest' /\ (phase'[q] = "idle" => lease'[q] = "none")
  BY <1>2, <1>3, <1>4 DEF ClaimsOK
<1> QED
  BY <1>1, <1>3, <1>4, <1>9, <1>14, <1>15 DEF ClaimsOK
\* A new pool joins a server state: nobody uses that pool yet, so nobody's
\* server state changes.
LEMMA ReloadKeepsServers ==
    ASSUME ClaimsOK, NEW same \in BOOLEAN, ReloadConnection(same)
    PROVE  /\ serverOf' \in [Pools -> Pools] /\ latest' \in Pools /\ latest' > latest
           /\ \A q \in Pools : q <= latest => serverOf'[q] = serverOf[q]
<1>1. /\ latest \in Pools /\ serverOf \in [Pools -> Pools] /\ latest < MaxPools
      /\ latest' = latest + 1
      /\ \/ serverOf' = [serverOf EXCEPT ![latest + 1] = serverOf[latest]]
         \/ serverOf' = serverOf
  BY DEF ClaimsOK, ReloadConnection
<1>2. latest \in Nat /\ MaxPools \in Nat /\ latest' \in Pools /\ latest' > latest
  BY <1>1, BoundsAssumption DEF Pools
<1>3. \A q \in Pools : q <= latest => q # latest + 1
  BY <1>2 DEF Pools
<1> QED
  BY <1>1, <1>2, <1>3

LEMMA ReloadClaims ==
    ASSUME ClaimsOK, NEW same \in BOOLEAN, ReloadConnection(same)
    PROVE  ClaimsOK'
<1>1. /\ serverOf' \in [Pools -> Pools] /\ latest' \in Pools /\ latest' > latest
      /\ \A q \in Pools : q <= latest => serverOf'[q] = serverOf[q]
  BY ReloadKeepsServers
<1>2. /\ rateProbe' = rateProbe /\ probe' = probe /\ lease' = lease
      /\ pool' = pool /\ phase' = phase /\ active' = active
  BY DEF ReloadConnection, claimVars, candVars
<1>3. /\ \A q \in Pools : rateProbe[q] # None => rateProbe[q] \in Requests
      /\ \A q \in Pools : probe[q] # None => probe[q] \in Requests
      /\ \A r \in Requests : pool[r] \in Pools /\ pool[r] <= latest
  BY DEF ClaimsOK
<1>4. \A r \in Requests : serverOf'[pool[r]] = serverOf[pool[r]]
  BY <1>1, <1>3
<1>5. ClaimsOwned'
  BY <1>2, <1>3, <1>4 DEF ClaimsOK, ClaimsOwned, Srv
<1>6. \A r \in Requests : pool[r] <= latest'
  <2>1. latest \in Nat /\ latest' \in Nat
    BY <1>1 DEF ClaimsOK, Pools
  <2>2. \A r \in Requests : pool[r] \in Nat
    BY <1>3 DEF Pools
  <2> QED
    BY <1>1, <1>3, <2>1, <2>2
<1>7. active <= latest'
  <2>1. latest \in Nat /\ latest' \in Nat /\ active \in Nat /\ active <= latest
    BY <1>1 DEF ClaimsOK, Pools
  <2> QED
    BY <1>1, <2>1
<1> QED
  BY <1>1, <1>2, <1>5, <1>6, <1>7 DEF ClaimsOK

\* Nothing about the claims changes.
LEMMA ClaimsUntouched ==
    ASSUME ClaimsOK, UNCHANGED <<claimVars, phase, pool, latest, active, serverOf>>
    PROVE  ClaimsOK'
  BY DEF ClaimsOK, ClaimsOwned, Srv, claimVars

\* Every step of a request keeps the claims owned.
LEMMA ClaimsStep ==
    ASSUME ClaimsOK, NEW r \in Requests, RequestStep(r)
    PROVE  ClaimsOK' /\ latest' = latest /\ serverOf' = serverOf
<1> DEFINE Goal == ClaimsOK' /\ latest' = latest /\ serverOf' = serverOf
<1>1. phase \in [Requests -> Phases] /\ pool \in [Requests -> Pools] /\ pool[r] <= latest
  BY DEF ClaimsOK
\* Most steps move the request from one running phase to another.
<1>2. ASSUME NEW x, x # "idle", x \in Phases, phase' = [phase EXCEPT ![r] = x],
             phase[r] # "idle",
             UNCHANGED <<claimVars, pool, latest, active, serverOf>>
      PROVE  Goal
  BY <1>2, ClaimsKept
<1>3. CASE Candidates(r)
  <2>1. \/ phase' = [phase EXCEPT ![r] = "finishing"]
        \/ phase' = [phase EXCEPT ![r] = "queued"]
    BY <1>3 DEF Candidates
  <2>2. phase[r] # "idle" /\ UNCHANGED <<claimVars, pool, latest, active, serverOf>>
    BY <1>3 DEF Candidates, clockVars, viewVars
  <2> QED
    BY <1>2, <2>1, <2>2 DEF Phases
<1>4. ASSUME NEW k \in Keys(pool[r]), ReadyClaim(r, k)
      PROVE  Goal
  <2>1. /\ lease[r] = "none" /\ phase[r] = "queued"
        /\ UNCHANGED <<pool, latest, active, serverOf>>
    BY <1>4 DEF ReadyClaim, clockVars, viewVars
  <2>2. CASE Skip(r, k) /\ UNCHANGED claimVars
    <3>1. phase' = [phase EXCEPT ![r] = "finishing"] \/ phase' = [phase EXCEPT ![r] = "queued"]
      BY <2>2 DEF Skip
    <3> QED
      BY <1>2, <2>1, <2>2, <3>1 DEF Phases
  <2>3. CASE beginRateRecovery(r, pool[r]) /\ phase' = [phase EXCEPT ![r] = "claimed"]
    <3>1. pool' = [pool EXCEPT ![r] = pool[r]] /\ pool[r] \in Pools
          /\ "claimed" \in Phases \ {"idle"}
      BY <1>1, <2>1 DEF Phases
    <3> QED
      BY <1>1, <2>1, <2>3, <3>1, ClaimTaken
  <2> QED
    BY <1>4, <2>2, <2>3 DEF ReadyClaim
<1>5. ASSUME NEW k \in Keys(pool[r]), ReadyCheck(r, k)
      PROVE  Goal
  <2>1. phase' = [phase EXCEPT ![r] = "finishing"] \/ phase' = [phase EXCEPT ![r] = "queued"]
        \/ phase' = [phase EXCEPT ![r] = "flight"]
    BY <1>5 DEF ReadyCheck, Skip
  <2>2. phase[r] # "idle" /\ UNCHANGED <<claimVars, pool, latest, active, serverOf>>
    BY <1>5 DEF ReadyCheck, clockVars, viewVars
  <2> QED
    BY <1>2, <2>1, <2>2 DEF Phases
<1>6. CASE Outcome(r)
  <2>1. phase' = [phase EXCEPT ![r] = "finishing"] \/ phase' = [phase EXCEPT ![r] = "held"]
    BY <1>6 DEF Outcome, Succeed, FailHold, FailRecord, FailLocal
  <2>2. phase[r] # "idle" /\ UNCHANGED <<claimVars, pool, latest, active, serverOf>>
    BY <1>6 DEF Outcome, Succeed, FailHold, FailRecord, FailLocal, clockVars, viewVars, candVars
  <2> QED
    BY <1>2, <2>1, <2>2 DEF Phases
<1>7. CASE Finish(r)
  <2>1. /\ finishRateRecovery(r, pool[r]) /\ phase' = [phase EXCEPT ![r] = "idle"]
        /\ pool' = [pool EXCEPT ![r] = 1] /\ UNCHANGED <<latest, active, serverOf>>
    BY <1>7 DEF Finish, clockVars, viewVars
  <2> QED
    BY <2>1, ClaimGivenBack
<1> QED
  BY <1>3, <1>4, <1>5, <1>6, <1>7 DEF RequestStep

LEMMA ClaimsNext ==
    ASSUME ClaimsOK, [Next]_vars
    PROVE  ClaimsOK'
<1>1. ASSUME NEW r \in Requests, Begin(r)
      PROVE  ClaimsOK'
  <2>1. /\ lease[r] = "none" /\ active \in Pools /\ active <= latest
        /\ "selected" \in Phases \ {"idle"}
    BY <1>1 DEF Begin, ClaimsOK, Phases
  <2>2. /\ beginRateRecovery(r, active) /\ phase' = [phase EXCEPT ![r] = "selected"]
        /\ pool' = [pool EXCEPT ![r] = active] /\ UNCHANGED <<latest, active, serverOf>>
    BY <1>1 DEF Begin, clockVars, viewVars
  <2> QED
    BY <2>1, <2>2, ClaimTaken
<1>2. ASSUME NEW r \in Requests, Cancel(r)
      PROVE  ClaimsOK'
  <2>1. /\ phase[r] # "idle" /\ phase' = [phase EXCEPT ![r] = "finishing"]
        /\ UNCHANGED <<claimVars, pool, latest, active, serverOf>>
        /\ "finishing" \in Phases \ {"idle"}
    BY <1>2 DEF Cancel, clockVars, viewVars, candVars, Phases
  <2> QED
    BY <2>1, ClaimsKept
<1>3. CASE Publish
  <2>1. /\ active' = latest /\ latest' = latest /\ serverOf' = serverOf
        /\ UNCHANGED <<claimVars, phase, pool>>
    BY <1>3 DEF Publish, candVars
  <2>2. latest \in Pools /\ latest <= latest
    BY DEF ClaimsOK, Pools
  <2> QED
    BY <2>1, <2>2 DEF ClaimsOK, ClaimsOwned, Srv, claimVars
<1>4. CASE ReloadPolicy \/ Tick \/ (\E r \in Requests : BeginRejected(r)) \/ UNCHANGED vars
  <2>1. UNCHANGED <<claimVars, phase, pool, latest, active, serverOf>>
    BY <1>4 DEF ReloadPolicy, Tick, BeginRejected, vars, clockVars, viewVars, candVars
  <2> QED
    BY <2>1, ClaimsUntouched
<1> QED
  BY <1>1, <1>2, <1>3, <1>4, ClaimsStep, ReloadClaims DEF Next
-----------------------------------------------------------------------------
(* Requests and their observations.                                        *)

\* What a request may keep while it goes on: typed fields and keys of its pool.
LEMMA RequestMoved ==
    ASSUME IInv, NEW r \in Requests, profile' = profile,
           UNCHANGED <<epoch, shown, latest, pool>>,
           next' \in [Pools -> Nat],
           \A p \in Pools : NKeys(p) > 0 => next'[p] < NKeys(p),
           UNCHANGED <<view, obs, sent, probing, held>>,
           scanning' \in [Requests -> BOOLEAN],
           DOMAIN cands' = Requests, DOMAIN key' = Requests,
           \A q \in Requests : q # r =>
              phase'[q] = phase[q] /\ cands'[q] = cands[q] /\ key'[q] = key[q],
           cands'[r] \subseteq Keys(pool[r]), key'[r] \in Keys(pool[r]),
           phase'[r] # "idle"
    PROVE  RequestsOK'
<1>1. RequestsOK
  BY Parts
<1>2. \A p : Keys(p)' = Keys(p) /\ NKeys(p)' = NKeys(p)
  BY DEF Keys, NKeys
<1> QED
  BY <1>1, <1>2 DEF RequestsOK

\* The same of a step that leaves the candidates and the round robin alone.
LEMMA RequestKept ==
    ASSUME IInv, NEW r \in Requests, profile' = profile,
           UNCHANGED <<epoch, shown, latest, pool, next>>,
           UNCHANGED <<view, obs, sent, probing, cands, scanning, key>>,
           held' \in [Requests -> Nat],
           \A q \in Requests : q # r => phase'[q] = phase[q],
           phase'[r] # "idle"
    PROVE  RequestsOK'
<1>1. RequestsOK
  BY Parts
<1>2. \A p : Keys(p)' = Keys(p) /\ NKeys(p)' = NKeys(p)
  BY DEF Keys, NKeys
<1> QED
  BY <1>1, <1>2 DEF RequestsOK

LEMMA BeginRequests ==
    ASSUME IInv, NEW r \in Requests, Begin(r)
    PROVE  RequestsOK'
<1>1. RequestsOK /\ ClaimsOK /\ profile \in Shapes
  BY Parts DEF HealthOK
<1>2. /\ profile' = profile
      /\ UNCHANGED <<epoch, shown, latest, next, obs, sent, probing, cands, scanning, key, held>>
      /\ phase' = [phase EXCEPT ![r] = "selected"]
      /\ view' = [view EXCEPT ![r] = shown] /\ pool' = [pool EXCEPT ![r] = active]
  BY DEF Begin, clockVars, viewVars, sentVars
<1>3. \A p : Keys(p)' = Keys(p) /\ NKeys(p)' = NKeys(p)
  BY <1>2 DEF Keys, NKeys
<1>4. /\ cands[r] = {} /\ key[r] = 1 /\ active \in Pools /\ NKeys(active) > 0
      /\ shown \in Nat /\ view' \in [Requests -> Nat]
      /\ phase \in [Requests -> Phases] /\ pool \in [Requests -> Pools]
  BY <1>1, <1>2 DEF Begin, RequestsOK, ClaimsOK
<1>5. 1 \in Keys(active)
  <2>1. NKeys(active) \in Nat
    BY <1>1, <1>4, KeysTyped
  <2> QED
    BY <2>1, <1>4 DEF Keys
<1>6. /\ phase'[r] = "selected" /\ pool'[r] = active
      /\ \A q \in Requests : q # r => phase'[q] = phase[q] /\ pool'[q] = pool[q]
  BY <1>2, <1>4
<1>7. \A q \in Requests :
         /\ cands[q] \subseteq Keys(pool'[q]) /\ key[q] \in Keys(pool'[q])
         /\ phase'[q] = "idle" => cands[q] = {} /\ key[q] = 1
  BY <1>1, <1>4, <1>5, <1>6 DEF RequestsOK
<1> QED
  BY <1>1, <1>2, <1>3, <1>4, <1>7 DEF RequestsOK

LEMMA CandidatesRequests ==
    ASSUME IInv, NEW r \in Requests, Candidates(r)
    PROVE  RequestsOK'
<1> DEFINE p == pool[r]
           ready == {k \in Keys(p) : cooldowns[p][k] <= now}
<1>1. /\ RequestsOK /\ ClaimsOK /\ profile \in Shapes /\ p \in Pools
      /\ p <= latest /\ phase \in [Requests -> Phases]
  BY Parts DEF HealthOK, ClaimsOK
<1>2. /\ profile' = profile
      /\ UNCHANGED <<epoch, shown, latest, pool, view, obs, sent, probing, held, scanning>>
      /\ \/ phase' = [phase EXCEPT ![r] = "finishing"]
         \/ phase' = [phase EXCEPT ![r] = "queued"]
  BY DEF Candidates, clockVars, viewVars
<1>3. phase'[r] # "idle" /\ \A q \in Requests : q # r => phase'[q] = phase[q]
  BY <1>1, <1>2
<1>4. /\ NKeys(p) \in Nat /\ NKeys(p) > 0 /\ next \in [Pools -> Nat]
      /\ next[p] \in Nat /\ next[p] < NKeys(p)
  BY <1>1, KeysTyped DEF RequestsOK
<1>5. NextStart(p, next[p]) \in Nat /\ NextStart(p, next[p]) < NKeys(p)
  BY <1>4 DEF NextStart
<1>6. next[p] + 1 \in Keys(p)
  BY <1>4 DEF Keys
<1>7. CASE UNCHANGED <<next, cands, key>>
  BY <1>1, <1>2, <1>3, <1>7, RequestMoved DEF RequestsOK
<1>8. CASE /\ next' = [next EXCEPT ![p] = NextStart(p, @)]
           /\ cands' = [cands EXCEPT ![r] = ready]
           /\ key' = [key EXCEPT ![r] = next[p] + 1]
  <2>1. next' = [next EXCEPT ![p] = NextStart(p, next[p])]
    BY <1>8
  <2>2. next' \in [Pools -> Nat] /\ \A q \in Pools : NKeys(q) > 0 => next'[q] < NKeys(q)
    BY <1>1, <1>4, <1>5, <2>1 DEF RequestsOK
  <2>3. /\ DOMAIN cands' = Requests /\ DOMAIN key' = Requests
        /\ cands'[r] = ready /\ key'[r] = next[p] + 1
        /\ \A q \in Requests : q # r => cands'[q] = cands[q] /\ key'[q] = key[q]
    BY <1>1, <1>8 DEF RequestsOK
  <2>4. cands'[r] \subseteq Keys(p)
    BY <2>3
  <2>5. scanning' \in [Requests -> BOOLEAN]
    BY <1>1, <1>2 DEF RequestsOK
  <2> QED
    BY <1>2, <1>3, <1>6, <2>2, <2>3, <2>4, <2>5, RequestMoved
<1> QED
  BY <1>7, <1>8 DEF Candidates

\* Skipping a candidate leaves candidates of the same pool.
LEMMA SkipRequests ==
    ASSUME IInv, NEW r \in Requests, NEW k, Skip(r, k), profile' = profile,
           UNCHANGED <<epoch, shown, latest, pool, next, view, held, sentVars>>
    PROVE  RequestsOK'
<1>1. RequestsOK /\ ClaimsOK /\ phase \in [Requests -> Phases]
  BY Parts DEF ClaimsOK
<1>2. /\ cands' = [cands EXCEPT ![r] = cands[r] \ {k}]
      /\ scanning' = [scanning EXCEPT ![r] = TRUE]
      /\ \/ phase' = [phase EXCEPT ![r] = "finishing"]
         \/ phase' = [phase EXCEPT ![r] = "queued"]
      /\ UNCHANGED <<key, obs, sent, probing>>
  BY DEF Skip, sentVars
<1>3. phase'[r] # "idle" /\ \A q \in Requests : q # r => phase'[q] = phase[q]
  BY <1>1, <1>2
<1>4. /\ DOMAIN cands' = Requests /\ DOMAIN key' = Requests
      /\ cands'[r] \subseteq Keys(pool[r]) /\ key'[r] \in Keys(pool[r])
      /\ scanning' \in [Requests -> BOOLEAN]
      /\ \A q \in Requests : q # r => cands'[q] = cands[q] /\ key'[q] = key[q]
  BY <1>1, <1>2 DEF RequestsOK
<1>5. next' \in [Pools -> Nat] /\ \A q \in Pools : NKeys(q) > 0 => next'[q] < NKeys(q)
  BY <1>1 DEF RequestsOK
<1> QED
  BY <1>2, <1>3, <1>4, <1>5, RequestMoved

LEMMA ClaimRequests ==
    ASSUME IInv, NEW r \in Requests, NEW k \in Keys(pool[r]), ReadyClaim(r, k)
    PROVE  RequestsOK'
<1>1. RequestsOK /\ phase \in [Requests -> Phases]
  BY Parts DEF ClaimsOK
<1>2. /\ profile' = profile
      /\ UNCHANGED <<epoch, shown, latest, pool, next, view, held, sentVars>>
  BY DEF ReadyClaim, clockVars, viewVars
<1>3. CASE Skip(r, k)
  BY <1>2, <1>3, SkipRequests
<1>4. CASE phase' = [phase EXCEPT ![r] = "claimed"] /\ UNCHANGED <<cands, scanning>>
  <2>1. phase'[r] # "idle" /\ \A q \in Requests : q # r => phase'[q] = phase[q]
    BY <1>1, <1>4
  <2>2. held' \in [Requests -> Nat] /\ UNCHANGED <<key, obs, sent, probing>>
    BY <1>1, <1>2 DEF RequestsOK, sentVars
  <2> QED
    BY <1>2, <1>4, <2>1, <2>2, RequestKept
<1> QED
  BY <1>3, <1>4 DEF ReadyClaim

\* What a dispatch observes.
Seen(p, k) ==
    [key |-> rateVersions[p][k], provider |-> rateVersion[p], server |-> version[Srv(p)]]

LEMMA SeenTyped ==
    ASSUME HealthOK, serverOf \in [Pools -> Pools], NEW p \in Pools, NEW k \in Keys(p)
    PROVE  /\ Seen(p, k) \in [key : Nat, provider : Nat, server : Nat]
           /\ Seen(p, k).provider = rateVersion[p]
           /\ Seen(p, k).server = version[Srv(p)]
  BY DEF HealthOK, KeyTable, Seen, Srv

LEMMA ReadyRequests ==
    ASSUME IInv, NEW r \in Requests, NEW k \in Keys(pool[r]), ReadyCheck(r, k)
    PROVE  RequestsOK'
<1> DEFINE p == pool[r]
<1>1. /\ RequestsOK /\ HealthOK /\ phase \in [Requests -> Phases] /\ p \in Pools
      /\ serverOf \in [Pools -> Pools] /\ now \in Nat
  BY Parts DEF ClaimsOK, HealthOK
<1>2. /\ profile' = profile
      /\ UNCHANGED <<epoch, shown, latest, pool, next, view, held>>
  BY DEF ReadyCheck, clockVars, viewVars
<1>3. CASE Skip(r, k) /\ UNCHANGED sentVars
  BY <1>2, <1>3, SkipRequests
<1>4. CASE /\ scanning' = [scanning EXCEPT ![r] = FALSE]
           /\ phase' = [phase EXCEPT ![r] = "queued"]
           /\ UNCHANGED <<cands, sentVars>>
  <2>1. phase'[r] # "idle" /\ \A q \in Requests : q # r => phase'[q] = phase[q]
    BY <1>1, <1>4
  <2>2. /\ scanning' \in [Requests -> BOOLEAN]
        /\ UNCHANGED <<cands, key, obs, sent, probing>>
        /\ DOMAIN cands' = Requests /\ DOMAIN key' = Requests
        /\ cands'[r] \subseteq Keys(p) /\ key'[r] \in Keys(p)
        /\ next' \in [Pools -> Nat] /\ \A q \in Pools : NKeys(q) > 0 => next'[q] < NKeys(q)
    BY <1>1, <1>2, <1>4 DEF RequestsOK, sentVars
  <2> QED
    BY <1>2, <2>1, <2>2, RequestMoved
<1>5. CASE /\ phase' = [phase EXCEPT ![r] = "flight"]
           /\ key' = [key EXCEPT ![r] = k]
           /\ obs' = [obs EXCEPT ![r] = Seen(p, k)]
           /\ sent' = [sent EXCEPT ![r] = now]
           /\ probing' = [probing EXCEPT ![r] = RecoveryKind(p)]
           /\ cands' = [cands EXCEPT ![r] = {}]
           /\ UNCHANGED scanning
  <2>1. Seen(p, k) \in [key : Nat, provider : Nat, server : Nat]
    BY <1>1, SeenTyped
  <2>2. RecoveryKind(p) \in {"no", "pool", "server"}
    BY DEF RecoveryKind
  <2>3. \A q : Keys(q)' = Keys(q) /\ NKeys(q)' = NKeys(q)
    BY <1>2 DEF Keys, NKeys
  <2>4. /\ obs' \in [Requests -> [key : Nat, provider : Nat, server : Nat]]
        /\ sent' \in [Requests -> Nat] /\ probing' \in [Requests -> {"no", "pool", "server"}]
    BY <1>1, <1>5, <2>1, <2>2 DEF RequestsOK
  <2>5. /\ DOMAIN cands' = Requests /\ DOMAIN key' = Requests
        /\ \A q \in Requests :
             /\ cands'[q] \subseteq Keys(pool[q]) /\ key'[q] \in Keys(pool[q])
             /\ phase'[q] = "idle" => cands'[q] = {} /\ key'[q] = 1
    BY <1>1, <1>5 DEF RequestsOK
  <2> QED
    BY <1>1, <1>2, <1>5, <2>3, <2>4, <2>5 DEF RequestsOK
<1> QED
  BY <1>3, <1>4, <1>5 DEF ReadyCheck, Seen

LEMMA OutcomeRequests ==
    ASSUME IInv, NEW r \in Requests, Outcome(r) \/ Cancel(r)
    PROVE  RequestsOK'
<1>1. /\ RequestsOK /\ phase \in [Requests -> Phases] /\ pool[r] \in Pools
      /\ now \in Nat /\ until \in [Pools -> Nat] /\ serverOf \in [Pools -> Pools]
      /\ held \in [Requests -> Nat]
  BY Parts DEF ClaimsOK, HealthOK, RequestsOK
<1>2. /\ profile' = profile
      /\ UNCHANGED <<epoch, shown, latest, pool, next>>
      /\ UNCHANGED <<view, obs, sent, probing, cands, scanning, key>>
      /\ \/ phase' = [phase EXCEPT ![r] = "finishing"]
         \/ phase' = [phase EXCEPT ![r] = "held"]
  BY DEF Outcome, Succeed, FailHold, FailRecord, FailLocal, Cancel, clockVars, viewVars,
         candVars, sentVars
<1>3. phase'[r] # "idle" /\ \A q \in Requests : q # r => phase'[q] = phase[q]
  BY <1>1, <1>2
<1>4. held' \in [Requests -> Nat]
  <2>1. ASSUME NEW w \in profile.waits, FailHold(r, w)
        PROVE  held' \in [Requests -> Nat]
    <3>1. until[Srv(pool[r])] \in Nat /\ now + w \in Nat
      BY <1>1, WaitsTyped DEF Srv
    <3>2. Larger(until[Srv(pool[r])], now + w) \in Nat
      BY <3>1, LargerTyped
    <3> QED
      BY <1>1, <2>1, <3>2 DEF FailHold
  <2>2. CASE held' = held \/ held' = [held EXCEPT ![r] = 0]
    BY <1>1, <2>2
  <2> QED
    BY <2>1, <2>2 DEF Outcome, Succeed, FailRecord, FailLocal, Cancel
<1> QED
  BY <1>2, <1>3, <1>4, RequestKept

LEMMA FinishRequests ==
    ASSUME IInv, NEW r \in Requests, Finish(r)
    PROVE  RequestsOK'
<1>1. /\ RequestsOK /\ ClaimsOK /\ profile \in Shapes
      /\ phase \in [Requests -> Phases] /\ pool \in [Requests -> Pools]
  BY Parts DEF ClaimsOK, HealthOK
<1>2. /\ profile' = profile
      /\ UNCHANGED <<epoch, shown, latest, next, held>>
      /\ phase' = [phase EXCEPT ![r] = "idle"]
      /\ cands' = [cands EXCEPT ![r] = {}] /\ scanning' = [scanning EXCEPT ![r] = FALSE]
      /\ key' = [key EXCEPT ![r] = 1] /\ obs' = [obs EXCEPT ![r] = NoObs]
      /\ sent' = [sent EXCEPT ![r] = 0] /\ probing' = [probing EXCEPT ![r] = "no"]
      /\ view' = [view EXCEPT ![r] = 0] /\ pool' = [pool EXCEPT ![r] = 1]
  BY DEF Finish, clockVars, viewVars
<1>3. \A q : Keys(q)' = Keys(q) /\ NKeys(q)' = NKeys(q)
  BY <1>2 DEF Keys, NKeys
<1>4. NoObs \in [key : Nat, provider : Nat, server : Nat]
  BY DEF NoObs
<1>5. /\ obs' \in [Requests -> [key : Nat, provider : Nat, server : Nat]]
      /\ sent' \in [Requests -> Nat] /\ probing' \in [Requests -> {"no", "pool", "server"}]
      /\ view' \in [Requests -> Nat] /\ scanning' \in [Requests -> BOOLEAN]
  BY <1>1, <1>2, <1>4 DEF RequestsOK
<1>6. 1 \in Keys(1)
  <2>1. 1 \in Pools
    BY BoundsAssumption DEF Pools
  <2>2. NKeys(1) \in Nat /\ NKeys(1) > 0
    BY <1>1, <2>1, KeysTyped, BoundsAssumption DEF NKeys
  <2> QED
    BY <2>2 DEF Keys
<1>7. /\ DOMAIN cands' = Requests /\ DOMAIN key' = Requests
      /\ cands'[r] = {} /\ key'[r] = 1 /\ pool'[r] = 1
      /\ \A q \in Requests : q # r => /\ cands'[q] = cands[q] /\ key'[q] = key[q]
                                      /\ pool'[q] = pool[q] /\ phase'[q] = phase[q]
  BY <1>1, <1>2 DEF RequestsOK
<1>8. \A q \in Requests :
         /\ cands'[q] \subseteq Keys(pool'[q]) /\ key'[q] \in Keys(pool'[q])
         /\ phase'[q] = "idle" => cands'[q] = {} /\ key'[q] = 1
  BY <1>1, <1>6, <1>7 DEF RequestsOK
<1> QED
  BY <1>1, <1>2, <1>3, <1>5, <1>7, <1>8 DEF RequestsOK

\* Publications and the clock.
LEMMA EnvironmentRequests ==
    ASSUME IInv,
           ReloadPolicy \/ (\E same \in BOOLEAN : ReloadConnection(same)) \/ Publish
           \/ Tick \/ (\E r \in Requests : BeginRejected(r)) \/ UNCHANGED vars
    PROVE  RequestsOK'
<1>1. RequestsOK /\ latest \in Pools
  BY Parts DEF ClaimsOK
<1>2. /\ profile' = profile /\ phase' = phase
      /\ UNCHANGED <<next, view, pool, cands, scanning, key, obs, sent, probing, held>>
  BY DEF ReloadPolicy, ReloadConnection, Publish, Tick, BeginRejected, vars, clockVars,
         candVars, sentVars
<1>3. \A q : Keys(q)' = Keys(q) /\ NKeys(q)' = NKeys(q)
  BY <1>2 DEF Keys, NKeys
<1>4. /\ epoch' \in Nat /\ shown' \in Nat
      /\ latest' = latest \/ (latest' = latest + 1 /\ NKeys(latest + 1) > 0)
  BY <1>1 DEF RequestsOK, ReloadPolicy, ReloadConnection, Publish, Tick, BeginRejected,
         vars, clockVars, viewVars
<1>5. \A p \in Pools : p <= latest' => NKeys(p) > 0
  <2> SUFFICES ASSUME NEW p \in Pools, p <= latest'
               PROVE  NKeys(p) > 0
    OBVIOUS
  <2>1. p \in Nat /\ latest \in Nat
    BY <1>1 DEF Pools
  <2>2. p <= latest \/ (p = latest + 1 /\ NKeys(latest + 1) > 0)
    BY <1>4, <2>1
  <2> QED
    BY <1>1, <2>2 DEF RequestsOK
<1> QED
  BY <1>1, <1>2, <1>3, <1>4, <1>5 DEF RequestsOK

LEMMA RequestsNext ==
    ASSUME IInv, [Next]_vars
    PROVE  RequestsOK'
  BY BeginRequests, CandidatesRequests, ClaimRequests, ReadyRequests, OutcomeRequests,
     FinishRequests, EnvironmentRequests DEF Next, RequestStep
\* Nothing about request r changes that the properties look at.
Untouched(r) ==
    /\ phase'[r] = phase[r] /\ pool'[r] = pool[r] /\ lease'[r] = lease[r]
    /\ obs'[r] = obs[r] /\ sent'[r] = sent[r] /\ probing'[r] = probing[r]

\* The steps of one request leave the others alone.
LEMMA OthersUntouched ==
    ASSUME IInv, NEW q \in Requests, NEW r \in Requests, q # r,
           Begin(q) \/ BeginRejected(q) \/ Cancel(q) \/ RequestStep(q)
    PROVE  Untouched(r)
<1>1. /\ phase \in [Requests -> Phases] /\ pool \in [Requests -> Pools]
      /\ lease \in [Requests -> {"none", "pool", "server"}]
      /\ obs \in [Requests -> [key : Nat, provider : Nat, server : Nat]]
      /\ sent \in [Requests -> Nat] /\ probing \in [Requests -> {"no", "pool", "server"}]
  BY Parts DEF ClaimsOK, RequestsOK
<1>2. CASE Begin(q)
  BY <1>1, <1>2 DEF Begin, beginRateRecovery, Untouched, sentVars
<1>3. CASE BeginRejected(q) \/ Cancel(q)
  BY <1>1, <1>3 DEF BeginRejected, Cancel, Untouched, vars, claimVars, candVars, sentVars
<1>4. CASE Candidates(q)
  BY <1>1, <1>4 DEF Candidates, Untouched, claimVars
<1>5. ASSUME NEW k \in Keys(pool[q]), ReadyClaim(q, k)
      PROVE  Untouched(r)
  BY <1>1, <1>5 DEF ReadyClaim, Skip, beginRateRecovery, Untouched, claimVars, sentVars
<1>6. ASSUME NEW k \in Keys(pool[q]), ReadyCheck(q, k)
      PROVE  Untouched(r)
  BY <1>1, <1>6 DEF ReadyCheck, Skip, Untouched, claimVars, sentVars
<1>7. CASE Outcome(q)
  <2>1. /\ UNCHANGED <<claimVars, candVars, sentVars>>
        /\ \/ phase' = [phase EXCEPT ![q] = "finishing"]
           \/ phase' = [phase EXCEPT ![q] = "held"]
    BY <1>7 DEF Outcome, Succeed, FailHold, FailRecord, FailLocal
  <2> QED
    BY <1>1, <2>1 DEF Untouched, claimVars, candVars, sentVars
<1>8. CASE Finish(q)
  BY <1>1, <1>8 DEF Finish, finishRateRecovery, Untouched
<1> QED
  BY <1>2, <1>3, <1>4, <1>5, <1>6, <1>7, <1>8 DEF RequestStep

LEMMA OwnSteps ==
    ASSUME IInv, [Next]_vars, NEW r \in Requests
    PROVE  Untouched(r) \/ Begin(r) \/ Cancel(r) \/ RequestStep(r)
<1>1. CASE \/ ReloadPolicy \/ (\E same \in BOOLEAN : ReloadConnection(same))
           \/ Publish \/ Tick \/ (\E q \in Requests : BeginRejected(q)) \/ UNCHANGED vars
  BY <1>1 DEF ReloadPolicy, ReloadConnection, Publish, Tick, BeginRejected, Untouched,
              vars, claimVars, candVars, sentVars
<1> QED
  BY <1>1, OthersUntouched DEF Next

\* The server state behind a request's pool stays the same.
LEMMA ServerKept ==
    ASSUME IInv, [Next]_vars, NEW r \in Requests
    PROVE  serverOf'[pool[r]] = serverOf[pool[r]]
<1>1. ClaimsOK /\ pool[r] \in Pools /\ pool[r] <= latest
  BY Parts DEF ClaimsOK
<1>2. CASE \E same \in BOOLEAN : ReloadConnection(same)
  BY <1>1, <1>2, ReloadKeepsServers
<1>3. CASE serverOf' = serverOf
  BY <1>3
<1>4. \A q \in Requests : RequestStep(q) => serverOf' = serverOf
  BY <1>1, ClaimsStep
<1> QED
  BY <1>2, <1>3, <1>4 DEF Next, Begin, BeginRejected, Cancel, ReloadPolicy, Publish, Tick,
        vars, clockVars, viewVars

\* A dispatch happens in ReadyCheck and nowhere else.
LEMMA DispatchStep ==
    ASSUME IInv, [Next]_vars, NEW r \in Requests,
           phase[r] # "flight" \/ ~Untouched(r), phase'[r] = "flight"
    PROVE  \E k \in Keys(pool[r]) :
              /\ ReadyCheck(r, k) /\ KeyReady(pool[r], k)
              /\ phase[r] = "claimed" \/ (phase[r] = "queued" /\ lease[r] # "none")
              /\ obs'[r] = Seen(pool[r], k) /\ sent'[r] = now
              /\ probing'[r] = RecoveryKind(pool[r])
              /\ pool' = pool /\ serverOf' = serverOf /\ lease' = lease
              /\ rateVars' = rateVars /\ serverVars' = serverVars
<1>1. /\ phase \in [Requests -> Phases]
      /\ obs \in [Requests -> [key : Nat, provider : Nat, server : Nat]]
      /\ sent \in [Requests -> Nat] /\ probing \in [Requests -> {"no", "pool", "server"}]
  BY Parts DEF ClaimsOK, RequestsOK
<1>2. ~Untouched(r)
  BY DEF Untouched
<1>3. Begin(r) \/ Cancel(r) \/ RequestStep(r)
  BY <1>2, OwnSteps
<1>4. ~\E x \in {"idle", "selected", "queued", "claimed", "held", "finishing"} :
             phase' = [phase EXCEPT ![r] = x]
  BY <1>1
<1>5. ~Begin(r) /\ ~Cancel(r) /\ ~Candidates(r) /\ ~Outcome(r) /\ ~Finish(r)
  BY <1>4 DEF Begin, Cancel, Candidates, Outcome, Succeed, FailHold, FailRecord, FailLocal,
        Finish
<1>6. \A k \in Keys(pool[r]) : ~ReadyClaim(r, k)
  BY <1>4 DEF ReadyClaim, Skip
<1>7. PICK k \in Keys(pool[r]) : ReadyCheck(r, k)
  BY <1>3, <1>5, <1>6 DEF RequestStep
<1>8. /\ KeyReady(pool[r], k)
      /\ obs' = [obs EXCEPT ![r] = Seen(pool[r], k)]
      /\ sent' = [sent EXCEPT ![r] = now]
      /\ probing' = [probing EXCEPT ![r] = RecoveryKind(pool[r])]
  BY <1>4, <1>7 DEF ReadyCheck, Skip, Seen
<1>9. /\ phase[r] = "claimed" \/ (phase[r] = "queued" /\ lease[r] # "none")
      /\ pool' = pool /\ serverOf' = serverOf /\ lease' = lease
      /\ rateVars' = rateVars /\ serverVars' = serverVars
  BY <1>7 DEF ReadyCheck, clockVars, viewVars, claimVars, rateVars, serverVars
<1> QED
  BY <1>1, <1>7, <1>8, <1>9

\* A pause covers every key, so a ready key means that no pause lies ahead.
LEMMA ReadyOutsidePauses ==
    ASSUME HealthOK, NEW p \in Pools, NEW k \in Keys(p), KeyReady(p, k)
    PROVE  rateProviderUntil[p] <= now /\ until[Srv(p)] <= now
<1>1. /\ now \in Nat /\ rateProviderUntil[p] \in Nat /\ cooldowns[p][k] \in Nat
      /\ rateProviderUntil[p] > now => cooldowns[p][k] >= rateProviderUntil[p]
      /\ cooldowns[p][k] <= now
  BY DEF HealthOK, KeyTable, PauseCoversKeys, KeyReady
<1> QED
  BY <1>1 DEF KeyReady

LEMMA ObservationsNext ==
    ASSUME IInv, [Next]_vars
    PROVE  ObservationsSound'
<1> SUFFICES ASSUME NEW r \in Requests, phase'[r] = "flight"
             PROVE  LET p == pool'[r]
                        s == serverOf'[p]
                    IN  /\ obs'[r].provider <= rateVersion'[p]
                        /\ obs'[r].server <= version'[s]
                        /\ obs'[r].provider = rateVersion'[p]
                              => rateProviderUntil'[p] <= sent'[r]
                        /\ obs'[r].server = version'[s] => until'[s] <= sent'[r]
  BY DEF ObservationsSound, Srv
<1>1. /\ HealthOK /\ pool[r] \in Pools /\ serverOf \in [Pools -> Pools]
      /\ sent[r] \in Nat /\ obs[r] \in [key : Nat, provider : Nat, server : Nat]
      /\ Srv(pool[r]) \in Pools /\ ObservationsSound /\ now \in Nat
  BY Parts DEF ClaimsOK, RequestsOK, HealthOK, Srv
<1>2. HealthOK' /\ PausesOrdered
  BY HealthNext
<1>3. CASE phase[r] = "flight" /\ Untouched(r)
  <2> DEFINE p == pool[r]
             s == serverOf[p]
  <2>1. /\ pool'[r] = p /\ serverOf'[p] = s /\ obs'[r] = obs[r] /\ sent'[r] = sent[r]
    BY <1>3, ServerKept DEF Untouched
  <2>2. /\ obs[r].provider <= rateVersion[p] /\ obs[r].server <= version[s]
        /\ obs[r].provider = rateVersion[p] => rateProviderUntil[p] <= sent[r]
        /\ obs[r].server = version[s] => until[s] <= sent[r]
    BY <1>1, <1>3 DEF ObservationsSound, Srv
  <2>3. /\ p \in Pools /\ s \in Pools
        /\ obs[r].provider \in Nat /\ obs[r].server \in Nat
        /\ rateVersion[p] \in Nat /\ rateVersion'[p] \in Nat
        /\ version[s] \in Nat /\ version'[s] \in Nat
    BY <1>1, <1>2 DEF HealthOK, Srv
  <2>4. /\ rateVersion'[p] >= rateVersion[p] /\ version'[s] >= version[s]
        /\ \/ rateProviderUntil'[p] = rateProviderUntil[p]
           \/ rateProviderUntil'[p] = 0
           \/ rateVersion'[p] > rateVersion[p]
        /\ until'[s] = until[s] \/ until'[s] = 0 \/ version'[s] > version[s]
    BY <1>2, <2>3 DEF PausesOrdered
  <2> HIDE DEF p, s
  <2>5. /\ obs[r].provider <= rateVersion'[p] /\ obs[r].server <= version'[s]
        /\ obs[r].provider = rateVersion'[p] => rateProviderUntil'[p] <= sent[r]
        /\ obs[r].server = version'[s] => until'[s] <= sent[r]
    BY <1>1, <2>2, <2>3, <2>4
  <2> QED
    BY <2>1, <2>5
<1>4. CASE ~(phase[r] = "flight" /\ Untouched(r))
  <2>1. PICK k \in Keys(pool[r]) :
              /\ ReadyCheck(r, k) /\ KeyReady(pool[r], k)
              /\ obs'[r] = Seen(pool[r], k) /\ sent'[r] = now
              /\ pool' = pool /\ serverOf' = serverOf
              /\ rateVars' = rateVars /\ serverVars' = serverVars
    BY <1>4, DispatchStep
  <2>2. /\ Seen(pool[r], k).provider = rateVersion[pool[r]]
        /\ Seen(pool[r], k).server = version[Srv(pool[r])]
    BY <1>1, SeenTyped
  <2>3. rateProviderUntil[pool[r]] <= now /\ until[Srv(pool[r])] <= now
    BY <1>1, <2>1, ReadyOutsidePauses
  <2>4. rateVersion[pool[r]] \in Nat /\ version[Srv(pool[r])] \in Nat
    BY <1>1 DEF HealthOK
  <2> QED
    BY <2>1, <2>2, <2>3, <2>4 DEF rateVars, serverVars, Srv
<1> QED
  BY <1>3, <1>4

\* Only a wait of nothing overtakes a request, which is one without a claim,
\* and it is forgotten when the request is over.
LEMMA OvertakenNext ==
    ASSUME IInv, [Next]_vars
    PROVE  /\ overtaken' \subseteq Requests
           /\ \A r \in overtaken \ overtaken' : phase'[r] = "idle"
<1>1. phase \in [Requests -> Phases] /\ overtaken \subseteq Requests
  BY Parts DEF ClaimsOK, OvertakenTyped
<1>2. ASSUME NEW r \in Requests, Finish(r)
      PROVE  /\ overtaken' \subseteq Requests
             /\ \A q \in overtaken \ overtaken' : phase'[q] = "idle"
  BY <1>1, <1>2 DEF Finish
<1>3. ASSUME NEW r \in Requests, NEW w \in profile.waits, FailHold(r, w)
      PROVE  overtaken \subseteq overtaken' /\ overtaken' \subseteq Requests
  BY <1>1, <1>3 DEF FailHold, Unclaimed
<1>4. \A r \in Requests :
         \/ Begin(r) \/ BeginRejected(r) \/ Cancel(r) \/ Candidates(r) \/ Succeed(r)
         \/ \E limited \in BOOLEAN : FailRecord(r, limited)
         \/ \E kind \in {"rate", "auth", "other"}, d \in Delays : FailLocal(r, kind, d)
         => overtaken' = overtaken
  BY DEF Begin, BeginRejected, Cancel, Candidates, Succeed, FailRecord, FailLocal, vars
<1>5. \A r \in Requests : \A k \in Keys(pool[r]) : ReadyClaim(r, k) \/ ReadyCheck(r, k)
         => overtaken' = overtaken
  BY DEF ReadyClaim, ReadyCheck
<1>6. ReloadPolicy \/ (\E same \in BOOLEAN : ReloadConnection(same)) \/ Publish
      \/ Tick \/ UNCHANGED vars
         => overtaken' = overtaken
  BY DEF ReloadPolicy, ReloadConnection, Publish, Tick, vars
<1>7. CASE overtaken' = overtaken
  BY <1>1, <1>7
<1> QED
  BY <1>2, <1>3, <1>4, <1>5, <1>6, <1>7 DEF Next, RequestStep, Outcome

-----------------------------------------------------------------------------
(* The invariant.                                                          *)

LEMMA InitInvariant == Init => IInv
<1> SUFFICES ASSUME Init
             PROVE  HealthOK /\ ClaimsOK /\ RequestsOK /\ ObservationsSound
  BY Parts DEF Init, OvertakenTyped
<1>1. /\ profile \in Shapes /\ 1 \in Pools /\ NKeys(1) > 0 /\ NKeys(1) \in Nat
      /\ \A p \in Pools : NKeys(p) \in Nat
  <2>1. profile \in Shapes /\ 1 \in Pools
    BY BoundsAssumption DEF Init, Pools
  <2> QED
    BY <2>1, KeysTyped, BoundsAssumption DEF NKeys
<1>2. HealthOK
  <2>1. /\ KeyTable(cooldowns) /\ KeyTable(rateFailures) /\ KeyTable(rateVersions)
        /\ \A p \in Pools : \A k \in Keys(p) : cooldowns[p][k] = 0
    BY DEF Init, KeyTable
  <2>2. PauseCoversKeys
    BY DEF Init, PauseCoversKeys
  <2>3. SilenceBounded
    BY <2>1, DelaysAssumption DEF Init, SilenceBounded
  <2> QED
    BY <1>1, <2>1, <2>2, <2>3 DEF Init, HealthOK
<1>3. ClaimsOK
  BY <1>1 DEF Init, ClaimsOK, ClaimsOwned, Phases, Srv
<1>4. RequestsOK
  <2>1. 1 \in Keys(1)
    BY <1>1 DEF Keys
  <2>2. NoObs \in [key : Nat, provider : Nat, server : Nat]
    BY DEF NoObs
  <2>3. \A p \in Pools : p <= 1 => p = 1
    BY DEF Pools
  <2> QED
    BY <1>1, <2>1, <2>2, <2>3 DEF Init, RequestsOK
<1>5. ObservationsSound
  BY DEF Init, ObservationsSound
<1> QED
  BY <1>2, <1>3, <1>4, <1>5

\* IInv is inductive: every step of a request, of a publication and of the
\* clock preserves each of its parts.
THEOREM Inductive == Spec => []IInv
<1>1. Init => IInv
  BY InitInvariant
<1>2. IInv /\ [Next]_vars => IInv'
  <2> SUFFICES ASSUME IInv, [Next]_vars
               PROVE  /\ HealthOK' /\ ClaimsOK' /\ RequestsOK' /\ ObservationsSound'
                      /\ OvertakenTyped'
    BY Parts, PTL
  <2>1. ClaimsOK'
    BY ClaimsNext, Parts
  <2>2. OvertakenTyped'
    BY OvertakenNext DEF OvertakenTyped
  <2> QED
    BY <2>1, <2>2, HealthNext, RequestsNext, ObservationsNext
<1> QED
  BY <1>1, <1>2, PTL DEF Spec

\* No claim is orphaned and every pause is backed by the keys, whatever waits
\* the upstreams ask for.
THEOREM ClaimsAndPauses == Spec => [](TypeOK /\ ClaimsOwned /\ PauseCoversKeys)
<1>1. IInv => TypeOK /\ ClaimsOwned /\ PauseCoversKeys
  BY DEF IInv
<1> QED
  BY <1>1, Inductive, PTL

-----------------------------------------------------------------------------
(* What a step may never do.                                               *)

\* A request is sent upstream only outside the server wait and the pause.
THEOREM SentOutsidePauses == Spec => DispatchOutsidePauses
<1>1. IInv /\ [Next]_vars =>
         [\A r \in Requests :
             phase[r] # "flight" /\ phase'[r] = "flight" =>
                /\ until[Srv(pool[r])] <= now
                /\ rateProviderUntil[pool[r]] <= now]_vars
  <2> SUFFICES ASSUME IInv, [Next]_vars, NEW r \in Requests,
                      phase[r] # "flight", phase'[r] = "flight"
               PROVE  until[Srv(pool[r])] <= now /\ rateProviderUntil[pool[r]] <= now
    OBVIOUS
  <2>1. PICK k \in Keys(pool[r]) : KeyReady(pool[r], k)
    BY DispatchStep
  <2>2. HealthOK /\ pool[r] \in Pools
    BY Parts DEF ClaimsOK
  <2> QED
    BY <2>1, <2>2, ReadyOutsidePauses
<1> QED
  BY <1>1, Inductive, PTL DEF Spec, DispatchOutsidePauses

\* Only a success shortens a pause or a server wait.
LEMMA OnlySuccessLifts ==
    ASSUME IInv, [Next]_vars, \A r \in Requests : ~Succeed(r), NEW q \in Pools
    PROVE  until'[q] >= until[q] /\ rateProviderUntil'[q] >= rateProviderUntil[q]
<1>1. /\ HealthOK /\ until[q] \in Nat /\ rateProviderUntil[q] \in Nat
      /\ serverOf \in [Pools -> Pools]
  BY Parts DEF HealthOK, ClaimsOK
<1>2. CASE rateVars' = rateVars /\ serverVars' = serverVars
  BY <1>1, <1>2 DEF rateVars, serverVars
<1>3. ASSUME NEW r \in Requests, Outcome(r)
      PROVE  until'[q] >= until[q] /\ rateProviderUntil'[q] >= rateProviderUntil[q]
  <2> DEFINE p == pool[r]
             k == key[r]
  <2>1. p \in Pools /\ k \in Keys(p) /\ held[r] \in Nat /\ now \in Nat
    BY Parts DEF ClaimsOK, RequestsOK, HealthOK
  <2>2. profile' = profile /\ now' = now
    BY <1>3 DEF Outcome, Succeed, FailHold, FailRecord, FailLocal, clockVars
  <2> HIDE DEF p, k
  <2>3. ASSUME NEW d \in Nat, rateLimitedAt(p, k, d)
        PROVE  until'[q] >= until[q] /\ rateProviderUntil'[q] >= rateProviderUntil[q]
    BY <1>1, <2>1, <2>2, <2>3, RateLimitedOrder
  <2>4. ASSUME NEW w \in profile.waits, FailHold(r, w)
        PROVE  until'[q] >= until[q] /\ rateProviderUntil'[q] >= rateProviderUntil[q]
    <3>1. /\ holdProviderUntil(p, now + w) /\ keyVars' = keyVars
          /\ rateStreak' = rateStreak /\ rateProviderUntil' = rateProviderUntil
          /\ now + w \in Nat
      BY <2>1, <2>4, WaitsTyped DEF FailHold, keyVars, p
    <3>2. until'[q] = until[q] \/ (until'[q] = now + w /\ now + w > until[q])
      BY <1>1, <2>1, <2>2, <3>1, HeldEffect
    <3> QED
      BY <1>1, <3>1, <3>2
  <2>5. ASSUME NEW limited \in BOOLEAN, FailRecord(r, limited)
        PROVE  until'[q] >= until[q] /\ rateProviderUntil'[q] >= rateProviderUntil[q]
    <3> DEFINE d == Larger(held[r] - now, 0)
    <3>1. rateLimitedAt(p, k, d) \/ UNCHANGED <<keyVars, rateVars, serverVars>>
      BY <2>5 DEF FailRecord, p, k
    <3>2. d \in Nat
      BY <2>1 DEF Larger
    <3> HIDE DEF d
    <3> QED
      BY <1>2, <2>3, <3>1, <3>2
  <2>6. ASSUME NEW kind \in {"rate", "auth", "other"}, NEW d \in Delays,
               FailLocal(r, kind, d)
        PROVE  until'[q] >= until[q] /\ rateProviderUntil'[q] >= rateProviderUntil[q]
    <3>1. \/ rateLimitedAt(p, k, d)
          \/ CooldownAt(p, k, d) \/ UNCHANGED <<keyVars, rateVars, serverVars>>
      BY <2>6 DEF FailLocal, p, k
    <3>2. d \in Nat
      BY DelaysAssumption
    <3> QED
      BY <1>2, <2>3, <3>1, <3>2 DEF CooldownAt, rateVars, serverVars
  <2> QED
    BY <1>3, <2>4, <2>5, <2>6 DEF Outcome
<1>4. \A r \in Requests :
         Begin(r) \/ BeginRejected(r) \/ Cancel(r) \/ Candidates(r) \/ Finish(r)
         => rateVars' = rateVars /\ serverVars' = serverVars
  BY DEF Begin, BeginRejected, Cancel, Candidates, Finish, vars, rateVars, serverVars
<1>5. \A r \in Requests : \A k \in Keys(pool[r]) : ReadyClaim(r, k) \/ ReadyCheck(r, k)
         => rateVars' = rateVars /\ serverVars' = serverVars
  BY DEF ReadyClaim, ReadyCheck, rateVars, serverVars
<1>6. ReloadPolicy \/ (\E same \in BOOLEAN : ReloadConnection(same)) \/ Publish
      \/ Tick \/ UNCHANGED vars
         => rateVars' = rateVars /\ serverVars' = serverVars
  BY DEF ReloadPolicy, ReloadConnection, Publish, Tick, vars, rateVars, serverVars
<1> QED
  BY <1>2, <1>3, <1>4, <1>5, <1>6 DEF Next, RequestStep

\* A server wait or a provider pause is never shortened, and is lifted only by
\* the success of a request that was sent when it had already elapsed.
THEOREM OlderSuccessesHarmless == Spec => PausesOutliveOlderSuccesses
<1> DEFINE Lifted(p) ==
              /\ until'[p] < until[p] =>
                    \E r \in Requests :
                       /\ phase[r] = "flight" /\ phase'[r] = "finishing"
                       /\ until'[p] = 0 /\ Srv(pool[r]) = p /\ sent[r] >= until[p]
              /\ rateProviderUntil'[p] < rateProviderUntil[p] =>
                    \E r \in Requests :
                       /\ phase[r] = "flight" /\ phase'[r] = "finishing"
                       /\ rateProviderUntil'[p] = 0 /\ pool[r] = p
                       /\ sent[r] >= rateProviderUntil[p]
<1>1. IInv /\ [Next]_vars => [\A p \in Pools : Lifted(p)]_vars
  <2> SUFFICES ASSUME IInv, [Next]_vars, NEW p \in Pools
               PROVE  Lifted(p)
    OBVIOUS
  <2>1. /\ HealthOK /\ HealthOK' /\ ObservationsSound /\ phase \in [Requests -> Phases]
        /\ serverOf \in [Pools -> Pools]
    BY Parts, HealthNext DEF ClaimsOK
  <2>2. /\ until[p] \in Nat /\ until'[p] \in Nat
        /\ rateProviderUntil[p] \in Nat /\ rateProviderUntil'[p] \in Nat
    BY <2>1 DEF HealthOK
  <2>3. CASE \A r \in Requests : ~Succeed(r)
    <3>1. until'[p] >= until[p] /\ rateProviderUntil'[p] >= rateProviderUntil[p]
      BY <2>3, OnlySuccessLifts
    <3> QED
      BY <2>2, <3>1
  <2>4. ASSUME NEW r \in Requests, Succeed(r)
        PROVE  Lifted(p)
    <3> DEFINE q == pool[r]
    <3>1. /\ phase[r] = "flight" /\ phase'[r] = "finishing"
          /\ profile' = profile /\ now' = now
      BY <2>1, <2>4 DEF Succeed, clockVars
    <3>2. q \in Pools /\ key[r] \in Keys(q) /\ Srv(q) \in Pools
      BY <2>1, Parts DEF ClaimsOK, RequestsOK, Srv
    <3>3. \/ rateProviderUntil' = rateProviderUntil /\ until' = until
          \/ /\ Fresh(q, obs[r])
             /\ rateProviderUntil' = [rateProviderUntil EXCEPT ![q] = 0]
             /\ until' = [until EXCEPT ![Srv(q)] = 0]
      <4>1. CASE IsCurrent(r)
        <5>1. rateSucceeded(q, key[r], obs[r])
          BY <2>4, <4>1 DEF Succeed
        <5> QED
          BY <5>1, <2>1, <3>1, <3>2, SucceededEffect
      <4>2. CASE ~IsCurrent(r)
        BY <2>4, <4>2 DEF Succeed, rateVars, serverVars
      <4> QED
        BY <4>1, <4>2
    <3>4. Fresh(q, obs[r]) => rateProviderUntil[q] <= sent[r] /\ until[Srv(q)] <= sent[r]
      BY <2>1, <3>1 DEF ObservationsSound, Fresh
    <3>5. /\ sent[r] \in Nat /\ rateProviderUntil \in [Pools -> Nat]
          /\ until \in [Pools -> Nat]
      BY <2>1, Parts DEF RequestsOK, HealthOK
    <3>6. CASE rateProviderUntil' = rateProviderUntil /\ until' = until
      BY <2>2, <3>6
    <3>7. CASE /\ Fresh(q, obs[r])
               /\ rateProviderUntil' = [rateProviderUntil EXCEPT ![q] = 0]
               /\ until' = [until EXCEPT ![Srv(q)] = 0]
      <4>1. rateProviderUntil[q] <= sent[r] /\ until[Srv(q)] <= sent[r]
        BY <3>4, <3>7
      <4>2. ASSUME until'[p] < until[p]
            PROVE  until'[p] = 0 /\ Srv(pool[r]) = p /\ sent[r] >= until[p]
        <5>1. p = Srv(q)
          BY <2>2, <3>2, <3>5, <3>7, <4>2
        <5> QED
          BY <5>1, <2>2, <3>2, <3>5, <3>7, <4>1
      <4>3. ASSUME rateProviderUntil'[p] < rateProviderUntil[p]
            PROVE  /\ rateProviderUntil'[p] = 0 /\ pool[r] = p
                   /\ sent[r] >= rateProviderUntil[p]
        <5>1. p = q
          BY <2>2, <3>2, <3>5, <3>7, <4>3
        <5> QED
          BY <5>1, <2>2, <3>2, <3>5, <3>7, <4>1
      <4> QED
        BY <3>1, <4>2, <4>3
    <3> QED
      BY <3>3, <3>6, <3>7
  <2> QED
    BY <2>3, <2>4
<1> QED
  BY <1>1, Inductive, PTL DEF Spec, PausesOutliveOlderSuccesses

\* A result that arrives for an old view changes no cooldown, streak or pause.
THEOREM OldViewsHarmless == Spec => OldViewsLeaveKeyHealth
<1>1. IInv /\ [Next]_vars =>
         [\A r \in Requests :
             phase[r] \in {"flight", "held"} /\ phase'[r] = "finishing" /\ view[r] # epoch
             => UNCHANGED <<keyVars, rateStreak, rateProviderUntil>>]_vars
  <2> SUFFICES ASSUME IInv, [Next]_vars, NEW r \in Requests,
                      phase[r] \in {"flight", "held"}, phase'[r] = "finishing",
                      view[r] # epoch
               PROVE  UNCHANGED <<keyVars, rateStreak, rateProviderUntil>>
    OBVIOUS
  <2>1. phase \in [Requests -> Phases]
    BY Parts DEF ClaimsOK
  <2>2. Begin(r) \/ Cancel(r) \/ RequestStep(r)
    BY OwnSteps DEF Untouched
  <2>3. ~Begin(r) /\ ~Cancel(r) /\ ~Candidates(r) /\ ~Finish(r)
    BY DEF Begin, Cancel, Candidates, Finish
  <2>4. \A k \in Keys(pool[r]) : ~ReadyClaim(r, k) /\ ~ReadyCheck(r, k)
    BY DEF ReadyClaim, ReadyCheck
  <2>5. Outcome(r)
    BY <2>2, <2>3, <2>4 DEF RequestStep
  <2>6. \A w \in profile.waits : FailHold(r, w) =>
           UNCHANGED <<keyVars, rateStreak, rateProviderUntil>>
    BY DEF FailHold
  <2>7. Succeed(r) \/ (\E limited \in BOOLEAN : FailRecord(r, limited))
        \/ (\E kind \in {"rate", "auth", "other"}, d \in Delays : FailLocal(r, kind, d))
        => UNCHANGED <<keyVars, rateStreak, rateProviderUntil>>
    BY DEF Succeed, FailRecord, FailLocal, IsCurrent, rateVars
  <2> QED
    BY <2>5, <2>6, <2>7 DEF Outcome
<1> QED
  BY <1>1, Inductive, PTL DEF Spec, OldViewsLeaveKeyHealth

-----------------------------------------------------------------------------
(* One probe per pool.                                                     *)

\* A server wait that begins lies ahead, or it overtakes the requests that
\* were told they need no claim.
LEMMA WaitsAhead ==
    ASSUME IInv, [Next]_vars, NEW q \in Pools
    PROVE  \/ until'[q] = until[q] \/ until'[q] = 0 \/ until'[q] > now
           \/ \A r \in Requests :
                 phase[r] = "claimed" /\ lease[r] = "none" /\ Srv(pool[r]) = q
                 => r \in overtaken'
<1>1. /\ HealthOK /\ until \in [Pools -> Nat] /\ now \in Nat
      /\ serverOf \in [Pools -> Pools]
  BY Parts DEF HealthOK, ClaimsOK
<1>2. CASE serverVars' = serverVars
  BY <1>2 DEF serverVars
<1>3. ASSUME NEW r \in Requests, NEW w \in profile.waits, FailHold(r, w)
      PROVE  \/ until'[q] = until[q] \/ until'[q] > now
             \/ \A x \in Requests :
                   phase[x] = "claimed" /\ lease[x] = "none" /\ Srv(pool[x]) = q
                   => x \in overtaken'
  <2>1. /\ holdProviderUntil(pool[r], now + w) /\ keyVars' = keyVars
        /\ rateStreak' = rateStreak /\ rateProviderUntil' = rateProviderUntil
        /\ profile' = profile /\ now' = now
    BY <1>3 DEF FailHold, keyVars, clockVars
  <2>2. w \in Nat /\ now + w \in Nat /\ pool[r] \in Pools
    BY <1>1, WaitsTyped, Parts DEF ClaimsOK
  <2>3. \/ until'[q] = until[q]
        \/ q = Srv(pool[r]) /\ until'[q] = now + w
    BY <1>1, <2>1, <2>2, HeldEffect
  <2>4. CASE w = 0 /\ q = Srv(pool[r])
    <3>1. overtaken' = overtaken \cup Unclaimed(pool[r])
      BY <1>3, <2>4 DEF FailHold
    <3> QED
      BY <2>4, <3>1 DEF Unclaimed
  <2>5. CASE w # 0
    BY <1>1, <2>2, <2>3, <2>5
  <2> QED
    BY <2>3, <2>4, <2>5
<1>4. ASSUME NEW r \in Requests, Succeed(r)
      PROVE  until'[q] = until[q] \/ until'[q] = 0
  <2>1. \/ until' = until \/ until' = [until EXCEPT ![Srv(pool[r])] = 0]
    BY <1>4 DEF Succeed, rateSucceeded, serverVars
  <2> QED
    BY <1>1, <2>1
<1>5. ASSUME NEW r \in Requests,
             \/ \E limited \in BOOLEAN : FailRecord(r, limited)
             \/ \E kind \in {"rate", "auth", "other"}, d \in Delays : FailLocal(r, kind, d)
      PROVE  serverVars' = serverVars
  BY <1>5 DEF FailRecord, FailLocal, rateLimitedAt, CooldownAt, serverVars
<1>6. \A r \in Requests :
         Begin(r) \/ BeginRejected(r) \/ Cancel(r) \/ Candidates(r) \/ Finish(r)
         => serverVars' = serverVars
  BY DEF Begin, BeginRejected, Cancel, Candidates, Finish, vars, serverVars
<1>7. \A r \in Requests : \A k \in Keys(pool[r]) : ReadyClaim(r, k) \/ ReadyCheck(r, k)
         => serverVars' = serverVars
  BY DEF ReadyClaim, ReadyCheck, serverVars
<1>8. ReloadPolicy \/ (\E same \in BOOLEAN : ReloadConnection(same)) \/ Publish
      \/ Tick \/ UNCHANGED vars
         => serverVars' = serverVars
  BY DEF ReloadPolicy, ReloadConnection, Publish, Tick, vars, serverVars
<1> QED
  BY <1>2, <1>3, <1>4, <1>5, <1>6, <1>7, <1>8 DEF Next, RequestStep, Outcome

\* A request that was just told it needs no claim: how it got there.
LEMMA ClaimedStep ==
    ASSUME IInv, [Next]_vars, NEW r \in Requests,
           phase'[r] = "claimed", lease'[r] = "none"
    PROVE  \/ /\ phase[r] = "claimed" /\ lease[r] = "none" /\ pool'[r] = pool[r]
              /\ now' = now
           \/ /\ ~NeedsRecovery(pool[r]) /\ pool' = pool /\ serverOf' = serverOf
              /\ rateVars' = rateVars /\ serverVars' = serverVars
<1>1. /\ phase \in [Requests -> Phases]
      /\ lease \in [Requests -> {"none", "pool", "server"}]
  BY Parts DEF ClaimsOK
<1>2. CASE Untouched(r)
  <2>1. phase[r] = "claimed" /\ lease[r] = "none" /\ pool'[r] = pool[r]
    BY <1>2 DEF Untouched
  <2>2. ~Tick
    BY <2>1 DEF Tick
  <2>3. now' = now
    <3>1. \A q \in Requests :
             Begin(q) \/ BeginRejected(q) \/ Cancel(q) \/ Candidates(q) \/ Finish(q)
             => now' = now
      BY DEF Begin, BeginRejected, Cancel, Candidates, Finish, vars, clockVars
    <3>2. \A q \in Requests : Outcome(q) => now' = now
      BY DEF Outcome, Succeed, FailHold, FailRecord, FailLocal, clockVars
    <3>3. \A q \in Requests : \A k \in Keys(pool[q]) :
             ReadyClaim(q, k) \/ ReadyCheck(q, k) => now' = now
      BY DEF ReadyClaim, ReadyCheck, clockVars
    <3>4. ReloadPolicy \/ (\E same \in BOOLEAN : ReloadConnection(same)) \/ Publish
          \/ UNCHANGED vars => now' = now
      BY DEF ReloadPolicy, ReloadConnection, Publish, vars, clockVars
    <3> QED
      BY <2>2, <3>1, <3>2, <3>3, <3>4 DEF Next, RequestStep
  <2> QED
    BY <2>1, <2>3
<1>3. CASE ~Untouched(r)
  <2>1. Begin(r) \/ Cancel(r) \/ RequestStep(r)
    BY <1>3, OwnSteps
  <2>2. ~\E x \in {"idle", "selected", "queued", "flight", "held", "finishing"} :
           phase' = [phase EXCEPT ![r] = x]
    BY <1>1
  <2>3. ~Begin(r) /\ ~Cancel(r) /\ ~Candidates(r) /\ ~Outcome(r) /\ ~Finish(r)
    BY <2>2 DEF Begin, Cancel, Candidates, Outcome, Succeed, FailHold, FailRecord,
          FailLocal, Finish
  <2>4. \A k \in Keys(pool[r]) : ~ReadyCheck(r, k)
    BY <2>2 DEF ReadyCheck, Skip
  <2>5. PICK k \in Keys(pool[r]) : ReadyClaim(r, k)
    BY <2>1, <2>3, <2>4 DEF RequestStep
  <2>6. beginRateRecovery(r, pool[r])
    BY <2>2, <2>5 DEF ReadyClaim, Skip
  <2>7. ~NeedsRecovery(pool[r])
    BY <1>1, <2>6 DEF beginRateRecovery
  <2> QED
    BY <2>5, <2>7 DEF ReadyClaim, clockVars, viewVars, rateVars, serverVars
<1> QED
  BY <1>2, <1>3

\* What two requests in flight have to do with each other follows from who
\* holds which claim.
LEMMA ClaimsSeparate == IInv /\ ProbesClaimed => PoolsConsistent
<1> SUFFICES ASSUME IInv, ProbesClaimed
             PROVE  OneProbePerPool
  BY DEF IInv, PoolsConsistent
<1> SUFFICES ASSUME NEW r1 \in Requests \ overtaken, NEW r2 \in Requests \ overtaken,
                    pool[r1] = pool[r2], phase[r1] = "flight", phase[r2] = "flight",
                    probing[r1] # "no", probing[r2] # "no"
             PROVE  r1 = r2
  BY DEF OneProbePerPool
<1>1. lease[r1] # "none" /\ lease[r2] # "none"
  BY DEF ProbesClaimed
<1>2. rateProbe[pool[r1]] = r1 /\ rateProbe[pool[r2]] = r2
  BY <1>1 DEF IInv, ClaimsOwned
<1> QED
  BY <1>2

LEMMA ProbesClaimedNext ==
    ASSUME IInv, ProbesClaimed, [Next]_vars
    PROVE  ProbesClaimed'
<1> SUFFICES ASSUME NEW r \in Requests \ overtaken'
             PROVE  /\ phase'[r] = "claimed" /\ lease'[r] = "none" =>
                          /\ rateProviderUntil'[pool'[r]] # 0
                                => rateProviderUntil'[pool'[r]] > now'
                          /\ until'[serverOf'[pool'[r]]] # 0
                                => until'[serverOf'[pool'[r]]] > now'
                    /\ phase'[r] = "flight" /\ probing'[r] # "no" => lease'[r] # "none"
  BY DEF ProbesClaimed, Srv
<1> DEFINE p == pool[r]
           s == Srv(p)
<1>1. /\ HealthOK /\ p \in Pools /\ s \in Pools /\ now \in Nat
      /\ rateProviderUntil \in [Pools -> Nat] /\ until \in [Pools -> Nat]
  BY Parts DEF HealthOK, ClaimsOK, Srv
<1>0. phase'[r] \in {"claimed", "flight"} => r \notin overtaken
  BY OvertakenNext
<1>2. ASSUME phase'[r] = "claimed", lease'[r] = "none"
      PROVE  /\ rateProviderUntil'[pool'[r]] # 0 => rateProviderUntil'[pool'[r]] > now'
             /\ until'[serverOf'[pool'[r]]] # 0 => until'[serverOf'[pool'[r]]] > now'
  <2>1. CASE phase[r] = "claimed" /\ lease[r] = "none" /\ pool'[r] = p /\ now' = now
    <3>1. /\ rateProviderUntil[p] # 0 => rateProviderUntil[p] > now
          /\ until[s] # 0 => until[s] > now
      BY <1>0, <1>2, <2>1 DEF ProbesClaimed
    <3>2. serverOf'[p] = s
      BY ServerKept DEF Srv
    <3>3. \/ rateProviderUntil'[p] = rateProviderUntil[p]
          \/ rateProviderUntil'[p] = 0 \/ rateProviderUntil'[p] > now
      BY <1>1, HealthNext DEF PausesOrdered
    <3>4. until'[s] = until[s] \/ until'[s] = 0 \/ until'[s] > now
      BY <1>1, <2>1, WaitsAhead
    <3> HIDE DEF p, s
    <3> QED
      BY <2>1, <3>1, <3>2, <3>3, <3>4
  <2>2. CASE /\ ~NeedsRecovery(p) /\ pool' = pool /\ serverOf' = serverOf
             /\ rateVars' = rateVars /\ serverVars' = serverVars
    <3>1. until[s] = 0 /\ rateProviderUntil[p] = 0
      BY <1>1, <2>2 DEF NeedsRecovery, HealthOK, SilenceBounded
    <3> QED
      BY <2>2, <3>1 DEF rateVars, serverVars, Srv
  <2> QED
    BY <1>2, <2>1, <2>2, ClaimedStep
<1>3. ASSUME phase'[r] = "flight", probing'[r] # "no"
      PROVE  lease'[r] # "none"
  <2>1. CASE phase[r] = "flight" /\ Untouched(r)
    BY <1>0, <1>3, <2>1 DEF ProbesClaimed, Untouched
  <2>2. CASE ~(phase[r] = "flight" /\ Untouched(r))
    <3>1. PICK k \in Keys(p) :
              /\ KeyReady(p, k) /\ lease' = lease
              /\ phase[r] = "claimed" \/ (phase[r] = "queued" /\ lease[r] # "none")
              /\ probing'[r] = RecoveryKind(p)
      BY <1>3, <2>2, DispatchStep
    <3>2. rateProviderUntil[p] <= now /\ until[s] <= now
      BY <1>1, <3>1, ReadyOutsidePauses
    <3>3. ASSUME lease[r] = "none"
          PROVE  RecoveryKind(p) = "no"
      <4>1. /\ rateProviderUntil[p] # 0 => rateProviderUntil[p] > now
            /\ until[s] # 0 => until[s] > now
        BY <1>0, <1>3, <3>1, <3>3 DEF ProbesClaimed
      <4>2. rateProviderUntil[p] = 0 /\ until[s] = 0
        BY <1>1, <3>2, <4>1
      <4> QED
        BY <4>2 DEF RecoveryKind, NeedsRecovery
    <3> QED
      BY <1>3, <3>1, <3>3
  <2> QED
    BY <2>1, <2>2
<1> QED
  BY <1>2, <1>3

\* "Only one real request probes a rate-limited provider after silence":
\* whatever waits the upstreams ask for, of the requests a pool has in flight
\* at most one was sent while the pool or its server state was still
\* recovering, those aside that a wait of nothing came upon between the two
\* halves of Ready.
THEOREM OneProbe == Spec => []PoolsConsistent
<1>1. Init => ProbesClaimed
  BY DEF Init, ProbesClaimed
<1>2. IInv /\ ProbesClaimed /\ [Next]_vars => ProbesClaimed'
  BY ProbesClaimedNext
<1>3. IInv /\ ProbesClaimed => PoolsConsistent
  BY ClaimsSeparate
<1> QED
  BY <1>1, <1>2, <1>3, Inductive, PTL DEF Spec
============================================================================
