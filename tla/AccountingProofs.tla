-------------------------- MODULE AccountingProofs --------------------------
(***************************************************************************)
(* Proofs about Accounting for every set of requests, number of processes, *)
(* gate, budget mode and limit: the inductive invariant IInv, and from it  *)
(* that the gate conserves its slots, that a request is sent and audited   *)
(* once, that no spend is forgotten, and that unresolved spend closes the  *)
(* budget.                                                                 *)
(***************************************************************************)
EXTENDS Accounting, FiniteSetTheorems, TLAPS

Held    == {"slot", "flight", "releasing"}
Unsent  == {"idle", "admitted", "checked", "reserved", "queued", "slot"}
Charged == {"reserved", "queued", "slot", "flight", "releasing", "auditing", "settling"}

Holders(n) == {r \in Requests : proc[r] = n /\ phase[r] \in Held}

\* Process numbers grow; a running request belongs to a running process, and
\* only a running process owns the ledger.
ProcInv ==
    /\ owner \in alive \cup {0}
    /\ alive \subseteq 1 .. starts
    /\ \A r \in Requests : proc[r] <= starts
    /\ \A r \in Requests : Active(r) => proc[r] \in alive
    /\ \A n \in Runs : n > starts => slots[n] = 0

\* A call that has passed CheckBudget has a row; a request that the upstream
\* may charge for is past its attempt, and its result says so.
SpendInv ==
    /\ \A r \in Requests : phase[r] \in Charged => charge[r] # "none"
    /\ \A r \in reached : /\ phase[r] \notin Unsent \cup {"flight"}
                          /\ Active(r) => result[r] \in {"cost", "nocost"}
                          /\ charge[r] # "none"

\* Whatever may lead to another route was neither sent nor audited.
OnceInv ==
    \A r \in Requests :
        /\ phase[r] \in Unsent => sent[r] = 0
        /\ phase[r] \in Unsent \cup {"flight", "releasing", "auditing"} => audits[r] = 0
        /\ result[r] = "cooling" => /\ phase[r] \in {"releasing", "settling"}
                                    /\ sent[r] = 0 /\ audits[r] = 0
        /\ sent[r] <= 1 /\ audits[r] <= 1

\* A spend that is over but still pending blocks the process that could see
\* it, and a request past its block check has seen that there was none.
UnresolvedInv ==
    /\ \A q \in Requests : charge[q] = "pending" /\ owner # 0 => proc[q] = owner
    /\ \A q \in reached : Over(q) /\ charge[q] = "pending" /\ owner # 0 => blocked[owner]
    /\ \A r \in Requests : \A q \in prior[r] : Over(q)
    /\ \A r \in Requests : phase[r] = "checked" /\ proc[r] = owner =>
          \A q \in prior[r] \cap reached : charge[q] # "pending"

IInv == TypeOK /\ ProcInv /\ SlotsConserved /\ SpendInv /\ OnceInv /\ UnresolvedInv

-----------------------------------------------------------------------------
(* Processes and the gate.                                                               *)

\* Counting up keeps a counter's type.
LEMMA Counted ==
    ASSUME NEW f \in [Requests -> Nat], NEW r \in Requests
    PROVE  [f EXCEPT ![r] = f[r] + 1] \in [Requests -> Nat]
  OBVIOUS

LEMMA CountedUpTo ==
    ASSUME NEW N \in Nat, NEW f \in [Requests -> 0 .. N], NEW r \in Requests, f[r] < N
    PROVE  [f EXCEPT ![r] = f[r] + 1] \in [Requests -> 0 .. N]
<1>1. f[r] + 1 \in 0 .. N
  OBVIOUS
<1> QED
  BY <1>1

\* A running request has a process.
LEMMA ActiveProc ==
    ASSUME TypeOK, ProcInv
    PROVE  \A r \in Requests : Active(r) => proc[r] \in Runs /\ proc[r] # 0
<1>1. alive \subseteq Runs
  BY DEF TypeOK
<1>2. 0 \notin Runs
  BY AccountingBounds DEF Runs
<1> QED
  BY <1>1, <1>2 DEF ProcInv

\* The holders of a process' slots are finitely many, as requests are.
LEMMA HoldersFinite == \A n : IsFiniteSet(Holders(n)) /\ Cardinality(Holders(n)) \in Nat
<1> SUFFICES ASSUME NEW n
             PROVE  IsFiniteSet(Holders(n)) /\ Cardinality(Holders(n)) \in Nat
  OBVIOUS
<1>1. Holders(n) \subseteq Requests
  BY DEF Holders
<1>2. IsFiniteSet(Holders(n))
  BY <1>1, FS_Subset, AccountingBounds
<1> QED
  BY <1>2, FS_CardinalityType

\* A request between acquisition and release is counted in the channel.
LEMMA HolderCounted ==
    ASSUME TypeOK, ProcInv, SlotsConserved, MaxInFlight > 0,
           NEW r \in Requests, phase[r] \in Held
    PROVE  slots[proc[r]] \in 1 .. MaxInFlight
<1>1. proc[r] \in alive /\ proc[r] \in Runs
  BY DEF ProcInv, TypeOK, Active, Over, Held
<1>2. slots[proc[r]] = Cardinality(Holders(proc[r]))
  BY <1>1 DEF SlotsConserved, Holders, Held
<1>3. Holders(proc[r]) # {}
  BY DEF Holders
<1>4. Cardinality(Holders(proc[r])) # 0
  BY <1>3, HoldersFinite, FS_EmptySet
<1>5. slots[proc[r]] \in 0 .. MaxInFlight
  BY <1>1 DEF TypeOK
<1> QED
  BY <1>2, <1>4, <1>5, AccountingBounds

-----------------------------------------------------------------------------
(* The parts of the invariant are preserved, one step per action.          *)

\* Types.
LEMMA TypeNext ==
    ASSUME TypeOK, ProcInv, SlotsConserved, [Next]_vars
    PROVE  TypeOK'
<1>0. \A r \in Requests : phase[r] \in Held /\ MaxInFlight > 0 => slots[proc[r]] \in 1 .. MaxInFlight
  BY HolderCounted
<1> USE DEF procVars, memVars, dbVars, reqVars, histVars, TypeOK, Active, Over, Runs, Phases, NotAttempted
<1>1. ASSUME NEW r \in Requests, BeginCall(r)
      PROVE  TypeOK'
  BY <1>1, AccountingBounds DEF BeginCall, Serving, Goto
<1>2. ASSUME NEW r \in Requests, proc[r] \in alive, Reject(r)
      PROVE  TypeOK'
  BY <1>2 DEF Reject, Goto
<1>3. ASSUME NEW r \in Requests, proc[r] \in alive, CheckBlocked(r)
      PROVE  TypeOK'
  BY <1>3 DEF CheckBlocked, Goto
<1>4. ASSUME NEW r \in Requests, NEW confirmed \in BOOLEAN,
             proc[r] \in alive, CheckBudget(r, confirmed)
      PROVE  TypeOK'
  BY <1>4 DEF CheckBudget, CanWrite, Goto
<1>5. ASSUME NEW r \in Requests, proc[r] \in alive, CheckBudgetFails(r)
      PROVE  TypeOK'
  BY <1>5 DEF CheckBudgetFails, Goto
<1>6. ASSUME NEW r \in Requests, NEW valid \in BOOLEAN,
             proc[r] \in alive, EnterCall(r, valid)
      PROVE  TypeOK'
  BY <1>6 DEF EnterCall, EndsWith, Goto
<1>7. ASSUME NEW r \in Requests, proc[r] \in alive, GateAcquire(r)
      PROVE  TypeOK'
  <2>1. slots' \in [Runs -> 0 .. MaxInFlight]
    <3>1. CASE MaxInFlight = 0
      BY <1>7, <3>1 DEF GateAcquire
    <3>2. CASE MaxInFlight # 0
      <4>1. slots[proc[r]] + 1 \in 0 .. MaxInFlight
        BY <1>7, <3>2, AccountingBounds DEF GateAcquire
      <4> QED
        BY <1>7, <3>2, <4>1 DEF GateAcquire
    <3> QED
      BY <3>1, <3>2
  <2> QED
    BY <1>7, <2>1 DEF GateAcquire, Goto
<1>8. ASSUME NEW r \in Requests, proc[r] \in alive, GateCanceled(r)
      PROVE  TypeOK'
  BY <1>8 DEF GateCanceled, EndsWith, Goto
<1>9. ASSUME NEW r \in Requests, NEW yields \in BOOLEAN,
             proc[r] \in alive, NotReady(r, yields)
      PROVE  TypeOK'
  BY <1>9 DEF NotReady, EndsWith, Goto
<1>10. ASSUME NEW r \in Requests, proc[r] \in alive, Dispatch(r)
      PROVE  TypeOK'
  <2>0. sent' = sent \/ sent' = [sent EXCEPT ![r] = sent[r] + 1]
    BY <1>10 DEF Dispatch
  <2>1. sent' \in [Requests -> Nat]
    BY <2>0, Counted
  <2>2. phase' \in [Requests -> Phases] /\ result' \in [Requests -> NotAttempted \cup {"cost", "nocost", "none"}]
    BY <1>10 DEF Dispatch, EndsWith, Goto
  <2> QED
    BY <1>10, <2>1, <2>2 DEF Dispatch
<1>11. ASSUME NEW r \in Requests, NEW res \in Outcomes,
             proc[r] \in alive, AttemptEnds(r, res)
      PROVE  TypeOK'
  BY <1>11 DEF AttemptEnds, EndsWith, Outcomes, Goto
<1>12. ASSUME NEW r \in Requests, proc[r] \in alive, GateRelease(r)
      PROVE  TypeOK'
  <2>1. slots' \in [Runs -> 0 .. MaxInFlight]
    <3>1. CASE MaxInFlight = 0
      BY <1>12, <3>1 DEF GateRelease
    <3>2. CASE MaxInFlight # 0
      <4>1. slots[proc[r]] \in 1 .. MaxInFlight
        BY <1>12, <1>0, <3>2, AccountingBounds DEF GateRelease, Held
      <4> QED
        BY <1>12, <3>2, <4>1, AccountingBounds DEF GateRelease, Freed
    <3> QED
      BY <3>1, <3>2
  <2> QED
    BY <1>12, <2>1 DEF GateRelease, Goto
<1>13. ASSUME NEW r \in Requests, NEW res \in Outcomes \cup {"unsent"},
             proc[r] \in alive, AppendAudit(r, res)
      PROVE  TypeOK'
  BY <1>13 DEF AppendAudit, EndsWith, Outcomes, Reported, CanWrite, Goto
<1>14. ASSUME NEW r \in Requests, NEW res \in Outcomes \cup {"unsent"},
             proc[r] \in alive, AuditFails(r, res)
      PROVE  TypeOK'
  BY <1>14 DEF AuditFails, EndsWith, Outcomes, Reported, Goto
<1>15. ASSUME NEW r \in Requests, proc[r] \in alive, Settle(r)
      PROVE  TypeOK'
  <2>1. charge' \in [Requests -> {"none", "pending", "settled", "unknown"}]
    BY <1>15 DEF Settle, Settled
  <2>2. window' \subseteq Requests /\ blocked' \in [Runs -> BOOLEAN]
    BY <1>15 DEF Settle
  <2>3. /\ phase' \in [Requests -> Phases]
        /\ result' \in [Requests -> NotAttempted \cup {"cost", "nocost", "none"}]
    <3>1. /\ \E p \in {"admitted", "done"} : phase' = [phase EXCEPT ![r] = p]
          /\ result' = [result EXCEPT ![r] = "none"]
      BY <1>15 DEF Settle, EndCall, EndsWith, Goto
    <3> QED
      BY <3>1
  <2>4. tries' \in [Requests -> 0 .. MaxTries]
    <3>1. \/ tries' = tries
          \/ tries' = [tries EXCEPT ![r] = tries[r] + 1] /\ tries[r] < MaxTries
      BY <1>15 DEF Settle, EndCall, Reselectable
    <3>2. MaxTries \in Nat /\ tries \in [Requests -> 0 .. MaxTries]
      BY AccountingBounds
    <3>3. CASE tries' = tries
      BY <3>2, <3>3
    <3>4. CASE tries' = [tries EXCEPT ![r] = tries[r] + 1] /\ tries[r] < MaxTries
      <4>1. [tries EXCEPT ![r] = tries[r] + 1] \in [Requests -> 0 .. MaxTries]
        BY <3>2, <3>4, CountedUpTo
      <4> QED
        BY <3>4, <4>1
    <3> QED
      BY <3>1, <3>3, <3>4
  <2> QED
    BY <1>15, <2>1, <2>2, <2>3, <2>4 DEF Settle
<1>16. ASSUME NEW r \in Requests, proc[r] \in alive, SettleFails(r)
      PROVE  TypeOK'
  <2>1. blocked' \in [Runs -> BOOLEAN]
    BY <1>16 DEF SettleFails, BlockBudget
  <2>2. /\ phase' \in [Requests -> Phases]
        /\ result' \in [Requests -> NotAttempted \cup {"cost", "nocost", "none"}]
    <3>1. /\ \E p \in {"admitted", "done"} : phase' = [phase EXCEPT ![r] = p]
          /\ result' = [result EXCEPT ![r] = "none"]
      BY <1>16 DEF SettleFails, EndCall, EndsWith, Goto
    <3> QED
      BY <3>1
  <2>3. tries' \in [Requests -> 0 .. MaxTries]
    <3>1. \/ tries' = tries
          \/ tries' = [tries EXCEPT ![r] = tries[r] + 1] /\ tries[r] < MaxTries
      BY <1>16 DEF SettleFails, EndCall, Reselectable
    <3>2. MaxTries \in Nat /\ tries \in [Requests -> 0 .. MaxTries]
      BY AccountingBounds
    <3>3. CASE tries' = tries
      BY <3>2, <3>3
    <3>4. CASE tries' = [tries EXCEPT ![r] = tries[r] + 1] /\ tries[r] < MaxTries
      <4>1. [tries EXCEPT ![r] = tries[r] + 1] \in [Requests -> 0 .. MaxTries]
        BY <3>2, <3>4, CountedUpTo
      <4> QED
        BY <3>4, <4>1
    <3> QED
      BY <3>1, <3>3, <3>4
  <2> QED
    BY <1>16, <2>1, <2>2, <2>3 DEF SettleFails
<1>17. ASSUME NEW r \in Requests, Cancel(r)
      PROVE  TypeOK'
  BY <1>17 DEF Cancel
<1>18. ASSUME NEW r \in Requests, ShutdownCancels(r)
      PROVE  TypeOK'
  BY <1>18 DEF ShutdownCancels
<1>19. ASSUME NEW r \in Requests, Age(r)
      PROVE  TypeOK'
  BY <1>19 DEF Age
<1>20. CASE BeginShutdown
  BY <1>20 DEF BeginShutdown
<1>21. CASE CloseLedger
  BY <1>21, AccountingBounds DEF CloseLedger
<1>22. ASSUME NEW n \in Runs, Exit(n)
      PROVE  TypeOK'
  <2>1. alive' \subseteq Runs /\ owner' \in 0 .. MaxRuns
    BY <1>22, AccountingBounds DEF Exit
  <2>2. latch' \in [Runs -> BOOLEAN] /\ blocked' \in [Runs -> BOOLEAN]
    BY <1>22 DEF Exit
  <2>3. slots' \in [Runs -> 0 .. MaxInFlight]
    BY <1>22, AccountingBounds DEF Exit
  <2>4. /\ phase' \in [Requests -> Phases]
        /\ result' \in [Requests -> NotAttempted \cup {"cost", "nocost", "none"}]
    BY <1>22 DEF Exit
  <2>5. canceled' \subseteq Requests /\ cancels' \subseteq Requests
    BY <1>22 DEF Exit
  <2>6. UNCHANGED <<starts, draining, dbVars, proc, tries, histVars>>
    BY <1>22 DEF Exit
  <2> QED
    BY <2>1, <2>2, <2>3, <2>4, <2>5, <2>6
<1>23. CASE OpenForGateway
  <2>1. starts' \in 0 .. MaxRuns /\ owner' \in 0 .. MaxRuns /\ alive' \subseteq Runs
    BY <1>23, AccountingBounds DEF OpenForGateway
  <2>2. charge' \in [Requests -> {"none", "pending", "settled", "unknown"}]
    BY <1>23 DEF OpenForGateway, Recovered
  <2>3. UNCHANGED <<draining, cancels, memVars, slots, window, audited, phase, reqVars, result, histVars>>
    BY <1>23 DEF OpenForGateway
  <2> QED
    BY <2>1, <2>2, <2>3
<1>24. CASE ResetProviderBudget
  BY <1>24 DEF ResetProviderBudget
<1>25. CASE UNCHANGED vars
  BY <1>25 DEF vars
<1> QED
  BY <1>1, <1>2, <1>3, <1>4, <1>5, <1>6, <1>7, <1>8, <1>9, <1>10, <1>11, <1>12,
     <1>13, <1>14, <1>15, <1>16, <1>17, <1>18, <1>19, <1>20, <1>21, <1>22, <1>23, <1>24, <1>25
  DEF Next, LocalStep, UpstreamStep

\* Processes and the requests they run.
LEMMA ProcNext ==
    ASSUME TypeOK, ProcInv, [Next]_vars
    PROVE  ProcInv'
<1> USE DEF procVars, memVars, dbVars, reqVars, histVars, TypeOK, ProcInv, Active, Over, Runs
<1>1. ASSUME NEW r \in Requests, BeginCall(r)
      PROVE  ProcInv'
  BY <1>1 DEF BeginCall, Serving, Goto
<1>2. ASSUME NEW r \in Requests, proc[r] \in alive, Reject(r)
      PROVE  ProcInv'
  BY <1>2 DEF Reject, Goto
<1>3. ASSUME NEW r \in Requests, proc[r] \in alive, CheckBlocked(r)
      PROVE  ProcInv'
  BY <1>3 DEF CheckBlocked, Goto
<1>4. ASSUME NEW r \in Requests, NEW confirmed \in BOOLEAN,
             proc[r] \in alive, CheckBudget(r, confirmed)
      PROVE  ProcInv'
  BY <1>4 DEF CheckBudget, CanWrite, Goto
<1>5. ASSUME NEW r \in Requests, proc[r] \in alive, CheckBudgetFails(r)
      PROVE  ProcInv'
  BY <1>5 DEF CheckBudgetFails, Goto
<1>6. ASSUME NEW r \in Requests, NEW valid \in BOOLEAN,
             proc[r] \in alive, EnterCall(r, valid)
      PROVE  ProcInv'
  BY <1>6 DEF EnterCall, EndsWith, Goto
<1>7. ASSUME NEW r \in Requests, proc[r] \in alive, GateAcquire(r)
      PROVE  ProcInv'
  BY <1>7 DEF GateAcquire, Goto
<1>8. ASSUME NEW r \in Requests, proc[r] \in alive, GateCanceled(r)
      PROVE  ProcInv'
  BY <1>8 DEF GateCanceled, EndsWith, Goto
<1>9. ASSUME NEW r \in Requests, NEW yields \in BOOLEAN,
             proc[r] \in alive, NotReady(r, yields)
      PROVE  ProcInv'
  BY <1>9 DEF NotReady, EndsWith, Goto
<1>10. ASSUME NEW r \in Requests, proc[r] \in alive, Dispatch(r)
      PROVE  ProcInv'
  BY <1>10 DEF Dispatch, EndsWith, LatchedBeforeSend, Goto
<1>11. ASSUME NEW r \in Requests, NEW res \in Outcomes,
             proc[r] \in alive, AttemptEnds(r, res)
      PROVE  ProcInv'
  BY <1>11 DEF AttemptEnds, EndsWith, Outcomes, Goto
<1>12. ASSUME NEW r \in Requests, proc[r] \in alive, GateRelease(r)
      PROVE  ProcInv'
  BY <1>12 DEF GateRelease, Freed, Goto
<1>13. ASSUME NEW r \in Requests, NEW res \in Outcomes \cup {"unsent"},
             proc[r] \in alive, AppendAudit(r, res)
      PROVE  ProcInv'
  BY <1>13 DEF AppendAudit, EndsWith, Outcomes, Reported, CanWrite, Goto
<1>14. ASSUME NEW r \in Requests, NEW res \in Outcomes \cup {"unsent"},
             proc[r] \in alive, AuditFails(r, res)
      PROVE  ProcInv'
  BY <1>14 DEF AuditFails, EndsWith, Outcomes, Reported, Goto
<1>15. ASSUME NEW r \in Requests, proc[r] \in alive, Settle(r)
      PROVE  ProcInv'
  BY <1>15 DEF Settle, EndsWith, EndCall, Reselectable, Settled, NotAttempted, CanWrite, Goto
<1>16. ASSUME NEW r \in Requests, proc[r] \in alive, SettleFails(r)
      PROVE  ProcInv'
  BY <1>16 DEF SettleFails, EndsWith, EndCall, Reselectable, BlockBudget, Goto
<1>17. ASSUME NEW r \in Requests, Cancel(r)
      PROVE  ProcInv'
  BY <1>17 DEF Cancel
<1>18. ASSUME NEW r \in Requests, ShutdownCancels(r)
      PROVE  ProcInv'
  BY <1>18 DEF ShutdownCancels
<1>19. ASSUME NEW r \in Requests, Age(r)
      PROVE  ProcInv'
  BY <1>19 DEF Age
<1>20. CASE BeginShutdown
  BY <1>20 DEF BeginShutdown
<1>21. CASE CloseLedger
  BY <1>21 DEF CloseLedger
<1>22. ASSUME NEW n \in Runs, Exit(n)
      PROVE  ProcInv'
  BY <1>22 DEF Exit, Lost
<1>23. CASE OpenForGateway
  BY <1>23, AccountingBounds DEF OpenForGateway, LockFree, Recovered
<1>24. CASE ResetProviderBudget
  BY <1>24 DEF ResetProviderBudget
<1>25. CASE UNCHANGED vars
  BY <1>25 DEF vars
<1> QED
  BY <1>1, <1>2, <1>3, <1>4, <1>5, <1>6, <1>7, <1>8, <1>9, <1>10, <1>11, <1>12,
     <1>13, <1>14, <1>15, <1>16, <1>17, <1>18, <1>19, <1>20, <1>21, <1>22, <1>23, <1>24, <1>25
  DEF Next, LocalStep, UpstreamStep

\* The gate: what the holders are before and after each step.
LEMMA SlotsNext ==
    ASSUME TypeOK, ProcInv, SlotsConserved, [Next]_vars
    PROVE  SlotsConserved'
<1> SUFFICES ASSUME MaxInFlight > 0
             PROVE  \A n \in alive' : slots'[n] = Cardinality(Holders(n)')
  BY DEF SlotsConserved, Holders, Held
<1>0. \A n \in alive : slots[n] = Cardinality(Holders(n))
  BY DEF SlotsConserved, Holders, Held
<1> USE DEF procVars, memVars, dbVars, reqVars, histVars, TypeOK, ProcInv, Active, Over, Runs, Held
<1>1. ASSUME NEW r \in Requests, BeginCall(r)
      PROVE  \A n \in alive' : slots'[n] = Cardinality(Holders(n)')
  <2>1. \A n \in alive' : n \in alive /\ slots'[n] = slots[n] /\ Holders(n)' = Holders(n)
    BY <1>1 DEF BeginCall, Serving, Goto, Holders
  <2> QED
    BY <1>0, <2>1
<1>2. ASSUME NEW r \in Requests, proc[r] \in alive, Reject(r)
      PROVE  \A n \in alive' : slots'[n] = Cardinality(Holders(n)')
  <2>1. \A n \in alive' : n \in alive /\ slots'[n] = slots[n] /\ Holders(n)' = Holders(n)
    BY <1>2 DEF Reject, Goto, Holders
  <2> QED
    BY <1>0, <2>1
<1>3. ASSUME NEW r \in Requests, proc[r] \in alive, CheckBlocked(r)
      PROVE  \A n \in alive' : slots'[n] = Cardinality(Holders(n)')
  <2>1. \A n \in alive' : n \in alive /\ slots'[n] = slots[n] /\ Holders(n)' = Holders(n)
    BY <1>3 DEF CheckBlocked, Goto, Holders
  <2> QED
    BY <1>0, <2>1
<1>4. ASSUME NEW r \in Requests, NEW confirmed \in BOOLEAN,
             proc[r] \in alive, CheckBudget(r, confirmed)
      PROVE  \A n \in alive' : slots'[n] = Cardinality(Holders(n)')
  <2>1. \A n \in alive' : n \in alive /\ slots'[n] = slots[n] /\ Holders(n)' = Holders(n)
    BY <1>4 DEF CheckBudget, CanWrite, Goto, Holders
  <2> QED
    BY <1>0, <2>1
<1>5. ASSUME NEW r \in Requests, proc[r] \in alive, CheckBudgetFails(r)
      PROVE  \A n \in alive' : slots'[n] = Cardinality(Holders(n)')
  <2>1. \A n \in alive' : n \in alive /\ slots'[n] = slots[n] /\ Holders(n)' = Holders(n)
    BY <1>5 DEF CheckBudgetFails, Goto, Holders
  <2> QED
    BY <1>0, <2>1
<1>6. ASSUME NEW r \in Requests, NEW valid \in BOOLEAN,
             proc[r] \in alive, EnterCall(r, valid)
      PROVE  \A n \in alive' : slots'[n] = Cardinality(Holders(n)')
  <2>1. \A n \in alive' : n \in alive /\ slots'[n] = slots[n] /\ Holders(n)' = Holders(n)
    BY <1>6 DEF EnterCall, EndsWith, Goto, Holders
  <2> QED
    BY <1>0, <2>1
<1>7. ASSUME NEW r \in Requests, proc[r] \in alive, GateAcquire(r)
      PROVE  \A n \in alive' : slots'[n] = Cardinality(Holders(n)')
  <2>1. PICK p \in alive : p = proc[r]
    BY <1>7
  <2>2. alive' = alive
    BY <1>7 DEF GateAcquire
  <2>3. \A n \in alive : n # p => slots'[n] = slots[n] /\ Holders(n)' = Holders(n)
    BY <1>7, <2>1 DEF GateAcquire, Goto, Holders
  <2>4. Holders(p)' = Holders(p) \cup {r}
    BY <1>7, <2>1 DEF GateAcquire, Goto, Holders
  <2>5. slots'[p] = slots[p] + 1
    BY <1>7, <2>1 DEF GateAcquire
  <2>6. r \notin Holders(p)
    BY <1>7, <2>1 DEF GateAcquire, Holders
  <2>7. Cardinality(Holders(p) \cup {r}) = Cardinality(Holders(p)) + 1
    BY <2>6, HoldersFinite, FS_AddElement
  <2> QED
    BY <1>0, <2>2, <2>3, <2>4, <2>5, <2>7
<1>8. ASSUME NEW r \in Requests, proc[r] \in alive, GateCanceled(r)
      PROVE  \A n \in alive' : slots'[n] = Cardinality(Holders(n)')
  <2>1. \A n \in alive' : n \in alive /\ slots'[n] = slots[n] /\ Holders(n)' = Holders(n)
    BY <1>8 DEF GateCanceled, EndsWith, Goto, Holders
  <2> QED
    BY <1>0, <2>1
<1>9. ASSUME NEW r \in Requests, NEW yields \in BOOLEAN,
             proc[r] \in alive, NotReady(r, yields)
      PROVE  \A n \in alive' : slots'[n] = Cardinality(Holders(n)')
  <2>1. \A n \in alive' : n \in alive /\ slots'[n] = slots[n] /\ Holders(n)' = Holders(n)
    BY <1>9 DEF NotReady, EndsWith, Goto, Holders
  <2> QED
    BY <1>0, <2>1
<1>10. ASSUME NEW r \in Requests, proc[r] \in alive, Dispatch(r)
      PROVE  \A n \in alive' : slots'[n] = Cardinality(Holders(n)')
  <2>1. \A n \in alive' : n \in alive /\ slots'[n] = slots[n] /\ Holders(n)' = Holders(n)
    BY <1>10 DEF Dispatch, EndsWith, LatchedBeforeSend, Goto, Holders
  <2> QED
    BY <1>0, <2>1
<1>11. ASSUME NEW r \in Requests, NEW res \in Outcomes,
             proc[r] \in alive, AttemptEnds(r, res)
      PROVE  \A n \in alive' : slots'[n] = Cardinality(Holders(n)')
  <2>1. \A n \in alive' : n \in alive /\ slots'[n] = slots[n] /\ Holders(n)' = Holders(n)
    BY <1>11 DEF AttemptEnds, EndsWith, Outcomes, Goto, Holders
  <2> QED
    BY <1>0, <2>1
<1>12. ASSUME NEW r \in Requests, proc[r] \in alive, GateRelease(r)
      PROVE  \A n \in alive' : slots'[n] = Cardinality(Holders(n)')
  <2>1. PICK p \in alive : p = proc[r]
    BY <1>12
  <2>2. alive' = alive
    BY <1>12 DEF GateRelease
  <2>3. \A n \in alive : n # p => slots'[n] = slots[n] /\ Holders(n)' = Holders(n)
    BY <1>12, <2>1 DEF GateRelease, Goto, Freed, Holders
  <2>4. Holders(p)' = Holders(p) \ {r}
    BY <1>12, <2>1 DEF GateRelease, Goto, Holders
  <2>5. slots'[p] = slots[p] - 1
    BY <1>12, <2>1 DEF GateRelease, Freed
  <2>6. r \in Holders(p)
    BY <1>12, <2>1 DEF GateRelease, Holders
  <2>7. Cardinality(Holders(p) \ {r}) = Cardinality(Holders(p)) - 1
    BY <2>6, HoldersFinite, FS_RemoveElement
  <2> QED
    BY <1>0, <2>2, <2>3, <2>4, <2>5, <2>7
<1>13. ASSUME NEW r \in Requests, NEW res \in Outcomes \cup {"unsent"},
             proc[r] \in alive, AppendAudit(r, res)
      PROVE  \A n \in alive' : slots'[n] = Cardinality(Holders(n)')
  <2>1. \A n \in alive' : n \in alive /\ slots'[n] = slots[n] /\ Holders(n)' = Holders(n)
    BY <1>13 DEF AppendAudit, EndsWith, Outcomes, Reported, CanWrite, Goto, Holders
  <2> QED
    BY <1>0, <2>1
<1>14. ASSUME NEW r \in Requests, NEW res \in Outcomes \cup {"unsent"},
             proc[r] \in alive, AuditFails(r, res)
      PROVE  \A n \in alive' : slots'[n] = Cardinality(Holders(n)')
  <2>1. \A n \in alive' : n \in alive /\ slots'[n] = slots[n] /\ Holders(n)' = Holders(n)
    BY <1>14 DEF AuditFails, EndsWith, Outcomes, Reported, Goto, Holders
  <2> QED
    BY <1>0, <2>1
<1>15. ASSUME NEW r \in Requests, proc[r] \in alive, Settle(r)
      PROVE  \A n \in alive' : slots'[n] = Cardinality(Holders(n)')
  <2>1. \A n \in alive' : n \in alive /\ slots'[n] = slots[n] /\ Holders(n)' = Holders(n)
    BY <1>15 DEF Settle, EndsWith, EndCall, Reselectable, Settled, NotAttempted, CanWrite, Goto, Holders
  <2> QED
    BY <1>0, <2>1
<1>16. ASSUME NEW r \in Requests, proc[r] \in alive, SettleFails(r)
      PROVE  \A n \in alive' : slots'[n] = Cardinality(Holders(n)')
  <2>1. \A n \in alive' : n \in alive /\ slots'[n] = slots[n] /\ Holders(n)' = Holders(n)
    BY <1>16 DEF SettleFails, EndsWith, EndCall, Reselectable, BlockBudget, Goto, Holders
  <2> QED
    BY <1>0, <2>1
<1>17. ASSUME NEW r \in Requests, Cancel(r)
      PROVE  \A n \in alive' : slots'[n] = Cardinality(Holders(n)')
  <2>1. \A n \in alive' : n \in alive /\ slots'[n] = slots[n] /\ Holders(n)' = Holders(n)
    BY <1>17 DEF Cancel, Holders
  <2> QED
    BY <1>0, <2>1
<1>18. ASSUME NEW r \in Requests, ShutdownCancels(r)
      PROVE  \A n \in alive' : slots'[n] = Cardinality(Holders(n)')
  <2>1. \A n \in alive' : n \in alive /\ slots'[n] = slots[n] /\ Holders(n)' = Holders(n)
    BY <1>18 DEF ShutdownCancels, Holders
  <2> QED
    BY <1>0, <2>1
<1>19. ASSUME NEW r \in Requests, Age(r)
      PROVE  \A n \in alive' : slots'[n] = Cardinality(Holders(n)')
  <2>1. \A n \in alive' : n \in alive /\ slots'[n] = slots[n] /\ Holders(n)' = Holders(n)
    BY <1>19 DEF Age, Holders
  <2> QED
    BY <1>0, <2>1
<1>20. ASSUME BeginShutdown
      PROVE  \A n \in alive' : slots'[n] = Cardinality(Holders(n)')
  <2>1. \A n \in alive' : n \in alive /\ slots'[n] = slots[n] /\ Holders(n)' = Holders(n)
    BY <1>20 DEF BeginShutdown, Holders
  <2> QED
    BY <1>0, <2>1
<1>21. ASSUME CloseLedger
      PROVE  \A n \in alive' : slots'[n] = Cardinality(Holders(n)')
  <2>1. \A n \in alive' : n \in alive /\ slots'[n] = slots[n] /\ Holders(n)' = Holders(n)
    BY <1>21 DEF CloseLedger, Holders
  <2> QED
    BY <1>0, <2>1
<1>22. ASSUME NEW c \in Runs, Exit(c)
      PROVE  \A n \in alive' : slots'[n] = Cardinality(Holders(n)')
  <2>1. \A n \in alive' : n \in alive /\ slots'[n] = slots[n] /\ Holders(n)' = Holders(n)
    BY <1>22 DEF Exit, Lost, Holders
  <2> QED
    BY <1>0, <2>1
<1>23. ASSUME OpenForGateway
      PROVE  \A n \in alive' : slots'[n] = Cardinality(Holders(n)')
  <2>1. PICK m : m = starts + 1
    OBVIOUS
  <2>2. \A n \in alive : slots'[n] = slots[n] /\ Holders(n)' = Holders(n)
    BY <1>23 DEF OpenForGateway, Holders
  <2>3. Holders(m)' = {}
    BY <1>23, <2>1, AccountingBounds DEF OpenForGateway, Holders
  <2>4. slots'[m] = 0
    BY <1>23, <2>1, AccountingBounds DEF OpenForGateway
  <2>5. alive' = alive \cup {m}
    BY <1>23, <2>1 DEF OpenForGateway
  <2> QED
    BY <1>0, <2>2, <2>3, <2>4, <2>5, FS_EmptySet
<1>24. ASSUME ResetProviderBudget
      PROVE  \A n \in alive' : slots'[n] = Cardinality(Holders(n)')
  <2>1. \A n \in alive' : n \in alive /\ slots'[n] = slots[n] /\ Holders(n)' = Holders(n)
    BY <1>24 DEF ResetProviderBudget, Holders
  <2> QED
    BY <1>0, <2>1
<1>25. ASSUME UNCHANGED vars
      PROVE  \A n \in alive' : slots'[n] = Cardinality(Holders(n)')
  <2>1. \A n \in alive' : n \in alive /\ slots'[n] = slots[n] /\ Holders(n)' = Holders(n)
    BY <1>25 DEF vars, Holders
  <2> QED
    BY <1>0, <2>1
<1> QED
  BY <1>1, <1>2, <1>3, <1>4, <1>5, <1>6, <1>7, <1>8, <1>9, <1>10, <1>11, <1>12,
     <1>13, <1>14, <1>15, <1>16, <1>17, <1>18, <1>19, <1>20, <1>21, <1>22, <1>23, <1>24, <1>25
  DEF Next, LocalStep, UpstreamStep

\* Rows, attempts and results.
LEMMA SpendNext ==
    ASSUME TypeOK, SpendInv, [Next]_vars
    PROVE  SpendInv'
<1> USE DEF procVars, memVars, dbVars, reqVars, histVars, TypeOK, SpendInv, Active, Over, Charged, Unsent
<1>1. ASSUME NEW r \in Requests, BeginCall(r)
      PROVE  SpendInv'
  BY <1>1 DEF BeginCall, Serving, Goto
<1>2. ASSUME NEW r \in Requests, proc[r] \in alive, Reject(r)
      PROVE  SpendInv'
  BY <1>2 DEF Reject, Goto
<1>3. ASSUME NEW r \in Requests, proc[r] \in alive, CheckBlocked(r)
      PROVE  SpendInv'
  BY <1>3 DEF CheckBlocked, Goto
<1>4. ASSUME NEW r \in Requests, NEW confirmed \in BOOLEAN,
             proc[r] \in alive, CheckBudget(r, confirmed)
      PROVE  SpendInv'
  BY <1>4 DEF CheckBudget, CanWrite, Goto
<1>5. ASSUME NEW r \in Requests, proc[r] \in alive, CheckBudgetFails(r)
      PROVE  SpendInv'
  BY <1>5 DEF CheckBudgetFails, Goto
<1>6. ASSUME NEW r \in Requests, NEW valid \in BOOLEAN,
             proc[r] \in alive, EnterCall(r, valid)
      PROVE  SpendInv'
  BY <1>6 DEF EnterCall, EndsWith, Goto
<1>7. ASSUME NEW r \in Requests, proc[r] \in alive, GateAcquire(r)
      PROVE  SpendInv'
  BY <1>7 DEF GateAcquire, Goto
<1>8. ASSUME NEW r \in Requests, proc[r] \in alive, GateCanceled(r)
      PROVE  SpendInv'
  BY <1>8 DEF GateCanceled, EndsWith, Goto
<1>9. ASSUME NEW r \in Requests, NEW yields \in BOOLEAN,
             proc[r] \in alive, NotReady(r, yields)
      PROVE  SpendInv'
  BY <1>9 DEF NotReady, EndsWith, Goto
<1>10. ASSUME NEW r \in Requests, proc[r] \in alive, Dispatch(r)
      PROVE  SpendInv'
  BY <1>10 DEF Dispatch, EndsWith, LatchedBeforeSend, Goto
<1>11. ASSUME NEW r \in Requests, NEW res \in Outcomes,
             proc[r] \in alive, AttemptEnds(r, res)
      PROVE  SpendInv'
  BY <1>11 DEF AttemptEnds, EndsWith, Outcomes, Goto
<1>12. ASSUME NEW r \in Requests, proc[r] \in alive, GateRelease(r)
      PROVE  SpendInv'
  BY <1>12 DEF GateRelease, Freed, Goto
<1>13. ASSUME NEW r \in Requests, NEW res \in Outcomes \cup {"unsent"},
             proc[r] \in alive, AppendAudit(r, res)
      PROVE  SpendInv'
  BY <1>13 DEF AppendAudit, EndsWith, Outcomes, Reported, CanWrite, Goto
<1>14. ASSUME NEW r \in Requests, NEW res \in Outcomes \cup {"unsent"},
             proc[r] \in alive, AuditFails(r, res)
      PROVE  SpendInv'
  BY <1>14 DEF AuditFails, EndsWith, Outcomes, Reported, Goto
<1>15. ASSUME NEW r \in Requests, proc[r] \in alive, Settle(r)
      PROVE  SpendInv'
  BY <1>15 DEF Settle, EndsWith, EndCall, Reselectable, Settled, NotAttempted, CanWrite, Goto
<1>16. ASSUME NEW r \in Requests, proc[r] \in alive, SettleFails(r)
      PROVE  SpendInv'
  BY <1>16 DEF SettleFails, EndsWith, EndCall, Reselectable, BlockBudget, Goto
<1>17. ASSUME NEW r \in Requests, Cancel(r)
      PROVE  SpendInv'
  BY <1>17 DEF Cancel
<1>18. ASSUME NEW r \in Requests, ShutdownCancels(r)
      PROVE  SpendInv'
  BY <1>18 DEF ShutdownCancels
<1>19. ASSUME NEW r \in Requests, Age(r)
      PROVE  SpendInv'
  BY <1>19 DEF Age
<1>20. CASE BeginShutdown
  BY <1>20 DEF BeginShutdown
<1>21. CASE CloseLedger
  BY <1>21 DEF CloseLedger
<1>22. ASSUME NEW n \in Runs, Exit(n)
      PROVE  SpendInv'
  BY <1>22 DEF Exit, Lost
<1>23. CASE OpenForGateway
  BY <1>23 DEF OpenForGateway, LockFree, Recovered
<1>24. CASE ResetProviderBudget
  BY <1>24 DEF ResetProviderBudget
<1>25. CASE UNCHANGED vars
  BY <1>25 DEF vars
<1> QED
  BY <1>1, <1>2, <1>3, <1>4, <1>5, <1>6, <1>7, <1>8, <1>9, <1>10, <1>11, <1>12,
     <1>13, <1>14, <1>15, <1>16, <1>17, <1>18, <1>19, <1>20, <1>21, <1>22, <1>23, <1>24, <1>25
  DEF Next, LocalStep, UpstreamStep

\* One attempt and one audit.
LEMMA OnceNext ==
    ASSUME TypeOK, OnceInv, [Next]_vars
    PROVE  OnceInv'
<1> USE DEF procVars, memVars, dbVars, reqVars, histVars, TypeOK, OnceInv, Unsent
<1>1. ASSUME NEW r \in Requests, BeginCall(r)
      PROVE  OnceInv'
  BY <1>1 DEF BeginCall, Serving, Goto
<1>2. ASSUME NEW r \in Requests, proc[r] \in alive, Reject(r)
      PROVE  OnceInv'
  BY <1>2 DEF Reject, Goto
<1>3. ASSUME NEW r \in Requests, proc[r] \in alive, CheckBlocked(r)
      PROVE  OnceInv'
  BY <1>3 DEF CheckBlocked, Goto
<1>4. ASSUME NEW r \in Requests, NEW confirmed \in BOOLEAN,
             proc[r] \in alive, CheckBudget(r, confirmed)
      PROVE  OnceInv'
  BY <1>4 DEF CheckBudget, CanWrite, Goto
<1>5. ASSUME NEW r \in Requests, proc[r] \in alive, CheckBudgetFails(r)
      PROVE  OnceInv'
  BY <1>5 DEF CheckBudgetFails, Goto
<1>6. ASSUME NEW r \in Requests, NEW valid \in BOOLEAN,
             proc[r] \in alive, EnterCall(r, valid)
      PROVE  OnceInv'
  BY <1>6 DEF EnterCall, EndsWith, Goto
<1>7. ASSUME NEW r \in Requests, proc[r] \in alive, GateAcquire(r)
      PROVE  OnceInv'
  BY <1>7 DEF GateAcquire, Goto
<1>8. ASSUME NEW r \in Requests, proc[r] \in alive, GateCanceled(r)
      PROVE  OnceInv'
  BY <1>8 DEF GateCanceled, EndsWith, Goto
<1>9. ASSUME NEW r \in Requests, NEW yields \in BOOLEAN,
             proc[r] \in alive, NotReady(r, yields)
      PROVE  OnceInv'
  BY <1>9 DEF NotReady, EndsWith, Goto
<1>10. ASSUME NEW r \in Requests, proc[r] \in alive, Dispatch(r)
      PROVE  OnceInv'
  BY <1>10 DEF Dispatch, EndsWith, LatchedBeforeSend, Goto
<1>11. ASSUME NEW r \in Requests, NEW res \in Outcomes,
             proc[r] \in alive, AttemptEnds(r, res)
      PROVE  OnceInv'
  BY <1>11 DEF AttemptEnds, EndsWith, Outcomes, Goto
<1>12. ASSUME NEW r \in Requests, proc[r] \in alive, GateRelease(r)
      PROVE  OnceInv'
  BY <1>12 DEF GateRelease, Freed, Goto
<1>13. ASSUME NEW r \in Requests, NEW res \in Outcomes \cup {"unsent"},
             proc[r] \in alive, AppendAudit(r, res)
      PROVE  OnceInv'
  BY <1>13 DEF AppendAudit, EndsWith, Outcomes, Reported, CanWrite, Goto
<1>14. ASSUME NEW r \in Requests, NEW res \in Outcomes \cup {"unsent"},
             proc[r] \in alive, AuditFails(r, res)
      PROVE  OnceInv'
  BY <1>14 DEF AuditFails, EndsWith, Outcomes, Reported, Goto
<1>15. ASSUME NEW r \in Requests, proc[r] \in alive, Settle(r)
      PROVE  OnceInv'
  BY <1>15 DEF Settle, EndsWith, EndCall, Reselectable, Settled, NotAttempted, CanWrite, Goto
<1>16. ASSUME NEW r \in Requests, proc[r] \in alive, SettleFails(r)
      PROVE  OnceInv'
  BY <1>16 DEF SettleFails, EndsWith, EndCall, Reselectable, BlockBudget, Goto
<1>17. ASSUME NEW r \in Requests, Cancel(r)
      PROVE  OnceInv'
  BY <1>17 DEF Cancel
<1>18. ASSUME NEW r \in Requests, ShutdownCancels(r)
      PROVE  OnceInv'
  BY <1>18 DEF ShutdownCancels
<1>19. ASSUME NEW r \in Requests, Age(r)
      PROVE  OnceInv'
  BY <1>19 DEF Age
<1>20. CASE BeginShutdown
  BY <1>20 DEF BeginShutdown
<1>21. CASE CloseLedger
  BY <1>21 DEF CloseLedger
<1>22. ASSUME NEW n \in Runs, Exit(n)
      PROVE  OnceInv'
  BY <1>22 DEF Exit, Lost
<1>23. CASE OpenForGateway
  BY <1>23 DEF OpenForGateway, LockFree, Recovered
<1>24. CASE ResetProviderBudget
  BY <1>24 DEF ResetProviderBudget
<1>25. CASE UNCHANGED vars
  BY <1>25 DEF vars
<1> QED
  BY <1>1, <1>2, <1>3, <1>4, <1>5, <1>6, <1>7, <1>8, <1>9, <1>10, <1>11, <1>12,
     <1>13, <1>14, <1>15, <1>16, <1>17, <1>18, <1>19, <1>20, <1>21, <1>22, <1>23, <1>24, <1>25
  DEF Next, LocalStep, UpstreamStep

\* Unresolved spend.
LEMMA UnresolvedNext ==
    ASSUME TypeOK, ProcInv, SpendInv, OnceInv, UnresolvedInv, [Next]_vars
    PROVE  UnresolvedInv'
<1>0. \A q \in Requests : Active(q) => proc[q] \in Runs /\ proc[q] # 0
  BY ActiveProc
<1> USE DEF procVars, memVars, dbVars, reqVars, histVars, TypeOK, ProcInv, SpendInv, UnresolvedInv, Active, Over, Runs, Unsent
<1>1. ASSUME NEW r \in Requests, BeginCall(r)
      PROVE  UnresolvedInv'
  BY <1>1 DEF BeginCall, Serving, Goto
<1>2. ASSUME NEW r \in Requests, proc[r] \in alive, Reject(r)
      PROVE  UnresolvedInv'
  BY <1>2 DEF Reject, Goto
<1>3. ASSUME NEW r \in Requests, proc[r] \in alive, CheckBlocked(r)
      PROVE  UnresolvedInv'
  BY <1>3 DEF CheckBlocked, Goto
<1>4. ASSUME NEW r \in Requests, NEW confirmed \in BOOLEAN,
             proc[r] \in alive, CheckBudget(r, confirmed)
      PROVE  UnresolvedInv'
  BY <1>4 DEF CheckBudget, CanWrite, Goto
<1>5. ASSUME NEW r \in Requests, proc[r] \in alive, CheckBudgetFails(r)
      PROVE  UnresolvedInv'
  BY <1>5 DEF CheckBudgetFails, Goto
<1>6. ASSUME NEW r \in Requests, NEW valid \in BOOLEAN,
             proc[r] \in alive, EnterCall(r, valid)
      PROVE  UnresolvedInv'
  <2>1. \A q \in Requests : /\ Over(q)' <=> Over(q)
                            /\ phase'[q] = "checked" => phase[q] = "checked"
    BY <1>6 DEF EnterCall, EndsWith, Goto
  <2>2. UNCHANGED <<charge, owner, proc, reached, blocked, prior>>
    BY <1>6 DEF EnterCall
  <2> QED
    BY <2>1, <2>2
<1>7. ASSUME NEW r \in Requests, proc[r] \in alive, GateAcquire(r)
      PROVE  UnresolvedInv'
  BY <1>7 DEF GateAcquire, Goto
<1>8. ASSUME NEW r \in Requests, proc[r] \in alive, GateCanceled(r)
      PROVE  UnresolvedInv'
  BY <1>8 DEF GateCanceled, EndsWith, Goto
<1>9. ASSUME NEW r \in Requests, NEW yields \in BOOLEAN,
             proc[r] \in alive, NotReady(r, yields)
      PROVE  UnresolvedInv'
  BY <1>9 DEF NotReady, EndsWith, Goto
<1>10. ASSUME NEW r \in Requests, proc[r] \in alive, Dispatch(r)
      PROVE  UnresolvedInv'
  <2>1. \A q \in Requests : /\ Over(q)' <=> Over(q)
                            /\ phase'[q] = "checked" => phase[q] = "checked"
    BY <1>10 DEF Dispatch, EndsWith, Goto
  <2>2. UNCHANGED <<charge, owner, proc, reached, blocked, prior>>
    BY <1>10 DEF Dispatch
  <2> QED
    BY <2>1, <2>2
<1>11. ASSUME NEW r \in Requests, NEW res \in Outcomes,
             proc[r] \in alive, AttemptEnds(r, res)
      PROVE  UnresolvedInv'
  BY <1>11 DEF AttemptEnds, EndsWith, Outcomes, Goto
<1>12. ASSUME NEW r \in Requests, proc[r] \in alive, GateRelease(r)
      PROVE  UnresolvedInv'
  BY <1>12 DEF GateRelease, Freed, Goto
<1>13. ASSUME NEW r \in Requests, NEW res \in Outcomes \cup {"unsent"},
             proc[r] \in alive, AppendAudit(r, res)
      PROVE  UnresolvedInv'
  BY <1>13 DEF AppendAudit, EndsWith, Outcomes, Reported, CanWrite, Goto
<1>14. ASSUME NEW r \in Requests, NEW res \in Outcomes \cup {"unsent"},
             proc[r] \in alive, AuditFails(r, res)
      PROVE  UnresolvedInv'
  BY <1>14 DEF AuditFails, EndsWith, Outcomes, Reported, Goto
<1>15. ASSUME NEW r \in Requests, proc[r] \in alive, Settle(r)
      PROVE  UnresolvedInv'
  <2>1. /\ phase[r] = "settling" /\ phase'[r] \in {"admitted", "done"}
        /\ \A q \in Requests : q # r => phase'[q] = phase[q]
    BY <1>15 DEF Settle, EndCall, EndsWith, Goto
  <2>2. /\ charge'[r] # "pending"
        /\ \A q \in Requests : q # r => charge'[q] = charge[q]
    BY <1>15 DEF Settle, Settled
  <2>3. \A n \in Runs : blocked[n] => blocked'[n]
    BY <1>15 DEF Settle
  <2>4. UNCHANGED <<owner, proc, reached, prior>>
    BY <1>15 DEF Settle
  <2>5. \A q \in Requests : charge'[q] = "pending" /\ owner' # 0 => proc'[q] = owner'
    BY <2>2, <2>4
  <2>6. ASSUME NEW q \in reached', Over(q)', charge'[q] = "pending", owner' # 0
        PROVE  blocked'[owner']
    <3>1. q \in reached /\ q \in Requests /\ q # r /\ owner' = owner /\ owner # 0 /\ owner \in Runs
      BY <2>2, <2>4, <2>6
    <3>2. Over(q) /\ charge[q] = "pending"
      BY <2>1, <2>2, <2>6, <3>1
    <3>3. blocked[owner]
      BY <3>1, <3>2
    <3> QED
      BY <2>3, <3>1, <3>3
  <2>7. \A q \in Requests : \A p \in prior'[q] : Over(p)'
    BY <2>1, <2>4
  <2>8. ASSUME NEW q \in Requests, phase'[q] = "checked", proc'[q] = owner',
               NEW p \in prior'[q] \cap reached'
        PROVE  charge'[p] # "pending"
    <3>1. q # r /\ phase[q] = "checked"
      BY <2>1, <2>8
    <3>2. proc[q] = owner /\ p \in prior[q] \cap reached
      BY <2>8, <2>4
    <3>3. charge[p] # "pending" /\ p \in Requests
      BY <3>1, <3>2
    <3> QED
      BY <3>3, <2>2
  <2> QED
    BY <2>5, <2>6, <2>7, <2>8
<1>16. ASSUME NEW r \in Requests, proc[r] \in alive, SettleFails(r)
      PROVE  UnresolvedInv'
  <2>1. /\ phase[r] = "settling" /\ phase'[r] \in {"admitted", "done"}
        /\ \A q \in Requests : q # r => phase'[q] = phase[q]
    BY <1>16 DEF SettleFails, EndCall, EndsWith, Goto
  <2>2. blocked'[proc[r]] /\ \A n \in Runs : blocked[n] => blocked'[n]
    BY <1>16 DEF SettleFails, BlockBudget
  <2>3. UNCHANGED <<charge, owner, proc, reached, prior>>
    BY <1>16 DEF SettleFails
  <2>4. \A q \in Requests : charge'[q] = "pending" /\ owner' # 0 => proc'[q] = owner'
    BY <2>3
  <2>5. ASSUME NEW q \in reached', Over(q)', charge'[q] = "pending", owner' # 0
        PROVE  blocked'[owner']
    <3>1. /\ q \in reached /\ q \in Requests /\ charge[q] = "pending"
          /\ owner' = owner /\ owner # 0 /\ owner \in Runs
      BY <2>3, <2>5
    <3>2. CASE q = r
      BY <2>2, <3>1, <3>2
    <3>3. CASE q # r
      <4>1. Over(q)
        BY <2>1, <2>5, <3>1, <3>3
      <4>2. blocked[owner]
        BY <3>1, <4>1
      <4> QED
        BY <2>2, <3>1, <4>2
    <3> QED
      BY <3>2, <3>3
  <2>6. \A q \in Requests : \A p \in prior'[q] : Over(p)'
    BY <2>1, <2>3
  <2>7. ASSUME NEW q \in Requests, phase'[q] = "checked", proc'[q] = owner',
               NEW p \in prior'[q] \cap reached'
        PROVE  charge'[p] # "pending"
    <3>1. q # r /\ phase[q] = "checked"
      BY <2>1, <2>7
    <3>2. proc[q] = owner /\ p \in prior[q] \cap reached
      BY <2>7, <2>3
    <3>3. charge[p] # "pending" /\ p \in Requests
      BY <3>1, <3>2
    <3> QED
      BY <3>3, <2>3
  <2> QED
    BY <2>4, <2>5, <2>6, <2>7
<1>17. ASSUME NEW r \in Requests, Cancel(r)
      PROVE  UnresolvedInv'
  BY <1>17 DEF Cancel
<1>18. ASSUME NEW r \in Requests, ShutdownCancels(r)
      PROVE  UnresolvedInv'
  BY <1>18 DEF ShutdownCancels
<1>19. ASSUME NEW r \in Requests, Age(r)
      PROVE  UnresolvedInv'
  BY <1>19 DEF Age
<1>20. CASE BeginShutdown
  BY <1>20 DEF BeginShutdown
<1>21. CASE CloseLedger
  <2>1. owner' = 0 /\ UNCHANGED <<charge, phase, proc, reached, blocked, prior>>
    BY <1>21 DEF CloseLedger
  <2>2. \A q \in Requests : phase[q] = "checked" => proc[q] # 0
    BY <1>0
  <2> QED
    BY <2>1, <2>2
<1>22. ASSUME NEW n \in Runs, Exit(n)
      PROVE  UnresolvedInv'
  BY <1>22 DEF Exit, Lost
<1>23. CASE OpenForGateway
  BY <1>23, AccountingBounds DEF OpenForGateway, LockFree, Recovered
<1>24. CASE ResetProviderBudget
  BY <1>24 DEF ResetProviderBudget
<1>25. CASE UNCHANGED vars
  BY <1>25 DEF vars
<1> QED
  BY <1>1, <1>2, <1>3, <1>4, <1>5, <1>6, <1>7, <1>8, <1>9, <1>10, <1>11, <1>12,
     <1>13, <1>14, <1>15, <1>16, <1>17, <1>18, <1>19, <1>20, <1>21, <1>22, <1>23, <1>24, <1>25
  DEF Next, LocalStep, UpstreamStep

-----------------------------------------------------------------------------
(* The invariant.                                                          *)

\* A fresh ledger.
LEMMA InitEstablishes == Init => IInv
<1> SUFFICES ASSUME Init PROVE IInv
  OBVIOUS
<1> USE AccountingBounds DEF Init, Runs
<1>1. TypeOK
  BY DEF TypeOK, Phases, NotAttempted
<1>2. ProcInv
  BY DEF ProcInv, Active, Over
<1>3. SlotsConserved
  BY DEF SlotsConserved
<1>4. SpendInv
  BY DEF SpendInv, Charged
<1>5. OnceInv
  BY DEF OnceInv
<1>6. UnresolvedInv
  BY DEF UnresolvedInv
<1> QED
  BY <1>1, <1>2, <1>3, <1>4, <1>5, <1>6 DEF IInv

\* Every step of every process, request and of the upstream keeps IInv.
LEMMA NextPreserves == IInv /\ [Next]_vars => IInv'
  BY TypeNext, ProcNext, SlotsNext, SpendNext, OnceNext, UnresolvedNext DEF IInv

\* IInv is an invariant of Spec: processes, gate, rows, results, attempts and
\* unresolved charges stay consistent in every interleaving.
THEOREM Inductive == Spec => []IInv
  BY InitEstablishes, NextPreserves, PTL DEF Spec

\* The types hold for every number of requests, processes, slots and retries.
THEOREM TypeCorrect == Spec => []TypeOK
<1>1. IInv => TypeOK
  BY DEF IInv
<1> QED
  BY <1>1, Inductive, PTL

\* The gate's channel holds exactly the tokens of the calls between Acquire
\* and Release.
THEOREM GateConserves == Spec => []SlotsConserved
<1>1. IInv => SlotsConserved
  BY DEF IInv
<1> QED
  BY <1>1, Inductive, PTL

\* An attempt that may cost money is never without a row in budget_charges.
THEOREM SpendNeverForgotten == Spec => []SpendRecorded
<1>1. IInv => SpendRecorded
  BY DEF IInv, SpendInv, SpendRecorded
<1> QED
  BY <1>1, Inductive, PTL

\* A request is sent at most once and audited at most once.
THEOREM SingleAttempt == Spec => []OneAttemptOneAudit
<1>1. IInv => OneAttemptOneAudit
  BY DEF IInv, OnceInv, OneAttemptOneAudit
<1> QED
  BY <1>1, Inductive, PTL

\* The ledger, the gate and the requests stay consistent with each other: no
\* cancellation, failed write, crash, recovery or shutdown loses a token, a
\* row or an audit, or sends a request twice.
THEOREM LedgerSound == Spec => []LedgerConsistent
<1>1. IInv => LedgerConsistent
  BY DEF IInv, SpendInv, SpendRecorded, OnceInv, OneAttemptOneAudit, LedgerConsistent
<1> QED
  BY <1>1, Inductive, PTL

-----------------------------------------------------------------------------
(* What a step may never do.                                               *)

\* The bodies of the action properties.
ClosedStep ==
    \A r \in Requests : phase[r] = "checked" /\ phase'[r] = "reserved" =>
        LET counted == prior[r] \cap reached \cap window
        IN  /\ \A q \in counted : charge[q] = "settled"
            /\ Mode = "hard" => Cardinality(counted) < Limit

LatchStep ==
    \A n \in alive : latch[n] =>
        /\ latch'[n] \/ n \notin alive'
        /\ \A r \in Requests : proc[r] = n => sent'[r] = sent[r]

RecoveryStep ==
    \A r \in Requests :
        charge[r] = "pending" /\ Active(r) /\ proc[r] = owner /\ charge'[r] # "pending"
        => phase[r] = "settling" /\ phase'[r] # "settling"

\* A reservation is a CheckBudget.
Reservations ==
    \A q \in Requests : phase[q] = "checked" /\ phase'[q] = "reserved" =>
        \E c \in BOOLEAN : CheckBudget(q, c)

\* Only CheckBudget makes a reservation.
LEMMA ReservationSteps ==
    ASSUME TypeOK, [Next]_vars
    PROVE  Reservations
<1> USE DEF Reservations, procVars, memVars, dbVars, reqVars, histVars, TypeOK
<1>1. ASSUME NEW r \in Requests, BeginCall(r)
      PROVE  Reservations
  BY <1>1 DEF BeginCall, Serving, Goto
<1>2. ASSUME NEW r \in Requests, proc[r] \in alive, Reject(r)
      PROVE  Reservations
  BY <1>2 DEF Reject, Goto
<1>3. ASSUME NEW r \in Requests, proc[r] \in alive, CheckBlocked(r)
      PROVE  Reservations
  BY <1>3 DEF CheckBlocked, Goto
<1>4. ASSUME NEW r \in Requests, NEW confirmed \in BOOLEAN,
             proc[r] \in alive, CheckBudget(r, confirmed)
      PROVE  Reservations
  BY <1>4 DEF CheckBudget, Goto
<1>5. ASSUME NEW r \in Requests, proc[r] \in alive, CheckBudgetFails(r)
      PROVE  Reservations
  BY <1>5 DEF CheckBudgetFails, Goto
<1>6. ASSUME NEW r \in Requests, NEW valid \in BOOLEAN,
             proc[r] \in alive, EnterCall(r, valid)
      PROVE  Reservations
  BY <1>6 DEF EnterCall, EndsWith, Goto
<1>7. ASSUME NEW r \in Requests, proc[r] \in alive, GateAcquire(r)
      PROVE  Reservations
  BY <1>7 DEF GateAcquire, Goto
<1>8. ASSUME NEW r \in Requests, proc[r] \in alive, GateCanceled(r)
      PROVE  Reservations
  BY <1>8 DEF GateCanceled, EndsWith, Goto
<1>9. ASSUME NEW r \in Requests, NEW yields \in BOOLEAN,
             proc[r] \in alive, NotReady(r, yields)
      PROVE  Reservations
  BY <1>9 DEF NotReady, EndsWith, Goto
<1>10. ASSUME NEW r \in Requests, proc[r] \in alive, Dispatch(r)
      PROVE  Reservations
  BY <1>10 DEF Dispatch, EndsWith, LatchedBeforeSend, Goto
<1>11. ASSUME NEW r \in Requests, NEW res \in Outcomes,
             proc[r] \in alive, AttemptEnds(r, res)
      PROVE  Reservations
  BY <1>11 DEF AttemptEnds, EndsWith, Outcomes, Goto
<1>12. ASSUME NEW r \in Requests, proc[r] \in alive, GateRelease(r)
      PROVE  Reservations
  BY <1>12 DEF GateRelease, Freed, Goto
<1>13. ASSUME NEW r \in Requests, NEW res \in Outcomes \cup {"unsent"},
             proc[r] \in alive, AppendAudit(r, res)
      PROVE  Reservations
  BY <1>13 DEF AppendAudit, EndsWith, Outcomes, Reported, CanWrite, Goto
<1>14. ASSUME NEW r \in Requests, NEW res \in Outcomes \cup {"unsent"},
             proc[r] \in alive, AuditFails(r, res)
      PROVE  Reservations
  BY <1>14 DEF AuditFails, EndsWith, Outcomes, Reported, Goto
<1>15. ASSUME NEW r \in Requests, proc[r] \in alive, Settle(r)
      PROVE  Reservations
  BY <1>15 DEF Settle, EndsWith, EndCall, Reselectable, Settled, NotAttempted, CanWrite, Goto
<1>16. ASSUME NEW r \in Requests, proc[r] \in alive, SettleFails(r)
      PROVE  Reservations
  BY <1>16 DEF SettleFails, EndsWith, EndCall, Reselectable, BlockBudget, Goto
<1>17. ASSUME NEW r \in Requests, Cancel(r)
      PROVE  Reservations
  BY <1>17 DEF Cancel
<1>18. ASSUME NEW r \in Requests, ShutdownCancels(r)
      PROVE  Reservations
  BY <1>18 DEF ShutdownCancels
<1>19. ASSUME NEW r \in Requests, Age(r)
      PROVE  Reservations
  BY <1>19 DEF Age
<1>20. ASSUME BeginShutdown
      PROVE  Reservations
  BY <1>20 DEF BeginShutdown
<1>21. ASSUME CloseLedger
      PROVE  Reservations
  BY <1>21 DEF CloseLedger
<1>22. ASSUME NEW n \in Runs, Exit(n)
      PROVE  Reservations
  BY <1>22 DEF Exit, Lost
<1>23. ASSUME OpenForGateway
      PROVE  Reservations
  BY <1>23 DEF OpenForGateway, LockFree, Recovered
<1>24. ASSUME ResetProviderBudget
      PROVE  Reservations
  BY <1>24 DEF ResetProviderBudget
<1>25. ASSUME UNCHANGED vars
      PROVE  Reservations
  BY <1>25 DEF vars
<1> QED
  BY <1>1, <1>2, <1>3, <1>4, <1>5, <1>6, <1>7, <1>8, <1>9, <1>10, <1>11, <1>12,
     <1>13, <1>14, <1>15, <1>16, <1>17, <1>18, <1>19, <1>20, <1>21, <1>22, <1>23, <1>24, <1>25
  DEF Next, LocalStep, UpstreamStep

\* A reservation sees every spend that was over when its check began.
LEMMA ReservationClosed ==
    ASSUME IInv, [Next]_vars
    PROVE  ClosedStep
<1> SUFFICES ASSUME NEW r \in Requests, phase[r] = "checked", phase'[r] = "reserved"
             PROVE  LET counted == prior[r] \cap reached \cap window
                    IN  /\ \A q \in counted : charge[q] = "settled"
                        /\ Mode = "hard" => Cardinality(counted) < Limit
  BY DEF ClosedStep
<1> DEFINE counted == prior[r] \cap reached \cap window
           settled == {q \in window : charge[q] = "settled"}
<1>1. PICK c \in BOOLEAN : CheckBudget(r, c)
  BY ReservationSteps DEF IInv, Reservations
<1>2. UnknownIn = {} /\ (Mode = "hard" => ~(Spent >= Limit)) /\ proc[r] = owner
  BY <1>1 DEF CheckBudget, BudgetRefuses, CanWrite
<1>3. ASSUME NEW q \in counted
      PROVE  charge[q] = "settled"
  <2>1. charge[q] # "pending"
    BY <1>2 DEF IInv, UnresolvedInv
  <2>2. charge[q] # "none"
    BY DEF IInv, SpendInv
  <2>3. charge[q] # "unknown"
    BY <1>2 DEF UnknownIn
  <2>4. charge[q] \in {"none", "pending", "settled", "unknown"}
    BY DEF IInv, TypeOK
  <2> QED
    BY <2>1, <2>2, <2>3, <2>4
<1>4. ASSUME Mode = "hard"
      PROVE  Cardinality(counted) < Limit
  <2>1. settled \subseteq Requests
    BY DEF IInv, TypeOK
  <2>2. IsFiniteSet(settled)
    BY <2>1, FS_Subset, AccountingBounds
  <2>3. counted \in SUBSET settled
    BY <1>3
  <2>4. Cardinality(counted) <= Cardinality(settled) /\ IsFiniteSet(counted)
    BY <2>2, <2>3, FS_Subset
  <2>5. ~(Cardinality(settled) >= Limit)
    BY <1>2, <1>4 DEF Spent
  <2>6. Cardinality(settled) \in Nat /\ Cardinality(counted) \in Nat
    BY <2>2, <2>4, FS_CardinalityType
  <2> HIDE DEF counted, settled
  <2> QED
    BY <2>4, <2>5, <2>6, AccountingBounds
<1> QED
  BY <1>3, <1>4

\* Unresolved attempted charges block later budgeted work, and a hard limit
\* counts every spend that was over when the check began.
THEOREM UnresolvedSpendCloses == Spec => FailClosed
<1>1. IInv /\ [Next]_vars => [ClosedStep]_vars
  BY ReservationClosed
<1> QED
  BY <1>1, Inductive, PTL DEF Spec, FailClosed, ClosedStep

\* A latched process sends nothing, and forgets its latch only by ending.
LEMMA LatchNext ==
    ASSUME TypeOK, [Next]_vars
    PROVE  LatchStep
<1> USE DEF procVars, memVars, dbVars, reqVars, histVars, TypeOK, LatchStep, Runs
<1>1. ASSUME NEW r \in Requests, BeginCall(r)
      PROVE  LatchStep
  BY <1>1 DEF BeginCall, Serving, Goto
<1>2. ASSUME NEW r \in Requests, proc[r] \in alive, Reject(r)
      PROVE  LatchStep
  BY <1>2 DEF Reject, Goto
<1>3. ASSUME NEW r \in Requests, proc[r] \in alive, CheckBlocked(r)
      PROVE  LatchStep
  BY <1>3 DEF CheckBlocked, Goto
<1>4. ASSUME NEW r \in Requests, NEW confirmed \in BOOLEAN,
             proc[r] \in alive, CheckBudget(r, confirmed)
      PROVE  LatchStep
  BY <1>4 DEF CheckBudget, CanWrite, Goto
<1>5. ASSUME NEW r \in Requests, proc[r] \in alive, CheckBudgetFails(r)
      PROVE  LatchStep
  BY <1>5 DEF CheckBudgetFails, Goto
<1>6. ASSUME NEW r \in Requests, NEW valid \in BOOLEAN,
             proc[r] \in alive, EnterCall(r, valid)
      PROVE  LatchStep
  BY <1>6 DEF EnterCall, EndsWith, Goto
<1>7. ASSUME NEW r \in Requests, proc[r] \in alive, GateAcquire(r)
      PROVE  LatchStep
  BY <1>7 DEF GateAcquire, Goto
<1>8. ASSUME NEW r \in Requests, proc[r] \in alive, GateCanceled(r)
      PROVE  LatchStep
  BY <1>8 DEF GateCanceled, EndsWith, Goto
<1>9. ASSUME NEW r \in Requests, NEW yields \in BOOLEAN,
             proc[r] \in alive, NotReady(r, yields)
      PROVE  LatchStep
  BY <1>9 DEF NotReady, EndsWith, Goto
<1>10. ASSUME NEW r \in Requests, proc[r] \in alive, Dispatch(r)
      PROVE  LatchStep
  BY <1>10 DEF Dispatch, EndsWith, LatchedBeforeSend, Goto
<1>11. ASSUME NEW r \in Requests, NEW res \in Outcomes,
             proc[r] \in alive, AttemptEnds(r, res)
      PROVE  LatchStep
  BY <1>11 DEF AttemptEnds, EndsWith, Outcomes, Goto
<1>12. ASSUME NEW r \in Requests, proc[r] \in alive, GateRelease(r)
      PROVE  LatchStep
  BY <1>12 DEF GateRelease, Freed, Goto
<1>13. ASSUME NEW r \in Requests, NEW res \in Outcomes \cup {"unsent"},
             proc[r] \in alive, AppendAudit(r, res)
      PROVE  LatchStep
  BY <1>13 DEF AppendAudit, EndsWith, Outcomes, Reported, CanWrite, Goto
<1>14. ASSUME NEW r \in Requests, NEW res \in Outcomes \cup {"unsent"},
             proc[r] \in alive, AuditFails(r, res)
      PROVE  LatchStep
  BY <1>14 DEF AuditFails, EndsWith, Outcomes, Reported, Goto
<1>15. ASSUME NEW r \in Requests, proc[r] \in alive, Settle(r)
      PROVE  LatchStep
  BY <1>15 DEF Settle, EndsWith, EndCall, Reselectable, Settled, NotAttempted, CanWrite, Goto
<1>16. ASSUME NEW r \in Requests, proc[r] \in alive, SettleFails(r)
      PROVE  LatchStep
  BY <1>16 DEF SettleFails, EndsWith, EndCall, Reselectable, BlockBudget, Goto
<1>17. ASSUME NEW r \in Requests, Cancel(r)
      PROVE  LatchStep
  BY <1>17 DEF Cancel
<1>18. ASSUME NEW r \in Requests, ShutdownCancels(r)
      PROVE  LatchStep
  BY <1>18 DEF ShutdownCancels
<1>19. ASSUME NEW r \in Requests, Age(r)
      PROVE  LatchStep
  BY <1>19 DEF Age
<1>20. CASE BeginShutdown
  BY <1>20 DEF BeginShutdown
<1>21. CASE CloseLedger
  BY <1>21 DEF CloseLedger
<1>22. ASSUME NEW n \in Runs, Exit(n)
      PROVE  LatchStep
  BY <1>22 DEF Exit, Lost
<1>23. CASE OpenForGateway
  BY <1>23 DEF OpenForGateway, LockFree, Recovered
<1>24. CASE ResetProviderBudget
  BY <1>24 DEF ResetProviderBudget
<1>25. CASE UNCHANGED vars
  BY <1>25 DEF vars
<1> QED
  BY <1>1, <1>2, <1>3, <1>4, <1>5, <1>6, <1>7, <1>8, <1>9, <1>10, <1>11, <1>12,
     <1>13, <1>14, <1>15, <1>16, <1>17, <1>18, <1>19, <1>20, <1>21, <1>22, <1>23, <1>24, <1>25
  DEF Next, LocalStep, UpstreamStep

\* A failed audit stops the dispatches of its process for good.
THEOREM LatchHolds == Spec => LatchStopsDispatch
<1>1. IInv /\ [Next]_vars => [LatchStep]_vars
  BY LatchNext DEF IInv
<1> QED
  BY <1>1, Inductive, PTL DEF Spec, LatchStopsDispatch, LatchStep

\* Only its own settlement resolves the row of a running request.
LEMMA RecoveryNext ==
    ASSUME TypeOK, ProcInv, [Next]_vars
    PROVE  RecoveryStep
<1>0. \A r \in Requests : Active(r) => proc[r] # 0
  BY ActiveProc
<1> USE DEF procVars, memVars, dbVars, reqVars, histVars, TypeOK, RecoveryStep, Active, Over
<1>1. ASSUME NEW r \in Requests, BeginCall(r)
      PROVE  RecoveryStep
  BY <1>1 DEF BeginCall, Serving, Goto
<1>2. ASSUME NEW r \in Requests, proc[r] \in alive, Reject(r)
      PROVE  RecoveryStep
  BY <1>2 DEF Reject, Goto
<1>3. ASSUME NEW r \in Requests, proc[r] \in alive, CheckBlocked(r)
      PROVE  RecoveryStep
  BY <1>3 DEF CheckBlocked, Goto
<1>4. ASSUME NEW r \in Requests, NEW confirmed \in BOOLEAN,
             proc[r] \in alive, CheckBudget(r, confirmed)
      PROVE  RecoveryStep
  BY <1>4 DEF CheckBudget, CanWrite, Goto
<1>5. ASSUME NEW r \in Requests, proc[r] \in alive, CheckBudgetFails(r)
      PROVE  RecoveryStep
  BY <1>5 DEF CheckBudgetFails, Goto
<1>6. ASSUME NEW r \in Requests, NEW valid \in BOOLEAN,
             proc[r] \in alive, EnterCall(r, valid)
      PROVE  RecoveryStep
  BY <1>6 DEF EnterCall, EndsWith, Goto
<1>7. ASSUME NEW r \in Requests, proc[r] \in alive, GateAcquire(r)
      PROVE  RecoveryStep
  BY <1>7 DEF GateAcquire, Goto
<1>8. ASSUME NEW r \in Requests, proc[r] \in alive, GateCanceled(r)
      PROVE  RecoveryStep
  BY <1>8 DEF GateCanceled, EndsWith, Goto
<1>9. ASSUME NEW r \in Requests, NEW yields \in BOOLEAN,
             proc[r] \in alive, NotReady(r, yields)
      PROVE  RecoveryStep
  BY <1>9 DEF NotReady, EndsWith, Goto
<1>10. ASSUME NEW r \in Requests, proc[r] \in alive, Dispatch(r)
      PROVE  RecoveryStep
  BY <1>10 DEF Dispatch, EndsWith, LatchedBeforeSend, Goto
<1>11. ASSUME NEW r \in Requests, NEW res \in Outcomes,
             proc[r] \in alive, AttemptEnds(r, res)
      PROVE  RecoveryStep
  BY <1>11 DEF AttemptEnds, EndsWith, Outcomes, Goto
<1>12. ASSUME NEW r \in Requests, proc[r] \in alive, GateRelease(r)
      PROVE  RecoveryStep
  BY <1>12 DEF GateRelease, Freed, Goto
<1>13. ASSUME NEW r \in Requests, NEW res \in Outcomes \cup {"unsent"},
             proc[r] \in alive, AppendAudit(r, res)
      PROVE  RecoveryStep
  BY <1>13 DEF AppendAudit, EndsWith, Outcomes, Reported, CanWrite, Goto
<1>14. ASSUME NEW r \in Requests, NEW res \in Outcomes \cup {"unsent"},
             proc[r] \in alive, AuditFails(r, res)
      PROVE  RecoveryStep
  BY <1>14 DEF AuditFails, EndsWith, Outcomes, Reported, Goto
<1>15. ASSUME NEW r \in Requests, proc[r] \in alive, Settle(r)
      PROVE  RecoveryStep
  BY <1>15 DEF Settle, EndsWith, EndCall, Reselectable, Settled, NotAttempted, CanWrite, Goto
<1>16. ASSUME NEW r \in Requests, proc[r] \in alive, SettleFails(r)
      PROVE  RecoveryStep
  BY <1>16 DEF SettleFails, EndsWith, EndCall, Reselectable, BlockBudget, Goto
<1>17. ASSUME NEW r \in Requests, Cancel(r)
      PROVE  RecoveryStep
  BY <1>17 DEF Cancel
<1>18. ASSUME NEW r \in Requests, ShutdownCancels(r)
      PROVE  RecoveryStep
  BY <1>18 DEF ShutdownCancels
<1>19. ASSUME NEW r \in Requests, Age(r)
      PROVE  RecoveryStep
  BY <1>19 DEF Age
<1>20. CASE BeginShutdown
  BY <1>20 DEF BeginShutdown
<1>21. CASE CloseLedger
  BY <1>21 DEF CloseLedger
<1>22. ASSUME NEW n \in Runs, Exit(n)
      PROVE  RecoveryStep
  BY <1>22 DEF Exit, Lost
<1>23. CASE OpenForGateway
  <2>1. owner = 0
    BY <1>23 DEF OpenForGateway, LockFree
  <2> QED
    BY <1>0, <2>1
<1>24. CASE ResetProviderBudget
  BY <1>24 DEF ResetProviderBudget
<1>25. CASE UNCHANGED vars
  BY <1>25 DEF vars
<1> QED
  BY <1>1, <1>2, <1>3, <1>4, <1>5, <1>6, <1>7, <1>8, <1>9, <1>10, <1>11, <1>12,
     <1>13, <1>14, <1>15, <1>16, <1>17, <1>18, <1>19, <1>20, <1>21, <1>22, <1>23, <1>24, <1>25
  DEF Next, LocalStep, UpstreamStep

\* Recovery never touches the row of a request that its gateway still runs.
THEOREM RecoveryFenced == Spec => RecoveryLeavesLiveAttempts
<1>1. IInv /\ [Next]_vars => [RecoveryStep]_vars
  BY RecoveryNext DEF IInv
<1> QED
  BY <1>1, Inductive, PTL DEF Spec, RecoveryLeavesLiveAttempts, RecoveryStep
=============================================================================
