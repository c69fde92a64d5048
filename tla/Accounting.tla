----------------------------- MODULE Accounting -----------------------------
(***************************************************************************)
(* From admission to settlement: what one generation request does to the   *)
(* call registry (lifecycle.go), the budget charges and the audit of the   *)
(* ledger (internal/ledger), the request gate (limiter/concurrency.go) and *)
(* the upstream, and what crashes, restarts, failing storage, cancellation *)
(* and shutdown do to it.                                                  *)
(*                                                                         *)
(* A gateway process is numbered by its start.  The SQLite tables survive  *)
(* it; the audit latch, the budget block, the gate and the registry die    *)
(* with it.  Every SQL transaction either commits or fails and changes     *)
(* nothing, and each critical section is one action.                       *)
(*                                                                         *)
(* Abstracted: one provider and currency, whose every known cost is one    *)
(* unit; of a charge's time only whether it lies in the budget window; the *)
(* readiness callbacks (KeyPool, Availability) are a choice.               *)
(*                                                                         *)
(* Operators named after another one with a suffix (ReselectableAny, ...)  *)
(* are wrong variants of it, each a mistake that one of the properties     *)
(* must notice; no action uses them.                                       *)
(***************************************************************************)
EXTENDS Integers, FiniteSets

CONSTANTS
    Requests,     \* downstream generation requests, each made once
    MaxRuns,      \* bound on gateway processes
    MaxInFlight,  \* max_in_flight, 0 for no gate
    MaxTries,     \* len(h.providers), which bounds reselection
    Mode,         \* the budget's mode
    Limit, Alert  \* its limit and alert threshold, in units of cost

ASSUME AccountingBounds ==
    /\ MaxRuns \in Nat /\ MaxInFlight \in Nat /\ MaxTries \in Nat
    /\ Limit \in Nat \ {0} /\ Alert \in 1 .. Limit
    /\ Mode \in {"alert", "soft", "hard"} /\ IsFiniteSet(Requests)

Runs == 1 .. MaxRuns

VARIABLES
    starts,    \* how many gateway processes have opened the ledger
    owner,     \* the one that holds its lock, 0 for none
    alive,     \* the processes that still run
    draining,  \* those that have begun to shut down
    cancels,   \* the calls a shutdown has still to cancel
    latch,     \* ledger.auditUnavailable, per process
    blocked,   \* handlerRuntime.budgetBlocked, per process
    slots,     \* tokens in the gate's channel, per process
    charge,    \* budget_charges: the state of a request's row
    window,    \* the rows whose charged_at_ms lies in the budget window
    audited,   \* request_audit: the requests that have a row
    phase,     \* where each request is
    proc,      \* the process that serves it
    canceled,  \* the requests whose context is done
    result,    \* how its adapter call ends
    tries,     \* preDispatch
    sent,      \* history: how often it was sent upstream
    audits,    \* history: how often its audit was appended
    reached,   \* history: the requests the upstream may charge for
    prior      \* history: the requests that were over when it began its check

procVars == <<starts, owner, alive, draining, cancels>>
memVars  == <<latch, blocked>>
dbVars   == <<charge, window, audited>>
reqVars  == <<proc, canceled, tries>>
histVars == <<sent, audits, reached, prior>>
vars == <<procVars, memVars, slots, dbVars, phase, reqVars, result, histVars>>

\* A fresh ledger and its first gateway.
Init ==
    /\ starts = 0 /\ owner = 0 /\ alive = {} /\ draining = {} /\ cancels = {}
    /\ latch = [n \in Runs |-> FALSE]
    /\ blocked = [n \in Runs |-> FALSE]
    /\ slots = [n \in Runs |-> 0]
    /\ charge = [r \in Requests |-> "none"]
    /\ window = {}
    /\ audited = {}
    /\ phase = [r \in Requests |-> "idle"]
    /\ proc = [r \in Requests |-> 0]
    /\ canceled = {}
    /\ result = [r \in Requests |-> "none"]
    /\ tries = [r \in Requests |-> 0]
    /\ sent = [r \in Requests |-> 0]
    /\ audits = [r \in Requests |-> 0]
    /\ reached = {}
    /\ prior = [r \in Requests |-> {}]

\* idle, or done, or gone with its process.
Over(r) == phase[r] \in {"done", "gone"}
Active(r) == phase[r] # "idle" /\ ~Over(r)
Lost(r, n) == Active(r) /\ proc[r] = n

Goto(r, p) == phase' = [phase EXCEPT ![r] = p]
EndsWith(r, p, res) == Goto(r, p) /\ result' = [result EXCEPT ![r] = res]

\* A statement of r's process can succeed: its database is open.
CanWrite(r) == proc[r] = owner

-----------------------------------------------------------------------------
(* Admission and reservation.                                              *)

ServingWhileDraining == owner \in alive

\* beginCall admits nobody once the gateway drains.
Serving == owner \in alive \ draining

BeginCall(r) ==
    /\ phase[r] = "idle"
    /\ Serving
    /\ Goto(r, "admitted")
    /\ proc' = [proc EXCEPT ![r] = owner]
    /\ UNCHANGED <<procVars, memVars, slots, dbVars, canceled, tries, result, histVars>>

\* Rejected locally before a budget is looked at: route, health, session,
\* keys that all cool down.
Reject(r) ==
    /\ phase[r] = "admitted"
    /\ Goto(r, "done")
    /\ UNCHANGED <<procVars, memVars, slots, dbVars, reqVars, result, histVars>>

\* isBudgetBlocked, a lock of its own before the transaction.
CheckBlocked(r) ==
    /\ phase[r] = "admitted"
    /\ Goto(r, IF blocked[proc[r]] THEN "done" ELSE "checked")
    /\ prior' = [prior EXCEPT ![r] = {q \in Requests : Over(q)}]
    /\ UNCHANGED <<procVars, memVars, slots, dbVars, reqVars, result, sent, audits,
                   reached>>

UnknownIn == {q \in window : charge[q] = "unknown"}
Spent     == Cardinality({q \in window : charge[q] = "settled"})

\* CheckBudget refuses on unknown usage, and by mode on the settled amount;
\* pending attempts count for nothing.
BudgetRefuses(confirmed) ==
    \/ UnknownIn # {}
    \/ Mode = "hard" /\ Spent >= Limit
    \/ Mode = "soft" /\ Spent >= Alert /\ ~confirmed

CheckBudget(r, confirmed) ==
    /\ phase[r] = "checked"
    /\ CanWrite(r) /\ r \notin canceled
    /\ ~BudgetRefuses(confirmed)
    /\ charge' = [charge EXCEPT ![r] = "pending"]
    /\ window' = window \cup {r}
    /\ Goto(r, "reserved")
    /\ prior' = [prior EXCEPT ![r] = {}]
    /\ UNCHANGED <<procVars, memVars, slots, audited, reqVars, result, sent, audits, reached>>

\* Refused, canceled, or the transaction failed.
CheckBudgetFails(r) ==
    /\ phase[r] = "checked"
    /\ Goto(r, "done")
    /\ prior' = [prior EXCEPT ![r] = {}]
    /\ UNCHANGED <<procVars, memVars, slots, dbVars, reqVars, result, sent, audits, reached>>

-----------------------------------------------------------------------------
(* The adapter call.  A result is                                          *)
(*   unsent       not attempted, audited (canceled, or keys cooling)       *)
(*   cooling      not attempted, yielded to reselection without an audit   *)
(*   refused      not attempted because of the latch or because the        *)
(*                request is invalid, not audited                          *)
(*   dial         attempted, but provably nothing was sent                 *)
(*   cost, nocost attempted, with a known or an unknown cost               *)

NotAttempted == {"unsent", "cooling", "refused", "dial"}

\* The validation and conversion of the request and the first check of the
\* latch.
EnterCall(r, valid) ==
    /\ phase[r] = "reserved"
    /\ IF valid /\ ~latch[proc[r]] THEN EndsWith(r, "queued", "none")
                                   ELSE EndsWith(r, "settling", "refused")
    /\ UNCHANGED <<procVars, memVars, slots, dbVars, reqVars, histVars>>

\* ConcurrencyGate.Acquire.
GateAcquire(r) ==
    /\ phase[r] = "queued" /\ r \notin canceled
    /\ MaxInFlight = 0 \/ slots[proc[r]] < MaxInFlight
    /\ slots' = IF MaxInFlight = 0 THEN slots ELSE [slots EXCEPT ![proc[r]] = @ + 1]
    /\ Goto(r, "slot")
    /\ UNCHANGED <<procVars, memVars, dbVars, reqVars, result, histVars>>

\* Canceled in the queue, or with the slot just taken and put back.
GateCanceled(r) ==
    /\ phase[r] = "queued" /\ r \in canceled
    /\ EndsWith(r, "auditing", "unsent")
    /\ UNCHANGED <<procVars, memVars, slots, dbVars, reqVars, histVars>>

\* No candidate is ready, or the context is done: the call ends unsent.
NotReady(r, yields) ==
    /\ phase[r] = "slot"
    /\ EndsWith(r, "releasing", IF yields THEN "cooling" ELSE "unsent")
    /\ UNCHANGED <<procVars, memVars, slots, dbVars, reqVars, histVars>>

LatchedBeforeSendUnchecked(r) == FALSE

\* The second check of the latch, right before the dispatch.
LatchedBeforeSend(r) == latch[proc[r]]

Dispatch(r) ==
    /\ phase[r] = "slot"
    /\ IF LatchedBeforeSend(r)
         THEN EndsWith(r, "releasing", "refused") /\ UNCHANGED sent
         ELSE /\ EndsWith(r, "flight", "none")
              /\ sent' = [sent EXCEPT ![r] = @ + 1]
    /\ UNCHANGED <<procVars, memVars, slots, dbVars, reqVars, audits, reached, prior>>

\* A response, an error, a timeout or a cancellation; dial only if the
\* headers were not written and the context is alive.
AttemptEnds(r, res) ==
    /\ phase[r] = "flight"
    /\ res = "dial" => r \notin canceled
    /\ EndsWith(r, "releasing", res)
    /\ reached' = IF res = "dial" THEN reached ELSE reached \cup {r}
    /\ UNCHANGED <<procVars, memVars, slots, dbVars, reqVars, sent, audits, prior>>

FreedIfSent(r) == IF sent[r] = 0 THEN slots[proc[r]] ELSE slots[proc[r]] - 1

Freed(r) == slots[proc[r]] - 1

\* The deferred Gate.Release, before the terminal audit.
GateRelease(r) ==
    /\ phase[r] = "releasing"
    /\ slots' = IF MaxInFlight = 0 THEN slots ELSE [slots EXCEPT ![proc[r]] = Freed(r)]
    /\ Goto(r, IF result[r] \in {"cooling", "refused"} THEN "settling" ELSE "auditing")
    /\ UNCHANGED <<procVars, memVars, dbVars, reqVars, result, histVars>>

\* The results the caller may see after the audit.  The new error of a
\* cancellation or of a failed audit no longer says that a dial failed.
Reported(r, appended) ==
    IF result[r] = "dial" /\ (r \in canceled \/ ~appended)
      THEN {"cost", "nocost"} ELSE {result[r]}

AppendAudit(r, res) ==
    /\ phase[r] = "auditing" /\ CanWrite(r)
    /\ res \in Reported(r, TRUE)
    /\ audited' = audited \cup {r}
    /\ audits' = [audits EXCEPT ![r] = @ + 1]
    /\ EndsWith(r, "settling", res)
    /\ UNCHANGED <<procVars, memVars, slots, charge, window, reqVars, sent, reached, prior>>

\* A failed append latches the ledger for the life of the process.
AuditFails(r, res) ==
    /\ phase[r] = "auditing"
    /\ res \in Reported(r, FALSE)
    /\ latch' = [latch EXCEPT ![proc[r]] = TRUE]
    /\ EndsWith(r, "settling", res)
    /\ UNCHANGED <<procVars, blocked, slots, dbVars, reqVars, histVars>>

-----------------------------------------------------------------------------
(* Settlement and reselection.                                             *)

ReselectableUnbounded(r) == result[r] = "cooling" /\ r \notin canceled

ReselectableAny(r) ==
    /\ result[r] \in NotAttempted
    /\ r \notin canceled /\ tries[r] < MaxTries

\* attemptRoutes goes on only after a proven pre-dispatch cooldown.
Reselectable(r) ==
    /\ result[r] = "cooling"
    /\ r \notin canceled /\ tries[r] < MaxTries

\* The end of callRouteCandidate: the next route, or the answer.
EndCall(r) ==
    \/ /\ Reselectable(r)
       /\ EndsWith(r, "admitted", "none")
       /\ tries' = [tries EXCEPT ![r] = @ + 1]
    \/ /\ EndsWith(r, "done", "none")
       /\ UNCHANGED tries

SettledUnsentIfCanceled(r) ==
    IF result[r] \in NotAttempted \/ r \in canceled THEN "none"
    ELSE IF result[r] = "cost" THEN "settled" ELSE "unknown"

\* What settlement makes of the row: ReleaseBudgetReservation deletes it,
\* RecordBudgetCharge and RecordBudgetChargeWithCost settle a known cost and
\* mark any other as unknown.
Settled(r) ==
    IF result[r] \in NotAttempted THEN "none"
    ELSE IF result[r] = "cost" THEN "settled" ELSE "unknown"

\* RecordBudgetCharge reports a missing audit although it has committed.
AuditMissing(r) == result[r] = "nocost" /\ r \notin audited

Settle(r) ==
    /\ phase[r] = "settling" /\ CanWrite(r)
    /\ result[r] \in NotAttempted => charge[r] = "pending"
    /\ charge' = [charge EXCEPT ![r] = Settled(r)]
    /\ window' = IF Settled(r) = "none" THEN window \ {r} ELSE window \cup {r}
    /\ blocked' = IF AuditMissing(r) THEN [blocked EXCEPT ![proc[r]] = TRUE] ELSE blocked
    /\ EndCall(r)
    /\ UNCHANGED <<procVars, latch, slots, audited, proc, canceled, histVars>>

\* blockBudget after a failed settlement.
BlockBudget(r) == blocked' = [blocked EXCEPT ![proc[r]] = TRUE]

\* The row stays pending.
SettleFails(r) ==
    /\ phase[r] = "settling"
    /\ BlockBudget(r)
    /\ EndCall(r)
    /\ UNCHANGED <<procVars, latch, slots, dbVars, proc, canceled, histVars>>

-----------------------------------------------------------------------------
(* Cancellation, processes and time.                                       *)

\* The caller goes away.
Cancel(r) ==
    /\ Active(r) /\ r \notin canceled
    /\ canceled' = canceled \cup {r}
    /\ UNCHANGED <<procVars, memVars, slots, dbVars, phase, proc, tries, result, histVars>>

\* beginShutdown: stop admission and collect the calls to cancel ...
BeginShutdown ==
    /\ owner \in alive \ draining
    /\ draining' = draining \cup {owner}
    /\ cancels' = cancels \cup {r \in Requests : Active(r) /\ proc[r] = owner}
    /\ UNCHANGED <<starts, owner, alive, memVars, slots, dbVars, phase, reqVars, result,
                   histVars>>

\* ... which it does after it has released its lock.
ShutdownCancels(r) ==
    /\ r \in cancels
    /\ cancels' = cancels \ {r}
    /\ canceled' = canceled \cup {r}
    /\ UNCHANGED <<starts, owner, alive, draining, memVars, slots, dbVars, phase, proc, tries, result, histVars>>

\* Ledger.Close, after server.Shutdown has waited for the requests or has
\* timed out: database and lock go, requests may still run.
CloseLedger ==
    /\ owner \in draining
    /\ owner' = 0
    /\ UNCHANGED <<starts, alive, draining, cancels, memVars, slots, dbVars, phase, reqVars, result,
                   histVars>>

\* A crash, or the exit after CloseLedger; the system releases the lock, and
\* what the process had in memory is gone.
Exit(n) ==
    /\ n \in alive
    /\ alive' = alive \ {n}
    /\ owner' = IF owner = n THEN 0 ELSE owner
    /\ latch' = [latch EXCEPT ![n] = FALSE]
    /\ blocked' = [blocked EXCEPT ![n] = FALSE]
    /\ slots' = [slots EXCEPT ![n] = 0]
    /\ phase' = [r \in Requests |-> IF Lost(r, n) THEN "gone" ELSE phase[r]]
    /\ result' = [r \in Requests |-> IF Lost(r, n) THEN "none" ELSE result[r]]
    /\ canceled' = {r \in canceled : ~Lost(r, n)}
    /\ cancels' = {r \in cancels : proc[r] # n}
    /\ UNCHANGED <<starts, draining, dbVars, proc, tries, histVars>>

LockFreeIgnored == TRUE

LockFree == owner = 0

RecoveredNothing == charge

Recovered == [r \in Requests |-> IF charge[r] = "pending" THEN "unknown" ELSE charge[r]]

\* OpenForGateway: take the lock, then turn abandoned attempts into unknown
\* charges.
OpenForGateway ==
    /\ starts < MaxRuns /\ LockFree
    /\ starts' = starts + 1
    /\ owner' = starts + 1
    /\ alive' = alive \cup {starts + 1}
    /\ charge' = Recovered
    /\ UNCHANGED <<draining, cancels, memVars, slots, window, audited, phase, reqVars, result, histVars>>

\* A charge grows older than the window, or ResetProviderBudget starts a new
\* one, which no earlier charge is in.
Age(r) ==
    /\ r \in window
    /\ window' = window \ {r}
    /\ UNCHANGED <<procVars, memVars, slots, charge, audited, phase, reqVars, result, histVars>>

ResetProviderBudget ==
    /\ window' = {}
    /\ UNCHANGED <<procVars, memVars, slots, charge, audited, phase, reqVars, result, histVars>>

Outcomes == {"dial", "cost", "nocost"}

\* What a request in a running process does by itself, its attempt aside.
LocalStep(r) ==
    /\ proc[r] \in alive
    /\ \/ Reject(r)
       \/ CheckBlocked(r)
       \/ \E confirmed \in BOOLEAN : CheckBudget(r, confirmed)
       \/ CheckBudgetFails(r)
       \/ \E valid \in BOOLEAN : EnterCall(r, valid)
       \/ GateAcquire(r)
       \/ GateCanceled(r)
       \/ \E yields \in BOOLEAN : NotReady(r, yields)
       \/ Dispatch(r)
       \/ GateRelease(r)
       \/ \E res \in Outcomes \cup {"unsent"} : AppendAudit(r, res) \/ AuditFails(r, res)
       \/ Settle(r)
       \/ SettleFails(r)

UpstreamStep(r) ==
    /\ proc[r] \in alive
    /\ \E res \in Outcomes : AttemptEnds(r, res)

Next ==
    \/ \E r \in Requests :
          \/ BeginCall(r)
          \/ LocalStep(r)
          \/ UpstreamStep(r)
          \/ Cancel(r)
          \/ ShutdownCancels(r)
          \/ Age(r)
    \/ BeginShutdown
    \/ CloseLedger
    \/ \E n \in Runs : Exit(n)
    \/ OpenForGateway
    \/ ResetProviderBudget

Spec == Init /\ [][Next]_vars

\* Goroutines keep running.  An attempt must end only if its context is done:
\* a stream that keeps delivering bytes has no total lifetime.
FairSpec ==
    /\ Spec
    /\ \A r \in Requests :
          /\ WF_vars(LocalStep(r))
          /\ WF_vars(r \in canceled /\ UpstreamStep(r))
          /\ WF_vars(ShutdownCancels(r))

-----------------------------------------------------------------------------
(* Properties.                                                             *)

Phases == {"idle", "admitted", "checked", "reserved", "queued", "slot", "flight",
           "releasing", "auditing", "settling", "done", "gone"}

\* The types of the processes, the tables and the requests.
TypeOK ==
    /\ starts \in 0 .. MaxRuns /\ owner \in 0 .. MaxRuns
    /\ alive \subseteq Runs /\ draining \subseteq Runs /\ cancels \subseteq Requests
    /\ latch \in [Runs -> BOOLEAN] /\ blocked \in [Runs -> BOOLEAN]
    /\ slots \in [Runs -> 0 .. MaxInFlight]
    /\ charge \in [Requests -> {"none", "pending", "settled", "unknown"}]
    /\ window \subseteq Requests /\ audited \subseteq Requests
    /\ phase \in [Requests -> Phases]
    /\ proc \in [Requests -> 0 .. MaxRuns]
    /\ canceled \subseteq Requests
    /\ result \in [Requests -> NotAttempted \cup {"cost", "nocost", "none"}]
    /\ tries \in [Requests -> 0 .. MaxTries]
    /\ sent \in [Requests -> Nat] /\ audits \in [Requests -> Nat]
    /\ reached \subseteq Requests
    /\ prior \in [Requests -> SUBSET Requests]

\* An attempt that may cost money keeps its row in budget_charges: neither a
\* cancellation, a failed audit, a failed settlement, a crash nor a timed-out
\* shutdown makes the ledger forget it.
SpendRecorded == \A r \in reached : charge[r] # "none"

\* "Unresolved attempted charges block later budgeted work": a reservation is
\* made only if every attempt that was over when the request began its check,
\* in this process or an earlier one, has a settled charge or has left the
\* window, and under a hard budget those in the window are below the limit.
FailClosed ==
    [][\A r \in Requests : phase[r] = "checked" /\ phase'[r] = "reserved" =>
          LET counted == prior[r] \cap reached \cap window
          IN  /\ \A q \in counted : charge[q] = "settled"
              /\ Mode = "hard" => Cardinality(counted) < Limit]_vars

\* "One terminal adapter audit and at most one initiated upstream generation
\* attempt", although a request may queue on several routes in turn.
OneAttemptOneAudit == \A r \in Requests : sent[r] <= 1 /\ audits[r] <= 1

\* Recovery is for abandoned attempts only: while a gateway owns the ledger,
\* the pending row of one of its running requests changes only when that
\* request settles.
RecoveryLeavesLiveAttempts ==
    [][\A r \in Requests :
          charge[r] = "pending" /\ Active(r) /\ proc[r] = owner /\ charge'[r] # "pending"
          => phase[r] = "settling" /\ phase'[r] # "settling"]_vars

\* "The shared ledger latches an audit failure for the process lifetime":
\* from then on the process sends nothing, queued calls included, and a later
\* successful append does not lift the latch.
LatchStopsDispatch ==
    [][\A n \in alive : latch[n] =>
          /\ latch'[n] \/ n \notin alive'
          /\ \A r \in Requests : proc[r] = n => sent'[r] = sent[r]]_vars

\* The gate's tokens are those of the calls between queue and release: no exit
\* path loses or duplicates one.
SlotsConserved ==
    MaxInFlight > 0 => \A n \in alive :
        slots[n] = Cardinality({r \in Requests :
                      proc[r] = n /\ phase[r] \in {"slot", "flight", "releasing"}})

\* What the ledger and the gate have to do with the requests: the types, and
\* the invariants above.
LedgerConsistent == TypeOK /\ SlotsConserved /\ SpendRecorded /\ OneAttemptOneAudit

\* A shutdown reaches every admitted call, also those that queue and those
\* whose upstream would stream forever: the gateway comes to rest.
Drains ==
    \A n \in Runs : n \in draining ~> \A r \in Requests : proc[r] = n => ~Active(r)
============================================================================
