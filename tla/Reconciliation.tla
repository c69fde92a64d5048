--------------------------- MODULE Reconciliation ---------------------------
(***************************************************************************)
(* Reconciliation of local estimates with supplier statements: the tables  *)
(* and triggers of internal/ledger/reconciliation_schema.go, the import    *)
(* and the queries of internal/ledger/reconcile.go, and the goroutine of   *)
(* internal/gateway/reconciliation.go that imports the CSV files of a      *)
(* directory while requests are audited and an operator edits it.          *)
(*                                                                         *)
(* The ledger has one connection: a transaction is one step, with all the  *)
(* triggers it fires.  The materialized tables are state of their own,     *)
(* maintained by increments where the triggers use increments; what they   *)
(* should hold is computed afresh by the source views.                     *)
(*                                                                         *)
(* Abstracted: a file's content is a member of Contents, which is also its *)
(* fingerprint; every charge and every known cost is one unit; a model     *)
(* name is left out (a mismatch is one more status that is not "matched"), *)
(* and so are the token comparisons of the requests, which are columns of  *)
(* their own; a balance's net change is the pair of snapshots it is the    *)
(* difference of.                                                          *)
(***************************************************************************)
EXTENDS Absence, Integers, Sequences, FiniteSets

CONSTANTS
    Requests, Currency,
    MaxTime,      \* times are 0 .. MaxTime
    Contents,     \* contents of statement files
    Rows,         \* the rows of every content, <<>> for one that is invalid
    Files,        \* paths in the statement directory
    MaxFaults     \* bound on timeouts, I/O failures and crashes

Times == 0 .. MaxTime
NoCurrency == "none"

\* One supplier charge over the half-open period [start, end).
StatementLine == {l \in [start : Times, end : Times, request : Requests \cup {None}] :
                     l.start < l.end}

\* A request in the last period at the latest.  One in another currency is in
\* no window: its cost and its time do not matter.
Audits == [time : 0 .. MaxTime - 1, currency : {Currency}, known : BOOLEAN]
          \cup {[time |-> 0, currency |-> NoCurrency, known |-> FALSE]}

\* Rows of the materialized tables.
Statuses == {"missing_request_id", "request_not_found", "currency_mismatch",
             "outside_request_period", "matched"}
RequestRows == [time : Times, currency : {Currency, NoCurrency}, known : BOOLEAN, lines : Nat]
IntervalRows == [from : Times \cup {None}, estimated : Nat, unknown : Nat]

ASSUME ReconciliationAssumptions ==
    /\ MaxTime \in Nat /\ MaxFaults \in Nat
    /\ IsFiniteSet(Requests)
    /\ Rows \in [Contents -> Seq(StatementLine)]
    /\ None \notin Requests \cup Contents \cup Files
    /\ None \notin Times \cup Audits /\ None \notin RequestRows \cup IntervalRows
    /\ Currency # NoCurrency

VARIABLES
    audit,       \* request_audit
    lines,       \* supplier_statement_lines
    snapshots,   \* balance_snapshots, the times observed
    requests, statements, intervals,   \* the materialized tables
    backfilled,  \* reconciliation_schema
    imports,     \* statement_imports
    sources,     \* statement_import_sources
    succeeded,   \* statement_sync: the last scan recorded had no failures
    dir,         \* the statement directory
    scan,        \* the goroutine
    steady,      \* history: files nobody touched since the running scan began
    faults

tables == <<audit, lines, snapshots, requests, statements, intervals, backfilled>>
syncTables == <<imports, sources>>
vars == <<tables, syncTables, succeeded, dir, scan, steady, faults>>

Waiting == [pc |-> "wait", todo |-> {}, file |-> None, data |-> None, failed |-> FALSE]

\* A ledger of an older version has audits and none of the other tables.
Init ==
    /\ audit \in [Requests -> Audits \cup {None}]
    /\ lines = <<>> /\ snapshots = {}
    /\ requests = [r \in Requests |-> None] /\ statements = <<>>
    /\ intervals = [t \in Times |-> None]
    /\ backfilled = FALSE
    /\ imports = {} /\ sources = [f \in Files |-> None]
    /\ succeeded = FALSE
    /\ dir = [f \in Files |-> None]
    /\ scan = Waiting /\ steady = {}
    /\ faults = 0

-----------------------------------------------------------------------------
(* The source views.                                                       *)

\* reconciliation_statement_source
Status(aud, l) ==
    IF l.request = None THEN "missing_request_id"
    ELSE LET a == aud[l.request] IN
         CASE a = None                             -> "request_not_found"
           [] a # None /\ a.currency # Currency    -> "currency_mismatch"
           [] a # None /\ a.currency = Currency /\ (a.time < l.start \/ a.time >= l.end)
                                                   -> "outside_request_period"
           [] OTHER                                -> "matched"

Matching(aud, lns, r) ==
    {i \in DOMAIN lns : lns[i].request = r /\ Status(aud, lns[i]) = "matched"}

\* reconciliation_request_source
RequestRow(aud, lns, r) ==
    [time |-> aud[r].time, currency |-> aud[r].currency, known |-> aud[r].known,
     lines |-> Cardinality(Matching(aud, lns, r))]

Previous(snaps, t) == {p \in snaps : p < t /\ \A q \in snaps : q < t => q <= p}

Within(aud, from, to) ==
    {r \in Requests : /\ aud[r] # None /\ aud[r].currency = Currency
                      /\ from <= aud[r].time /\ aud[r].time < to}

\* reconciliation_balance_source: nothing precedes the first snapshot.
IntervalRow(aud, snaps, t) ==
    LET from == IF Previous(snaps, t) = {} THEN None ELSE CHOOSE p \in Previous(snaps, t) : TRUE
        reqs == IF from = None THEN {} ELSE Within(aud, from, t)
    IN  [from |-> from,
         estimated |-> Cardinality({r \in reqs : aud[r].known}),
         unknown |-> Cardinality({r \in reqs : ~aud[r].known})]

-----------------------------------------------------------------------------
(* Writes and their triggers.                                              *)

\* initReconciliation
Backfill ==
    /\ ~backfilled
    /\ backfilled' = TRUE
    /\ requests' = [r \in Requests |-> IF audit[r] = None THEN None
                                       ELSE RequestRow(audit, lines, r)]
    /\ statements' = [i \in DOMAIN lines |-> Status(audit, lines[i])]
    /\ intervals' = [t \in Times |-> IF t \in snapshots THEN IntervalRow(audit, snapshots, t)
                                                        ELSE None]
    /\ UNCHANGED <<audit, lines, snapshots, syncTables, succeeded, dir, scan, steady, faults>>

statementsUntouched(aud, r) == statements

\* A late audit changes the status of the lines that name it.
statementsAfterAudit(aud, r) ==
    [i \in DOMAIN lines |-> IF lines[i].request = r THEN Status(aud, lines[i]) ELSE statements[i]]

intervalsAfterAudit(a) ==
    [t \in Times |->
        LET v == intervals[t] IN
        IF v # None /\ v.from # None /\ a.currency = Currency /\ v.from <= a.time /\ a.time < t
          THEN [v EXCEPT !.estimated = @ + (IF a.known THEN 1 ELSE 0),
                         !.unknown = @ + (IF a.known THEN 0 ELSE 1)]
          ELSE v]

\* AppendAudit with the trigger reconciliation_audit_insert
AppendAudit(r, a) ==
    LET aud == [audit EXCEPT ![r] = a] IN
    /\ backfilled /\ audit[r] = None
    /\ audit' = aud
    /\ requests' = [requests EXCEPT ![r] = RequestRow(aud, lines, r)]
    /\ statements' = statementsAfterAudit(aud, r)
    /\ intervals' = intervalsAfterAudit(a)
    /\ UNCHANGED <<lines, snapshots, backfilled, syncTables, succeeded, dir, scan, steady, faults>>

Following(t) == {n \in snapshots : n > t /\ \A q \in snapshots : q > t => q >= n}

intervalsNewOnly(t) ==
    [intervals EXCEPT ![t] = IntervalRow(audit, snapshots \cup {t}, t)]

\* A snapshot that arrives late splits the interval of the one after it.
intervalsAfterSnapshot(t) ==
    [u \in Times |-> IF u \in {t} \cup Following(t) THEN IntervalRow(audit, snapshots \cup {t}, u)
                                                    ELSE intervals[u]]

\* AppendBalanceSnapshot with reconciliation_balance_insert
AppendBalanceSnapshot(t) ==
    /\ backfilled /\ t \notin snapshots
    /\ snapshots' = snapshots \cup {t}
    /\ intervals' = intervalsAfterSnapshot(t)
    /\ UNCHANGED <<audit, lines, requests, statements, backfilled, syncTables,
                   succeeded, dir, scan, steady, faults>>

\* One row of an import with reconciliation_statement_insert
InsertLine(db, l) ==
    LET s == Status(audit, l) IN
    [lines |-> Append(db.lines, l), statements |-> Append(db.statements, s),
     requests |-> IF s = "matched" THEN [db.requests EXCEPT ![l.request].lines = @ + 1]
                                   ELSE db.requests]

\* The rows of an import, one after the other.
Inserted(rows) ==
    LET db[n \in 0 .. Len(rows)] ==
            IF n = 0 THEN [lines |-> lines, statements |-> statements, requests |-> requests]
                     ELSE InsertLine(db[n - 1], rows[n])
    IN  db[Len(rows)]

-----------------------------------------------------------------------------
(* The statement sync goroutine.                                           *)

Fault == faults < MaxFaults /\ faults' = faults + 1

Present == {f \in Files : dir[f] # None}

\* A directory that cannot be read fails the scan at once.
ScanStart ==
    /\ backfilled /\ scan.pc = "wait"
    /\ \/ scan' = [scan EXCEPT !.pc = "scan", !.todo = Present, !.failed = FALSE] /\ UNCHANGED faults
       \/ scan' = [scan EXCEPT !.pc = "record", !.failed = TRUE] /\ Fault
    /\ steady' = Present
    /\ UNCHANGED <<tables, syncTables, succeeded, dir>>

\* The next entry is opened and read, or has gone or cannot be opened.
Visit(f) ==
    /\ scan.pc = "scan" /\ f \in scan.todo
    /\ \/ /\ dir[f] # None
          /\ scan' = [scan EXCEPT !.pc = "import", !.todo = @ \ {f}, !.file = f, !.data = dir[f]]
          /\ UNCHANGED faults
       \/ /\ IF dir[f] = None THEN UNCHANGED faults ELSE Fault
          /\ scan' = [scan EXCEPT !.todo = @ \ {f}, !.failed = TRUE]
    /\ UNCHANGED <<tables, syncTables, succeeded, dir, steady>>

importedOrStop(failed) ==
    scan' = [scan EXCEPT !.pc = "scan", !.file = None, !.data = None, !.failed = @ \/ failed,
                         !.todo = IF failed THEN {} ELSE @]

imported(failed) ==
    scan' = [scan EXCEPT !.pc = "scan", !.file = None, !.data = None, !.failed = @ \/ failed]

\* A file that was imported before must not have changed.
SourceChanged == sources[scan.file] \notin {None, scan.data}

DuplicateIfSameSource == sources[scan.file] = scan.data

\* Byte-identical content is never imported twice, under any name.
Duplicate == scan.data \in imports

rememberSource == sources' = [sources EXCEPT ![scan.file] = scan.data]

\* ImportStatementFile, one transaction: all rows, the fingerprint and the
\* source, or nothing.
Import ==
    /\ scan.pc = "import"
    /\ \/ /\ SourceChanged
          /\ imported(TRUE) /\ UNCHANGED <<tables, syncTables>>
       \/ /\ ~SourceChanged /\ Duplicate
          /\ rememberSource /\ imported(FALSE) /\ UNCHANGED <<tables, imports>>
       \/ /\ ~SourceChanged /\ ~Duplicate /\ Rows[scan.data] = <<>>
          /\ imported(TRUE) /\ UNCHANGED <<tables, syncTables>>
       \/ /\ ~SourceChanged /\ ~Duplicate /\ Rows[scan.data] # <<>>
          /\ LET db == Inserted(Rows[scan.data]) IN
                /\ lines' = db.lines /\ statements' = db.statements /\ requests' = db.requests
          /\ imports' = imports \cup {scan.data}
          /\ rememberSource /\ imported(FALSE)
          /\ UNCHANGED <<audit, snapshots, intervals, backfilled>>
    /\ UNCHANGED <<succeeded, dir, steady, faults>>

skipQuietly == imported(FALSE)

\* The import's two seconds are over, or the database fails: a rollback.
rollback == imported(TRUE)

ImportFails ==
    /\ scan.pc = "import"
    /\ Fault /\ rollback
    /\ UNCHANGED <<tables, syncTables, succeeded, dir, steady>>

\* All entries are visited, or the scan's thirty seconds are over.
ScanEnd ==
    /\ scan.pc = "scan"
    /\ \/ scan.todo = {} /\ scan' = [scan EXCEPT !.pc = "record"] /\ UNCHANGED faults
       \/ scan' = [scan EXCEPT !.pc = "record", !.todo = {}, !.failed = TRUE] /\ Fault
    /\ UNCHANGED <<tables, syncTables, succeeded, dir, steady>>

\* RecordStatementSync; the status itself may fail to be written.
Record ==
    /\ scan.pc = "record"
    /\ \/ succeeded' = ~scan.failed /\ UNCHANGED faults
       \/ UNCHANGED succeeded /\ Fault
    /\ scan' = Waiting /\ steady' = {}
    /\ UNCHANGED <<tables, syncTables, dir>>

\* The gateway dies and starts again.
Crash ==
    /\ scan.pc # "wait" /\ Fault
    /\ scan' = Waiting /\ steady' = {}
    /\ UNCHANGED <<tables, syncTables, succeeded, dir>>

\* The operator adds, changes, renames or removes a file.
Edit(f, x) ==
    /\ dir[f] # x
    /\ dir' = [dir EXCEPT ![f] = x]
    /\ steady' = steady \ {f}
    /\ UNCHANGED <<tables, syncTables, succeeded, scan, faults>>

Sync == ScanStart \/ (\E f \in Files : Visit(f)) \/ Import \/ ImportFails \/ ScanEnd \/ Record

Next ==
    \/ Backfill
    \/ \E r \in Requests : \E a \in Audits : AppendAudit(r, a)
    \/ \E t \in Times : AppendBalanceSnapshot(t)
    \/ Sync
    \/ Crash
    \/ \E f \in Files : \E x \in Contents \cup {None} : Edit(f, x)

Spec == Init /\ [][Next]_vars

\* The process starts; then the ticker starts scans again and again, and a scan
\* runs to its end.
FairSpec == Spec /\ WF_vars(Backfill \/ Sync)

-----------------------------------------------------------------------------
(* ReconciliationStats over the window [from, to), open where a bound is 0. *)

InPeriod(t, from, to) == (from > 0 => t >= from) /\ (to > 0 => t < to)

Full(l, from, to) == (from > 0 => l.start >= from) /\ (to > 0 => l.end <= to)
Overlaps(l, from, to) == (from > 0 => l.end > from) /\ (to > 0 => l.start < to)

RequestsOf(from, to) ==
    {r \in Requests : /\ requests[r] # None /\ requests[r].currency = Currency
                      /\ InPeriod(requests[r].time, from, to)}

FullLines(from, to) == {i \in DOMAIN lines : Full(lines[i], from, to)}

PartialLinesNone(from, to) == {}

\* A supplier period that crosses a bound is indivisible.
PartialLines(from, to) ==
    {i \in DOMAIN lines : /\ from > 0 \/ to > 0
                          /\ Overlaps(lines[i], from, to) /\ ~Full(lines[i], from, to)}

LocalEstimated(from, to) == Cardinality({r \in RequestsOf(from, to) : requests[r].known})
SupplierStatement(from, to) == Cardinality(FullLines(from, to))

\* Coverage "complete": the only case with a difference to report.
Complete(from, to) ==
    /\ FullLines(from, to) # {} /\ PartialLines(from, to) = {}
    /\ \A i \in FullLines(from, to) : statements[i] = "matched"
    /\ \A r \in RequestsOf(from, to) : requests[r].known /\ requests[r].lines > 0

-----------------------------------------------------------------------------
(* Properties.                                                             *)

\* The types of the tables and of the goroutine.
TypeOK ==
    /\ audit \in [Requests -> Audits \cup {None}]
    /\ lines \in Seq(StatementLine) /\ statements \in Seq(Statuses)
    /\ requests \in [Requests -> RequestRows \cup {None}]
    /\ intervals \in [Times -> IntervalRows \cup {None}]
    /\ snapshots \subseteq Times /\ backfilled \in BOOLEAN /\ succeeded \in BOOLEAN
    /\ imports \subseteq Contents
    /\ sources \in [Files -> Contents \cup {None}] /\ dir \in [Files -> Contents \cup {None}]
    /\ scan \in [pc : {"wait", "scan", "import", "record"}, todo : SUBSET Files,
                  file : Files \cup {None}, data : Contents \cup {None}, failed : BOOLEAN]
    /\ steady \subseteq Files /\ faults \in 0 .. MaxFaults

\* The tables the reports read equal the views over what was written, in
\* whatever order audits, statement lines and snapshots arrived:
\* a late audit, a line before its request, a snapshot between two others.
MaterializedIsSource ==
    backfilled =>
        /\ \A r \in Requests : requests[r] =
               IF audit[r] = None THEN None ELSE RequestRow(audit, lines, r)
        /\ statements = [i \in DOMAIN lines |-> Status(audit, lines[i])]
        /\ \A t \in Times : intervals[t] =
               IF t \in snapshots THEN IntervalRow(audit, snapshots, t) ELSE None

Occurrences(rows, l) == Cardinality({i \in DOMAIN rows : rows[i] = l})

\* The charges of the accepted exports: a row of one of them and its place.
Charges == UNION {{c} \X DOMAIN Rows[c] : c \in imports}

\* Every row of an accepted export is charged exactly once and no other row
\* is, through renames, copies, changed files, failed imports and crashes.
ChargedOnce ==
    \A l \in {lines[i] : i \in DOMAIN lines} \cup UNION {{Rows[c][i] : i \in DOMAIN Rows[c]} : c \in Contents} :
        Occurrences(lines, l) = Cardinality({x \in Charges : Rows[x[1]][x[2]] = l})

\* A scan recorded as a success (last_success_ms) has imported every file
\* that stayed in the directory, untouched, from its start to its end.
SuccessIsHonest ==
    [][Record /\ faults' = faults /\ succeeded' =>
           \A f \in steady : dir[f] \in imports]_vars

\* A complete window compares like with like: the supplier's total is the sum
\* of the charges of exactly the window's requests, each of them priced.
CompleteIsComparable ==
    backfilled => \A from \in Times : \A to \in {0} \cup from + 1 .. MaxTime :
        Complete(from, to) =>
            /\ \A i \in FullLines(from, to) : lines[i].request \in RequestsOf(from, to)
            /\ \A i \in DOMAIN lines :
                  lines[i].request \in RequestsOf(from, to) /\ statements[i] = "matched"
                      => i \in FullLines(from, to)
            /\ LocalEstimated(from, to) = Cardinality(RequestsOf(from, to))

\* What is stored, what is derived from it and what is reported belong together:
\* the types, and the invariants on the tables and on the coverage.
TablesConsistent == TypeOK /\ MaterializedIsSource /\ CompleteIsComparable

\* A valid export that stays in the directory is imported in the end, whatever
\* happens to the scans before, unless it is edited or its path was once taken
\* by another export.
Acceptable(f) == dir[f] # None /\ Rows[dir[f]] # <<>> /\ sources[f] \in {None, dir[f]}

ExportsImported ==
    \A f \in Files : Acceptable(f) ~> (~Acceptable(f) \/ dir[f] \in imports)

=============================================================================
