----------------------------- MODULE AuditProofs ----------------------------
(***************************************************************************)
(* Proofs about what the audit of a request promises, on both of its       *)
(* sides.                                                                  *)
(*                                                                         *)
(* After it (Reconciliation), for every set of requests, contents and      *)
(* files and every bound: the triggers, which change the materialized      *)
(* tables by increments, keep them equal to the views over what was        *)
(* written; a row of an accepted export is charged once; a scan that is    *)
(* recorded as a success has imported every file that stayed.              *)
(*                                                                         *)
(* Before it (Streaming), for every bound on an answer and every set of    *)
(* reasons to stop: no client learns of the end of its answer before the   *)
(* audit, and what ends well was whole; the idle timer cancels the wait it *)
(* was started for; what a client has received, translated or not, is the  *)
(* provider's answer, in order and in a legal form.                        *)
(***************************************************************************)
EXTENDS Reconciliation, Streaming, FiniteSetTheorems, SequenceTheorems, WellFoundedInduction, TLAPS

\* What the goroutine knows: it runs after the tables were filled, and it holds
\* a content while it imports.
ScanInv ==
  /\ scan.pc # "wait" => backfilled
  /\ scan.pc = "import" => scan.file \in Files /\ scan.data \in Contents
  /\ scan.pc = "record" /\ ~scan.failed => scan.todo = {}

\* While no step of a scan has failed, a file that nobody touched is still to
\* be visited, is the one being imported, or has been imported.
SteadyInv ==
  /\ \A f \in steady : dir[f] # None
  /\ scan.pc # "wait" /\ ~scan.failed =>
       \A f \in steady : \/ f \in scan.todo
                         \/ scan.pc = "import" /\ scan.file = f /\ scan.data = dir[f]
                         \/ dir[f] \in imports

-----------------------------------------------------------------------------
(* The views.                                                              *)

Requested(aud, lns, r) == IF aud[r] = None THEN None ELSE RequestRow(aud, lns, r)

Stated(aud, lns) == [i \in DOMAIN lns |-> Status(aud, lns[i])]

Interval(aud, snaps, t) == IF t \in snaps THEN IntervalRow(aud, snaps, t) ELSE None

\* The three tables an import writes, as the views would have them.
Source(aud, lns) == [lines |-> lns, statements |-> Stated(aud, lns),
                     requests |-> [r \in Requests |-> Requested(aud, lns, r)]]

AuditTable == [Requests -> Audits \cup {None}]

LEMMA AuditTyped ==
  ASSUME NEW a \in Audits
  PROVE  /\ a.time \in Times /\ a.time \in Nat /\ a.currency \in {Currency, NoCurrency}
         /\ a.known \in BOOLEAN /\ a # None
<1>1. a # None /\ MaxTime \in Nat
  BY ReconciliationAssumptions
<1>2. CASE a \in [time : 0 .. MaxTime - 1, currency : {Currency}, known : BOOLEAN]
  <2>1. a.time \in 0 .. MaxTime - 1 /\ a.currency = Currency /\ a.known \in BOOLEAN
    BY <1>2
  <2>2. a.time \in Times /\ a.time \in Nat
    BY <1>1, <2>1 DEF Times
  <2> QED BY <1>1, <2>1, <2>2
<1>3. CASE a = [time |-> 0, currency |-> NoCurrency, known |-> FALSE]
  <2>1. a.time = 0 /\ a.currency = NoCurrency /\ a.known = FALSE
    BY <1>3
  <2>2. a.time \in Times /\ a.time \in Nat
    BY <1>1, <2>1 DEF Times
  <2>3. a.known \in BOOLEAN
    BY <2>1
  <2> QED BY <1>1, <2>1, <2>2, <2>3
<1> QED BY <1>2, <1>3 DEF Audits

LEMMA LineTyped ==
  ASSUME NEW l \in StatementLine
  PROVE  /\ l.start \in Nat /\ l.end \in Nat /\ l.start < l.end
         /\ l.start \in Times /\ l.end \in Times
         /\ l.request \in Requests \cup {None}
<1>1. MaxTime \in Nat
  BY ReconciliationAssumptions
<1>2. l \in [start : Times, end : Times, request : Requests \cup {None}] /\ l.start < l.end
  BY DEF StatementLine
<1>3. l.start \in Times /\ l.end \in Times /\ l.request \in Requests \cup {None}
  BY <1>2
<1>4. Times \subseteq Nat
  BY <1>1 DEF Times
<1> QED BY <1>2, <1>3, <1>4

LEMMA StatusTyped ==
  ASSUME NEW aud, NEW l
  PROVE  Status(aud, l) \in Statuses
BY DEF Status, Statuses

LEMMA Matched ==
  ASSUME NEW aud \in AuditTable, NEW l \in StatementLine
  PROVE  Status(aud, l) = "matched" <=>
           /\ l.request # None /\ l.request \in Requests /\ aud[l.request] # None
           /\ aud[l.request].currency = Currency
           /\ l.start <= aud[l.request].time /\ aud[l.request].time < l.end
<1>1. CASE l.request = None
  BY <1>1 DEF Status
<1>2. CASE l.request # None /\ aud[l.request] = None
  BY <1>2 DEF Status
<1>3. CASE l.request # None /\ aud[l.request] # None
  <2>1. l.request \in Requests /\ aud[l.request] \in Audits
    BY <1>3, LineTyped DEF AuditTable
  <2>2. aud[l.request].time \in Nat /\ l.start \in Nat /\ l.end \in Nat
    BY <2>1, LineTyped, AuditTyped
  <2> QED BY <1>3, <2>1, <2>2 DEF Status
<1> QED BY <1>1, <1>2, <1>3

LEMMA MatchingFinite ==
  ASSUME NEW aud, NEW lns \in Seq(StatementLine), NEW r
  PROVE  /\ Matching(aud, lns, r) \subseteq 1 .. Len(lns)
         /\ IsFiniteSet(Matching(aud, lns, r))
         /\ Cardinality(Matching(aud, lns, r)) \in Nat
<1>1. DOMAIN lns = 1 .. Len(lns) /\ Len(lns) \in Nat
  OBVIOUS
<1>2. Matching(aud, lns, r) \subseteq 1 .. Len(lns)
  BY <1>1 DEF Matching
<1>3. IsFiniteSet(1 .. Len(lns))
  BY <1>1, FS_Interval
<1> QED BY <1>2, <1>3, FS_Subset, FS_CardinalityType

LEMMA RequestRowTyped ==
  ASSUME NEW aud \in AuditTable, NEW lns \in Seq(StatementLine),
         NEW r \in Requests, aud[r] # None
  PROVE  RequestRow(aud, lns, r) \in RequestRows /\ RequestRow(aud, lns, r) # None
<1>1. aud[r] \in Audits
  BY DEF AuditTable
<1>2. RequestRow(aud, lns, r) \in RequestRows
  BY <1>1, AuditTyped, MatchingFinite DEF RequestRow, RequestRows
<1> QED BY <1>2, ReconciliationAssumptions

LEMMA RequestedTyped ==
  ASSUME NEW aud \in AuditTable, NEW lns \in Seq(StatementLine), NEW r \in Requests
  PROVE  /\ Requested(aud, lns, r) \in RequestRows \cup {None}
         /\ Requested(aud, lns, r) = None <=> aud[r] = None
BY RequestRowTyped DEF Requested

LEMMA StatedTyped ==
  ASSUME NEW aud, NEW lns \in Seq(StatementLine)
  PROVE  Stated(aud, lns) \in Seq(Statuses) /\ Len(Stated(aud, lns)) = Len(lns)
<1>1. DOMAIN lns = 1 .. Len(lns) /\ Len(lns) \in Nat
  OBVIOUS
<1>2. Stated(aud, lns) \in [1 .. Len(lns) -> Statuses]
  BY <1>1, StatusTyped DEF Stated
<1> QED BY <1>1, <1>2

LEMMA IntervalTyped ==
  ASSUME NEW aud \in AuditTable, NEW snaps \in SUBSET Times, NEW t \in Times
  PROVE  /\ IntervalRow(aud, snaps, t) \in IntervalRows
         /\ IntervalRow(aud, snaps, t) # None
         /\ Interval(aud, snaps, t) \in IntervalRows \cup {None}
<1> DEFINE from == IF Previous(snaps, t) = {} THEN None
                   ELSE CHOOSE p \in Previous(snaps, t) : TRUE
           reqs == IF from = None THEN {} ELSE Within(aud, from, t)
<1>1. from \in Times \cup {None}
  BY DEF Previous
<1>2. reqs \subseteq Requests
  BY DEF Within
<1>3. /\ {r \in reqs : aud[r].known} \subseteq Requests
      /\ {r \in reqs : ~aud[r].known} \subseteq Requests
  BY <1>2
<1>4. /\ Cardinality({r \in reqs : aud[r].known}) \in Nat
      /\ Cardinality({r \in reqs : ~aud[r].known}) \in Nat
  BY <1>3, ReconciliationAssumptions, FS_Subset, FS_CardinalityType
<1>5. IntervalRow(aud, snaps, t) =
        [from |-> from, estimated |-> Cardinality({r \in reqs : aud[r].known}),
         unknown |-> Cardinality({r \in reqs : ~aud[r].known})]
  BY DEF IntervalRow
<1> HIDE DEF from, reqs
<1>6. IntervalRow(aud, snaps, t) \in IntervalRows
  BY <1>1, <1>4, <1>5 DEF IntervalRows
<1> QED BY <1>6, ReconciliationAssumptions DEF Interval

-----------------------------------------------------------------------------
(* Induction over the natural numbers, for sets.                           *)

LEMMA Least ==
  ASSUME NEW T \in SUBSET Nat, T # {}
  PROVE  \E x \in T : \A y \in T : x <= y
<1> DEFINE R == OpToRel(<, Nat)
<1>1. IsWellFoundedOn(R, Nat)
  BY NatLessThanWellFounded
<1>2. \A x, y \in Nat : <<x, y>> \in R <=> x < y
  BY DEF OpToRel
<1> HIDE DEF R
<1>3. PICK x \in T : \A y \in T : ~(<<y, x>> \in R)
  BY <1>1, WFMin
<1>4. ASSUME NEW y \in T PROVE x <= y
  <2>1. x \in Nat /\ y \in Nat
    OBVIOUS
  <2>2. ~(y < x)
    BY <1>2, <1>3, <2>1
  <2> QED BY <2>1, <2>2
<1> QED BY <1>4

LEMMA InductionOnNat ==
  ASSUME NEW S \in SUBSET Nat, 0 \in S, \A n \in S : n + 1 \in S
  PROVE  S = Nat
<1> SUFFICES ASSUME Nat \ S # {} PROVE FALSE
  OBVIOUS
<1>1. PICK x \in Nat \ S : \A y \in Nat \ S : x <= y
  BY Least
<1>2. x # 0 /\ x - 1 \in Nat
  BY <1>1
<1>3. x - 1 \in S
  BY <1>1, <1>2
<1> QED BY <1>1, <1>3

-----------------------------------------------------------------------------
(* The rows of an import.                                                  *)

LEMMA MatchingAppend ==
  ASSUME NEW aud \in AuditTable, NEW lns \in Seq(StatementLine), NEW l \in StatementLine, NEW r
  PROVE  Matching(aud, Append(lns, l), r) =
           IF l.request = r /\ Status(aud, l) = "matched"
             THEN Matching(aud, lns, r) \cup {Len(lns) + 1} ELSE Matching(aud, lns, r)
<1> DEFINE m == Append(lns, l)
<1>1. /\ Len(lns) \in Nat /\ DOMAIN lns = 1 .. Len(lns) /\ DOMAIN m = 1 .. Len(lns) + 1
      /\ \A i \in 1 .. Len(lns) : m[i] = lns[i]
      /\ m[Len(lns) + 1] = l
  OBVIOUS
<1> HIDE DEF m
<1>2. \A i \in 1 .. Len(lns) : i \in Matching(aud, m, r) <=> i \in Matching(aud, lns, r)
  BY <1>1 DEF Matching
<1>3. Len(lns) + 1 \in Matching(aud, m, r) <=> l.request = r /\ Status(aud, l) = "matched"
  BY <1>1 DEF Matching
<1>4. /\ Matching(aud, m, r) \subseteq 1 .. Len(lns) + 1
      /\ Matching(aud, lns, r) \subseteq 1 .. Len(lns)
  BY <1>1 DEF Matching
<1>5. 1 .. Len(lns) + 1 = (1 .. Len(lns)) \cup {Len(lns) + 1}
  BY <1>1
<1>6. Len(lns) + 1 \notin 1 .. Len(lns)
  BY <1>1
<1>7. Matching(aud, m, r) = IF l.request = r /\ Status(aud, l) = "matched"
             THEN Matching(aud, lns, r) \cup {Len(lns) + 1} ELSE Matching(aud, lns, r)
  <2> DEFINE D == 1 .. Len(lns)
             k == Len(lns) + 1
             M == Matching(aud, m, r)
             N == Matching(aud, lns, r)
  <2>1. /\ \A i \in D : i \in M <=> i \in N
        /\ M \subseteq D \cup {k} /\ N \subseteq D /\ k \notin D
    BY <1>2, <1>4, <1>5, <1>6
  <2>2. k \in M <=> l.request = r /\ Status(aud, l) = "matched"
    BY <1>3
  <2> HIDE DEF D, k, M, N
  <2>3. (k \in M => M = N \cup {k}) /\ (k \notin M => M = N)
    BY <2>1
  <2>4. M = IF l.request = r /\ Status(aud, l) = "matched" THEN N \cup {k} ELSE N
    BY <2>2, <2>3
  <2> QED BY <2>4 DEF M, N, k
<1> QED BY <1>7 DEF m

LEMMA StatedAppend ==
  ASSUME NEW aud, NEW lns \in Seq(StatementLine), NEW l \in StatementLine
  PROVE  Stated(aud, Append(lns, l)) = Append(Stated(aud, lns), Status(aud, l))
<1> DEFINE m == Append(lns, l)
           s == Stated(aud, lns)
           x == Status(aud, l)
<1>1. /\ Len(lns) \in Nat /\ DOMAIN lns = 1 .. Len(lns) /\ DOMAIN m = 1 .. Len(lns) + 1
      /\ \A i \in 1 .. Len(lns) : m[i] = lns[i]
      /\ m[Len(lns) + 1] = l
  OBVIOUS
<1>2. /\ s \in Seq(Statuses) /\ Len(s) = Len(lns) /\ x \in Statuses
      /\ \A i \in 1 .. Len(lns) : s[i] = Status(aud, lns[i])
  BY <1>1, StatedTyped, StatusTyped DEF Stated
<1> HIDE DEF m, s
<1>3. /\ Stated(aud, m) = [i \in 1 .. Len(lns) + 1 |-> Status(aud, m[i])]
  BY <1>1 DEF Stated
<1>4. Append(s, x) = [i \in 1 .. Len(lns) + 1 |-> IF i = Len(lns) + 1 THEN x ELSE s[i]]
  <2>1. Append(s, x) \in Seq(Statuses) /\ Len(Append(s, x)) = Len(lns) + 1
    BY <1>2
  <2>2. \A i \in 1 .. Len(lns) + 1 : Append(s, x)[i] = IF i = Len(lns) + 1 THEN x ELSE s[i]
    BY <1>1, <1>2
  <2> DEFINE ap == Append(s, x)
  <2>3. ap = [i \in 1 .. Len(lns) + 1 |-> ap[i]]
    <3>1. ap \in Seq(Statuses) /\ Len(ap) = Len(lns) + 1
      BY <2>1
    <3> HIDE DEF ap
    <3> QED BY <3>1
  <2>4. \A i \in 1 .. Len(lns) + 1 : ap[i] = IF i = Len(lns) + 1 THEN x ELSE s[i]
    BY <2>2
  <2> DEFINE E == 1 .. Len(lns) + 1
             W == [i \in E |-> IF i = Len(lns) + 1 THEN x ELSE s[i]]
  <2>5. \A i \in E : ap[i] = W[i]
    BY <2>4
  <2>6. W = [i \in E |-> W[i]]
    OBVIOUS
  <2>7. ap = [i \in E |-> ap[i]]
    BY <2>3
  <2> HIDE DEF x, ap, E, W
  <2>8. ap = W
    BY <2>5, <2>6, <2>7
  <2> QED BY <2>8 DEF ap, W, E
<1> HIDE DEF x
<1>5. \A i \in 1 .. Len(lns) + 1 :
        Status(aud, m[i]) = IF i = Len(lns) + 1 THEN x ELSE s[i]
  <2> SUFFICES ASSUME NEW i \in 1 .. Len(lns) + 1
               PROVE  Status(aud, m[i]) = IF i = Len(lns) + 1 THEN x ELSE s[i]
    OBVIOUS
  <2>1. CASE i = Len(lns) + 1
    BY <1>1, <2>1 DEF x
  <2>2. CASE i # Len(lns) + 1
    BY <1>1, <1>2, <2>2
  <2> QED BY <2>1, <2>2
<1>6. Stated(aud, m) = Append(s, x)
  BY <1>3, <1>4, <1>5
<1> QED BY <1>6 DEF m, s, x

\* The trigger's increment is what the view would count.
LEMMA RequestedAppend ==
  ASSUME NEW aud \in AuditTable, NEW lns \in Seq(StatementLine), NEW l \in StatementLine,
         NEW r \in Requests
  PROVE  Requested(aud, Append(lns, l), r) =
           IF l.request = r /\ Status(aud, l) = "matched"
             THEN [Requested(aud, lns, r) EXCEPT !.lines = @ + 1]
             ELSE Requested(aud, lns, r)
<1>1. CASE l.request = r /\ Status(aud, l) = "matched"
  <2>1. aud[r] # None
    BY <1>1, Matched
  <2>2. Matching(aud, Append(lns, l), r) = Matching(aud, lns, r) \cup {Len(lns) + 1}
    BY <1>1, MatchingAppend
  <2>3. Len(lns) + 1 \notin Matching(aud, lns, r)
    <3>1. Matching(aud, lns, r) \subseteq 1 .. Len(lns) /\ Len(lns) \in Nat
      BY MatchingFinite
    <3> QED BY <3>1
  <2>4. Cardinality(Matching(aud, Append(lns, l), r)) = Cardinality(Matching(aud, lns, r)) + 1
    BY <2>2, <2>3, MatchingFinite, FS_AddElement
  <2> QED BY <1>1, <2>1, <2>4 DEF Requested, RequestRow
<1>2. CASE ~(l.request = r /\ Status(aud, l) = "matched")
  <2>1. Matching(aud, Append(lns, l), r) = Matching(aud, lns, r)
    BY <1>2, MatchingAppend
  <2> QED BY <1>2, <2>1 DEF Requested, RequestRow
<1> QED BY <1>1, <1>2

\* One row and its trigger take the views over some lines to the views over
\* these lines and the row.
LEMMA InsertLineKeepsViews ==
  ASSUME audit \in AuditTable, NEW lns \in Seq(StatementLine), NEW l \in StatementLine
  PROVE  InsertLine(Source(audit, lns), l) = Source(audit, Append(lns, l))
<1> DEFINE db == Source(audit, lns)
           s == Status(audit, l)
           old == [r \in Requests |-> Requested(audit, lns, r)]
           new == [r \in Requests |-> Requested(audit, Append(lns, l), r)]
<1>1. /\ db.lines = lns /\ db.statements = Stated(audit, lns) /\ db.requests = old
  BY DEF Source
<1>2. Append(db.statements, s) = Stated(audit, Append(lns, l))
  BY <1>1, StatedAppend
<1>3. (IF s = "matched" THEN [old EXCEPT ![l.request].lines = @ + 1] ELSE old) = new
  <2>1. CASE s = "matched"
    <3>1. l.request \in Requests
      BY <2>1, Matched
    <3>2. \A r \in Requests : new[r] = IF r = l.request THEN [old[r] EXCEPT !.lines = @ + 1]
                                                        ELSE old[r]
      BY <2>1, RequestedAppend
    <3> HIDE DEF s
    <3>3. DOMAIN old = Requests /\ DOMAIN new = Requests
      OBVIOUS
    <3>4. new = [r \in Requests |-> new[r]]
      OBVIOUS
    <3>5. old = [r \in Requests |-> old[r]]
      OBVIOUS
    <3> HIDE DEF old, new
    <3>6. new = [old EXCEPT ![l.request].lines = @ + 1]
      BY <3>1, <3>2, <3>3, <3>4, <3>5
    <3> QED BY <2>1, <3>6
  <2>2. CASE s # "matched"
    <3>1. \A r \in Requests : new[r] = old[r]
      BY <2>2, RequestedAppend
    <3> QED BY <2>2, <3>1
  <2> QED BY <2>1, <2>2
<1>4. InsertLine(db, l) =
        [lines |-> Append(db.lines, l), statements |-> Append(db.statements, s),
         requests |-> IF s = "matched" THEN [db.requests EXCEPT ![l.request].lines = @ + 1]
                                       ELSE db.requests]
  BY DEF InsertLine
<1>5. Source(audit, Append(lns, l)) =
        [lines |-> Append(lns, l), statements |-> Stated(audit, Append(lns, l)), requests |-> new]
  BY DEF Source
<1> HIDE DEF db, s, old, new
<1>6. InsertLine(db, l) = Source(audit, Append(lns, l))
  BY <1>1, <1>2, <1>3, <1>4, <1>5
<1> QED BY <1>6 DEF db

\* An import as a whole does what its rows do one after the other: the views over
\* the lines before become the views over the lines before and its rows.
LEMMA ImportKeepsViews ==
  ASSUME audit \in AuditTable, lines \in Seq(StatementLine), NEW rows \in Seq(StatementLine),
         [lines |-> lines, statements |-> statements, requests |-> requests] = Source(audit, lines)
  PROVE  Inserted(rows) = Source(audit, lines \o rows)
<1> DEFINE base == [lines |-> lines, statements |-> statements, requests |-> requests]
           N == 0 .. Len(rows)
           h == CHOOSE g : g = [n \in N |-> IF n = 0 THEN base ELSE InsertLine(g[n - 1], rows[n])]
           upTo(n) == lines \o SubSeq(rows, 1, n)
           G == [n \in N |-> Source(audit, upTo(n))]
<1>1. Inserted(rows) = h[Len(rows)]
  BY DEF Inserted
<1>2. Len(rows) \in Nat /\ DOMAIN rows = 1 .. Len(rows)
  OBVIOUS
<1>3. /\ upTo(0) = lines
      /\ upTo(Len(rows)) = lines \o rows
      /\ \A n \in N : upTo(n) \in Seq(StatementLine)
      /\ \A n \in N : n # 0 => upTo(n) = Append(upTo(n - 1), rows[n])
  <2>1. SubSeq(rows, 1, 0) = <<>> /\ SubSeq(rows, 1, Len(rows)) = rows
    BY <1>2, SubSeqEmpty, SubSeqFull
  <2>2. ASSUME NEW n \in N
        PROVE  SubSeq(rows, 1, n) \in Seq(StatementLine) /\ Len(SubSeq(rows, 1, n)) = n
    BY <1>2
  <2>3. ASSUME NEW n \in N, n # 0
        PROVE  upTo(n) = Append(upTo(n - 1), rows[n])
    <3>1. n - 1 \in N /\ n \in 1 .. Len(rows) /\ rows[n] \in StatementLine
      BY <1>2, <2>3
    <3>2. SubSeq(rows, 1, n) = Append(SubSeq(rows, 1, n - 1), rows[n])
      BY <1>2, <3>1
    <3>3. \A x \in Seq(StatementLine) : \A y \in StatementLine :
            lines \o Append(x, y) = Append(lines \o x, y)
      OBVIOUS
    <3> QED BY <2>2, <3>1, <3>2, <3>3
  <2> QED BY <2>1, <2>2, <2>3
<1> HIDE DEF upTo
<1>4. ASSUME NEW n \in N, n # 0
      PROVE  /\ n - 1 \in N /\ rows[n] \in StatementLine
             /\ InsertLine(G[n - 1], rows[n]) = G[n]
  <2>1. n - 1 \in N /\ rows[n] \in StatementLine
    BY <1>2, <1>4
  <2>2. G[n - 1] = Source(audit, upTo(n - 1)) /\ G[n] = Source(audit, upTo(n))
    BY <2>1
  <2> QED BY <1>3, <1>4, <2>1, <2>2, InsertLineKeepsViews
<1>5. G[0] = base
  BY <1>2, <1>3
<1> HIDE DEF base
<1>6. G = [n \in N |-> IF n = 0 THEN base ELSE InsertLine(G[n - 1], rows[n])]
  <2>1. G = [n \in N |-> G[n]]
    OBVIOUS
  <2> HIDE DEF G, N
  <2> QED BY <1>4, <1>5, <2>1
<1>7. h = [n \in N |-> IF n = 0 THEN base ELSE InsertLine(h[n - 1], rows[n])]
  <2> HIDE DEF G, N
  <2> QED BY <1>6
<1> HIDE DEF h, G
<1>8. \A n \in N : h[n] = G[n]
  <2> DEFINE S == {n \in Nat : n \in N => h[n] = G[n]}
  <2>1. 0 \in S
    BY <1>2, <1>5, <1>7
  <2>2. ASSUME NEW n \in S PROVE n + 1 \in S
    <3> SUFFICES ASSUME n + 1 \in N PROVE h[n + 1] = G[n + 1]
      OBVIOUS
    <3>1. n \in Nat /\ n \in N /\ n + 1 # 0 /\ (n + 1) - 1 = n
      BY <1>2
    <3>2. h[n] = G[n]
      BY <3>1
    <3>3. h[n + 1] = InsertLine(h[n], rows[n + 1])
      BY <1>7, <3>1
    <3>4. G[n + 1] = InsertLine(G[n], rows[n + 1])
      BY <1>4, <3>1
    <3> QED BY <3>2, <3>3, <3>4
  <2>3. S = Nat
    <3> HIDE DEF S
    <3>1. S \in SUBSET Nat
      BY DEF S
    <3> QED BY <2>1, <2>2, <3>1, InductionOnNat
  <2> QED BY <1>2, <2>3
<1>9. h[Len(rows)] = G[Len(rows)] /\ G[Len(rows)] = Source(audit, lines \o rows)
  <2>1. Len(rows) \in N
    BY <1>2
  <2>2. G[Len(rows)] = Source(audit, upTo(Len(rows)))
    BY <2>1 DEF G
  <2> HIDE DEF N
  <2> QED BY <1>3, <1>8, <2>1, <2>2
<1> QED BY <1>1, <1>9

-----------------------------------------------------------------------------
(* A late audit.                                                           *)

LEMMA LateAudit ==
  ASSUME NEW aud \in AuditTable, NEW r \in Requests, NEW a \in Audits
  PROVE  /\ [aud EXCEPT ![r] = a] \in AuditTable
         /\ [aud EXCEPT ![r] = a][r] = a
         /\ \A q \in Requests : q # r => [aud EXCEPT ![r] = a][q] = aud[q]
BY DEF AuditTable

\* The status of a line depends on the audit it names and on no other.
LEMMA StatusElsewhere ==
  ASSUME NEW aud \in AuditTable, NEW r \in Requests, NEW a \in Audits,
         NEW l \in StatementLine, l.request # r
  PROVE  Status([aud EXCEPT ![r] = a], l) = Status(aud, l)
<1>1. CASE l.request = None
  BY <1>1 DEF Status
<1>2. CASE l.request # None
  <2>1. [aud EXCEPT ![r] = a][l.request] = aud[l.request]
    BY <1>2, LineTyped, LateAudit
  <2> QED BY <1>2, <2>1 DEF Status
<1> QED BY <1>1, <1>2

LEMMA RequestedElsewhere ==
  ASSUME NEW aud \in AuditTable, NEW r \in Requests, NEW a \in Audits,
         NEW lns \in Seq(StatementLine), NEW q \in Requests, q # r
  PROVE  Requested([aud EXCEPT ![r] = a], lns, q) = Requested(aud, lns, q)
<1> DEFINE b == [aud EXCEPT ![r] = a]
<1>1. b[q] = aud[q]
  BY LateAudit
<1>2. \A i \in DOMAIN lns : lns[i] \in StatementLine
  OBVIOUS
<1>3. \A i \in DOMAIN lns : lns[i].request = q => Status(b, lns[i]) = Status(aud, lns[i])
  BY <1>2, StatusElsewhere
<1> HIDE DEF b
<1>4. Matching(b, lns, q) = Matching(aud, lns, q)
  BY <1>3 DEF Matching
<1>5. Requested(b, lns, q) = Requested(aud, lns, q)
  BY <1>1, <1>4 DEF Requested, RequestRow
<1> QED BY <1>5 DEF b

\* The requests of an interval, by what is known of their cost.
Priced(aud, from, t) == {q \in Within(aud, from, t) : aud[q].known}
Unpriced(aud, from, t) == {q \in Within(aud, from, t) : ~aud[q].known}

Some(S) == IF S = {} THEN None ELSE CHOOSE p \in S : TRUE
From(snaps, t) == Some(Previous(snaps, t))

\* Whether an audit is one of the interval's.
Joins(a, from, t) == a.currency = Currency /\ from <= a.time /\ a.time < t

LEMMA IntervalFields ==
  ASSUME NEW aud, NEW snaps, NEW t
  PROVE  IntervalRow(aud, snaps, t) =
           [from |-> From(snaps, t),
            estimated |-> IF From(snaps, t) = None THEN 0
                          ELSE Cardinality(Priced(aud, From(snaps, t), t)),
            unknown |-> IF From(snaps, t) = None THEN 0
                        ELSE Cardinality(Unpriced(aud, From(snaps, t), t))]
<1> DEFINE from == From(snaps, t)
           reqs == IF from = None THEN {} ELSE Within(aud, from, t)
<1>1. IntervalRow(aud, snaps, t) =
        [from |-> from, estimated |-> Cardinality({q \in reqs : aud[q].known}),
         unknown |-> Cardinality({q \in reqs : ~aud[q].known})]
  BY DEF IntervalRow, From, Some
<1> HIDE DEF from
<1>2. CASE from = None
  <2>1. {q \in reqs : aud[q].known} = {} /\ {q \in reqs : ~aud[q].known} = {}
    BY <1>2
  <2>2. /\ Cardinality({q \in reqs : aud[q].known}) = 0
        /\ Cardinality({q \in reqs : ~aud[q].known}) = 0
    BY <2>1, FS_EmptySet
  <2> HIDE DEF reqs
  <2> QED BY <1>1, <1>2, <2>2 DEF from
<1>3. CASE from # None
  <2>1. reqs = Within(aud, from, t)
    BY <1>3
  <2> HIDE DEF reqs
  <2> QED BY <1>1, <1>3, <2>1 DEF from, Priced, Unpriced
<1> QED BY <1>2, <1>3

LEMMA FromTyped ==
  ASSUME NEW snaps \in SUBSET Times, NEW t \in Times
  PROVE  From(snaps, t) \in Times \cup {None}
BY DEF From, Some, Previous

LEMMA PricedFinite ==
  ASSUME NEW aud, NEW from, NEW t
  PROVE  /\ IsFiniteSet(Priced(aud, from, t)) /\ Cardinality(Priced(aud, from, t)) \in Nat
         /\ IsFiniteSet(Unpriced(aud, from, t)) /\ Cardinality(Unpriced(aud, from, t)) \in Nat
<1>1. Priced(aud, from, t) \subseteq Requests /\ Unpriced(aud, from, t) \subseteq Requests
  BY DEF Priced, Unpriced, Within
<1> QED BY <1>1, ReconciliationAssumptions, FS_Subset, FS_CardinalityType

\* A request joins the intervals around its time, on the side its cost is on.
LEMMA WithinAfterAudit ==
  ASSUME NEW aud \in AuditTable, NEW r \in Requests, NEW a \in Audits, aud[r] = None,
         NEW from, NEW t, NEW b, b = [aud EXCEPT ![r] = a]
  PROVE  /\ Priced(b, from, t) =
              IF Joins(a, from, t) /\ a.known THEN Priced(aud, from, t) \cup {r} ELSE Priced(aud, from, t)
         /\ Unpriced(b, from, t) =
              IF Joins(a, from, t) /\ ~a.known THEN Unpriced(aud, from, t) \cup {r} ELSE Unpriced(aud, from, t)
         /\ r \notin Priced(aud, from, t) /\ r \notin Unpriced(aud, from, t)
<1>1. b[r] = a /\ a # None /\ \A q \in Requests : q # r => b[q] = aud[q]
  <2>1. a # None
    BY AuditTyped
  <2>2. b[r] = a /\ \A q \in Requests : q # r => b[q] = aud[q]
    BY DEF AuditTable
  <2> QED BY <2>1, <2>2
<1>2. Within(aud, from, t) \subseteq Requests /\ r \notin Within(aud, from, t)
  BY DEF Within
<1>3. r \in Within(b, from, t) <=> Joins(a, from, t)
  BY <1>1 DEF Within, Joins
<1>4. \A q \in Requests : q # r => (q \in Within(b, from, t) <=> q \in Within(aud, from, t))
  BY <1>1 DEF Within
<1>5. Within(b, from, t) \subseteq Requests
  BY DEF Within
<1>6. Priced(b, from, t) = IF Joins(a, from, t) /\ a.known THEN Priced(aud, from, t) \cup {r}
                                            ELSE Priced(aud, from, t)
  <2>1. r \in Priced(b, from, t) <=> Joins(a, from, t) /\ a.known
    BY <1>1, <1>3 DEF Priced
  <2>2. \A q : q # r => (q \in Priced(b, from, t) <=> q \in Priced(aud, from, t))
    BY <1>1, <1>2, <1>4, <1>5 DEF Priced
  <2>3. r \notin Priced(aud, from, t)
    BY <1>2 DEF Priced
  <2>4. CASE r \in Priced(b, from, t)
    <3>1. Priced(b, from, t) = Priced(aud, from, t) \cup {r}
      BY <2>2, <2>4
    <3> QED BY <2>1, <2>4, <3>1
  <2>5. CASE r \notin Priced(b, from, t)
    <3>0. \A q : q \in Priced(b, from, t) <=> q \in Priced(aud, from, t)
      BY <2>2, <2>3, <2>5
    <3>1. Priced(b, from, t) = Priced(aud, from, t)
      BY <3>0
    <3> QED BY <2>1, <2>5, <3>1
  <2> QED BY <2>4, <2>5
<1>7. Unpriced(b, from, t) = IF Joins(a, from, t) /\ ~a.known THEN Unpriced(aud, from, t) \cup {r}
                                               ELSE Unpriced(aud, from, t)
  <2>1. r \in Unpriced(b, from, t) <=> Joins(a, from, t) /\ ~a.known
    BY <1>1, <1>3 DEF Unpriced
  <2>2. \A q : q # r => (q \in Unpriced(b, from, t) <=> q \in Unpriced(aud, from, t))
    BY <1>1, <1>2, <1>4, <1>5 DEF Unpriced
  <2>3. r \notin Unpriced(aud, from, t)
    BY <1>2 DEF Unpriced
  <2>4. CASE r \in Unpriced(b, from, t)
    <3>1. Unpriced(b, from, t) = Unpriced(aud, from, t) \cup {r}
      BY <2>2, <2>4
    <3> QED BY <2>1, <2>4, <3>1
  <2>5. CASE r \notin Unpriced(b, from, t)
    <3>0. \A q : q \in Unpriced(b, from, t) <=> q \in Unpriced(aud, from, t)
      BY <2>2, <2>3, <2>5
    <3>1. Unpriced(b, from, t) = Unpriced(aud, from, t)
      BY <3>0
    <3> QED BY <2>1, <2>5, <3>1
  <2> QED BY <2>4, <2>5
<1>8. r \notin Priced(aud, from, t) /\ r \notin Unpriced(aud, from, t)
  BY <1>2 DEF Priced, Unpriced
<1> QED BY <1>6, <1>7, <1>8

LEMMA IntervalExcept ==
  ASSUME NEW v \in IntervalRows, NEW d \in Nat, NEW e \in Nat
  PROVE  [v EXCEPT !.estimated = @ + d, !.unknown = @ + e] =
           [from |-> v.from, estimated |-> v.estimated + d, unknown |-> v.unknown + e]
<1> DEFINE p == v.estimated + d
           q == v.unknown + e
           w == [v EXCEPT !.estimated = p, !.unknown = q]
           u == [from |-> v.from, estimated |-> p, unknown |-> q]
<1>1. v.from \in Times \cup {None} /\ p \in Nat /\ q \in Nat
  BY DEF IntervalRows
<1> HIDE DEF p, q
<1>2. w \in IntervalRows /\ w.from = v.from /\ w.estimated = p /\ w.unknown = q
  BY <1>1 DEF IntervalRows
<1>3. u \in IntervalRows /\ u.from = v.from /\ u.estimated = p /\ u.unknown = q
  BY <1>1 DEF IntervalRows
<1>4. w = u
  <2> HIDE DEF w, u
  <2> QED BY <1>2, <1>3 DEF IntervalRows
<1> QED BY <1>4 DEF p, q

\* What the trigger makes of the row v of the snapshot at t.
Incremented(v, a, t) ==
  IF v.from # None /\ a.currency = Currency /\ v.from <= a.time /\ a.time < t
    THEN [v EXCEPT !.estimated = @ + (IF a.known THEN 1 ELSE 0),
                   !.unknown = @ + (IF a.known THEN 0 ELSE 1)]
    ELSE v

\* The trigger's increments are what the view would count.
LEMMA IntervalAfterAudit ==
  ASSUME NEW aud \in AuditTable, NEW r \in Requests, NEW a \in Audits, aud[r] = None,
         NEW snaps \in SUBSET Times, NEW t \in Times,
         NEW v, v = IntervalRow(aud, snaps, t)
  PROVE  IntervalRow([aud EXCEPT ![r] = a], snaps, t) = Incremented(v, a, t)
<1> DEFINE b == [aud EXCEPT ![r] = a]
           from == From(snaps, t)
           E(x) == IF from = None THEN 0 ELSE Cardinality(Priced(x, from, t))
           U(x) == IF from = None THEN 0 ELSE Cardinality(Unpriced(x, from, t))
<1>1. /\ v = [from |-> from, estimated |-> E(aud), unknown |-> U(aud)]
      /\ IntervalRow(b, snaps, t) = [from |-> from, estimated |-> E(b), unknown |-> U(b)]
  BY IntervalFields
<1>2. a.known \in BOOLEAN
  BY AuditTyped
<1>3. E(aud) \in Int /\ U(aud) \in Int
  BY PricedFinite
<1> HIDE DEF from
<1>v. v.from = from
  BY <1>1
<1>j. Joins(a, from, t) <=> a.currency = Currency /\ from <= a.time /\ a.time < t
  BY DEF Joins
<1>4. CASE from = None
  BY <1>1, <1>4 DEF Incremented
<1>5. CASE from # None /\ ~Joins(a, from, t)
  <2>1. Priced(b, from, t) = Priced(aud, from, t) /\ Unpriced(b, from, t) = Unpriced(aud, from, t)
    BY <1>5, WithinAfterAudit
  <2>2. E(b) = E(aud) /\ U(b) = U(aud)
    BY <2>1
  <2>3. IntervalRow(b, snaps, t) = v
    BY <1>1, <2>2
  <2> QED BY <1>5, <1>v, <1>j, <2>3 DEF Incremented
<1>6. CASE from # None /\ Joins(a, from, t)
  <2>1. /\ Priced(b, from, t) = IF a.known THEN Priced(aud, from, t) \cup {r}
                                           ELSE Priced(aud, from, t)
        /\ Unpriced(b, from, t) = IF ~a.known THEN Unpriced(aud, from, t) \cup {r}
                                              ELSE Unpriced(aud, from, t)
        /\ r \notin Priced(aud, from, t) /\ r \notin Unpriced(aud, from, t)
    <3>1. /\ Priced(b, from, t) = IF Joins(a, from, t) /\ a.known
                                    THEN Priced(aud, from, t) \cup {r} ELSE Priced(aud, from, t)
          /\ Unpriced(b, from, t) = IF Joins(a, from, t) /\ ~a.known
                                      THEN Unpriced(aud, from, t) \cup {r}
                                      ELSE Unpriced(aud, from, t)
          /\ r \notin Priced(aud, from, t) /\ r \notin Unpriced(aud, from, t)
      BY WithinAfterAudit
    <3> HIDE DEF b
    <3> QED BY <1>6, <3>1
  <2>2. CASE a.known
    <3>1. E(b) = E(aud) + 1 /\ U(b) = U(aud)
      BY <1>6, <2>1, <2>2, PricedFinite, FS_AddElement
    <3> HIDE DEF E, U, b
    <3>2. IntervalRow(b, snaps, t) = [from |-> from, estimated |-> E(aud) + 1, unknown |-> U(aud) + 0]
      BY <1>1, <1>3, <3>1
    <3>3. [v EXCEPT !.estimated = @ + (IF a.known THEN 1 ELSE 0),
                    !.unknown = @ + (IF a.known THEN 0 ELSE 1)] =
          [from |-> from, estimated |-> E(aud) + 1, unknown |-> U(aud) + 0]
      <4> DEFINE d == IF a.known THEN 1 ELSE 0
                 e == IF a.known THEN 0 ELSE 1
      <4>1. d = 1 /\ e = 0
        BY <2>2
      <4> HIDE DEF d, e
      <4>2. [v EXCEPT !.estimated = @ + d, !.unknown = @ + e] =
              [from |-> from, estimated |-> E(aud) + d, unknown |-> U(aud) + e]
        <5>1. v \in IntervalRows
          BY IntervalTyped
        <5>2. v.estimated = E(aud) /\ v.unknown = U(aud)
          BY <1>1
        <5>3. d \in Nat /\ e \in Nat
          BY <4>1
        <5>4. [v EXCEPT !.estimated = @ + d, !.unknown = @ + e] =
                [from |-> v.from, estimated |-> v.estimated + d, unknown |-> v.unknown + e]
          BY <5>1, <5>3, IntervalExcept
        <5> QED BY <1>v, <5>2, <5>4
      <4> QED BY <4>1, <4>2 DEF d, e
    <3> QED BY <1>6, <1>v, <1>j, <3>2, <3>3 DEF b, Incremented
  <2>3. CASE ~a.known
    <3>1. E(b) = E(aud) /\ U(b) = U(aud) + 1
      BY <1>6, <2>1, <2>3, PricedFinite, FS_AddElement
    <3> HIDE DEF E, U, b
    <3>2. IntervalRow(b, snaps, t) = [from |-> from, estimated |-> E(aud) + 0, unknown |-> U(aud) + 1]
      BY <1>1, <1>3, <3>1
    <3>3. [v EXCEPT !.estimated = @ + (IF a.known THEN 1 ELSE 0),
                    !.unknown = @ + (IF a.known THEN 0 ELSE 1)] =
          [from |-> from, estimated |-> E(aud) + 0, unknown |-> U(aud) + 1]
      <4> DEFINE d == IF a.known THEN 1 ELSE 0
                 e == IF a.known THEN 0 ELSE 1
      <4>1. d = 0 /\ e = 1
        BY <2>3
      <4> HIDE DEF d, e
      <4>2. [v EXCEPT !.estimated = @ + d, !.unknown = @ + e] =
              [from |-> from, estimated |-> E(aud) + d, unknown |-> U(aud) + e]
        <5>1. v \in IntervalRows
          BY IntervalTyped
        <5>2. v.estimated = E(aud) /\ v.unknown = U(aud)
          BY <1>1
        <5>3. d \in Nat /\ e \in Nat
          BY <4>1
        <5>4. [v EXCEPT !.estimated = @ + d, !.unknown = @ + e] =
                [from |-> v.from, estimated |-> v.estimated + d, unknown |-> v.unknown + e]
          BY <5>1, <5>3, IntervalExcept
        <5> QED BY <1>v, <5>2, <5>4
      <4> QED BY <4>1, <4>2 DEF d, e
    <3> QED BY <1>6, <1>v, <1>j, <3>2, <3>3 DEF b, Incremented
  <2> QED BY <1>2, <2>2, <2>3
<1> QED BY <1>4, <1>5, <1>6

-----------------------------------------------------------------------------
(* A late snapshot.                                                        *)

\* Only the interval of the next snapshot, and its own, are not what they were.
LEMMA IntervalElsewhere ==
  ASSUME NEW aud, NEW snaps \in SUBSET Times, NEW t \in Times \ snaps, NEW u \in snaps,
         ~(u > t /\ \A q \in snaps : q > t => q >= u)
  PROVE  IntervalRow(aud, snaps \cup {t}, u) = IntervalRow(aud, snaps, u)
<1>1. snaps \subseteq Nat /\ t \in Nat /\ u \in Nat /\ u # t
  BY ReconciliationAssumptions DEF Times
<1>2. Previous(snaps \cup {t}, u) = Previous(snaps, u)
  <2>1. CASE u < t
    BY <1>1, <2>1 DEF Previous
  <2>2. CASE u > t
    <3>1. PICK q \in snaps : q > t /\ q < u
      BY <1>1, <2>2
    <3>2. ASSUME NEW p \in snaps, p < u, \A x \in snaps : x < u => x <= p
          PROVE  t < p
      BY <1>1, <3>1, <3>2
    <3>3. t \notin Previous(snaps \cup {t}, u)
      BY <1>1, <3>1 DEF Previous
    <3>4. ASSUME NEW p \in Previous(snaps \cup {t}, u) PROVE p \in Previous(snaps, u)
      BY <3>3 DEF Previous
    <3>5. ASSUME NEW p \in Previous(snaps, u) PROVE p \in Previous(snaps \cup {t}, u)
      <4>1. p \in snaps /\ p < u /\ \A x \in snaps : x < u => x <= p
        BY DEF Previous
      <4>2. t < p
        BY <4>1, <3>2
      <4>3. t <= p
        BY <1>1, <4>1, <4>2
      <4> QED BY <4>1, <4>3 DEF Previous
    <3> QED BY <3>4, <3>5
  <2> QED BY <1>1, <2>1, <2>2
<1>3. From(snaps \cup {t}, u) = From(snaps, u)
  BY <1>2 DEF From
<1> QED BY <1>3, IntervalFields

-----------------------------------------------------------------------------
(* Charges.                                                                *)

Places(rows, l) == {i \in DOMAIN rows : rows[i] = l}

\* The charges of row l in a set of accepted exports.
ChargedBy(imps, l) ==
  {x \in UNION {{c} \X DOMAIN Rows[c] : c \in imps} : Rows[x[1]][x[2]] = l}

LEMMA SameSize ==
  ASSUME NEW S, IsFiniteSet(S), NEW f, NEW T, f = [x \in S |-> f[x]],
         \A x \in S : f[x] \in T,
         \A x, y \in S : f[x] = f[y] => x = y,
         \A z \in T : \E x \in S : f[x] = z
  PROVE  IsFiniteSet(T) /\ Cardinality(T) = Cardinality(S)
<1>1. f \in [S -> T]
  OBVIOUS
<1>2. f \in Bijection(S, T)
  BY <1>1 DEF Bijection, Injection, Surjection, IsInjective
<1>3. ExistsBijection(S, T)
  BY <1>2 DEF ExistsBijection
<1> QED BY <1>3, FS_Bijection

LEMMA PlacesFinite ==
  ASSUME NEW rows \in Seq(StatementLine), NEW l
  PROVE  /\ IsFiniteSet(Places(rows, l)) /\ Cardinality(Places(rows, l)) \in Nat
         /\ Places(rows, l) \subseteq 1 .. Len(rows)
<1>1. DOMAIN rows = 1 .. Len(rows) /\ Len(rows) \in Nat
  OBVIOUS
<1>2. Places(rows, l) \subseteq 1 .. Len(rows)
  BY <1>1 DEF Places
<1>3. IsFiniteSet(1 .. Len(rows))
  BY <1>1, FS_Interval
<1> QED BY <1>2, <1>3, FS_Subset, FS_CardinalityType

LEMMA PlacesJoined ==
  ASSUME NEW lns \in Seq(StatementLine), NEW rows \in Seq(StatementLine), NEW l
  PROVE  Cardinality(Places(lns \o rows, l)) =
           Cardinality(Places(lns, l)) + Cardinality(Places(rows, l))
<1> DEFINE A == Places(lns, l)
           B == Places(rows, l)
           T == {i \in (Len(lns) + 1) .. (Len(lns) + Len(rows)) : i - Len(lns) \in B}
           f == [i \in B |-> Len(lns) + i]
           m == lns \o rows
<1>1. /\ Len(lns) \in Nat /\ Len(rows) \in Nat
      /\ DOMAIN lns = 1 .. Len(lns) /\ DOMAIN rows = 1 .. Len(rows)
      /\ DOMAIN m = 1 .. Len(lns) + Len(rows)
      /\ \A i \in 1 .. Len(lns) : m[i] = lns[i]
      /\ \A i \in (Len(lns) + 1) .. (Len(lns) + Len(rows)) : m[i] = rows[i - Len(lns)]
  OBVIOUS
<1>2. A \subseteq 1 .. Len(lns) /\ B \subseteq 1 .. Len(rows) /\ IsFiniteSet(A) /\ IsFiniteSet(B)
  BY PlacesFinite
<1> HIDE DEF m
<1>3. Places(m, l) = A \cup T
  <2>1. ASSUME NEW i \in Places(m, l) PROVE i \in A \cup T
    <3>1. i \in DOMAIN m /\ m[i] = l
      BY DEF Places
    <3>2. CASE i <= Len(lns)
      BY <1>1, <3>1, <3>2 DEF Places
    <3>3. CASE i > Len(lns)
      BY <1>1, <3>1, <3>3 DEF Places
    <3> QED BY <1>1, <3>1, <3>2, <3>3
  <2>2. ASSUME NEW i \in A PROVE i \in Places(m, l)
    BY <1>1, <1>2 DEF Places
  <2>3. ASSUME NEW i \in T PROVE i \in Places(m, l)
    BY <1>1, <1>2 DEF Places
  <2> QED BY <2>1, <2>2, <2>3
<1>4. A \cap T = {}
  BY <1>1, <1>2
<1>5. IsFiniteSet(T) /\ Cardinality(T) = Cardinality(B)
  <2>1. \A x \in B : f[x] \in T
    BY <1>1, <1>2
  <2>2. \A x, y \in B : f[x] = f[y] => x = y
    BY <1>1, <1>2
  <2>3. \A z \in T : \E x \in B : f[x] = z
    <3> SUFFICES ASSUME NEW z \in T PROVE \E x \in B : f[x] = z
      OBVIOUS
    <3>1. z - Len(lns) \in B /\ f[z - Len(lns)] = z
      BY <1>1, <1>2
    <3> QED BY <3>1
  <2>4. f = [x \in B |-> f[x]]
    OBVIOUS
  <2> HIDE DEF f, T, B
  <2> QED BY <1>2, <2>1, <2>2, <2>3, <2>4, SameSize
<1>6. Cardinality(A \cup T) = Cardinality(A) + Cardinality(T) - Cardinality(A \cap T)
  <2> HIDE DEF A, T
  <2> QED BY <1>2, <1>5, FS_Union
<1>7. Cardinality(A \cap T) = 0 /\ Cardinality(A) \in Nat /\ Cardinality(B) \in Nat
  BY <1>4, FS_EmptySet, PlacesFinite
<1> HIDE DEF A, B, T
<1>8. Cardinality(Places(m, l)) = Cardinality(A) + Cardinality(B)
  BY <1>3, <1>5, <1>6, <1>7
<1> QED BY <1>8 DEF A, B, m

LEMMA ChargedJoined ==
  ASSUME NEW imps \in SUBSET Contents, NEW c \in Contents \ imps, NEW l,
         IsFiniteSet(ChargedBy(imps, l))
  PROVE  /\ IsFiniteSet(ChargedBy(imps \cup {c}, l))
         /\ Cardinality(ChargedBy(imps \cup {c}, l)) =
              Cardinality(ChargedBy(imps, l)) + Cardinality(Places(Rows[c], l))
<1> DEFINE A == ChargedBy(imps, l)
           B == Places(Rows[c], l)
           T == {c} \X B
           f == [i \in B |-> <<c, i>>]
<1>1. Rows[c] \in Seq(StatementLine)
  BY ReconciliationAssumptions
<1>2. IsFiniteSet(B) /\ Cardinality(B) \in Nat
  BY <1>1, PlacesFinite
<1>3. ChargedBy(imps \cup {c}, l) = A \cup T
  <2>1. ASSUME NEW x \in ChargedBy(imps \cup {c}, l) PROVE x \in A \cup T
    <3>1. PICK d \in imps \cup {c} : x \in {d} \X DOMAIN Rows[d]
      BY DEF ChargedBy
    <3>2. x = <<d, x[2]>> /\ x[1] = d /\ x[2] \in DOMAIN Rows[d] /\ Rows[d][x[2]] = l
      BY <3>1 DEF ChargedBy
    <3>3. CASE d \in imps
      BY <3>1, <3>2, <3>3 DEF ChargedBy
    <3>4. CASE d = c
      BY <3>1, <3>2, <3>4 DEF Places
    <3> QED BY <3>3, <3>4
  <2>2. ASSUME NEW x \in A PROVE x \in ChargedBy(imps \cup {c}, l)
    BY DEF ChargedBy
  <2>3. ASSUME NEW x \in T PROVE x \in ChargedBy(imps \cup {c}, l)
    BY DEF ChargedBy, Places
  <2> QED BY <2>1, <2>2, <2>3
<1>4. A \cap T = {}
  <2> SUFFICES ASSUME NEW x \in A, x \in T PROVE FALSE
    OBVIOUS
  <2>1. x[1] = c
    OBVIOUS
  <2>2. PICK d \in imps : x \in {d} \X DOMAIN Rows[d]
    BY DEF ChargedBy
  <2> QED BY <2>1, <2>2
<1>5. IsFiniteSet(T) /\ Cardinality(T) = Cardinality(B)
  <2>1. /\ \A x \in B : f[x] \in T
        /\ \A x, y \in B : f[x] = f[y] => x = y
        /\ \A z \in T : \E x \in B : f[x] = z
        /\ f = [x \in B |-> f[x]]
    OBVIOUS
  <2> HIDE DEF f, T, B
  <2> QED BY <1>2, <2>1, SameSize
<1>6. /\ IsFiniteSet(A \cup T)
      /\ Cardinality(A \cup T) = Cardinality(A) + Cardinality(T) - Cardinality(A \cap T)
  <2> HIDE DEF T
  <2> QED BY <1>5, FS_Union
<1>7. Cardinality(A \cap T) = 0 /\ Cardinality(A) \in Nat
  BY <1>4, FS_EmptySet, FS_CardinalityType
<1> HIDE DEF A, B, T
<1>8. /\ IsFiniteSet(ChargedBy(imps \cup {c}, l))
      /\ Cardinality(ChargedBy(imps \cup {c}, l)) = Cardinality(A) + Cardinality(B)
  <2>1. Cardinality(A \cup T) = Cardinality(A) + Cardinality(B)
    BY <1>2, <1>5, <1>6, <1>7
  <2> QED BY <1>3, <1>6, <2>1
<1> QED BY <1>8 DEF A, B

-----------------------------------------------------------------------------
(* The tables agree with the views.                                        *)

Agree(aud, lns, snaps, req, sta, int) ==
  /\ req = [r \in Requests |-> Requested(aud, lns, r)]
  /\ sta = Stated(aud, lns)
  /\ int = [t \in Times |-> Interval(aud, snaps, t)]

LEMMA AgreeTyped ==
  ASSUME NEW aud \in AuditTable, NEW lns \in Seq(StatementLine), NEW snaps \in SUBSET Times,
         NEW req, NEW sta, NEW int, Agree(aud, lns, snaps, req, sta, int)
  PROVE  /\ req \in [Requests -> RequestRows \cup {None}]
         /\ sta \in Seq(Statuses)
         /\ int \in [Times -> IntervalRows \cup {None}]
<1>1. req \in [Requests -> RequestRows \cup {None}]
  BY RequestedTyped DEF Agree
<1>2. sta \in Seq(Statuses)
  BY StatedTyped DEF Agree
<1>3. int \in [Times -> IntervalRows \cup {None}]
  BY IntervalTyped DEF Agree
<1> QED BY <1>1, <1>2, <1>3

LEMMA TypedTables ==
  ASSUME TypeOK
  PROVE  /\ audit \in AuditTable /\ lines \in Seq(StatementLine) /\ snapshots \in SUBSET Times
         /\ requests = [r \in Requests |-> requests[r]]
         /\ intervals = [t \in Times |-> intervals[t]]
BY DEF TypeOK, AuditTable

LEMMA InAgreement ==
  ASSUME TypeOK, MaterializedIsSource, backfilled
  PROVE  Agree(audit, lines, snapshots, requests, statements, intervals)
<1>1. \A r \in Requests : requests[r] = Requested(audit, lines, r)
  BY DEF MaterializedIsSource, Requested
<1>2. statements = Stated(audit, lines)
  BY DEF MaterializedIsSource, Stated
<1>3. \A t \in Times : intervals[t] = Interval(audit, snapshots, t)
  BY DEF MaterializedIsSource, Interval
<1> QED BY <1>1, <1>2, <1>3, TypedTables DEF Agree

LEMMA InAgreementNext ==
  ASSUME Agree(audit', lines', snapshots', requests', statements', intervals')
  PROVE  MaterializedIsSource'
BY DEF Agree, MaterializedIsSource, Requested, Stated, Interval

LEMMA BackfillAgrees ==
  ASSUME TypeOK, Backfill
  PROVE  /\ Agree(audit', lines', snapshots', requests', statements', intervals')
         /\ audit' \in AuditTable /\ lines' \in Seq(StatementLine) /\ snapshots' \in SUBSET Times
<1>1. audit' = audit /\ lines' = lines /\ snapshots' = snapshots
  BY DEF Backfill
<1>2. /\ requests' = [r \in Requests |-> Requested(audit, lines, r)]
      /\ statements' = Stated(audit, lines)
      /\ intervals' = [t \in Times |-> Interval(audit, snapshots, t)]
  BY DEF Backfill, Requested, Stated, Interval
<1> QED BY <1>1, <1>2, TypedTables DEF Agree

LEMMA AuditAgrees ==
  ASSUME TypeOK, MaterializedIsSource, NEW r \in Requests, NEW a \in Audits, AppendAudit(r, a)
  PROVE  /\ Agree(audit', lines', snapshots', requests', statements', intervals')
         /\ audit' \in AuditTable /\ lines' \in Seq(StatementLine) /\ snapshots' \in SUBSET Times
<1> DEFINE b == [audit EXCEPT ![r] = a]
<1>1. /\ backfilled /\ audit[r] = None /\ audit' = b
      /\ requests' = [requests EXCEPT ![r] = RequestRow(b, lines, r)]
      /\ statements' = statementsAfterAudit(b, r) /\ intervals' = intervalsAfterAudit(a)
      /\ lines' = lines /\ snapshots' = snapshots
  BY DEF AppendAudit
<1>2. /\ requests = [q \in Requests |-> Requested(audit, lines, q)]
      /\ statements = Stated(audit, lines)
      /\ intervals = [t \in Times |-> Interval(audit, snapshots, t)]
  BY <1>1, InAgreement DEF Agree
<1>3. b \in AuditTable /\ b[r] = a /\ a # None
  <2>1. a # None
    BY AuditTyped
  <2>2. b \in AuditTable /\ b[r] = a
    BY TypedTables DEF AuditTable
  <2> QED BY <2>1, <2>2
<1>4. requests' = [q \in Requests |-> Requested(b, lines, q)]
  <2>1. Requested(b, lines, r) = RequestRow(b, lines, r)
    BY <1>3 DEF Requested
  <2>2. \A q \in Requests : q # r => Requested(b, lines, q) = requests[q]
    BY <1>2, TypedTables, RequestedElsewhere
  <2> HIDE DEF b
  <2> QED BY <1>1, <1>2, <2>1, <2>2
<1>5. statements' = Stated(b, lines)
  <2>1. statements' = [i \in DOMAIN lines |-> IF lines[i].request = r THEN Status(b, lines[i])
                                                                     ELSE statements[i]]
    BY <1>1 DEF statementsAfterAudit
  <2>2. \A i \in DOMAIN lines : lines[i] \in StatementLine
    BY TypedTables
  <2>3. \A i \in DOMAIN lines : lines[i].request # r => Status(b, lines[i]) = statements[i]
    BY <1>2, <2>2, TypedTables, StatusElsewhere DEF Stated
  <2> HIDE DEF b
  <2> QED BY <2>1, <2>3 DEF Stated
<1>6. intervals' = [t \in Times |-> Interval(b, snapshots, t)]
  <2>1. \A t \in Times : intervals'[t] = Interval(b, snapshots, t)
    <3> SUFFICES ASSUME NEW t \in Times PROVE intervals'[t] = Interval(b, snapshots, t)
      OBVIOUS
    <3> DEFINE v == intervals[t]
    <3>1. intervals'[t] = IF v # None THEN Incremented(v, a, t) ELSE v
      <4>1. intervals'[t] =
              IF v # None /\ v.from # None /\ a.currency = Currency /\ v.from <= a.time /\ a.time < t
                THEN [v EXCEPT !.estimated = @ + (IF a.known THEN 1 ELSE 0),
                               !.unknown = @ + (IF a.known THEN 0 ELSE 1)]
                ELSE v
        BY <1>1 DEF intervalsAfterAudit
      <4> HIDE DEF v
      <4> QED BY <4>1, Zenon DEF Incremented
    <3>2. CASE t \in snapshots
      <4>1. v = IntervalRow(audit, snapshots, t) /\ v # None
        BY <1>2, <3>2, TypedTables, IntervalTyped DEF Interval
      <4> HIDE DEF v
      <4>2. IntervalRow(b, snapshots, t) = Incremented(v, a, t)
        BY <1>1, <4>1, TypedTables, IntervalAfterAudit
      <4> QED BY <3>1, <3>2, <4>1, <4>2 DEF Interval
    <3>3. CASE t \notin snapshots
      <4>1. v = None /\ Interval(b, snapshots, t) = None
        BY <1>2, <3>3 DEF Interval
      <4> HIDE DEF v, b
      <4> QED BY <3>1, <4>1, Zenon
    <3> QED BY <3>2, <3>3
  <2>2. intervals' = [t \in Times |-> intervals'[t]]
    <3>1. intervals' = intervalsAfterAudit(a)
      BY <1>1
    <3> QED BY <3>1 DEF intervalsAfterAudit
  <2> HIDE DEF b
  <2> QED BY <2>1, <2>2
<1> HIDE DEF b
<1>7. Agree(audit', lines', snapshots', requests', statements', intervals')
  BY <1>1, <1>4, <1>5, <1>6 DEF Agree
<1> QED BY <1>1, <1>3, <1>7, TypedTables

LEMMA SnapshotAgrees ==
  ASSUME TypeOK, MaterializedIsSource, NEW t \in Times, AppendBalanceSnapshot(t)
  PROVE  /\ Agree(audit', lines', snapshots', requests', statements', intervals')
         /\ audit' \in AuditTable /\ lines' \in Seq(StatementLine) /\ snapshots' \in SUBSET Times
<1> DEFINE S == snapshots \cup {t}
<1>1. /\ backfilled /\ t \notin snapshots /\ snapshots' = S
      /\ intervals' = intervalsAfterSnapshot(t)
      /\ audit' = audit /\ lines' = lines /\ requests' = requests /\ statements' = statements
  BY DEF AppendBalanceSnapshot
<1>2. /\ requests = [q \in Requests |-> Requested(audit, lines, q)]
      /\ statements = Stated(audit, lines)
      /\ intervals = [u \in Times |-> Interval(audit, snapshots, u)]
  BY <1>1, InAgreement DEF Agree
<1>3. ASSUME NEW u \in Times
      PROVE  Interval(audit, S, u) = IF u \in {t} \cup Following(t) THEN IntervalRow(audit, S, u)
                                                                   ELSE intervals[u]
  <2>1. CASE u \in {t} \cup Following(t)
    <3>1. u \in S
      BY <2>1 DEF Following
    <3> QED BY <2>1, <3>1 DEF Interval
  <2>2. CASE u \notin {t} \cup Following(t) /\ u \in snapshots
    <3>1. ~(u > t /\ \A q \in snapshots : q > t => q >= u)
      BY <2>2 DEF Following
    <3>2. IntervalRow(audit, S, u) = IntervalRow(audit, snapshots, u)
      BY <1>1, <2>2, <3>1, TypedTables, IntervalElsewhere
    <3>3. intervals[u] = IntervalRow(audit, snapshots, u)
      BY <1>2, <2>2 DEF Interval
    <3> QED BY <2>2, <3>2, <3>3 DEF Interval
  <2>3. CASE u \notin {t} \cup Following(t) /\ u \notin snapshots
    BY <1>2, <2>3 DEF Interval
  <2> QED BY <2>1, <2>2, <2>3
<1>4. intervals' = [u \in Times |-> Interval(audit, S, u)]
  <2>1. intervals' = [u \in Times |-> IF u \in {t} \cup Following(t) THEN IntervalRow(audit, S, u)
                                                                    ELSE intervals[u]]
    BY <1>1 DEF intervalsAfterSnapshot
  <2> HIDE DEF S
  <2> QED BY <1>3, <2>1
<1>5. Agree(audit', lines', snapshots', requests', statements', intervals')
  BY <1>1, <1>2, <1>4 DEF Agree
<1> QED BY <1>1, <1>5, TypedTables

-----------------------------------------------------------------------------
(* The inductive invariant.                                                *)

ScanType == [pc : {"wait", "scan", "import", "record"}, todo : SUBSET Files,
             file : Files \cup {None}, data : Contents \cup {None}, failed : BOOLEAN]

TablesTyped ==
  /\ audit \in AuditTable /\ lines \in Seq(StatementLine) /\ snapshots \in SUBSET Times
  /\ requests \in [Requests -> RequestRows \cup {None}]
  /\ statements \in Seq(Statuses)
  /\ intervals \in [Times -> IntervalRows \cup {None}]
  /\ backfilled \in BOOLEAN

SyncTyped ==
  /\ imports \in SUBSET Contents
  /\ sources \in [Files -> Contents \cup {None}] /\ dir \in [Files -> Contents \cup {None}]
  /\ scan \in ScanType /\ succeeded \in BOOLEAN
  /\ steady \in SUBSET Files /\ faults \in 0 .. MaxFaults

\* As many lines of every row as the accepted exports have.
ChargedInv ==
  \A l \in StatementLine :
    /\ IsFiniteSet(ChargedBy(imports, l))
    /\ Cardinality(Places(lines, l)) = Cardinality(ChargedBy(imports, l))

IInv == TablesTyped /\ SyncTyped /\ MaterializedIsSource /\ ScanInv /\ SteadyInv /\ ChargedInv

LEMMA TypeParts == TypeOK <=> TablesTyped /\ SyncTyped
BY DEF TypeOK, TablesTyped, SyncTyped, ScanType, AuditTable

LEMMA InitInv == Init => IInv
<1> SUFFICES ASSUME Init PROVE IInv
  OBVIOUS
<1>1. /\ audit \in AuditTable /\ lines = <<>> /\ snapshots = {} /\ statements = <<>>
      /\ requests = [r \in Requests |-> None] /\ intervals = [t \in Times |-> None]
      /\ backfilled = FALSE /\ imports = {} /\ steady = {} /\ scan = Waiting
      /\ sources = [f \in Files |-> None] /\ dir = [f \in Files |-> None]
      /\ succeeded = FALSE /\ faults = 0
  BY DEF Init, AuditTable
<1>2. TablesTyped
  <2>1. backfilled \in BOOLEAN
    BY <1>1
  <2>2. /\ lines \in Seq(StatementLine) /\ statements \in Seq(Statuses)
        /\ snapshots \in SUBSET Times
        /\ requests \in [Requests -> RequestRows \cup {None}]
        /\ intervals \in [Times -> IntervalRows \cup {None}]
    BY <1>1
  <2> QED BY <1>1, <2>1, <2>2 DEF TablesTyped
<1>3. scan \in ScanType /\ scan.pc = "wait"
  BY <1>1 DEF Waiting, ScanType
<1>4. SyncTyped
  <2>1. succeeded \in BOOLEAN
    BY <1>1
  <2>2. faults \in 0 .. MaxFaults
    BY <1>1, ReconciliationAssumptions
  <2>3. /\ imports \in SUBSET Contents /\ steady \in SUBSET Files
        /\ sources \in [Files -> Contents \cup {None}] /\ dir \in [Files -> Contents \cup {None}]
    BY <1>1
  <2> QED BY <1>3, <2>1, <2>2, <2>3 DEF SyncTyped
<1>5. MaterializedIsSource /\ ScanInv /\ SteadyInv
  BY <1>1, <1>3 DEF MaterializedIsSource, ScanInv, SteadyInv
<1>6. ChargedInv
  <2>1. ASSUME NEW l \in StatementLine
        PROVE  ChargedBy(imports, l) = {} /\ Places(lines, l) = {}
    BY <1>1 DEF ChargedBy, Places
  <2> QED BY <2>1, FS_EmptySet DEF ChargedInv
<1> QED BY <1>2, <1>4, <1>5, <1>6 DEF IInv

\* A step that changes what the reports read keeps the tables and the views
\* together, and the goroutine does not notice.
LEMMA TableStep ==
  ASSUME IInv, UNCHANGED <<syncTables, succeeded, dir, scan, steady, faults, lines>>,
         backfilled', backfilled' \in BOOLEAN,
         Agree(audit', lines', snapshots', requests', statements', intervals'),
         audit' \in AuditTable, snapshots' \in SUBSET Times
  PROVE  IInv'
<1>1. TablesTyped'
  BY AgreeTyped DEF IInv, TablesTyped
<1>2. SyncTyped'
  BY DEF IInv, SyncTyped, syncTables
<1>3. MaterializedIsSource'
  BY InAgreementNext
<1>4. ScanInv' /\ SteadyInv'
  BY DEF IInv, ScanInv, SteadyInv, syncTables
<1>5. ChargedInv'
  BY DEF IInv, ChargedInv, syncTables
<1> QED BY <1>1, <1>2, <1>3, <1>4, <1>5 DEF IInv

LEMMA BackfillKeeps == IInv /\ Backfill => IInv'
<1> SUFFICES ASSUME IInv, Backfill PROVE IInv'
  OBVIOUS
<1>1. TypeOK
  BY TypeParts DEF IInv
<1>2. backfilled' = TRUE
  BY DEF Backfill
<1>3. UNCHANGED <<syncTables, succeeded, dir, scan, steady, faults, lines>>
  BY DEF Backfill
<1>4. backfilled' /\ backfilled' \in BOOLEAN
  BY <1>2
<1> QED BY <1>1, <1>3, <1>4, BackfillAgrees, TableStep

LEMMA AppendAuditKeeps ==
  ASSUME IInv, NEW r \in Requests, NEW a \in Audits, AppendAudit(r, a)
  PROVE  IInv'
<1>1. TypeOK /\ MaterializedIsSource
  BY TypeParts DEF IInv
<1>2. UNCHANGED <<syncTables, succeeded, dir, scan, steady, faults, lines>>
  BY DEF AppendAudit
<1>3. backfilled' /\ backfilled' \in BOOLEAN
  BY DEF AppendAudit, IInv, TablesTyped
<1> QED BY <1>1, <1>2, <1>3, AuditAgrees, TableStep

LEMMA AppendBalanceSnapshotKeeps ==
  ASSUME IInv, NEW t \in Times, AppendBalanceSnapshot(t)
  PROVE  IInv'
<1>1. TypeOK /\ MaterializedIsSource
  BY TypeParts DEF IInv
<1>2. UNCHANGED <<syncTables, succeeded, dir, scan, steady, faults, lines>>
  BY DEF AppendBalanceSnapshot
<1>3. backfilled' /\ backfilled' \in BOOLEAN
  BY DEF AppendBalanceSnapshot, IInv, TablesTyped
<1> QED BY <1>1, <1>2, <1>3, SnapshotAgrees, TableStep

-----------------------------------------------------------------------------
(* The goroutine.                                                          *)

\* A step that writes no table and imports nothing concerns the goroutine alone.
LEMMA SyncStep ==
  ASSUME IInv, UNCHANGED <<tables, imports>>, SyncTyped', ScanInv', SteadyInv'
  PROVE  IInv'
<1>1. TablesTyped' /\ MaterializedIsSource'
  BY DEF IInv, TablesTyped, MaterializedIsSource, tables
<1>2. ChargedInv'
  BY DEF IInv, ChargedInv, tables
<1> QED BY <1>1, <1>2 DEF IInv

LEMMA FaultTyped ==
  ASSUME faults \in 0 .. MaxFaults
  PROVE  (Fault => faults' \in 0 .. MaxFaults) /\ (UNCHANGED faults => faults' \in 0 .. MaxFaults)
BY ReconciliationAssumptions DEF Fault

LEMMA WaitingTyped == Waiting \in ScanType /\ Waiting.pc = "wait"
BY DEF Waiting, ScanType

LEMMA WaitsAgain ==
  ASSUME IInv, scan' = Waiting, steady' = {}, UNCHANGED <<tables, syncTables, dir>>,
         succeeded' \in BOOLEAN, faults' \in 0 .. MaxFaults
  PROVE  IInv'
<1>1. SyncTyped'
  BY WaitingTyped DEF IInv, SyncTyped, syncTables
<1>2. ScanInv' /\ SteadyInv'
  BY WaitingTyped DEF ScanInv, SteadyInv
<1>3. UNCHANGED <<tables, imports>>
  BY DEF syncTables
<1> QED BY <1>1, <1>2, <1>3, SyncStep

LEMMA RecordKeeps == IInv /\ Record => IInv'
<1> SUFFICES ASSUME IInv, Record PROVE IInv'
  OBVIOUS
<1>1. scan' = Waiting /\ steady' = {} /\ UNCHANGED <<tables, syncTables, dir>>
  BY DEF Record
<1>2. scan.failed \in BOOLEAN /\ succeeded \in BOOLEAN /\ faults \in 0 .. MaxFaults
  BY DEF IInv, SyncTyped, ScanType
<1>3. succeeded' \in BOOLEAN
  BY <1>2, Zenon DEF Record
<1>4. faults' \in 0 .. MaxFaults
  BY <1>2, FaultTyped DEF Record
<1> QED BY <1>1, <1>3, <1>4, WaitsAgain

LEMMA CrashKeeps == IInv /\ Crash => IInv'
<1> SUFFICES ASSUME IInv, Crash PROVE IInv'
  OBVIOUS
<1>1. /\ scan' = Waiting /\ steady' = {} /\ UNCHANGED <<tables, syncTables, dir>>
      /\ succeeded' = succeeded /\ Fault
  BY DEF Crash
<1>2. succeeded \in BOOLEAN /\ faults \in 0 .. MaxFaults
  BY DEF IInv, SyncTyped
<1>3. succeeded' \in BOOLEAN
  BY <1>1, <1>2, Zenon
<1>4. faults' \in 0 .. MaxFaults
  BY <1>1, <1>2, FaultTyped
<1> QED BY <1>1, <1>3, <1>4, WaitsAgain

LEMMA SyncTypedNext ==
  ASSUME IInv, scan' \in ScanType, steady' \in SUBSET Files, faults' \in 0 .. MaxFaults,
         UNCHANGED <<syncTables, succeeded, dir>>
  PROVE  SyncTyped'
BY DEF IInv, SyncTyped, syncTables

LEMMA ScanStartKeeps == IInv /\ ScanStart => IInv'
<1> SUFFICES ASSUME IInv, ScanStart PROVE IInv'
  OBVIOUS
<1>1. /\ backfilled /\ scan.pc = "wait" /\ steady' = Present
      /\ UNCHANGED <<tables, syncTables, succeeded, dir>>
  BY DEF ScanStart
<1>2. scan \in ScanType /\ faults \in 0 .. MaxFaults /\ Present \in SUBSET Files
  BY DEF IInv, SyncTyped, Present
<1>3. faults' \in 0 .. MaxFaults
  BY <1>2, FaultTyped DEF ScanStart
<1>4. /\ scan' \in ScanType
      /\ \/ scan'.pc = "scan" /\ scan'.todo = Present
         \/ scan'.pc = "record" /\ scan'.failed = TRUE
  <2>1. CASE scan' = [scan EXCEPT !.pc = "scan", !.todo = Present, !.failed = FALSE]
    BY <1>2, <2>1 DEF ScanType
  <2>2. CASE scan' = [scan EXCEPT !.pc = "record", !.failed = TRUE]
    BY <1>2, <2>2 DEF ScanType
  <2> QED BY <2>1, <2>2 DEF ScanStart
<1>5. SyncTyped'
  BY <1>1, <1>2, <1>3, <1>4, SyncTypedNext
<1>6. ScanInv'
  BY <1>1, <1>4 DEF ScanInv, tables
<1>7. SteadyInv'
  BY <1>1, <1>4 DEF SteadyInv, Present
<1>8. UNCHANGED <<tables, imports>>
  BY <1>1 DEF syncTables
<1> QED BY <1>5, <1>6, <1>7, <1>8, SyncStep

LEMMA VisitKeeps == ASSUME IInv, NEW f \in Files, Visit(f) PROVE IInv'
<1>1. /\ scan.pc = "scan" /\ f \in scan.todo
      /\ UNCHANGED <<tables, syncTables, succeeded, dir, steady>>
  BY DEF Visit
<1>2. /\ scan \in ScanType /\ faults \in 0 .. MaxFaults /\ steady \in SUBSET Files
      /\ dir \in [Files -> Contents \cup {None}]
  BY DEF IInv, SyncTyped
<1>3. faults' \in 0 .. MaxFaults
  BY <1>2, FaultTyped DEF Visit
<1>4. scan' \in ScanType /\ scan'.pc \in {"scan", "import"}
      /\ (scan'.pc = "import" => scan'.file \in Files /\ scan'.data \in Contents)
      /\ (scan'.failed \/ /\ scan'.pc = "import" /\ scan'.file = f /\ scan'.data = dir[f]
                          /\ scan'.todo = scan.todo \ {f} /\ scan'.failed = scan.failed)
  <2>1. CASE /\ dir[f] # None
             /\ scan' = [scan EXCEPT !.pc = "import", !.todo = @ \ {f}, !.file = f, !.data = dir[f]]
    <3>1. dir[f] \in Contents
      BY <1>2, <2>1
    <3> DEFINE todo == scan.todo \ {f}
               data == dir[f]
    <3>2. todo \in SUBSET Files /\ data \in Contents
      BY <1>2, <3>1 DEF ScanType
    <3>3. scan' = [scan EXCEPT !.pc = "import", !.todo = todo, !.file = f, !.data = data]
      BY <2>1
    <3> HIDE DEF todo, data
    <3>4. /\ scan' \in ScanType /\ scan'.pc = "import" /\ scan'.file = f /\ scan'.data = data
          /\ scan'.todo = todo /\ scan'.failed = scan.failed
      BY <1>2, <3>2, <3>3 DEF ScanType
    <3> QED BY <3>2, <3>4 DEF todo, data
  <2>2. CASE scan' = [scan EXCEPT !.todo = @ \ {f}, !.failed = TRUE]
    BY <1>1, <1>2, <2>2 DEF ScanType
  <2> QED BY <2>1, <2>2 DEF Visit
<1>5. SyncTyped'
  BY <1>1, <1>2, <1>3, <1>4, SyncTypedNext
<1>6. ScanInv'
  BY <1>1, <1>4 DEF IInv, ScanInv, tables
<1>7. SteadyInv'
  BY <1>1, <1>4 DEF IInv, SteadyInv, syncTables
<1>8. UNCHANGED <<tables, imports>>
  BY <1>1 DEF syncTables
<1> QED BY <1>5, <1>6, <1>7, <1>8, SyncStep

LEMMA ScanEndKeeps == IInv /\ ScanEnd => IInv'
<1> SUFFICES ASSUME IInv, ScanEnd PROVE IInv'
  OBVIOUS
<1>1. scan.pc = "scan" /\ UNCHANGED <<tables, syncTables, succeeded, dir, steady>>
  BY DEF ScanEnd
<1>2. scan \in ScanType /\ faults \in 0 .. MaxFaults /\ steady \in SUBSET Files
  BY DEF IInv, SyncTyped
<1>3. faults' \in 0 .. MaxFaults
  BY <1>2, FaultTyped DEF ScanEnd
<1>4. /\ scan' \in ScanType /\ scan'.pc = "record"
      /\ scan'.todo = {}
      /\ scan'.failed \/ (scan'.failed = scan.failed /\ scan'.todo = scan.todo)
  <2>1. CASE scan.todo = {} /\ scan' = [scan EXCEPT !.pc = "record"]
    BY <1>2, <2>1 DEF ScanType
  <2>2. CASE scan' = [scan EXCEPT !.pc = "record", !.todo = {}, !.failed = TRUE]
    BY <1>2, <2>2 DEF ScanType
  <2> QED BY <2>1, <2>2 DEF ScanEnd
<1>5. SyncTyped'
  BY <1>1, <1>2, <1>3, <1>4, SyncTypedNext
<1>6. ScanInv'
  BY <1>1, <1>4 DEF IInv, ScanInv, tables
<1>7. SteadyInv'
  BY <1>1, <1>4 DEF IInv, SteadyInv, syncTables
<1>8. UNCHANGED <<tables, imports>>
  BY <1>1 DEF syncTables
<1> QED BY <1>5, <1>6, <1>7, <1>8, SyncStep

\* Whoever edits a file, it is no longer one that nobody touched.
LEMMA EditKeeps ==
  ASSUME IInv, NEW f \in Files, NEW x \in Contents \cup {None}, Edit(f, x)
  PROVE  IInv'
<1>1. /\ dir' = [dir EXCEPT ![f] = x] /\ steady' = steady \ {f}
      /\ UNCHANGED <<tables, syncTables, succeeded, scan, faults>>
  BY DEF Edit
<1>2. steady \in SUBSET Files /\ dir \in [Files -> Contents \cup {None}]
  BY DEF IInv, SyncTyped
<1>3. dir' \in [Files -> Contents \cup {None}] /\ \A g \in steady' : dir'[g] = dir[g]
  BY <1>1, <1>2
<1>4. SyncTyped'
  BY <1>1, <1>2, <1>3 DEF IInv, SyncTyped, syncTables
<1>5. ScanInv'
  BY <1>1 DEF IInv, ScanInv, tables
<1>6. SteadyInv'
  BY <1>1, <1>3 DEF IInv, SteadyInv, syncTables
<1>7. UNCHANGED <<tables, imports>>
  BY <1>1 DEF syncTables
<1> QED BY <1>4, <1>5, <1>6, <1>7, SyncStep

\* An import ends, with or without a failure of its own.
LEMMA ImportedFields ==
  ASSUME scan \in ScanType, NEW err \in BOOLEAN, imported(err)
  PROVE  /\ scan' \in ScanType /\ scan'.pc = "scan" /\ scan'.todo = scan.todo
         /\ scan'.failed = (scan.failed \/ err)
<1> DEFINE g == scan.failed \/ err
<1>1. g \in BOOLEAN
  BY DEF ScanType
<1>2. scan' = [scan EXCEPT !.pc = "scan", !.file = None, !.data = None, !.failed = g]
  BY DEF imported
<1> HIDE DEF g
<1>3. scan' \in ScanType /\ scan'.pc = "scan" /\ scan'.todo = scan.todo /\ scan'.failed = g
  BY <1>1, <1>2 DEF ScanType
<1> QED BY <1>3 DEF g

\* Nothing is written: the import is refused, is a duplicate, or fails.  It must
\* be recorded as a failure unless its content is there already.
LEMMA NothingImported ==
  ASSUME IInv, scan.pc = "import", NEW err \in BOOLEAN, imported(err),
         err \/ scan.data \in imports,
         UNCHANGED <<tables, imports, succeeded, dir, steady>>,
         sources' \in [Files -> Contents \cup {None}], faults' \in 0 .. MaxFaults
  PROVE  IInv'
<1>1. scan \in ScanType /\ steady \in SUBSET Files
  BY DEF IInv, SyncTyped
<1>2. /\ scan' \in ScanType /\ scan'.pc = "scan" /\ scan'.todo = scan.todo
      /\ scan'.failed = (scan.failed \/ err)
  BY <1>1, ImportedFields
<1>3. SyncTyped'
  BY <1>2 DEF IInv, SyncTyped
<1>4. ScanInv'
  BY <1>2 DEF IInv, ScanInv, tables
<1>5. SteadyInv'
  BY <1>2 DEF IInv, SteadyInv
<1>6. UNCHANGED <<tables, imports>>
  OBVIOUS
<1> QED BY <1>3, <1>4, <1>5, <1>6, SyncStep

LEMMA ImportFailsKeeps == IInv /\ ImportFails => IInv'
<1> SUFFICES ASSUME IInv, ImportFails PROVE IInv'
  OBVIOUS
<1>1. /\ scan.pc = "import" /\ imported(TRUE) /\ Fault
      /\ UNCHANGED <<tables, syncTables, succeeded, dir, steady>>
  BY DEF ImportFails, rollback
<1>2. faults' \in 0 .. MaxFaults
  BY <1>1, FaultTyped DEF IInv, SyncTyped
<1>3. sources' \in [Files -> Contents \cup {None}]
  BY <1>1 DEF IInv, SyncTyped, syncTables
<1>4. UNCHANGED <<tables, imports, succeeded, dir, steady>>
  BY <1>1 DEF syncTables
<1>5. TRUE \in BOOLEAN
  OBVIOUS
<1> QED BY <1>1, <1>2, <1>3, <1>4, <1>5, NothingImported

\* An accepted export: its rows, its fingerprint and its source at once.
LEMMA Accepted ==
  ASSUME IInv, scan.pc = "import", ~Duplicate,
         lines' = Inserted(Rows[scan.data]).lines,
         statements' = Inserted(Rows[scan.data]).statements,
         requests' = Inserted(Rows[scan.data]).requests,
         imports' = imports \cup {scan.data}, rememberSource, imported(FALSE),
         UNCHANGED <<audit, snapshots, intervals, backfilled, succeeded, dir, steady, faults>>
  PROVE  IInv'
<1> DEFINE rows == Rows[scan.data]
           c == scan.data
<1>1. /\ scan.file \in Files /\ c \in Contents /\ c \notin imports /\ backfilled
      /\ rows \in Seq(StatementLine)
  BY ReconciliationAssumptions DEF IInv, ScanInv, Duplicate
<1>2. TypeOK /\ MaterializedIsSource
  BY TypeParts DEF IInv
<1>3. Agree(audit, lines, snapshots, requests, statements, intervals)
  BY <1>1, <1>2, InAgreement
<1>4. [lines |-> lines, statements |-> statements, requests |-> requests] = Source(audit, lines)
  BY <1>3 DEF Agree, Source
<1>5. Inserted(rows) = Source(audit, lines \o rows)
  BY <1>1, <1>2, <1>4, TypedTables, ImportKeepsViews
<1> HIDE DEF rows
<1>6. /\ lines' = lines \o rows /\ statements' = Stated(audit, lines \o rows)
      /\ requests' = [r \in Requests |-> Requested(audit, lines \o rows, r)]
  BY <1>5 DEF rows, Source
<1>7. Agree(audit', lines', snapshots', requests', statements', intervals')
  BY <1>3, <1>6 DEF Agree
<1>8. lines \in Seq(StatementLine) /\ lines' \in Seq(StatementLine)
  <2>1. lines \in Seq(StatementLine)
    BY <1>2, TypedTables
  <2> QED BY <1>1, <1>6, <2>1
<1>9. TablesTyped'
  <2>1. audit' \in AuditTable /\ snapshots' \in SUBSET Times /\ backfilled' \in BOOLEAN
    BY DEF IInv, TablesTyped
  <2> QED BY <1>7, <1>8, <2>1, AgreeTyped DEF TablesTyped
<1>10. MaterializedIsSource'
  BY <1>7, InAgreementNext
<1>11. scan \in ScanType /\ FALSE \in BOOLEAN
  BY DEF IInv, SyncTyped
<1>12. /\ scan' \in ScanType /\ scan'.pc = "scan" /\ scan'.todo = scan.todo
       /\ scan'.failed = (scan.failed \/ FALSE)
  BY <1>11, ImportedFields
<1>13. SyncTyped'
  BY <1>1, <1>12 DEF IInv, SyncTyped, rememberSource
<1>14. ScanInv'
  BY <1>1, <1>12 DEF ScanInv
<1>15. SteadyInv'
  BY <1>12 DEF IInv, SteadyInv
<1>16. ChargedInv'
  <2> SUFFICES ASSUME NEW l \in StatementLine
               PROVE  /\ IsFiniteSet(ChargedBy(imports', l))
                      /\ Cardinality(Places(lines', l)) = Cardinality(ChargedBy(imports', l))
    BY DEF ChargedInv
  <2>1. /\ IsFiniteSet(ChargedBy(imports, l))
        /\ Cardinality(Places(lines, l)) = Cardinality(ChargedBy(imports, l))
        /\ imports \in SUBSET Contents
    BY DEF IInv, ChargedInv, SyncTyped
  <2>2. c \in Contents \ imports
    BY <1>1
  <2>3. /\ IsFiniteSet(ChargedBy(imports', l))
        /\ Cardinality(ChargedBy(imports', l)) =
             Cardinality(ChargedBy(imports, l)) + Cardinality(Places(rows, l))
    BY <2>1, <2>2, ChargedJoined DEF rows
  <2>4. Cardinality(Places(lines', l)) =
          Cardinality(Places(lines, l)) + Cardinality(Places(rows, l))
    BY <1>1, <1>6, <1>8, PlacesJoined
  <2> QED BY <2>1, <2>3, <2>4
<1> QED BY <1>9, <1>10, <1>13, <1>14, <1>15, <1>16 DEF IInv

LEMMA ImportKeeps == IInv /\ Import => IInv'
<1> SUFFICES ASSUME IInv, Import PROVE IInv'
  OBVIOUS
<1>1. scan.pc = "import" /\ UNCHANGED <<succeeded, dir, steady, faults>>
  BY DEF Import
<1>2. /\ faults' \in 0 .. MaxFaults /\ sources \in [Files -> Contents \cup {None}]
      /\ scan.data \in Contents
  BY <1>1 DEF IInv, SyncTyped, ScanInv
<1>3. CASE imported(TRUE) /\ UNCHANGED <<tables, syncTables>>
  <2>1. sources' \in [Files -> Contents \cup {None}]
    BY <1>2, <1>3 DEF syncTables
  <2>2. UNCHANGED <<tables, imports, succeeded, dir, steady>>
    BY <1>1, <1>3 DEF syncTables
  <2>3. TRUE \in BOOLEAN
    OBVIOUS
  <2> QED BY <1>1, <1>2, <1>3, <2>1, <2>2, <2>3, NothingImported
<1>4. CASE /\ Duplicate /\ rememberSource /\ imported(FALSE) /\ UNCHANGED <<tables, imports>>
  <2>1. sources' \in [Files -> Contents \cup {None}]
    BY <1>2, <1>4 DEF rememberSource
  <2>2. scan.data \in imports
    BY <1>4 DEF Duplicate
  <2>3. UNCHANGED <<tables, imports, succeeded, dir, steady>>
    BY <1>1, <1>4
  <2>4. FALSE \in BOOLEAN
    OBVIOUS
  <2> QED BY <1>1, <1>2, <1>4, <2>1, <2>2, <2>3, <2>4, NothingImported
<1>5. CASE /\ ~Duplicate /\ rememberSource /\ imported(FALSE)
           /\ lines' = Inserted(Rows[scan.data]).lines
           /\ statements' = Inserted(Rows[scan.data]).statements
           /\ requests' = Inserted(Rows[scan.data]).requests
           /\ imports' = imports \cup {scan.data}
           /\ UNCHANGED <<audit, snapshots, intervals, backfilled>>
  BY <1>1, <1>5, Accepted
<1>6. \/ imported(TRUE) /\ UNCHANGED <<tables, syncTables>>
      \/ /\ Duplicate /\ rememberSource /\ imported(FALSE) /\ UNCHANGED <<tables, imports>>
      \/ /\ ~Duplicate /\ rememberSource /\ imported(FALSE)
         /\ lines' = Inserted(Rows[scan.data]).lines
         /\ statements' = Inserted(Rows[scan.data]).statements
         /\ requests' = Inserted(Rows[scan.data]).requests
         /\ imports' = imports \cup {scan.data}
         /\ UNCHANGED <<audit, snapshots, intervals, backfilled>>
  BY Zenon DEF Import
<1> QED BY <1>3, <1>4, <1>5, <1>6

LEMMA NextInv == IInv /\ [Next]_vars => IInv'
<1> SUFFICES ASSUME IInv, [Next]_vars PROVE IInv'
  OBVIOUS
<1>1. CASE UNCHANGED vars
  <2>1. /\ SyncTyped' /\ ScanInv' /\ SteadyInv'
    BY <1>1 DEF IInv, SyncTyped, ScanInv, SteadyInv, vars, tables, syncTables
  <2>2. UNCHANGED <<tables, imports>>
    BY <1>1 DEF vars, syncTables
  <2> QED BY <2>1, <2>2, SyncStep
<1>2. CASE Backfill
  BY <1>2, BackfillKeeps
<1>3. ASSUME NEW r \in Requests, NEW a \in Audits, AppendAudit(r, a) PROVE IInv'
  BY <1>3, AppendAuditKeeps
<1>4. ASSUME NEW t \in Times, AppendBalanceSnapshot(t) PROVE IInv'
  BY <1>4, AppendBalanceSnapshotKeeps
<1>5. CASE Sync
  <2>1. ASSUME NEW f \in Files, Visit(f) PROVE IInv'
    BY <2>1, VisitKeeps
  <2> QED BY <1>5, <2>1, ScanStartKeeps, ImportKeeps, ImportFailsKeeps, ScanEndKeeps,
             RecordKeeps DEF Sync
<1>6. CASE Crash
  BY <1>6, CrashKeeps
<1>7. ASSUME NEW f \in Files, NEW x \in Contents \cup {None}, Edit(f, x) PROVE IInv'
  BY <1>7, EditKeeps
<1> QED BY <1>1, <1>2, <1>3, <1>4, <1>5, <1>6, <1>7 DEF Next

-----------------------------------------------------------------------------
(* A complete window.                                                      *)

\* What the tables say of a line that matches: its request is audited in the
\* currency, within the line's period.
LEMMA MatchedLine ==
  ASSUME IInv, backfilled, NEW i \in DOMAIN lines, statements[i] = "matched"
  PROVE  /\ lines[i] \in StatementLine /\ lines[i].request \in Requests
         /\ requests[lines[i].request] # None
         /\ requests[lines[i].request].currency = Currency
         /\ lines[i].start <= requests[lines[i].request].time
         /\ requests[lines[i].request].time < lines[i].end
<1> DEFINE l == lines[i]
           r == lines[i].request
<1>1. TypeOK /\ MaterializedIsSource
  BY TypeParts DEF IInv
<1>2. Agree(audit, lines, snapshots, requests, statements, intervals)
  BY <1>1, InAgreement
<1>3. l \in StatementLine /\ audit \in AuditTable /\ lines \in Seq(StatementLine)
  BY <1>1, TypedTables
<1>4. Status(audit, l) = "matched"
  BY <1>2 DEF Agree, Stated
<1>5. /\ r \in Requests /\ audit[r] # None /\ audit[r].currency = Currency
      /\ l.start <= audit[r].time /\ audit[r].time < l.end
  BY <1>3, <1>4, Matched
<1>6. requests[r] = RequestRow(audit, lines, r)
  BY <1>2, <1>5 DEF Agree, Requested
<1>7. RequestRow(audit, lines, r) # None
  BY <1>3, <1>5, RequestRowTyped
<1>8. /\ RequestRow(audit, lines, r).time = audit[r].time
      /\ RequestRow(audit, lines, r).currency = audit[r].currency
  BY DEF RequestRow
<1> QED BY <1>3, <1>5, <1>6, <1>7, <1>8

LEMMA Comparable == IInv => CompleteIsComparable
<1> SUFFICES ASSUME IInv, backfilled, NEW from \in Times, NEW to \in {0} \cup from + 1 .. MaxTime,
                    Complete(from, to)
             PROVE  /\ \A i \in FullLines(from, to) : lines[i].request \in RequestsOf(from, to)
                    /\ \A i \in DOMAIN lines :
                          lines[i].request \in RequestsOf(from, to) /\ statements[i] = "matched"
                              => i \in FullLines(from, to)
                    /\ LocalEstimated(from, to) = Cardinality(RequestsOf(from, to))
  BY DEF CompleteIsComparable
<1>1. from \in Nat /\ to \in Nat
  BY ReconciliationAssumptions DEF Times
<1>2. /\ PartialLines(from, to) = {}
      /\ \A i \in FullLines(from, to) : statements[i] = "matched"
      /\ \A r \in RequestsOf(from, to) : requests[r].known
  BY DEF Complete
<1>3. ASSUME NEW i \in DOMAIN lines, statements[i] = "matched"
      PROVE  /\ requests[lines[i].request].time \in Nat
             /\ lines[i].start \in Nat /\ lines[i].end \in Nat
  <2>1. /\ lines[i] \in StatementLine /\ lines[i].request \in Requests
        /\ requests[lines[i].request] # None
    BY <1>3, MatchedLine
  <2>2. requests[lines[i].request] \in RequestRows
    BY <2>1 DEF IInv, TablesTyped
  <2> QED BY <2>1, <2>2, LineTyped, ReconciliationAssumptions DEF RequestRows, Times
<1>4. ASSUME NEW i \in FullLines(from, to) PROVE lines[i].request \in RequestsOf(from, to)
  <2>1. i \in DOMAIN lines /\ Full(lines[i], from, to) /\ statements[i] = "matched"
    BY <1>2 DEF FullLines
  <2>2. InPeriod(requests[lines[i].request].time, from, to)
    BY <1>1, <1>3, <2>1, MatchedLine DEF InPeriod, Full
  <2> QED BY <2>1, <2>2, MatchedLine DEF RequestsOf
<1>5. ASSUME NEW i \in DOMAIN lines, lines[i].request \in RequestsOf(from, to),
             statements[i] = "matched"
      PROVE  i \in FullLines(from, to)
  <2>1. InPeriod(requests[lines[i].request].time, from, to)
    BY <1>5 DEF RequestsOf
  <2>2. Overlaps(lines[i], from, to)
    BY <1>1, <1>3, <1>5, <2>1, MatchedLine DEF InPeriod, Overlaps
  <2>3. Full(lines[i], from, to)
    <3>1. CASE from > 0 \/ to > 0
      BY <1>2, <2>2, <3>1 DEF PartialLines
    <3>2. CASE ~(from > 0 \/ to > 0)
      BY <1>1, <3>2 DEF Full
    <3> QED BY <3>1, <3>2
  <2> QED BY <2>3 DEF FullLines
<1>6. {r \in RequestsOf(from, to) : requests[r].known} = RequestsOf(from, to)
  BY <1>2
<1>7. LocalEstimated(from, to) = Cardinality(RequestsOf(from, to))
  BY <1>6 DEF LocalEstimated
<1> QED BY <1>4, <1>5, <1>7

-----------------------------------------------------------------------------

\* Nothing a report reads can be wrong for how it got there: whatever the order
\* of audits, statement lines and snapshots, the tables that the triggers keep
\* equal the views over what was written, and a window that is called complete
\* compares the supplier's total with the charges of its own requests.
THEOREM TablesAreConsistent == Spec => []TablesConsistent
<1>1. IInv => TablesConsistent
  BY TypeParts, Comparable DEF IInv, TablesConsistent
<1> QED BY <1>1, InitInv, NextInv, PTL DEF Spec

\* Every row of every accepted export is charged exactly once, and no other row
\* is: through renames, copies, changed files, failed imports and crashes.
THEOREM EveryRowIsChargedOnce == Spec => []ChargedOnce
<1>1. IInv => ChargedOnce
  <2> SUFFICES ASSUME IInv,
                      NEW l \in {lines[i] : i \in DOMAIN lines}
                                \cup UNION {{Rows[c][i] : i \in DOMAIN Rows[c]} : c \in Contents}
               PROVE  Occurrences(lines, l) = Cardinality({x \in Charges : Rows[x[1]][x[2]] = l})
    BY DEF ChargedOnce
  <2>1. l \in StatementLine
    <3>1. CASE l \in {lines[i] : i \in DOMAIN lines}
      <4>1. lines \in Seq(StatementLine)
        BY DEF IInv, TablesTyped
      <4> QED BY <3>1, <4>1
    <3>2. CASE l \in UNION {{Rows[c][i] : i \in DOMAIN Rows[c]} : c \in Contents}
      <4>1. PICK c \in Contents : l \in {Rows[c][i] : i \in DOMAIN Rows[c]}
        BY <3>2
      <4>2. Rows[c] \in Seq(StatementLine)
        BY ReconciliationAssumptions
      <4> QED BY <4>1, <4>2
    <3> QED BY <3>1, <3>2
  <2>2. Cardinality(Places(lines, l)) = Cardinality(ChargedBy(imports, l))
    BY <2>1 DEF IInv, ChargedInv
  <2>3. Occurrences(lines, l) = Cardinality(Places(lines, l))
    BY DEF Occurrences, Places
  <2>4. {x \in Charges : Rows[x[1]][x[2]] = l} = ChargedBy(imports, l)
    BY DEF Charges, ChargedBy
  <2> QED BY <2>2, <2>3, <2>4
<1> QED BY <1>1, InitInv, NextInv, PTL DEF Spec

\* A scan that is recorded as a success has imported every file that stayed in
\* the directory, untouched, from its start to its end.
THEOREM SuccessesAreHonest == Spec => SuccessIsHonest
<1>1. IInv /\ [Next]_vars =>
        [Record /\ faults' = faults /\ succeeded' => \A f \in steady : dir[f] \in imports]_vars
  <2> SUFFICES ASSUME IInv, Record, faults' = faults, succeeded', NEW f \in steady
               PROVE  dir[f] \in imports
    OBVIOUS
  <2>1. scan.pc = "record"
    BY DEF Record
  <2>2. ~scan.failed
    <3>1. ~Fault
      BY DEF Fault, IInv, SyncTyped
    <3> QED BY <3>1 DEF Record
  <2> QED BY <2>1, <2>2 DEF IInv, ScanInv, SteadyInv
<1> QED BY <1>1, InitInv, NextInv, PTL DEF Spec, SuccessIsHonest
-----------------------------------------------------------------------------
(* Sequences of anything.                                                  *)

Listed(s) == s \in Seq({s[i] : i \in DOMAIN s})

LEMMA ListedIn ==
  ASSUME NEW S, NEW s \in Seq(S)
  PROVE  Listed(s)
<1>1. /\ Len(s) \in Nat /\ DOMAIN s = 1 .. Len(s)
      /\ s = [i \in 1 .. Len(s) |-> s[i]]
  OBVIOUS
<1> DEFINE V == {s[i] : i \in DOMAIN s}
<1>2. \A i \in 1 .. Len(s) : s[i] \in V
  BY <1>1
<1> HIDE DEF V
<1>3. [i \in 1 .. Len(s) |-> s[i]] \in [1 .. Len(s) -> V]
  BY <1>2
<1>4. s \in [1 .. Len(s) -> V]
  BY <1>1, <1>3, Zenon
<1>5. s \in Seq(V)
  BY <1>1, <1>4, SeqDef, Zenon
<1> QED BY <1>5, Zenon DEF Listed, V

LEMMA ListedFacts ==
  ASSUME NEW s, Listed(s)
  PROVE  /\ Len(s) \in Nat /\ DOMAIN s = 1 .. Len(s)
         /\ s = <<>> <=> Len(s) = 0
         /\ s \o <<>> = s
<1> DEFINE V == {s[i] : i \in DOMAIN s}
<1>1. s \in Seq(V)
  BY DEF Listed
<1> HIDE DEF V
<1> QED BY <1>1

LEMMA ListedFew ==
  ASSUME NEW v, NEW w
  PROVE  /\ Listed(<<>>) /\ Listed(<<v>>) /\ Listed(<<v, w>>)
         /\ <<v>> = Append(<<>>, v) /\ <<v, w>> = Append(<<v>>, w)
<1>1. <<>> \in Seq({v, w}) /\ <<v>> \in Seq({v, w}) /\ <<v, w>> \in Seq({v, w})
  OBVIOUS
<1>2. Listed(<<>>) /\ Listed(<<v>>) /\ Listed(<<v, w>>)
  BY <1>1, ListedIn, Zenon
<1>3. /\ Append(<<>>, v) \in Seq({v, w}) /\ Append(<<v>>, w) \in Seq({v, w})
      /\ Len(Append(<<>>, v)) = 1 /\ Append(<<>>, v)[1] = v
      /\ Len(Append(<<v>>, w)) = 2 /\ Append(<<v>>, w)[1] = v /\ Append(<<v>>, w)[2] = w
  BY <1>1
<1>4. <<v>> = Append(<<>>, v)
  <2>1. Len(<<v>>) = 1 /\ <<v>>[1] = v
    OBVIOUS
  <2> DEFINE x == Append(<<>>, v)
             y == <<v>>
  <2> HIDE DEF x, y
  <2>2. \A i \in 1 .. Len(y) : y[i] = x[i]
    BY <1>3, <2>1 DEF x, y
  <2>3. y = x
    BY <1>1, <1>3, <2>1, <2>2, SeqEqual, Zenon DEF x, y
  <2> QED BY <2>3 DEF x, y
<1>5. <<v, w>> = Append(<<v>>, w)
  <2>1. Len(<<v, w>>) = 2 /\ <<v, w>>[1] = v /\ <<v, w>>[2] = w
    OBVIOUS
  <2> DEFINE x == Append(<<v>>, w)
             y == <<v, w>>
  <2> HIDE DEF x, y
  <2>2. \A i \in 1 .. Len(y) : y[i] = x[i]
    <3>1. Len(y) = 2 /\ y[1] = x[1] /\ y[2] = x[2]
      BY <1>3, <2>1 DEF x, y
    <3> QED BY <3>1
  <2>3. y = x
    BY <1>1, <1>3, <2>1, <2>2, SeqEqual, Zenon DEF x, y
  <2> QED BY <2>3 DEF x, y
<1> QED BY <1>2, <1>4, <1>5

LEMMA FewListed ==
  ASSUME NEW s, Listed(s)
  PROVE  /\ Len(s) = 1 => s = <<s[1]>>
         /\ Len(s) = 2 => s = <<s[1], s[2]>>
<1> DEFINE V == {s[i] : i \in DOMAIN s}
<1>1. s \in Seq(V) /\ DOMAIN s = 1 .. Len(s)
  BY DEF Listed
<1>2. \A i \in DOMAIN s : s[i] \in V
  OBVIOUS
<1> HIDE DEF V
<1>3. ASSUME Len(s) = 1 PROVE s = <<s[1]>>
  <2>1. s[1] \in V
    BY <1>1, <1>2, <1>3
  <2>2. <<s[1]>> \in Seq(V) /\ Len(<<s[1]>>) = 1 /\ <<s[1]>>[1] = s[1]
    BY <2>1
  <2>3. \A i \in 1 .. Len(s) : s[i] = <<s[1]>>[i]
    BY <1>3, <2>2
  <2> QED BY <1>1, <1>3, <2>2, <2>3, SeqEqual
<1>4. ASSUME Len(s) = 2 PROVE s = <<s[1], s[2]>>
  <2>1. s[1] \in V /\ s[2] \in V
    BY <1>1, <1>2, <1>4
  <2> DEFINE t == <<s[1], s[2]>>
  <2>2. t \in Seq(V) /\ Len(t) = 2 /\ t[1] = s[1] /\ t[2] = s[2]
    BY <2>1
  <2> HIDE DEF t
  <2>3. \A i \in 1 .. Len(s) : s[i] = t[i]
    BY <1>4, <2>2
  <2>4. s = t
    BY <1>1, <1>4, <2>2, <2>3, SeqEqual
  <2> QED BY <2>4 DEF t
<1> QED BY <1>3, <1>4

LEMMA ListedAppend ==
  ASSUME NEW s, Listed(s), NEW v
  PROVE  /\ Listed(Append(s, v)) /\ Append(s, v) # <<>>
         /\ Len(Append(s, v)) = Len(s) + 1
         /\ DOMAIN Append(s, v) = 1 .. Len(s) + 1
         /\ Append(s, v)[Len(s) + 1] = v
         /\ \A i \in DOMAIN s : Append(s, v)[i] = s[i]
<1> DEFINE V == {s[i] : i \in DOMAIN s}
           W == V \cup {v}
<1>1. s \in Seq(V)
  BY DEF Listed
<1> HIDE DEF V
<1>2. s \in Seq(W) /\ v \in W
  BY <1>1
<1> HIDE DEF W
<1>3. Append(s, v) \in Seq(W)
  BY <1>2
<1>4. Listed(Append(s, v))
  BY <1>3, ListedIn, Zenon
<1>5. Len(Append(s, v)) = Len(s) + 1 /\ Len(s) \in Nat /\ DOMAIN s = 1 .. Len(s)
  BY <1>2
<1>6. DOMAIN Append(s, v) = 1 .. Len(s) + 1 /\ Append(s, v) # <<>>
  BY <1>3, <1>5
<1>7. Append(s, v)[Len(s) + 1] = v /\ \A i \in DOMAIN s : Append(s, v)[i] = s[i]
  BY <1>2, <1>5
<1> QED BY <1>4, <1>5, <1>6, <1>7

LEMMA ListedConcat ==
  ASSUME NEW s, Listed(s), NEW x, Listed(x), NEW v
  PROVE  /\ Listed(s \o x) /\ Len(s \o x) = Len(s) + Len(x)
         /\ s \o Append(x, v) = Append(s \o x, v)
<1> DEFINE V == {s[i] : i \in DOMAIN s}
           X == {x[i] : i \in DOMAIN x}
           W == V \cup X \cup {v}
<1>1. s \in Seq(V) /\ x \in Seq(X)
  BY DEF Listed
<1> HIDE DEF V, X
<1>2. s \in Seq(W) /\ v \in W /\ x \in Seq(W)
  BY <1>1
<1> HIDE DEF W
<1>3. s \o x \in Seq(W) /\ Len(s \o x) = Len(s) + Len(x)
  BY <1>2
<1>4. s \o Append(x, v) = Append(s \o x, v)
  BY <1>2
<1> QED BY <1>3, <1>4, ListedIn

LEMMA ListedExcept ==
  ASSUME NEW s, Listed(s), NEW c \in DOMAIN s, NEW y, NEW t, t = [s EXCEPT ![c] = y]
  PROVE  Listed(t) /\ Len(t) = Len(s) /\ DOMAIN t = DOMAIN s
<1> DEFINE V == {s[i] : i \in DOMAIN s}
           W == V \cup {y}
<1>1. s \in Seq(V)
  BY DEF Listed
<1> HIDE DEF V
<1>2. s \in Seq(W) /\ y \in W
  BY <1>1
<1> HIDE DEF W
<1>3. t \in Seq(W) /\ Len(t) = Len(s) /\ DOMAIN t = DOMAIN s
  BY <1>2
<1> QED BY <1>3, ListedIn

\* Induction over the sequences of a set.
LEMMA InductionOnSeq ==
  ASSUME NEW V, NEW S, <<>> \in S, \A s \in Seq(V) : \A v \in V : s \in S => Append(s, v) \in S
  PROVE  Seq(V) \subseteq S
<1> DEFINE N == {n \in Nat : \A s \in Seq(V) : Len(s) = n => s \in S}
<1>1. 0 \in N
  <2>1. \A s \in Seq(V) : Len(s) = 0 => s = <<>>
    OBVIOUS
  <2> QED BY <2>1
<1>2. ASSUME NEW n \in N PROVE n + 1 \in N
  <2> SUFFICES ASSUME NEW s \in Seq(V), Len(s) = n + 1 PROVE s \in S
    OBVIOUS
  <2>1. n \in Nat
    OBVIOUS
  <2> DEFINE x == SubSeq(s, 1, n)
             v == s[n + 1]
  <2>2. x \in Seq(V) /\ Len(x) = n /\ v \in V /\ s = Append(x, v)
    BY <2>1
  <2> HIDE DEF x, v
  <2>3. x \in S
    BY <2>2
  <2> QED BY <2>2, <2>3
<1>3. N = Nat
  <2>1. N \in SUBSET Nat
    OBVIOUS
  <2> HIDE DEF N
  <2> QED BY <1>1, <1>2, <2>1, InductionOnNat
<1>4. ASSUME NEW s \in Seq(V) PROVE s \in S
  <2>1. Len(s) \in Nat
    OBVIOUS
  <2>2. Len(s) \in N
    BY <1>3, <2>1
  <2> QED BY <2>2
<1> QED BY <1>4
-----------------------------------------------------------------------------
(* Reading a sequence of events.                                           *)

\* f is the messages after the first k events.
Reads(m, events, k, f) ==
  f = [n \in 0 .. k |-> IF n = 0 THEN m ELSE Absorb(f[n - 1], events[n])]

InSteps(m, events, k, f) ==
  f[0] = m /\ \A n \in 1 .. k : f[n] = Absorb(f[n - 1], events[n])

LEMMA ReadsStep ==
  ASSUME NEW m, NEW events, NEW k, k \in Nat, NEW f, Reads(m, events, k, f)
  PROVE  InSteps(m, events, k, f)
<1>1. \A n \in 0 .. k : f[n] = IF n = 0 THEN m ELSE Absorb(f[n - 1], events[n])
  BY Zenon DEF Reads
<1> QED BY <1>1 DEF InSteps

LEMMA ReadsExist ==
  ASSUME NEW m, NEW events, NEW k \in Nat
  PROVE  \E f : Reads(m, events, k, f)
<1> DEFINE S == {n \in Nat : \E f : Reads(m, events, n, f)}
<1>1. 0 \in S
  <2> DEFINE f == [n \in {0} |-> m]
  <2>1. 0 .. 0 = {0} /\ f[0] = m
    OBVIOUS
  <2>2. f = [n \in 0 .. 0 |-> IF n = 0 THEN m ELSE Absorb(f[n - 1], events[n])]
    <3>1. f = [n \in {0} |-> f[n]]
      OBVIOUS
    <3> HIDE DEF f
    <3> QED BY <2>1, <3>1
  <2>3. Reads(m, events, 0, f)
    BY <2>2, Zenon DEF Reads
  <2> QED BY <2>3
<1>2. ASSUME NEW n \in S PROVE n + 1 \in S
  <2>1. PICK f : Reads(m, events, n, f)
    OBVIOUS
  <2> DEFINE v == Absorb(f[n], events[n + 1])
             g == [i \in 0 .. n + 1 |-> IF i = n + 1 THEN v ELSE f[i]]
             h == [i \in 0 .. n + 1 |-> IF i = 0 THEN m ELSE Absorb(g[i - 1], events[i])]
  <2>2. n \in Nat
    OBVIOUS
  <2>3. /\ f[0] = m
        /\ \A i \in 1 .. n : f[i] = Absorb(f[i - 1], events[i])
    <3>1. InSteps(m, events, n, f)
      BY <2>1, <2>2, ReadsStep, Zenon
    <3> QED BY <3>1 DEF InSteps
  <2>4. g = [i \in 0 .. n + 1 |-> g[i]] /\ h = [i \in 0 .. n + 1 |-> h[i]]
    OBVIOUS
  <2>5. ASSUME NEW i \in 0 .. n + 1 PROVE g[i] = h[i]
    <3>1. CASE i = 0
      BY <2>2, <2>3, <3>1
    <3>2. CASE i # 0 /\ i # n + 1
      <4>1. i - 1 \in Nat /\ i \in 1 .. n /\ i - 1 \in 0 .. n + 1 /\ i - 1 # n + 1
        BY <2>2, <3>2
      <4>2. g[i] = f[i] /\ g[i - 1] = f[i - 1]
        BY <3>2, <4>1
      <4>3. f[i] = Absorb(f[i - 1], events[i])
        BY <2>3, <4>1
      <4>4. h[i] = Absorb(g[i - 1], events[i])
        BY <3>2
      <4> QED BY <4>2, <4>3, <4>4
    <3>3. CASE i = n + 1
      <4>1. i - 1 = n /\ n \in 0 .. n + 1 /\ n # n + 1 /\ i # 0
        BY <2>2, <3>3
      <4>2. g[i] = v /\ g[n] = f[n]
        BY <3>3, <4>1
      <4>3. h[i] = Absorb(g[i - 1], events[i])
        BY <4>1
      <4> QED BY <3>3, <4>1, <4>2, <4>3
    <3> QED BY <3>1, <3>2, <3>3
  <2> HIDE DEF g
  <2>6. g = h
    <3> HIDE DEF h
    <3> QED BY <2>4, <2>5
  <2>7. Reads(m, events, n + 1, g)
    BY <2>6, Zenon DEF Reads
  <2> QED BY <2>2, <2>7
<1>3. S = Nat
  <2>1. S \in SUBSET Nat
    OBVIOUS
  <2> HIDE DEF S
  <2> QED BY <1>1, <1>2, <2>1, InductionOnNat
<1> QED BY <1>3

Begins(events, more, j) == \A i \in 1 .. j : events[i] = more[i]

\* Two readings agree as far as their events do.
LEMMA ReadsAgree ==
  ASSUME NEW m, NEW events, NEW more, NEW j, j \in Nat, NEW k, k \in Nat, j <= k,
         Begins(events, more, j),
         NEW f, Reads(m, events, j, f), NEW g, Reads(m, more, k, g)
  PROVE  f[j] = g[j]
<1> DEFINE S == {n \in Nat : n \in 0 .. j => f[n] = g[n]}
<1>1. /\ f[0] = m /\ g[0] = m
      /\ \A i \in 1 .. j : f[i] = Absorb(f[i - 1], events[i])
      /\ \A i \in 1 .. k : g[i] = Absorb(g[i - 1], more[i])
  <2>1. InSteps(m, events, j, f) /\ InSteps(m, more, k, g)
    BY ReadsStep, Zenon
  <2> QED BY <2>1 DEF InSteps
<1>2. 0 \in S
  BY <1>1
<1>3. ASSUME NEW n \in S PROVE n + 1 \in S
  <2> SUFFICES ASSUME n + 1 \in 0 .. j PROVE f[n + 1] = g[n + 1]
    OBVIOUS
  <2>1. n \in Nat /\ n \in 0 .. j /\ n + 1 \in 1 .. j /\ n + 1 \in 1 .. k /\ (n + 1) - 1 = n
    OBVIOUS
  <2>2. f[n] = g[n] /\ events[n + 1] = more[n + 1]
    BY <2>1 DEF Begins
  <2> QED BY <1>1, <2>1, <2>2
<1>4. S = Nat
  <2>1. S \in SUBSET Nat
    OBVIOUS
  <2> HIDE DEF S
  <2> QED BY <1>2, <1>3, <2>1, InductionOnNat
<1>5. j \in S /\ j \in 0 .. j
  BY <1>4
<1> QED BY <1>5

LEMMA AbsorbAllReads ==
  ASSUME NEW m, NEW events, Len(events) \in Nat
  PROVE  \E f : Reads(m, events, Len(events), f) /\ AbsorbAll(m, events) = f[Len(events)]
<1> DEFINE f == CHOOSE f : f = [n \in 0 .. Len(events) |->
                                  IF n = 0 THEN m ELSE Absorb(f[n - 1], events[n])]
<1>1. \E g : g = [n \in 0 .. Len(events) |-> IF n = 0 THEN m ELSE Absorb(g[n - 1], events[n])]
  <2>1. PICK g : Reads(m, events, Len(events), g)
    BY ReadsExist, Zenon
  <2>2. g = [n \in 0 .. Len(events) |-> IF n = 0 THEN m ELSE Absorb(g[n - 1], events[n])]
    BY <2>1, Zenon DEF Reads
  <2> QED BY <2>2, Zenon
<1>2. AbsorbAll(m, events) = f[Len(events)]
  BY Zenon DEF AbsorbAll
<1>3. Reads(m, events, Len(events), f)
  <2>1. f = [n \in 0 .. Len(events) |-> IF n = 0 THEN m ELSE Absorb(f[n - 1], events[n])]
    BY <1>1, Zenon
  <2> HIDE DEF f
  <2> QED BY <2>1, Zenon DEF Reads
<1> HIDE DEF f
<1> QED BY <1>2, <1>3, Zenon

LEMMA AbsorbNothing ==
  ASSUME NEW m
  PROVE  AbsorbAll(m, <<>>) = m
<1>1. Len(<<>>) = 0
  OBVIOUS
<1>2. PICK f : Reads(m, <<>>, 0, f) /\ AbsorbAll(m, <<>>) = f[0]
  BY <1>1, AbsorbAllReads
<1>3. InSteps(m, <<>>, 0, f)
  BY <1>2, ReadsStep
<1> QED BY <1>2, <1>3 DEF InSteps

LEMMA AbsorbMore ==
  ASSUME NEW m, NEW s, Listed(s), NEW v
  PROVE  AbsorbAll(m, Append(s, v)) = Absorb(AbsorbAll(m, s), v)
<1> DEFINE x == Append(s, v)
           k == Len(s)
<1>1. /\ k \in Nat /\ Len(x) = k + 1 /\ x[k + 1] = v /\ DOMAIN s = 1 .. k
      /\ \A i \in DOMAIN s : x[i] = s[i]
  BY ListedAppend, ListedFacts
<1> HIDE DEF x, k
<1>2. PICK f : Reads(m, s, k, f) /\ AbsorbAll(m, s) = f[k]
  BY <1>1, AbsorbAllReads DEF k
<1>3. PICK g : Reads(m, x, k + 1, g) /\ AbsorbAll(m, x) = g[k + 1]
  <2>1. k + 1 \in Nat
    BY <1>1
  <2> QED BY <1>1, <2>1, AbsorbAllReads
<1> DEFINE l == k + 1
<1>5. k \in Nat /\ l \in Nat /\ k <= l /\ k + 1 \in 1 .. l /\ (k + 1) - 1 = k /\ \A i \in 1 .. k : s[i] = x[i]
  BY <1>1
<1>6. Reads(m, s, k, f) /\ Reads(m, x, l, g) /\ AbsorbAll(m, x) = g[k + 1]
  BY <1>2, <1>3
<1> HIDE DEF l
<1>7. f[k] = g[k]
  <2>1. Begins(s, x, k)
    BY <1>5 DEF Begins
  <2>2. k \in Nat /\ l \in Nat /\ k <= l
    BY <1>5
  <2>3. Reads(m, s, k, f) /\ Reads(m, x, l, g)
    BY <1>6
  <2> QED BY <2>1, <2>2, <2>3, ReadsAgree
<1>8. \A n \in 1 .. l : g[n] = Absorb(g[n - 1], x[n])
  <2>1. InSteps(m, x, l, g)
    BY <1>5, <1>6, ReadsStep, Zenon
  <2> QED BY <2>1 DEF InSteps
<1>9. f[k] = g[k] /\ g[k + 1] = Absorb(g[k], x[k + 1])
  BY <1>5, <1>7, <1>8
<1> QED BY <1>1, <1>2, <1>6, <1>9 DEF x

LEMMA AbsorbOne ==
  ASSUME NEW m, NEW v, NEW s, s = <<v>>
  PROVE  AbsorbAll(m, s) = Absorb(m, v)
<1> DEFINE none == <<>>
<1>1. Listed(none) /\ s = Append(none, v)
  BY ListedFew, Zenon
<1>2. AbsorbAll(m, none) = m
  BY AbsorbNothing, Zenon
<1> HIDE DEF none
<1>3. AbsorbAll(m, Append(none, v)) = Absorb(AbsorbAll(m, none), v)
  BY <1>1, AbsorbMore, Zenon
<1> QED BY <1>1, <1>2, <1>3, Zenon

LEMMA AbsorbTwo ==
  ASSUME NEW m, NEW v, NEW w, NEW s, s = <<v, w>>
  PROVE  AbsorbAll(m, s) = Absorb(Absorb(m, v), w)
<1> DEFINE one == <<v>>
<1>1. Listed(one) /\ s = Append(one, w)
  BY ListedFew, Zenon
<1>2. AbsorbAll(m, one) = Absorb(m, v)
  BY AbsorbOne
<1> HIDE DEF one
<1>3. AbsorbAll(m, Append(one, w)) = Absorb(AbsorbAll(m, one), w)
  BY <1>1, AbsorbMore, Zenon
<1> QED BY <1>1, <1>2, <1>3, Zenon

LEMMA AbsorbConcat ==
  ASSUME NEW m, NEW s, Listed(s), NEW x, Listed(x)
  PROVE  AbsorbAll(m, s \o x) = AbsorbAll(AbsorbAll(m, s), x)
<1> DEFINE V == {x[i] : i \in DOMAIN x}
           S == {y \in Seq(V) : AbsorbAll(m, s \o y) = AbsorbAll(AbsorbAll(m, s), y)}
<1>1. x \in Seq(V)
  BY DEF Listed
<1> HIDE DEF V
<1>2. <<>> \in S
  <2>1. s \o <<>> = s /\ <<>> \in Seq(V)
    BY ListedFacts
  <2> QED BY <2>1, AbsorbNothing
<1>3. ASSUME NEW y \in Seq(V), NEW v \in V, y \in S PROVE Append(y, v) \in S
  <2>1. Listed(y) /\ Append(y, v) \in Seq(V)
    BY ListedIn
  <2>2. s \o Append(y, v) = Append(s \o y, v) /\ Listed(s \o y)
    BY <2>1, ListedConcat
  <2>3. AbsorbAll(m, s \o Append(y, v)) = Absorb(AbsorbAll(m, s \o y), v)
    BY <2>2, AbsorbMore
  <2>4. AbsorbAll(AbsorbAll(m, s), Append(y, v)) = Absorb(AbsorbAll(AbsorbAll(m, s), y), v)
    BY <2>1, AbsorbMore
  <2> QED BY <1>3, <2>1, <2>3, <2>4
<1>4. Seq(V) \subseteq S
  <2> HIDE DEF S
  <2> QED BY <1>2, <1>3, InductionOnSeq
<1> QED BY <1>1, <1>4

-----------------------------------------------------------------------------
(* Messages.                                                               *)

MessageFields == {"text", "full", "reasoning", "calls", "reason", "ended", "block", "open", "last",
                  "dropped", "resumed", "malformed", "stray"}

IsMessage(m) == DOMAIN m = MessageFields /\ m = [f \in MessageFields |-> m[f]]

Ends(v) == v.e \in {"done", "message_stop"}
GivesReason(v) == v.e \in {"finish", "message_delta"} /\ v.b # None

\* x says of the end of the message what m says.
SameEnd(m, x) == IsMessage(x) /\ x.reason = m.reason /\ x.ended = m.ended

LEMMA NoMessageIs == IsMessage(NoMessage) /\ NoMessage.reason = None /\ ~NoMessage.ended
BY DEF IsMessage, MessageFields, NoMessage

LEMMA SmallPartsKeepEnd ==
  ASSUME NEW m, IsMessage(m), NEW n, NEW c
  PROVE  /\ SameEnd(m, addText(m, n)) /\ SameEnd(m, addList(m, n))
         /\ SameEnd(m, addCall(m, n)) /\ SameEnd(m, addArgs(m, c, n))
<1>1. SameEnd(m, addText(m, n))
  BY DEF SameEnd, IsMessage, MessageFields, addText
<1>2. SameEnd(m, addCall(m, n))
  BY DEF SameEnd, IsMessage, MessageFields, addCall
<1>3. SameEnd(m, addArgs(m, c, n))
  BY DEF SameEnd, IsMessage, MessageFields, addArgs
<1>4. SameEnd(m, addList(m, n))
  BY DEF SameEnd, IsMessage, MessageFields, addList
<1> QED BY <1>1, <1>2, <1>3, <1>4

LEMMA BlocksKeepEnd ==
  ASSUME NEW m, IsMessage(m), NEW v
  PROVE  SameEnd(m, openBlock(m, v)) /\ SameEnd(m, addDelta(m, v))
<1>1. SameEnd(m, openBlock(m, v))
  <2> DEFINE x == IF v.b = "tool_use" THEN addCall(m, v.n) ELSE m
  <2>1. SameEnd(m, x)
    BY SmallPartsKeepEnd DEF SameEnd
  <2>2. openBlock(m, v) =
          [x EXCEPT !.block = Append(@, [type |-> v.b, call |-> Len(x.calls)]),
                    !.open = v.i,
                    !.dropped = @ \/ v.b = "server_tool_use",
                    !.malformed = @ \/ m.open # 0 \/ v.i # Len(m.block) + 1]
    BY Zenon DEF openBlock
  <2> HIDE DEF x
  <2> QED BY <2>1, <2>2 DEF SameEnd, IsMessage, MessageFields
<1>2. SameEnd(m, addDelta(m, v))
  <2> DEFINE x == CASE v.b = "text"     -> addText(m, v.n)
                    [] v.b = "thinking" -> addReasoning(m, v.n)
                    [] v.b = "json" /\ v.i \in DOMAIN m.block /\ m.block[v.i].type = "tool_use"
                                        -> addArgs(m, m.block[v.i].call, v.n)
                    [] OTHER            -> m
  <2>1. SameEnd(m, addReasoning(m, v.n))
    BY DEF SameEnd, IsMessage, MessageFields, addReasoning
  <2>2. SameEnd(m, m) /\ SameEnd(m, addText(m, v.n)) /\ SameEnd(m, addArgs(m, m.block[v.i].call, v.n))
    BY SmallPartsKeepEnd DEF SameEnd
  <2>3. \/ x = addText(m, v.n) \/ x = addReasoning(m, v.n)
        \/ x = addArgs(m, m.block[v.i].call, v.n) \/ x = m
    OBVIOUS
  <2>4. SameEnd(m, x)
    <3> HIDE DEF x
    <3> QED BY <2>1, <2>2, <2>3
  <2>5. addDelta(m, v) = [x EXCEPT !.malformed = @ \/ (v.b # "json" /\ v.i # m.open),
                                   !.stray = @ \/ v.i # m.open]
    BY Zenon DEF addDelta
  <2> HIDE DEF x
  <2> QED BY <2>4, <2>5 DEF SameEnd, IsMessage, MessageFields
<1> QED BY <1>1, <1>2

\* What one event does to the end of a message.
LEMMA AbsorbEnd ==
  ASSUME NEW m, IsMessage(m), NEW v
  PROVE  /\ IsMessage(Absorb(m, v))
         /\ ~Ends(v) => Absorb(m, v).ended = m.ended
         /\ Ends(v) => Absorb(m, v).ended
         /\ ~GivesReason(v) => Absorb(m, v).reason = m.reason
         /\ GivesReason(v) => Absorb(m, v).reason # None
<1> DEFINE x == Absorb(m, v)
<1>1. CASE v.e \in {"text", "list", "tool", "args", "start", "delta"}
  <2>1. \/ x = addText(m, v.n) \/ x = addList(m, v.n) \/ x = addCall(m, v.n) \/ x = addArgs(m, v.i, v.n)
        \/ x = openBlock(m, v) \/ x = addDelta(m, v)
    BY <1>1 DEF Absorb
  <2> HIDE DEF x
  <2>2. SameEnd(m, x)
    BY <2>1, SmallPartsKeepEnd, BlocksKeepEnd
  <2>3. ~Ends(v) /\ ~GivesReason(v)
    BY <1>1 DEF Ends, GivesReason
  <2> QED BY <2>2, <2>3 DEF SameEnd, x
<1>2. CASE v.e = "reasoning"
  <2>1. x = addReasoning(m, v.n)
    BY <1>2 DEF Absorb
  <2> QED BY <1>2, <2>1 DEF IsMessage, MessageFields, Ends, GivesReason, addReasoning
<1>3. CASE v.e = "stop"
  <2>1. x = [m EXCEPT !.open = 0, !.stray = @ \/ v.i # m.open]
    BY <1>3 DEF Absorb
  <2> QED BY <1>3, <2>1 DEF IsMessage, MessageFields, Ends, GivesReason
<1>4. CASE v.e \in {"finish", "message_delta"}
  <2>1. x = [m EXCEPT !.reason = IF v.b = None THEN @ ELSE v.b]
    BY <1>4 DEF Absorb
  <2> QED BY <1>4, <2>1 DEF IsMessage, MessageFields, Ends, GivesReason
<1>5. CASE v.e \in {"done", "message_stop"}
  <2>1. x = [m EXCEPT !.ended = TRUE, !.malformed = @ \/ m.open # 0]
    BY <1>5 DEF Absorb
  <2> QED BY <1>5, <2>1 DEF IsMessage, MessageFields, Ends, GivesReason
<1>6. CASE v.e \notin {"text", "list", "tool", "args", "start", "delta", "reasoning", "stop",
                       "finish", "message_delta", "done", "message_stop"}
  <2>1. x = m
    BY <1>6 DEF Absorb
  <2> QED BY <1>6, <2>1 DEF Ends, GivesReason
<1> QED BY <1>1, <1>2, <1>3, <1>4, <1>5, <1>6

LEMMA SilentEvents ==
  ASSUME NEW m, IsMessage(m), NEW s, Listed(s), ~streamSignalsCompletion(s)
  PROVE  SameEnd(m, AbsorbAll(m, s))
<1> DEFINE V == {s[i] : i \in DOMAIN s}
           S == {y \in Seq(V) : SameEnd(m, AbsorbAll(m, y))}
<1>1. s \in Seq(V)
  BY DEF Listed
<1>2. \A v \in V : ~Ends(v) /\ ~GivesReason(v)
  BY DEF streamSignalsCompletion, Ends, GivesReason
<1> HIDE DEF V
<1>3. <<>> \in S
  <2>1. <<>> \in Seq(V)
    OBVIOUS
  <2> QED BY <2>1, AbsorbNothing DEF SameEnd
<1>4. ASSUME NEW y \in Seq(V), NEW v \in V, y \in S PROVE Append(y, v) \in S
  <2>1. Listed(y) /\ Append(y, v) \in Seq(V)
    BY ListedIn
  <2>2. AbsorbAll(m, Append(y, v)) = Absorb(AbsorbAll(m, y), v)
    BY <2>1, AbsorbMore
  <2>3. SameEnd(m, AbsorbAll(m, y))
    BY <1>4
  <2>4. SameEnd(m, Absorb(AbsorbAll(m, y), v))
    BY <1>2, <2>3, AbsorbEnd DEF SameEnd
  <2> QED BY <2>1, <2>2, <2>4
<1>5. Seq(V) \subseteq S
  <2> HIDE DEF S
  <2> QED BY <1>3, <1>4, InductionOnSeq
<1> QED BY <1>1, <1>5

\* Ends and reasons are not taken back.
KeepsEnd(m, x) == IsMessage(x) /\ (m.ended => x.ended) /\ (m.reason # None => x.reason # None)

LEMMA FewEvents ==
  ASSUME NEW m, IsMessage(m), NEW s, Listed(s), Len(s) \in 0 .. 2
  PROVE  /\ KeepsEnd(m, AbsorbAll(m, s))
         /\ \A i \in DOMAIN s : Ends(s[i]) => AbsorbAll(m, s).ended
         /\ \A i \in DOMAIN s : GivesReason(s[i]) => AbsorbAll(m, s).reason # None
<1>1. DOMAIN s = 1 .. Len(s)
  BY ListedFacts
<1>2. CASE Len(s) = 0
  <2>1. s = <<>> /\ DOMAIN s = {}
    BY <1>1, <1>2, ListedFacts
  <2> QED BY <2>1, AbsorbNothing DEF KeepsEnd
<1>3. CASE Len(s) = 1
  <2> DEFINE v == s[1]
  <2>1. s = <<v>> /\ DOMAIN s = {1}
    BY <1>1, <1>3, FewListed
  <2>2. AbsorbAll(m, s) = Absorb(m, v)
    BY <2>1, AbsorbOne
  <2> QED BY <2>1, <2>2, AbsorbEnd DEF KeepsEnd
<1>4. CASE Len(s) = 2
  <2> DEFINE v == s[1]
             w == s[2]
             x == Absorb(m, v)
  <2>1. s = <<v, w>> /\ DOMAIN s = {1, 2}
    <3>1. 1 .. 2 = {1, 2}
      OBVIOUS
    <3>2. s = <<v, w>>
      BY <1>4, FewListed, Zenon
    <3> QED BY <1>1, <1>4, <3>1, <3>2, Zenon
  <2>2. AbsorbAll(m, s) = Absorb(x, w)
    <3> HIDE DEF v, w
    <3> QED BY <2>1, AbsorbTwo DEF x
  <2>3. KeepsEnd(m, x) /\ (Ends(v) => x.ended) /\ (GivesReason(v) => x.reason # None)
    BY AbsorbEnd DEF KeepsEnd
  <2> HIDE DEF x
  <2>4. KeepsEnd(x, Absorb(x, w))
    BY <2>3, AbsorbEnd DEF KeepsEnd
  <2>5. (Ends(w) => Absorb(x, w).ended) /\ (GivesReason(w) => Absorb(x, w).reason # None)
    BY <2>3, AbsorbEnd DEF KeepsEnd
  <2> QED BY <2>1, <2>2, <2>3, <2>4, <2>5 DEF KeepsEnd
<1> QED BY <1>2, <1>3, <1>4

-----------------------------------------------------------------------------
(* A frame through a translator.                                           *)

StateFields == {"t", "out", "bad"}

\* A state of a translator, with its output so far.
IsOutput(s) == DOMAIN s = StateFields /\ s = [f \in StateFields |-> s[f]] /\ Listed(s.out)

LEMMA EmitsOutput ==
  ASSUME NEW s, IsOutput(s), NEW v
  PROVE  /\ IsOutput(emits(s, v)) /\ emits(s, v).t = s.t /\ emits(s, v).bad = s.bad
         /\ emits(s, v).out = Append(s.out, v)
<1>1. emits(s, v) = [s EXCEPT !.out = Append(@, v)]
  BY DEF emits
<1>2. Listed(Append(s.out, v))
  BY ListedAppend DEF IsOutput
<1> QED BY <1>1, <1>2 DEF IsOutput, StateFields

\* The frames of a provider have one part or two.
FrameStart(t) ==
  [t |-> [t EXCEPT !.started = TRUE], bad |-> FALSE,
   out |-> IF t.started THEN <<>> ELSE <<Ev("message_start", 0, None, 0)>>]

LEMMA FrameStartIs ==
  ASSUME NEW t
  PROVE  /\ IsOutput(FrameStart(t)) /\ FrameStart(t).t = [t EXCEPT !.started = TRUE]
         /\ FrameStart(t).bad = FALSE
         /\ FrameStart(t).out = IF t.started THEN <<>> ELSE <<Ev("message_start", 0, None, 0)>>
<1>1. Listed(<<>>) /\ Listed(<<Ev("message_start", 0, None, 0)>>)
  BY ListedFew
<1> QED BY <1>1 DEF FrameStart, IsOutput, StateFields

LEMMA OneChunk ==
  ASSUME NEW t, NEW p, NEW parts, parts = <<p>>
  PROVE  OpenAIFrame(t, parts) = openAIPart(FrameStart(t), p)
<1> DEFINE s == FrameStart(t)
           f == CHOOSE f : f = [n \in 0 .. Len(parts) |->
                                  IF n = 0 THEN s ELSE openAIPart(f[n - 1], parts[n])]
           g == [n \in 0 .. 1 |-> IF n = 0 THEN s ELSE openAIPart(s, p)]
<1>1. OpenAIFrame(t, parts) = f[Len(parts)]
  BY Zenon DEF OpenAIFrame, FrameStart
<1> HIDE DEF s
<1>2. Len(parts) = 1 /\ parts[1] = p
  OBVIOUS
<1>3. g = [n \in 0 .. 1 |-> IF n = 0 THEN s ELSE openAIPart(g[n - 1], parts[n])]
  <2> DEFINE h == [n \in 0 .. 1 |-> IF n = 0 THEN s ELSE openAIPart(g[n - 1], parts[n])]
  <2>1. 0 .. 1 = {0, 1}
    OBVIOUS
  <2>2. g[0] = s /\ h[0] = s /\ g[1] = openAIPart(s, p)
    BY <2>1
  <2>3. h[1] = openAIPart(g[0], parts[1])
    BY <2>1
  <2>4. g = [n \in {0, 1} |-> g[n]] /\ h = [n \in {0, 1} |-> h[n]]
    BY <2>1
  <2>5. g[0] = h[0] /\ g[1] = h[1]
    BY <1>2, <2>2, <2>3
  <2> HIDE DEF g, h
  <2>6. g = h
    BY <2>4, <2>5
  <2> QED BY <2>6 DEF h
<1> HIDE DEF g
<1>4. f = [n \in 0 .. 1 |-> IF n = 0 THEN s ELSE openAIPart(f[n - 1], parts[n])]
  BY <1>2, <1>3, Zenon
<1> HIDE DEF f
<1>5. f[0] = s /\ f[1] = openAIPart(f[0], parts[1])
  BY <1>4
<1> QED BY <1>1, <1>2, <1>5, Zenon DEF s

LEMMA TwoChunks ==
  ASSUME NEW t, NEW p, NEW q, NEW parts, parts = <<p, q>>
  PROVE  OpenAIFrame(t, parts) = openAIPart(openAIPart(FrameStart(t), p), q)
<1> DEFINE s == FrameStart(t)
           x == openAIPart(s, p)
           f == CHOOSE f : f = [n \in 0 .. Len(parts) |->
                                  IF n = 0 THEN s ELSE openAIPart(f[n - 1], parts[n])]
           g == [n \in 0 .. 2 |-> IF n = 0 THEN s ELSE IF n = 1 THEN x ELSE openAIPart(x, q)]
<1>1. OpenAIFrame(t, parts) = f[Len(parts)]
  BY Zenon DEF OpenAIFrame, FrameStart
<1> HIDE DEF s
<1>2. Len(parts) = 2 /\ parts[1] = p /\ parts[2] = q
  OBVIOUS
<1>3. g = [n \in 0 .. 2 |-> IF n = 0 THEN s ELSE openAIPart(g[n - 1], parts[n])]
  <2> DEFINE h == [n \in 0 .. 2 |-> IF n = 0 THEN s ELSE openAIPart(g[n - 1], parts[n])]
  <2>1. 0 .. 2 = {0, 1, 2}
    OBVIOUS
  <2>2. g[0] = s /\ h[0] = s /\ g[1] = x /\ g[2] = openAIPart(x, q)
    BY <2>1
  <2>3. h[1] = openAIPart(g[0], parts[1]) /\ h[2] = openAIPart(g[1], parts[2])
    BY <2>1
  <2>4. g = [n \in {0, 1, 2} |-> g[n]] /\ h = [n \in {0, 1, 2} |-> h[n]]
    BY <2>1
  <2>5. g[0] = h[0] /\ g[1] = h[1] /\ g[2] = h[2]
    BY <1>2, <2>2, <2>3
  <2> HIDE DEF g, h
  <2>6. g = h
    BY <2>4, <2>5
  <2> QED BY <2>6 DEF h
<1> HIDE DEF g
<1>4. f = [n \in 0 .. 2 |-> IF n = 0 THEN s ELSE openAIPart(f[n - 1], parts[n])]
  BY <1>2, <1>3, Zenon
<1> HIDE DEF f
<1>5. f[0] = s /\ f[1] = openAIPart(f[0], parts[1]) /\ f[2] = openAIPart(f[1], parts[2])
  BY <1>4
<1> QED BY <1>1, <1>2, <1>5, Zenon DEF s, x

LEMMA BlocksOutput ==
  ASSUME NEW s, IsOutput(s), NEW type, NEW id
  PROVE  IsOutput(stopActiveBlock(s)) /\ IsOutput(startBlock(s, type, id))
<1>1. IsOutput(stopActiveBlock(s))
  <2> DEFINE x == [s EXCEPT !.t.active = None]
  <2>1. IsOutput(x)
    BY DEF IsOutput, StateFields
  <2> HIDE DEF x
  <2>2. IsOutput(emits(x, Ev("stop", s.t.index, None, 0)))
    BY <2>1, EmitsOutput
  <2> QED BY <2>2 DEF stopActiveBlock, x
<1>2. IsOutput(startBlock(s, type, id))
  <2> DEFINE x == stopActiveBlock(s)
             i == s.t.next
             y == [x EXCEPT !.t.active = type, !.t.index = i, !.t.next = i + 1]
  <2> HIDE DEF x, i
  <2>1. IsOutput(y)
    BY <1>1 DEF x, IsOutput, StateFields
  <2> HIDE DEF y
  <2>2. IsOutput(emits(y, Ev("start", i, type, id)))
    BY <2>1, EmitsOutput
  <2> QED BY <2>2, Zenon DEF startBlock, x, y, i
<1> QED BY <1>1, <1>2

LEMMA ToolOutput ==
  ASSUME NEW s, IsOutput(s), NEW p
  PROVE  IsOutput(toolBlock(s, p)) /\ IsOutput(toolPart(s, p))
<1>1. ASSUME NEW u, IsOutput(u) PROVE IsOutput(toolBlock(u, p))
  <2> DEFINE x == startBlock(u, "tool_use", p.n)
             y == stopActiveBlock(u)
             i == u.t.tools[p.i]
             bad == [u EXCEPT !.bad = TRUE]
             made == [x EXCEPT !.t.tools = Assign(@, p.i, x.t.index)]
             again == [y EXCEPT !.t.active = "tool_use", !.t.index = i]
  <2>1. \/ toolBlock(u, p) = bad \/ toolBlock(u, p) = made
        \/ toolBlock(u, p) = u \/ toolBlock(u, p) = again
    BY Zenon DEF toolBlock
  <2>2. IsOutput(x) /\ IsOutput(y)
    BY <1>1, BlocksOutput
  <2> HIDE DEF x, y, i
  <2>3. IsOutput(bad)
    BY <1>1 DEF IsOutput, StateFields
  <2>4. IsOutput(made)
    <3> DEFINE tt == [x.t EXCEPT !.tools = Assign(@, p.i, x.t.index)]
    <3>1. made = [x EXCEPT !.t = tt]
      BY <2>2 DEF IsOutput, StateFields
    <3> HIDE DEF tt, made
    <3> QED BY <2>2, <3>1 DEF IsOutput, StateFields
  <2>5. IsOutput(again)
    BY <2>2 DEF IsOutput, StateFields
  <2> QED BY <1>1, <2>1, <2>3, <2>4, <2>5, Zenon
<1>2. IsOutput(toolPart(s, p))
  <2> DEFINE u == [s EXCEPT !.t.sawVisible = TRUE]
             x == toolBlock(u, p)
  <2>1. IsOutput(u)
    BY DEF IsOutput, StateFields
  <2> HIDE DEF u
  <2>2. IsOutput(x)
    BY <1>1, <2>1
  <2> HIDE DEF x
  <2>3. IsOutput(emits(x, Ev("delta", x.t.index, "json", p.n)))
    BY <2>2, EmitsOutput
  <2> QED BY <2>2, <2>3, Zenon DEF toolPart, u, x
<1> QED BY <1>1, <1>2

LEMMA PartOutput ==
  ASSUME NEW s, IsOutput(s), NEW p
  PROVE  IsOutput(openAIPart(s, p))
<1>1. IsOutput(textPart(s, p))
  <2> DEFINE x == startBlock(s, "text", 0)
             y == [x EXCEPT !.t.sawVisible = TRUE]
  <2>1. IsOutput(x)
    BY BlocksOutput
  <2> HIDE DEF x
  <2>2. IsOutput(y)
    BY <2>1 DEF IsOutput, StateFields
  <2> HIDE DEF y
  <2>3. IsOutput(emits(y, Ev("delta", x.t.index, "text", p.n)))
    BY <2>2, EmitsOutput
  <2> QED BY <2>3, Zenon DEF textPart, x, y
<1>2. IsOutput(toolPart(s, p))
  BY ToolOutput
<1>3. IsOutput([s EXCEPT !.t.sawReasoning = TRUE])
  BY DEF IsOutput, StateFields
<1>4. IsOutput([s EXCEPT !.t.finished = TRUE, !.t.reason = p.b])
  BY DEF IsOutput, StateFields
<1>5. \/ openAIPart(s, p) = s \/ openAIPart(s, p) = textPart(s, p) \/ openAIPart(s, p) = toolPart(s, p)
      \/ openAIPart(s, p) = [s EXCEPT !.t.sawReasoning = TRUE]
      \/ openAIPart(s, p) = [s EXCEPT !.t.finished = TRUE, !.t.reason = p.b]
  BY DEF openAIPart
<1> QED BY <1>1, <1>2, <1>3, <1>4, <1>5

LEMMA OpenAIOutput ==
  ASSUME NEW t, NEW s, Listed(s), Len(s) \in 1 .. 2
  PROVE  IsOutput(OpenAIFrame(t, s))
<1> DEFINE p == s[1]
           q == s[2]
           x == FrameStart(t)
<1>1. IsOutput(x) /\ IsOutput(openAIPart(x, p)) /\ IsOutput(openAIPart(openAIPart(x, p), q))
  BY FrameStartIs, PartOutput
<1>2. CASE Len(s) = 1
  <2>1. s = <<p>>
    BY <1>2, FewListed
  <2> HIDE DEF p, q
  <2> QED BY <1>1, <2>1, OneChunk
<1>3. CASE Len(s) = 2
  <2>1. s = <<p, q>>
    BY <1>3, FewListed
  <2> HIDE DEF p, q
  <2>2. OpenAIFrame(t, s) = openAIPart(openAIPart(FrameStart(t), p), q)
    BY <2>1, TwoChunks
  <2> QED BY <1>1, <2>2
<1> QED BY <1>2, <1>3

LEMMA TerminalOutput ==
  ASSUME NEW t
  PROVE  IsOutput(OpenAITerminal(t)) /\ IsOutput(AnthropicTerminal(t))
<1>1. IsOutput([t |-> t, out |-> <<>>, bad |-> FALSE])
  BY ListedFew DEF IsOutput, StateFields
<1>2. IsOutput(AnthropicTerminal(t))
  BY ListedFew DEF AnthropicTerminal, IsOutput, StateFields
<1>3. IsOutput(OpenAITerminal(t))
  <2> DEFINE s == stopActiveBlock([t |-> t, out |-> <<>>, bad |-> FALSE])
             x == [s EXCEPT !.bad = TRUE]
             y == emits(emits(s, Ev("message_delta", 0, StopReason(t.reason), 0)),
                        Ev("message_stop", 0, None, 0))
  <2>1. OpenAITerminal(t) = x \/ OpenAITerminal(t) = y
    BY Zenon DEF OpenAITerminal
  <2>2. IsOutput(s)
    BY <1>1, BlocksOutput
  <2> HIDE DEF s
  <2>3. IsOutput(x)
    BY <2>2 DEF IsOutput, StateFields
  <2>4. IsOutput(y)
    BY <2>2, EmitsOutput
  <2> QED BY <2>1, <2>3, <2>4
<1> QED BY <1>2, <1>3

LEMMA AnthropicOutput ==
  ASSUME NEW t, NEW parts
  PROVE  IsOutput(AnthropicFrame(t, parts))
<1> DEFINE s == [t |-> t, out |-> <<>>, bad |-> FALSE]
           v == parts[1]
<1>1. IsOutput(s)
  BY ListedFew DEF IsOutput, StateFields
<1>2. AnthropicFrame(t, parts) \in {emits(s, Ev("role", 0, None, 0)), blockStart(s, v), blockDelta(s, v),
                                   messageDelta(s, v), s}
  BY Zenon DEF AnthropicFrame
<1> HIDE DEF s, v
<1>3. IsOutput(emits(s, Ev("role", 0, None, 0)))
  BY <1>1, EmitsOutput
<1>4. IsOutput(blockStart(s, v))
  <2> DEFINE x == [s EXCEPT !.t.sawVisible = TRUE, !.t.nextTool = @ + 1,
                            !.t.tools = Assign(@, v.i, s.t.nextTool)]
             y == [s EXCEPT !.t.serverTools = @ \cup {v.i}, !.t.sawDropped = TRUE]
  <2>1. blockStart(s, v) \in {emits(x, Ev("tool", s.t.nextTool, None, v.n)), y, s}
    BY Zenon DEF blockStart
  <2>2. IsOutput(x)
    <3> DEFINE tt == [s.t EXCEPT !.sawVisible = TRUE, !.nextTool = @ + 1,
                                 !.tools = Assign(@, v.i, s.t.nextTool)]
    <3>1. x = [s EXCEPT !.t = tt]
      BY <1>1 DEF IsOutput, StateFields
    <3> HIDE DEF tt, x
    <3> QED BY <1>1, <3>1 DEF IsOutput, StateFields
  <2>3. IsOutput(y)
    BY <1>1 DEF IsOutput, StateFields
  <2> HIDE DEF x, y
  <2>4. IsOutput(emits(x, Ev("tool", s.t.nextTool, None, v.n)))
    BY <2>2, EmitsOutput
  <2> QED BY <1>1, <2>1, <2>3, <2>4
<1>5. IsOutput(blockDelta(s, v))
  <2> DEFINE a == [s EXCEPT !.t.sawVisible = TRUE]
             b == [s EXCEPT !.t.sawReasoning = TRUE]
             c == [s EXCEPT !.bad = TRUE]
             d == [s EXCEPT !.t.sawDropped = TRUE]
  <2>1. blockDelta(s, v) \in {emits(a, Ev("text", 0, None, v.n)), emits(b, Ev("reasoning", 0, None, v.n)),
                              s, emits(s, Ev("args", s.t.tools[v.i], None, v.n)), c, d}
    BY Zenon DEF blockDelta, jsonDelta
  <2>2. IsOutput(a) /\ IsOutput(b) /\ IsOutput(c) /\ IsOutput(d)
    BY <1>1 DEF IsOutput, StateFields
  <2> HIDE DEF a, b, c, d
  <2>3. /\ IsOutput(emits(a, Ev("text", 0, None, v.n))) /\ IsOutput(emits(b, Ev("reasoning", 0, None, v.n)))
        /\ IsOutput(emits(s, Ev("args", s.t.tools[v.i], None, v.n)))
    BY <1>1, <2>2, EmitsOutput
  <2> QED BY <1>1, <2>1, <2>2, <2>3
<1>6. IsOutput(messageDelta(s, v))
  <2>1. IsOutput([s EXCEPT !.bad = TRUE]) /\ IsOutput(emits(s, Ev("finish", 0, FinishReason(v.b), 0)))
    BY <1>1, EmitsOutput DEF IsOutput, StateFields
  <2> QED BY <2>1, Zenon DEF messageDelta
<1> QED BY <1>1, <1>2, <1>3, <1>4, <1>5, <1>6

-----------------------------------------------------------------------------
(* The end of an answer.                                                   *)

FrameKinds == {"none", "data", "comment", "terminal", "broken", "refused"}

\* The frame that a read has returned, and the readers on both sides.
EndsTyped ==
  /\ phase \in {"headers", "read", "got", "audit", "reply", "done"}
  /\ failed \in BOOLEAN
  /\ reader \in [started : BOOLEAN, finished : BOOLEAN, total : Nat]
  /\ IsMessage(sent)
  /\ phase # "done" => IsMessage(client)
  /\ frame.kind \in FrameKinds /\ Listed(frame.parts) /\ Len(frame.parts) \in 0 .. 2
  /\ frame.kind = "data" => Len(frame.parts) # 0
  /\ phase \in {"headers", "read"} => frame.kind # "refused"

\* What was read of the end was sent, and what is not yet passed on is not known
\* to the client; an answer that did not fail has its end.
EndsInOrder ==
  /\ reader.finished => sent.reason # None
  /\ phase = "got" /\ Finishes => sent.reason # None
  /\ phase = "got" /\ frame.kind = "terminal" => sent.ended
  /\ phase \in {"audit", "reply"} /\ ~failed => sent.ended /\ sent.reason # None
  /\ phase \in {"reply", "done"} => failed \/ audited
  /\ phase # "done" => client.reason = None /\ ~client.ended /\ ~told
  /\ CompletionIsHonest

EndsInv == EndsTyped /\ EndsInOrder

\* The parts that a provider may send after the message m.
OpenAIParts(m, p) ==
  \/ \E n : p = <<Ev("text", 0, None, n)>>
  \/ \E n : p = <<Ev("list", 0, None, n)>>
  \/ \E n : p = <<Ev("reasoning", 0, None, n)>>
  \/ p = <<Ev("role", 0, None, 0)>>
  \/ p = <<Ev("tool", Len(m.calls) + 1, None, Len(m.calls) + 1)>>
  \/ \E i, n : p = <<Ev("args", i, None, n)>>
  \/ \E r \in Reasons["openai"] : p = <<Ev("finish", 0, r, 0)>>
  \/ \E n : p = <<Ev("text", 0, None, n), Ev("finish", 0, "length", 0)>>

AnthropicParts(m, p) ==
  \/ p = <<Ev("message_start", 0, None, 0)>>
  \/ \E b, n : m.open = 0 /\ p = <<Ev("start", Len(m.block) + 1, b, n)>>
  \/ \E n : m.open = 0 /\ p = <<Ev("delta", 0, "json", n)>>
  \/ \E n : \E b \in DeltasOf(m.block[m.open].type) : m.open # 0 /\ p = <<Ev("delta", m.open, b, n)>>
  \/ m.open # 0 /\ p = <<Ev("stop", m.open, None, 0)>>
  \/ \E r : (r = None => m.reason = None) /\ p = <<Ev("message_delta", 0, r, 0)>>

LEMMA OpenAIFramesCases ==
  ASSUME NEW p \in OpenAIFrames
  PROVE  OpenAIParts(sent, p)
<1> DEFINE roles == IF reader.started THEN {} ELSE {<<Ev("role", 0, None, 0)>>}
           tools == {<<Ev("tool", i, None, i)>> : i \in {Len(sent.calls) + 1} \cap 1 .. Calls}
           args == {<<Args(i)>> : i \in (1 .. Len(sent.calls) + 1) \cap 1 .. Calls}
           finishes == {<<Finish(r)>> : r \in Reasons["openai"]}
           one == <<Text>>
           two == <<Text, Finish("length")>>
           listed == <<Ev("list", 0, None, Len(sent.full) + 1)>>
           thought == <<Ev("reasoning", 0, None, Len(sent.reasoning) + 1)>>
<1>1. p = one \/ p = listed \/ p = thought \/ p \in roles \/ p \in tools \/ p \in args \/ p \in finishes \/ p = two
  <2>1. OpenAIFrames = {one, listed, thought} \cup roles \cup tools \cup args \cup finishes \cup {two}
    BY Zenon DEF OpenAIFrames
  <2> HIDE DEF one, two, listed, thought, roles, tools, args, finishes
  <2> QED BY <2>1
<1>2. p \in roles => p = <<Ev("role", 0, None, 0)>>
  BY Zenon
<1>3. p \in tools => p = <<Ev("tool", Len(sent.calls) + 1, None, Len(sent.calls) + 1)>>
  BY Zenon
<1>4. p \in args => \E i, n : p = <<Ev("args", i, None, n)>>
  BY Zenon DEF Args
<1>5. p \in finishes => \E r \in Reasons["openai"] : p = <<Ev("finish", 0, r, 0)>>
  BY Zenon DEF Finish
<1>6. p = one => \E n : p = <<Ev("text", 0, None, n)>>
  BY Zenon DEF Text
<1>7. p = thought => \E n : p = <<Ev("reasoning", 0, None, n)>>
  BY Zenon
<1>8. p = two => \E n : p = <<Ev("text", 0, None, n), Ev("finish", 0, "length", 0)>>
  BY Zenon DEF Text, Finish
<1>9. p = listed => \E n : p = <<Ev("list", 0, None, n)>>
  BY Zenon
<1> HIDE DEF one, two, listed, thought, roles, tools, args, finishes
<1> QED BY <1>1, <1>2, <1>3, <1>4, <1>5, <1>6, <1>7, <1>8, <1>9, Zenon DEF OpenAIParts

LEMMA AnthropicFramesCases ==
  ASSUME NEW p \in AnthropicFrames
  PROVE  AnthropicParts(sent, p)
<1> DEFINE I == IF sent.open = 0 THEN {Len(sent.block) + 1} \cap 1 .. Blocks ELSE {}
           B == {"text", "thinking", "server_tool_use"}
                \cup (IF Len(sent.calls) < Calls THEN {"tool_use"} ELSE {})
           begins == {<<Ev("start", i, b, IF b = "tool_use" THEN Len(sent.calls) + 1 ELSE 0)>> :
                        i \in I, b \in B}
           D == IF sent.open = 0 THEN {"json"} ELSE DeltasOf(sent.block[sent.open].type)
           deltas == {<<Delta(sent.open, b)>> : b \in D}
           stops == {<<Ev("stop", i, None, 0)>> : i \in {sent.open} \ {0}}
           R == Reasons["anthropic"] \cup (IF sent.reason = None THEN {None} ELSE {})
           reasons == {<<Ev("message_delta", 0, r, 0)>> : r \in R}
           first == <<Ev("message_start", 0, None, 0)>>
<1>1. p = first \/ p \in begins \/ p \in deltas \/ p \in stops \/ p \in reasons
  <2>1. AnthropicFrames = {first} \cup begins \cup deltas \cup stops \cup reasons
    BY SMT DEF AnthropicFrames
  <2> HIDE DEF first, begins, deltas, stops, reasons
  <2> QED BY <2>1
<1>2. p \in begins => \E b, n : sent.open = 0 /\ p = <<Ev("start", Len(sent.block) + 1, b, n)>>
  <2> SUFFICES ASSUME p \in begins
               PROVE  \E b, n : sent.open = 0 /\ p = <<Ev("start", Len(sent.block) + 1, b, n)>>
    OBVIOUS
  <2>1. PICK i \in I, b \in B :
          p = <<Ev("start", i, b, IF b = "tool_use" THEN Len(sent.calls) + 1 ELSE 0)>>
    <3> HIDE DEF I, B
    <3> QED OBVIOUS
  <2>2. sent.open = 0 /\ i = Len(sent.block) + 1
    <3> HIDE DEF B
    <3> QED OBVIOUS
  <2> QED BY <2>1, <2>2, Zenon
<1>3. p \in deltas => \E b \in D : \E n : p = <<Ev("delta", sent.open, b, n)>>
  <2> SUFFICES ASSUME p \in deltas
               PROVE  \E b \in D : \E n : p = <<Ev("delta", sent.open, b, n)>>
    OBVIOUS
  <2> HIDE DEF D
  <2>1. PICK b \in D : p = <<Delta(sent.open, b)>>
    BY Zenon
  <2>2. \E n : Delta(sent.open, b) = Ev("delta", sent.open, b, n)
    BY Zenon DEF Delta
  <2> QED BY <2>1, <2>2, Zenon
<1>4. p \in stops => sent.open # 0 /\ p = <<Ev("stop", sent.open, None, 0)>>
  BY Zenon
<1>5. p \in reasons => \E r : (r = None => sent.reason = None) /\ p = <<Ev("message_delta", 0, r, 0)>>
  <2> SUFFICES ASSUME p \in reasons
               PROVE  \E r : (r = None => sent.reason = None) /\ p = <<Ev("message_delta", 0, r, 0)>>
    OBVIOUS
  <2>1. PICK r \in R : p = <<Ev("message_delta", 0, r, 0)>>
    BY Zenon
  <2>2. r = None => sent.reason = None
    BY StreamingAssumptions
  <2> QED BY <2>1, <2>2, Zenon
<1>6. CASE sent.open = 0
  <2>1. D = {"json"}
    BY <1>6
  <2> HIDE DEF first, begins, deltas, stops, reasons, D
  <2>2. p \in deltas => \E n : p = <<Ev("delta", 0, "json", n)>>
    BY <1>3, <1>6, <2>1, Zenon
  <2> QED BY <1>1, <1>2, <1>4, <1>5, <1>6, <2>2, Zenon DEF AnthropicParts, first
<1>7. CASE sent.open # 0
  <2>1. D = DeltasOf(sent.block[sent.open].type)
    BY <1>7
  <2> HIDE DEF first, begins, deltas, stops, reasons, D
  <2>2. p \in deltas =>
          \E n : \E b \in DeltasOf(sent.block[sent.open].type) :
             sent.open # 0 /\ p = <<Ev("delta", sent.open, b, n)>>
    BY <1>3, <1>7, <2>1, Zenon
  <2> QED BY <1>1, <1>2, <1>4, <1>5, <1>7, <2>2, Zenon DEF AnthropicParts, first
<1> QED BY <1>6, <1>7

LEMMA Short ==
  ASSUME NEW s, NEW v, NEW w, s = <<v>> \/ s = <<v, w>>
  PROVE  Listed(s) /\ Len(s) \in 1 .. 2 /\ s[1] = v /\ 1 \in DOMAIN s
<1>1. Listed(s)
  BY ListedFew, Zenon
<1>2. Len(s) \in 1 .. 2 /\ s[1] = v
  OBVIOUS
<1>3. 1 \in DOMAIN s
  BY <1>1, <1>2, ListedFacts
<1> QED BY <1>1, <1>2, <1>3

LEMMA FramesShort ==
  ASSUME NEW f \in Frames
  PROVE  /\ f.kind \in FrameKinds /\ f.kind # "refused"
         /\ Listed(f.parts) /\ Len(f.parts) \in 0 .. 2
         /\ f.kind = "data" => Len(f.parts) # 0
         /\ f.kind = "terminal" => 1 \in DOMAIN f.parts /\ Ends(f.parts[1])
<1>1. ASSUME NEW p \in OpenAIFrames
      PROVE  \E v, w : p = <<v>> \/ p = <<v, w>>
  BY <1>1, OpenAIFramesCases, Zenon DEF OpenAIParts
<1>2. ASSUME NEW p \in AnthropicFrames
      PROVE  \E v : p = <<v>>
  <2>1. AnthropicParts(sent, p)
    BY <1>2, AnthropicFramesCases
  <2>2. CASE p = <<Ev("message_start", 0, None, 0)>>
    BY <2>2, Zenon
  <2>3. CASE \E b, n : sent.open = 0 /\ p = <<Ev("start", Len(sent.block) + 1, b, n)>>
    BY <2>3, Zenon
  <2>4. CASE \E n : sent.open = 0 /\ p = <<Ev("delta", 0, "json", n)>>
    BY <2>4, Zenon
  <2>5. CASE \E n : \E b \in DeltasOf(sent.block[sent.open].type) :
                sent.open # 0 /\ p = <<Ev("delta", sent.open, b, n)>>
    BY <2>5, Zenon
  <2>6. CASE sent.open # 0 /\ p = <<Ev("stop", sent.open, None, 0)>>
    BY <2>6, Zenon
  <2>7. CASE \E r : (r = None => sent.reason = None) /\ p = <<Ev("message_delta", 0, r, 0)>>
    BY <2>7, Zenon
  <2> QED BY <2>1, <2>2, <2>3, <2>4, <2>5, <2>6, <2>7, Zenon DEF AnthropicParts
<1>3. CASE f = [kind |-> "comment", parts |-> <<>>]
  <2>1. f.parts = <<>> /\ f.kind = "comment"
    BY <1>3
  <2>2. Listed(f.parts)
    BY <2>1, ListedFew, Zenon
  <2>3. Len(f.parts) = 0
    BY <2>1
  <2> QED BY <2>1, <2>2, <2>3 DEF FrameKinds
<1>4. CASE \E p \in OpenAIFrames \cup AnthropicFrames : f = [kind |-> "data", parts |-> p]
  <2>1. PICK p \in OpenAIFrames \cup AnthropicFrames : f = [kind |-> "data", parts |-> p]
    BY <1>4
  <2>2. \E v, w : p = <<v>> \/ p = <<v, w>>
    BY <1>1, <1>2, Zenon
  <2>3. Listed(p) /\ Len(p) \in 1 .. 2
    BY <2>2, Short, Zenon
  <2>4. f.kind = "data" /\ f.parts = p
    BY <2>1
  <2> QED BY <2>3, <2>4 DEF FrameKinds
<1>5. ASSUME NEW e \in {"done", "message_stop"},
             f = [kind |-> "terminal", parts |-> <<Ev(e, 0, None, 0)>>]
      PROVE  /\ f.kind = "terminal" /\ Listed(f.parts) /\ Len(f.parts) \in 1 .. 2
             /\ 1 \in DOMAIN f.parts /\ Ends(f.parts[1])
  <2>1. Ends(Ev(e, 0, None, 0))
    BY DEF Ev, Ends
  <2> DEFINE v == Ev(e, 0, None, 0)
  <2> HIDE DEF v
  <2>2. f.kind = "terminal" /\ f.parts = <<v>>
    BY <1>5 DEF v
  <2>3. Listed(f.parts) /\ Len(f.parts) \in 1 .. 2 /\ f.parts[1] = v /\ 1 \in DOMAIN f.parts
    BY <2>2, Short, Zenon
  <2> QED BY <2>1, <2>2, <2>3 DEF v
<1>6. \/ f = [kind |-> "comment", parts |-> <<>>]
      \/ \E p \in OpenAIFrames \cup AnthropicFrames : f = [kind |-> "data", parts |-> p]
      \/ f = [kind |-> "terminal", parts |-> <<Ev("done", 0, None, 0)>>]
      \/ f = [kind |-> "terminal", parts |-> <<Ev("message_stop", 0, None, 0)>>]
  BY Zenon DEF Frames
<1>7. CASE f.kind = "terminal" /\ Listed(f.parts) /\ Len(f.parts) \in 1 .. 2
           /\ 1 \in DOMAIN f.parts /\ Ends(f.parts[1])
  BY <1>7 DEF FrameKinds
<1> QED BY <1>3, <1>4, <1>5, <1>6, <1>7

LEMMA EndsInit == StreamInit => EndsInv
<1> SUFFICES ASSUME StreamInit PROVE EndsInv
  OBVIOUS
<1>1. sent = NoMessage /\ client = NoMessage /\ told = FALSE /\ frame = NoFrame
  BY Zenon DEF StreamInit
<1>2. Listed(frame.parts) /\ Len(frame.parts) = 0 /\ frame.kind = "none"
  BY <1>1, ListedFew DEF NoFrame
<1>3. IsMessage(sent) /\ IsMessage(client) /\ client.reason = None /\ ~client.ended /\ ~told
  BY <1>1, NoMessageIs
<1>4. reader.started = FALSE /\ reader.finished = FALSE /\ reader.total = 0 /\ phase = "headers" /\ failed = FALSE
  BY DEF StreamInit, NewReader
<1>5. EndsTyped
  <2>1. phase \in {"headers", "read", "got", "audit", "reply", "done"} /\ frame.kind \in FrameKinds
    BY <1>2, <1>4 DEF FrameKinds
  <2>2. frame.kind # "data" /\ frame.kind # "refused" /\ Len(frame.parts) \in 0 .. 2
    BY <1>2
  <2>3. reader \in [started : BOOLEAN, finished : BOOLEAN, total : Nat] /\ failed \in BOOLEAN
    BY DEF StreamInit, NewReader
  <2> QED BY <1>2, <1>3, <2>1, <2>2, <2>3 DEF EndsTyped
<1>6. EndsInOrder
  BY <1>3, <1>4 DEF EndsInOrder, CompletionIsHonest, CompletionAfterAudit, SuccessIsWhole
<1> QED BY <1>5, <1>6 DEF EndsInv

\* The steps of the provider.
LEMMA EndsSent ==
  ASSUME EndsInv, Headers \/ Arrive \/ Break
  PROVE  EndsInv'
<1> USE DEF EndsInv
<1>1. CASE Headers
  <2>1. /\ phase = "headers" /\ phase' = "read"
        /\ UNCHANGED <<frame, sent, reader, failed, audited, client, told>>
    BY <1>1, Zenon DEF Headers, readVars, replyVars
  <2>2. EndsTyped'
    BY <2>1 DEF EndsTyped
  <2>3. EndsInOrder'
    BY <2>1 DEF EndsInOrder, CompletionIsHonest, CompletionAfterAudit, SuccessIsWhole
  <2> QED BY <2>2, <2>3
<1>2. CASE Break
  <2>1. /\ phase \in {"headers", "read"} /\ phase' = "got"
        /\ frame'.kind \in {"refused", "broken"} /\ frame'.parts = <<>>
        /\ UNCHANGED <<sent, reader, failed, audited, client, told>>
    BY <1>2 DEF Break, replyVars
  <2>2. EndsTyped'
    <3>1. Listed(frame'.parts) /\ Len(frame'.parts) = 0
      BY <2>1, ListedFew
    <3>2. frame'.kind # "data" /\ frame'.kind \in FrameKinds /\ phase' = "got" /\ phase # "done"
      BY <2>1 DEF FrameKinds
    <3> QED BY <2>1, <3>1, <3>2 DEF EndsTyped
  <2>3. ~Finishes'
    BY <2>1 DEF Finishes
  <2>4. EndsInOrder'
    BY <2>1, <2>3 DEF EndsInOrder, CompletionIsHonest, CompletionAfterAudit, SuccessIsWhole
  <2> QED BY <2>2, <2>4
<1>3. CASE Arrive
  <2>1. PICK f \in Frames : frame' = f /\ sent' = AbsorbAll(sent, f.parts)
    BY <1>3, Zenon DEF Arrive
  <2>2. phase = "read" /\ phase' = "got" /\ UNCHANGED <<reader, failed, audited, client, told>>
    BY <1>3, Zenon DEF Arrive, replyVars
  <2>3. /\ frame'.kind \in FrameKinds /\ frame'.kind # "refused"
        /\ Listed(frame'.parts) /\ Len(frame'.parts) \in 0 .. 2
        /\ frame'.kind = "data" => Len(frame'.parts) # 0
        /\ frame'.kind = "terminal" => 1 \in DOMAIN frame'.parts /\ Ends(frame'.parts[1])
    BY <2>1, FramesShort
  <2>4. IsMessage(sent)
    BY DEF EndsTyped
  <2>5. /\ KeepsEnd(sent, sent')
        /\ \A i \in DOMAIN frame'.parts : Ends(frame'.parts[i]) => sent'.ended
        /\ \A i \in DOMAIN frame'.parts : GivesReason(frame'.parts[i]) => sent'.reason # None
    BY <2>1, <2>3, <2>4, FewEvents
  <2>6. EndsTyped'
    BY <2>2, <2>3, <2>5 DEF EndsTyped, KeepsEnd
  <2>7. Finishes' => sent'.reason # None
    BY <2>5 DEF Finishes, GivesReason
  <2>8. frame'.kind = "terminal" => sent'.ended
    BY <2>3, <2>5
  <2>9. EndsInOrder'
    BY <2>2, <2>5, <2>7, <2>8
       DEF EndsInOrder, KeepsEnd, CompletionIsHonest, CompletionAfterAudit, SuccessIsWhole
  <2> QED BY <2>6, <2>9
<1> QED BY <1>1, <1>2, <1>3

\* The attempt is over.
LEMMA EndsAttempt ==
  ASSUME EndsInv, phase = "got", NEW f \in BOOLEAN, attemptEnds(f), frame' = NoFrame,
         UNCHANGED <<sent, audited, told>>, IsMessage(client'), SameEnd(client, client'),
         ~f => sent.ended /\ sent.reason # None
  PROVE  EndsInv'
<1> USE DEF EndsInv
<1>1. phase' = "audit" /\ failed' = f /\ reader' = NewReader
  BY Zenon DEF attemptEnds
<1>2. reader'.finished = FALSE /\ reader' \in [started : BOOLEAN, finished : BOOLEAN, total : Nat]
  BY <1>1 DEF NewReader
<1>3. frame'.kind = "none" /\ Listed(frame'.parts) /\ Len(frame'.parts) = 0
  <2>1. frame'.kind = "none" /\ frame'.parts = <<>>
    BY DEF NoFrame
  <2> QED BY <2>1, ListedFew
<1>4. EndsTyped'
  <2>1. phase' \in {"headers", "read", "got", "audit", "reply", "done"} /\ phase' # "done"
        /\ phase' \notin {"headers", "read"} /\ frame'.kind \in FrameKinds /\ frame'.kind # "data"
    BY <1>1, <1>3 DEF FrameKinds
  <2>2. IsMessage(sent') /\ failed' \in BOOLEAN /\ Len(frame'.parts) \in 0 .. 2
    BY <1>1, <1>3 DEF EndsTyped
  <2> QED BY <1>2, <1>3, <2>1, <2>2 DEF EndsTyped
<1>5. client.reason = None /\ ~client.ended /\ ~told
  BY DEF EndsInOrder
<1>6. client'.reason = None /\ ~client'.ended /\ ~told'
  BY <1>5 DEF SameEnd
<1>7. EndsInOrder'
  BY <1>1, <1>2, <1>6 DEF EndsInOrder, CompletionIsHonest, CompletionAfterAudit, SuccessIsWhole
<1> QED BY <1>4, <1>7

LEMMA TranslateListed ==
  ASSUME EndsTyped, frame.kind \in {"data", "comment"}, ~Rejected
  PROVE  Listed(Translate.out)
<1>1. CASE ~translated
  <2>1. Translate.out = frame.parts
    BY <1>1 DEF Translate
  <2> QED BY <2>1 DEF EndsTyped
<1>2. CASE translated /\ frame.kind = "comment"
  <2>1. Translate.out = <<>>
    BY <1>2 DEF Translate
  <2> QED BY <2>1, ListedFew
<1>3. CASE translated /\ frame.kind = "data" /\ provider = "openai"
  <2>1. Translate = OpenAIFrame(tr, frame.parts)
    BY <1>3 DEF Translate
  <2>2. Len(frame.parts) \in 1 .. 2 /\ Listed(frame.parts)
    BY <1>3 DEF EndsTyped
  <2> QED BY <2>1, <2>2, OpenAIOutput DEF IsOutput
<1>4. CASE translated /\ frame.kind = "data" /\ provider # "openai"
  <2>1. Translate = AnthropicFrame(tr, frame.parts)
    BY <1>4 DEF Translate
  <2> QED BY <2>1, AnthropicOutput DEF IsOutput
<1> QED BY <1>1, <1>2, <1>3, <1>4

\* What ReadFrame writes tells the client of no end.
LEMMA WritesSilently ==
  ASSUME EndsInv, phase = "got", ReadFrame
  PROVE  IsMessage(client') /\ SameEnd(client, client')
<1>1. frame.kind \in {"data", "comment"} /\ ~Rejected
  BY Zenon DEF ReadFrame
<1> DEFINE x == Translate
           writes == ~x.bad /\ (x.out # <<>> \/ ~translated) /\ ~HoldsBack(x.out)
<1>2. client' = client \/ (writes /\ client' = AbsorbAll(client, x.out))
  <2>1. client' = IF writes /\ ~gone THEN AbsorbAll(client, x.out) ELSE client
    BY DEF ReadFrame
  <2> HIDE DEF writes
  <2> QED BY <2>1
<1>3. Listed(x.out) /\ IsMessage(client)
  BY <1>1, TranslateListed DEF EndsInv, EndsTyped
<1>4. CASE client' = client
  BY <1>3, <1>4 DEF SameEnd
<1>5. CASE writes /\ client' = AbsorbAll(client, x.out)
  <2>1. ~streamSignalsCompletion(x.out)
    BY <1>5 DEF HoldsBack
  <2> HIDE DEF x
  <2>2. SameEnd(client, AbsorbAll(client, x.out))
    BY <1>3, <2>1, SilentEvents
  <2> QED BY <1>5, <2>2 DEF SameEnd
<1> QED BY <1>2, <1>4, <1>5

\* The steps of the handler while it reads.
LEMMA EndsRead ==
  ASSUME EndsInv, ReadFails \/ ReadTerminal \/ ReadFrame
  PROVE  EndsInv'
<1>1. CASE ReadFails
  <2>1. /\ phase = "got" /\ attemptEnds(TRUE) /\ frame' = NoFrame
        /\ UNCHANGED <<sent, audited, told, client>>
    BY <1>1, Zenon DEF ReadFails, replyVars
  <2>2. IsMessage(client') /\ SameEnd(client, client')
    BY <2>1 DEF EndsInv, EndsTyped, SameEnd
  <2> QED BY <2>1, <2>2, EndsAttempt
<1>2. CASE ReadTerminal
  <2>1. /\ phase = "got" /\ frame.kind = "terminal" /\ ~Rejected /\ frame' = NoFrame
        /\ UNCHANGED <<sent, audited, told, client>>
    BY <1>2, Zenon DEF ReadTerminal, replyVars
  <2>2. \E f \in BOOLEAN : attemptEnds(f)
    <3> DEFINE bad == Terminal.bad \/ Len(held) + Len(Terminal.out) > StreamBytes
    <3>1. attemptEnds(bad)
      BY <1>2, Zenon DEF ReadTerminal
    <3> HIDE DEF bad
    <3>2. CASE bad
      <4>1. bad = TRUE
        BY <3>2
      <4> QED BY <3>1, <4>1
    <3>3. CASE ~bad
      <4>1. bad = FALSE
        BY <3>3
      <4> QED BY <3>1, <4>1
    <3> QED BY <3>2, <3>3
  <2>3. PICK f \in BOOLEAN : attemptEnds(f)
    BY <2>2
  <2>4. sent.ended /\ sent.reason # None
    BY <2>1 DEF EndsInv, EndsInOrder, Rejected, Whole
  <2>5. IsMessage(client') /\ SameEnd(client, client')
    BY <2>1 DEF EndsInv, EndsTyped, SameEnd
  <2> QED BY <2>1, <2>3, <2>4, <2>5, EndsAttempt
<1>3. CASE ReadFrame
  <2>1. /\ phase = "got" /\ frame' = NoFrame /\ UNCHANGED <<sent, audited, told>>
    BY <1>3, Zenon DEF ReadFrame
  <2>2. IsMessage(client') /\ SameEnd(client, client')
    BY <1>3, <2>1, WritesSilently
  <2>3. CASE attemptEnds(TRUE)
    BY <2>1, <2>2, <2>3, EndsAttempt
  <2>4. CASE /\ phase' = "read" /\ UNCHANGED failed
             /\ reader' = [started  |-> reader.started \/ Starts,
                           finished |-> reader.finished \/ Finishes,
                           total    |-> reader.total + 1]
    <3>1. frame'.kind = "none" /\ Listed(frame'.parts) /\ Len(frame'.parts) = 0
      <4>1. frame'.kind = "none" /\ frame'.parts = <<>>
        BY <2>1 DEF NoFrame
      <4> QED BY <4>1, ListedFew
    <3>2. reader'.finished <=> reader.finished \/ Finishes
      BY <2>4
    <3>3. reader' \in [started : BOOLEAN, finished : BOOLEAN, total : Nat]
      <4>1. reader.total + 1 \in Nat
        BY DEF EndsInv, EndsTyped
      <4>2. (reader.started \/ Starts) \in BOOLEAN /\ (reader.finished \/ Finishes) \in BOOLEAN
        BY Zenon
      <4> QED BY <2>4, <4>1, <4>2
    <3>4. EndsTyped'
      <4>1. phase' \in {"headers", "read", "got", "audit", "reply", "done"}
            /\ frame'.kind \in FrameKinds /\ frame'.kind # "data" /\ frame'.kind # "refused"
        BY <2>4, <3>1 DEF FrameKinds
      <4>2. IsMessage(sent') /\ failed' \in BOOLEAN /\ Len(frame'.parts) \in 0 .. 2
        BY <2>1, <2>4, <3>1 DEF EndsInv, EndsTyped
      <4> QED BY <2>2, <3>1, <3>3, <4>1, <4>2 DEF EndsTyped
    <3>5. client'.reason = None /\ ~client'.ended /\ ~told'
      BY <2>1, <2>2 DEF EndsInv, EndsInOrder, SameEnd
    <3>6. reader'.finished => sent'.reason # None
      BY <2>1, <3>2 DEF EndsInv, EndsInOrder
    <3>7. EndsInOrder'
      BY <2>4, <3>5, <3>6 DEF EndsInOrder, CompletionIsHonest, CompletionAfterAudit, SuccessIsWhole
    <3> QED BY <3>4, <3>7 DEF EndsInv
  <2> QED BY <1>3, <2>3, <2>4 DEF ReadFrame
<1> QED BY <1>1, <1>2, <1>3

\* The audit, the reply, the timer, and the client that leaves.
LEMMA EndsClosed ==
  ASSUME EndsInv, Audit \/ Reply \/ Leave \/ Expire \/ \E d \in due : Callback(d)
  PROVE  EndsInv'
<1> USE DEF EndsInv
<1>1. CASE Audit
  <2>1. /\ phase = "audit" /\ phase' = "reply" /\ UNCHANGED <<frame, sent, reader, client, told>>
        /\ \/ audited' = TRUE /\ UNCHANGED failed
           \/ failed' = TRUE /\ UNCHANGED audited
    BY <1>1, Zenon DEF Audit, readVars
  <2>2. EndsTyped'
    BY <2>1 DEF EndsTyped
  <2>3. EndsInOrder'
    BY <2>1 DEF EndsInOrder, CompletionIsHonest, CompletionAfterAudit, SuccessIsWhole
  <2> QED BY <2>2, <2>3
<1>2. CASE Reply
  <2>1. /\ phase = "reply" /\ phase' = "done" /\ UNCHANGED <<frame, sent, reader, failed, audited>>
        /\ failed => client' = client
        /\ ~failed => told' = told
    BY <1>2, Zenon DEF Reply, readVars
  <2>2. EndsTyped'
    BY <2>1 DEF EndsTyped
  <2>3. EndsInOrder'
    BY <2>1 DEF EndsInOrder, CompletionIsHonest, CompletionAfterAudit, SuccessIsWhole
  <2> QED BY <2>2, <2>3
<1>3. CASE Leave \/ Expire \/ \E d \in due : Callback(d)
  <2>1. UNCHANGED <<phase, frame, sent, reader, failed, audited, client, told>>
    BY <1>3, Zenon DEF Leave, Expire, Callback, readVars, replyVars
  <2>2. EndsTyped'
    BY <2>1 DEF EndsTyped
  <2>3. EndsInOrder'
    BY <2>1 DEF EndsInOrder, Finishes, CompletionIsHonest, CompletionAfterAudit, SuccessIsWhole
  <2> QED BY <2>2, <2>3
<1> QED BY <1>1, <1>2, <1>3

LEMMA EndsNext ==
  ASSUME EndsInv, [StreamNext]_streamVars
  PROVE  EndsInv'
<1>1. CASE UNCHANGED streamVars
  <2>1. UNCHANGED <<phase, frame, sent, reader, failed, audited, client, told>>
    BY <1>1, Zenon DEF streamVars, readVars, replyVars
  <2>2. EndsTyped'
    BY <2>1 DEF EndsInv, EndsTyped
  <2>3. EndsInOrder'
    BY <2>1 DEF EndsInv, EndsInOrder, Finishes, CompletionIsHonest, CompletionAfterAudit, SuccessIsWhole
  <2> QED BY <2>2, <2>3 DEF EndsInv
<1>2. CASE StreamNext
  BY <1>2, EndsSent, EndsRead, EndsClosed DEF StreamNext
<1> QED BY <1>1, <1>2

\* No client learns that its turn is complete before the audit is committed, and
\* an answer that ends well was whole (CompletionIsHonest).
THEOREM CompletionFollowsAudit == StreamSpec => []CompletionIsHonest
<1>1. EndsInv => CompletionIsHonest
  BY DEF EndsInv, EndsInOrder
<1> QED BY <1>1, EndsInit, EndsNext, PTL DEF StreamSpec

-----------------------------------------------------------------------------
(* The idle timer.                                                         *)

\* At most one callback is due, and one of the present generation is due for the
\* wait that goes on.
TimerInv ==
  /\ phase \in {"headers", "read", "got", "audit", "reply", "done"}
  /\ generation \in Nat /\ timer \in {0, generation}
  /\ timer # 0 => AwaitsUpstream
  /\ \A d, e \in due : d = e
  /\ \A d \in due : d.generation \in Nat /\ d.generation <= generation
  /\ \A d \in due : d.generation = generation => AwaitsUpstream /\ d.wait = WaitNumber
  /\ phase \in {"headers", "read"} => frame.kind # "refused"

LEMMA TimerInit == StreamInit => TimerInv
<1> SUFFICES ASSUME StreamInit PROVE TimerInv
  OBVIOUS
<1>1. phase = "headers" /\ timer = 1 /\ generation = 1 /\ due = {} /\ frame = NoFrame
  BY Zenon DEF StreamInit
<1> QED BY <1>1 DEF TimerInv, AwaitsUpstream, NoFrame

\* A step that stops the timer leaves older callbacks without effect.
LEMMA TimerStopped ==
  ASSUME TimerInv, NEW again \in BOOLEAN, stop(again), due' = due,
         phase' \in {"headers", "read", "got", "audit", "reply", "done"},
         again => phase' = "read",
         phase' \in {"headers", "read"} => frame'.kind # "refused"
  PROVE  TimerInv'
<1>1. /\ generation' \in Nat /\ generation' > generation /\ timer' \in {0, generation'}
      /\ timer' # 0 => again
  BY DEF stop, TimerInv
<1>2. \A d \in due : d.generation \in Nat /\ d.generation <= generation' /\ d.generation # generation'
  BY <1>1 DEF TimerInv
<1>3. timer' # 0 => AwaitsUpstream'
  BY <1>1 DEF AwaitsUpstream
<1> QED BY <1>1, <1>2, <1>3 DEF TimerInv

\* A step that leaves the timer alone and does not end the wait.
LEMMA TimerLeft ==
  ASSUME TimerInv, UNCHANGED <<timer, generation, due>>,
         phase' \in {"headers", "read", "got", "audit", "reply", "done"},
         AwaitsUpstream => AwaitsUpstream' /\ WaitNumber' = WaitNumber,
         phase' \in {"headers", "read"} => frame'.kind # "refused"
  PROVE  TimerInv'
BY DEF TimerInv

LEMMA TimerNext ==
  ASSUME TimerInv, [StreamNext]_streamVars
  PROVE  TimerInv'
<1> DEFINE Phases == {"headers", "read", "got", "audit", "reply", "done"}
<1>1. CASE Headers
  <2>1. stop(TRUE) /\ due' = due /\ phase' = "read" /\ phase = "headers" /\ frame' = frame
    BY <1>1, Zenon DEF Headers, readVars
  <2>2. frame'.kind # "refused"
    BY <2>1 DEF TimerInv
  <2> QED BY <2>1, <2>2, TimerStopped
<1>2. CASE Arrive
  <2>1. PICK f \in Frames : frame' = f
    BY <1>2, Zenon DEF Arrive
  <2>2. /\ UNCHANGED <<timer, generation, due, reader>> /\ phase = "read" /\ phase' = "got"
    BY <1>2, Zenon DEF Arrive, timerVars
  <2>3. frame'.kind # "refused" /\ frame.kind # "refused"
    BY <2>1, <2>2, FramesShort DEF TimerInv
  <2>4. AwaitsUpstream' /\ WaitNumber' = WaitNumber
    BY <2>2, <2>3 DEF AwaitsUpstream, WaitNumber
  <2> QED BY <2>2, <2>4, TimerLeft
<1>3. CASE Break
  <2>1. /\ UNCHANGED <<timer, generation, due, reader>> /\ phase \in {"headers", "read"} /\ phase' = "got"
        /\ frame'.kind = IF phase = "headers" THEN "refused" ELSE "broken"
    BY <1>3 DEF Break, timerVars
  <2>2. AwaitsUpstream' /\ WaitNumber' = WaitNumber
    BY <2>1 DEF AwaitsUpstream, WaitNumber, TimerInv
  <2> QED BY <2>1, <2>2, TimerLeft
<1>4. CASE ReadFails \/ ReadTerminal
  <2>1. stop(FALSE) /\ due' = due /\ phase' = "audit"
    BY <1>4, Zenon DEF ReadFails, ReadTerminal, attemptEnds
  <2> QED BY <2>1, TimerStopped
<1>5. CASE ReadFrame
  <2>1. due' = due /\ frame' = NoFrame
        /\ \/ stop(FALSE) /\ phase' = "audit"
           \/ stop(TRUE) /\ phase' = "read"
    BY <1>5, Zenon DEF ReadFrame, attemptEnds
  <2>2. frame'.kind # "refused"
    BY <2>1 DEF NoFrame
  <2> QED BY <2>1, <2>2, TimerStopped
<1>6. CASE Audit \/ Reply
  <2>1. UNCHANGED <<timer, generation, due>> /\ phase \in {"audit", "reply"} /\ phase' \in {"reply", "done"}
    BY <1>6, Zenon DEF Audit, Reply, timerVars
  <2>2. ~AwaitsUpstream
    BY <2>1 DEF AwaitsUpstream
  <2> QED BY <2>1, <2>2, TimerLeft
<1>7. CASE Leave \/ UNCHANGED streamVars
  <2>1. UNCHANGED <<timer, generation, due, phase, frame, reader>>
    BY <1>7, Zenon DEF Leave, readVars, streamVars, timerVars
  <2>2. AwaitsUpstream' = AwaitsUpstream /\ WaitNumber' = WaitNumber
    BY <2>1 DEF AwaitsUpstream, WaitNumber
  <2>3. phase' \in Phases /\ (phase' \in {"headers", "read"} => frame'.kind # "refused")
    BY <2>1 DEF TimerInv
  <2> QED BY <2>1, <2>2, <2>3, TimerLeft
<1>8. CASE Expire
  <2>1. /\ due = {} /\ timer # 0 /\ due' = {[generation |-> timer, wait |-> WaitNumber]}
        /\ UNCHANGED <<timer, generation, phase, frame, reader>>
    BY <1>8, Zenon DEF Expire, readVars
  <2> DEFINE w == WaitNumber
  <2>2. WaitNumber' = w /\ AwaitsUpstream' /\ timer = generation
    BY <2>1 DEF AwaitsUpstream, WaitNumber, TimerInv
  <2> HIDE DEF w
  <2>3. \A d \in due' : d.generation = generation /\ d.wait = w
    BY <2>1, <2>2 DEF w
  <2>4. \A d, e \in due' : d = e
    BY <2>1
  <2> QED BY <2>1, <2>2, <2>3, <2>4 DEF TimerInv
<1>9. CASE \E d \in due : Callback(d)
  <2>1. /\ due' \subseteq due /\ UNCHANGED <<timer, generation, phase, frame, reader>>
    BY <1>9, Zenon DEF Callback, readVars
  <2>2. AwaitsUpstream' = AwaitsUpstream /\ WaitNumber' = WaitNumber
    BY <2>1 DEF AwaitsUpstream, WaitNumber
  <2> QED BY <2>1, <2>2 DEF TimerInv
<1> QED BY <1>1, <1>2, <1>3, <1>4, <1>5, <1>6, <1>7, <1>8, <1>9 DEF StreamNext

\* A step that cancels the context by the timer is the callback of the wait that
\* goes on.
LEMMA DeadlineHits ==
  ASSUME TimerInv, [StreamNext]_streamVars, NEW d \in due, cause = None, cause' = "deadline"
  PROVE  AwaitsUpstream /\ d.wait = WaitNumber
<1>0. None # "deadline"
  <2>1. None \notin {"deadline", "client", "closed", "text", "tool_use", "end_turn", "max_tokens",
                     "stop", "length", "tool_calls"}
    BY StreamingAssumptions, Zenon
  <2> QED BY <2>1, Zenon
<1>1. PICK e \in due : Callback(e)
  <2>1. CASE \/ Headers \/ Arrive \/ Break \/ Leave \/ Audit \/ Reply \/ Expire
             \/ UNCHANGED streamVars
    BY <1>0, <2>1 DEF Headers, Arrive, Break, Leave, cancel, Audit, Reply, Expire, streamVars, timerVars
  <2>2. CASE ReadFails \/ ReadTerminal \/ ReadFrame
    <3>1. cause' = "closed" \/ cause' = cause
      BY <2>2, Zenon DEF ReadFails, ReadTerminal, ReadFrame, attemptEnds
    <3> QED BY <1>0, <3>1
  <2> QED BY <2>1, <2>2 DEF StreamNext
<1>2. d = e
  BY DEF TimerInv
<1>3. e.generation = generation
  BY <1>0, <1>1 DEF Callback
<1> QED BY <1>2, <1>3 DEF TimerInv

\* A callback of the timer cancels the wait it was started for (TimerHitsItsWait).
THEOREM TimerIsExact == StreamSpec => TimerHitsItsWait
<1>1. ASSUME TimerInv, [StreamNext]_streamVars
      PROVE  [\A d \in due : cause = None /\ cause' = "deadline" => AwaitsUpstream /\ d.wait = WaitNumber]_streamVars
  <2> QED BY <1>1, DeadlineHits
<1> QED BY <1>1, TimerInit, TimerNext, PTL DEF StreamSpec, TimerHitsItsWait

-----------------------------------------------------------------------------
(* What one event does to a message.                                       *)

LEMMA TextAdded ==
  ASSUME NEW m, IsMessage(m), NEW n, NEW x, x = addText(m, n)
  PROVE  /\ IsMessage(x) /\ x.text = Append(m.text, n) /\ x.full = Append(m.full, n) /\ x.last = 0
         /\ x.reasoning = m.reasoning /\ x.calls = m.calls /\ x.reason = m.reason /\ x.block = m.block
         /\ x.open = m.open /\ x.dropped = m.dropped /\ x.resumed = m.resumed /\ x.malformed = m.malformed
         /\ x.stray = m.stray
BY DEF IsMessage, MessageFields, addText

LEMMA ListAdded ==
  ASSUME NEW m, IsMessage(m), NEW n, NEW x, x = addList(m, n)
  PROVE  /\ IsMessage(x) /\ x.full = Append(m.full, n) /\ x.text = m.text /\ x.last = m.last
         /\ x.reasoning = m.reasoning /\ x.calls = m.calls /\ x.reason = m.reason /\ x.block = m.block
         /\ x.open = m.open /\ x.dropped = m.dropped /\ x.resumed = m.resumed /\ x.malformed = m.malformed
         /\ x.stray = m.stray
BY DEF IsMessage, MessageFields, addList

LEMMA CallAdded ==
  ASSUME NEW m, IsMessage(m), NEW n, NEW x, x = addCall(m, n)
  PROVE  /\ IsMessage(x) /\ x.calls = Append(m.calls, [id |-> n, args |-> <<>>]) /\ x.last = Len(m.calls) + 1
         /\ x.text = m.text /\ x.reasoning = m.reasoning /\ x.reason = m.reason /\ x.block = m.block
         /\ x.open = m.open /\ x.dropped = m.dropped /\ x.resumed = m.resumed /\ x.malformed = m.malformed
         /\ x.full = m.full /\ x.stray = m.stray
BY DEF IsMessage, MessageFields, addCall

\* The calls when call c has one more piece of its arguments.
Grown(calls, c, n) == [calls EXCEPT ![c].args = Append(@, n)]

LEMMA ArgsAdded ==
  ASSUME NEW m, IsMessage(m), NEW c \in DOMAIN m.calls, NEW n, NEW x, x = addArgs(m, c, n)
  PROVE  /\ IsMessage(x) /\ x.calls = Grown(m.calls, c, n) /\ x.last = c
         /\ x.resumed <=> (m.resumed \/ m.last # c)
         /\ x.text = m.text /\ x.reasoning = m.reasoning /\ x.reason = m.reason /\ x.block = m.block
         /\ x.open = m.open /\ x.dropped = m.dropped /\ x.malformed = m.malformed
         /\ x.full = m.full /\ x.stray = m.stray
<1>1. x = [m EXCEPT !.calls = Grown(m.calls, c, n), !.last = c, !.resumed = @ \/ m.last # c]
  BY DEF addArgs, Grown
<1> QED BY <1>1 DEF IsMessage, MessageFields

LEMMA ArgsLost ==
  ASSUME NEW m, NEW c, c \notin DOMAIN m.calls, NEW n
  PROVE  addArgs(m, c, n) = m
BY DEF addArgs

LEMMA ReasoningAdded ==
  ASSUME NEW m, IsMessage(m), NEW n, NEW x, x = addReasoning(m, n)
  PROVE  /\ IsMessage(x) /\ x.reasoning = Append(m.reasoning, n)
         /\ x.text = m.text /\ x.calls = m.calls /\ x.reason = m.reason /\ x.block = m.block /\ x.last = m.last
         /\ x.open = m.open /\ x.dropped = m.dropped /\ x.resumed = m.resumed /\ x.malformed = m.malformed
         /\ x.full = m.full /\ x.stray = m.stray
BY DEF IsMessage, MessageFields, addReasoning

LEMMA BlockOpened ==
  ASSUME NEW m, IsMessage(m), NEW i, NEW b, NEW n, NEW x, x = Absorb(m, Ev("start", i, b, n))
  PROVE  /\ IsMessage(x) /\ x.block = Append(m.block, [type |-> b, call |-> Len(x.calls)]) /\ x.open = i
         /\ x.calls = IF b = "tool_use" THEN Append(m.calls, [id |-> n, args |-> <<>>]) ELSE m.calls
         /\ x.dropped <=> (m.dropped \/ b = "server_tool_use")
         /\ x.malformed <=> (m.malformed \/ m.open # 0 \/ i # Len(m.block) + 1)
         /\ x.text = m.text /\ x.reasoning = m.reasoning /\ x.reason = m.reason /\ x.resumed = m.resumed
         /\ x.full = m.full /\ x.stray = m.stray
<1> DEFINE v == Ev("start", i, b, n)
           y == IF b = "tool_use" THEN addCall(m, n) ELSE m
<1>1. v.e = "start" /\ v.i = i /\ v.b = b /\ v.n = n
  BY DEF Ev
<1>2. x = [y EXCEPT !.block = Append(@, [type |-> b, call |-> Len(y.calls)]),
                    !.open = i, !.dropped = @ \/ b = "server_tool_use",
                    !.malformed = @ \/ m.open # 0 \/ i # Len(m.block) + 1]
  <2> HIDE DEF v
  <2>1. x = openBlock(m, v)
    BY <1>1 DEF Absorb, v
  <2> QED BY <1>1, <2>1, Zenon DEF openBlock
<1>3. /\ IsMessage(y) /\ y.calls = IF b = "tool_use" THEN Append(m.calls, [id |-> n, args |-> <<>>]) ELSE m.calls
      /\ y.text = m.text /\ y.reasoning = m.reasoning /\ y.reason = m.reason /\ y.block = m.block
      /\ y.dropped = m.dropped /\ y.resumed = m.resumed /\ y.malformed = m.malformed
      /\ y.full = m.full /\ y.stray = m.stray
  <2>1. CASE b = "tool_use"
    <3>1. y = addCall(m, n)
      BY <2>1
    <3> HIDE DEF y
    <3> QED BY <2>1, <3>1, CallAdded
  <2>2. CASE b # "tool_use"
    BY <2>2
  <2> QED BY <2>1, <2>2
<1> HIDE DEF y
<1>4. /\ IsMessage(x) /\ x.calls = y.calls /\ x.open = i
      /\ x.text = y.text /\ x.reasoning = y.reasoning /\ x.reason = y.reason /\ x.resumed = y.resumed
      /\ x.full = y.full /\ x.stray = y.stray
  BY <1>2, <1>3 DEF IsMessage, MessageFields
<1>5. x.dropped <=> (y.dropped \/ b = "server_tool_use")
  BY <1>2, <1>3 DEF IsMessage, MessageFields
<1>6. x.malformed <=> (y.malformed \/ m.open # 0 \/ i # Len(m.block) + 1)
  <2> DEFINE w == m.open # 0 \/ i # Len(m.block) + 1
  <2>1. x = [y EXCEPT !.block = Append(@, [type |-> b, call |-> Len(y.calls)]),
                    !.open = i, !.dropped = @ \/ b = "server_tool_use",
                    !.malformed = @ \/ w]
    BY <1>2, Zenon
  <2> HIDE DEF w
  <2>2. x.malformed <=> (y.malformed \/ w)
    BY <1>3, <2>1 DEF IsMessage, MessageFields
  <2> QED BY <2>2 DEF w
<1>7. x.block = Append(y.block, [type |-> b, call |-> Len(y.calls)])
  BY <1>2, <1>3 DEF IsMessage, MessageFields
<1> QED BY <1>3, <1>4, <1>5, <1>6, <1>7

LEMMA BlockClosed ==
  ASSUME NEW m, IsMessage(m), NEW i, NEW x, x = Absorb(m, Ev("stop", i, None, 0))
  PROVE  /\ IsMessage(x) /\ x.open = 0 /\ (x.stray <=> (m.stray \/ i # m.open))
         /\ x.text = m.text /\ x.reasoning = m.reasoning /\ x.calls = m.calls /\ x.reason = m.reason
         /\ x.block = m.block /\ x.dropped = m.dropped /\ x.resumed = m.resumed
         /\ x.full = m.full /\ x.malformed = m.malformed
<1> DEFINE v == Ev("stop", i, None, 0)
<1>1. v.e = "stop" /\ v.i = i
  BY DEF Ev
<1>2. x = [m EXCEPT !.open = 0, !.stray = @ \/ i # m.open]
  <2> HIDE DEF v
  <2> QED BY <1>1 DEF Absorb, v
<1> QED BY <1>2 DEF IsMessage, MessageFields

\* What a delta of block i adds, before the check that the block is open.
Added(m, i, b, n) ==
  CASE b = "text"     -> addText(m, n)
    [] b = "thinking" -> addReasoning(m, n)
    [] b = "json" /\ i \in DOMAIN m.block /\ m.block[i].type = "tool_use" -> addArgs(m, m.block[i].call, n)
    [] OTHER          -> m

LEMMA DeltaAdded ==
  ASSUME NEW m, NEW i, NEW b, NEW n, IsMessage(Added(m, i, b, n)),
         NEW x, x = Absorb(m, Ev("delta", i, b, n)), NEW y, y = Added(m, i, b, n)
  PROVE  /\ IsMessage(x) /\ (x.malformed <=> (y.malformed \/ (b # "json" /\ i # m.open)))
         /\ x.stray <=> (y.stray \/ i # m.open)
         /\ x.text = y.text /\ x.reasoning = y.reasoning /\ x.calls = y.calls /\ x.reason = y.reason
         /\ x.block = y.block /\ x.open = y.open /\ x.last = y.last
         /\ x.dropped = y.dropped /\ x.resumed = y.resumed /\ x.full = y.full
<1> DEFINE v == Ev("delta", i, b, n)
<1>1. v.e = "delta" /\ v.i = i /\ v.b = b /\ v.n = n
  BY DEF Ev
<1>2. x = [y EXCEPT !.malformed = @ \/ (b # "json" /\ i # m.open), !.stray = @ \/ i # m.open]
  <2> HIDE DEF v
  <2>1. x = addDelta(m, v)
    BY <1>1 DEF Absorb, v
  <2> QED BY <1>1, <2>1, Zenon DEF addDelta, Added
<1> QED BY <1>2 DEF IsMessage, MessageFields

LEMMA SmallEvents ==
  ASSUME NEW m, NEW i, NEW b, NEW n
  PROVE  /\ Absorb(m, Ev("text", i, b, n)) = addText(m, n)
         /\ Absorb(m, Ev("list", i, b, n)) = addList(m, n)
         /\ Absorb(m, Ev("reasoning", i, b, n)) = addReasoning(m, n)
         /\ Absorb(m, Ev("tool", i, b, n)) = addCall(m, n)
         /\ Absorb(m, Ev("args", i, b, n)) = addArgs(m, i, n)
         /\ Absorb(m, Ev("role", i, b, n)) = m
         /\ Absorb(m, Ev("message_start", i, b, n)) = m
BY DEF Absorb, Ev

\* What a reason to stop does, and what the end does.
ReasonedBy(m, r, x) ==
  /\ IsMessage(x) /\ x.reason = (IF r = None THEN m.reason ELSE r)
  /\ x.text = m.text /\ x.reasoning = m.reasoning /\ x.calls = m.calls /\ x.last = m.last
  /\ x.block = m.block /\ x.open = m.open /\ x.dropped = m.dropped /\ x.resumed = m.resumed
  /\ x.malformed = m.malformed /\ x.full = m.full /\ x.stray = m.stray

EndedBy(m, x) ==
  /\ IsMessage(x) /\ x.ended /\ (x.malformed <=> (m.malformed \/ m.open # 0))
  /\ x.text = m.text /\ x.reasoning = m.reasoning /\ x.calls = m.calls /\ x.reason = m.reason
  /\ x.block = m.block /\ x.dropped = m.dropped /\ x.resumed = m.resumed
  /\ x.full = m.full /\ x.stray = m.stray

LEMMA ReasonGiven ==
  ASSUME NEW m, IsMessage(m), NEW e \in {"finish", "message_delta"}, NEW r, NEW x, x = Absorb(m, Ev(e, 0, r, 0))
  PROVE  ReasonedBy(m, r, x)
<1> DEFINE v == Ev(e, 0, r, 0)
<1>1. v.e = e /\ v.b = r
  BY DEF Ev
<1>2. x = [m EXCEPT !.reason = IF r = None THEN @ ELSE r]
  <2> HIDE DEF v
  <2> QED BY <1>1 DEF Absorb, v
<1> QED BY <1>2 DEF IsMessage, MessageFields, ReasonedBy

LEMMA EndGiven ==
  ASSUME NEW m, IsMessage(m), NEW e \in {"done", "message_stop"}, NEW x, x = Absorb(m, Ev(e, 0, None, 0))
  PROVE  EndedBy(m, x)
<1> DEFINE v == Ev(e, 0, None, 0)
<1>1. v.e = e
  BY DEF Ev
<1>2. x = [m EXCEPT !.ended = TRUE, !.malformed = @ \/ m.open # 0]
  <2> HIDE DEF v
  <2> QED BY <1>1 DEF Absorb, v
<1> QED BY <1>2 DEF IsMessage, MessageFields, EndedBy

-----------------------------------------------------------------------------
(* An OpenAI answer in Anthropic's protocol.                               *)

OpenAIFields == {"started", "finished", "reason", "next", "active", "index", "tools",
                 "sawReasoning", "sawVisible"}

IsOpenAI(t) == DOMAIN t = OpenAIFields /\ t = [f \in OpenAIFields |-> t[f]]

\* What the translator remembers besides its blocks.
SameNotes(t, u) ==
  /\ u.tools = t.tools /\ u.reason = t.reason
  /\ u.sawReasoning = t.sawReasoning /\ u.sawVisible = t.sawVisible

\* The client c has as many blocks as the translator t has begun, none of them out
\* of order; if one is open it is the active one, as an active text block is.
BlocksKnown(t, c) ==
  /\ IsOpenAI(t) /\ IsMessage(c) /\ Listed(c.block)
  /\ t.next \in Nat \ {0} /\ Len(c.block) + 1 = t.next
  /\ t.active \in {None, "text", "tool_use"}
  /\ t.active # None => t.index \in DOMAIN c.block
  /\ ~c.malformed
  /\ c.open # 0 => t.active # None /\ c.open = t.index
  /\ t.active = "text" => c.open = t.index

\* Nothing came for a closed block, and the open block is the active one.
OpenKnown(t, c) == ~c.stray /\ c.open = IF t.active = None THEN 0 ELSE t.index

SameParts(c, x) == x.text = c.text /\ x.reasoning = c.reasoning /\ x.calls = c.calls /\ x.reason = c.reason

LEMMA StopKnown ==
  ASSUME NEW c0, NEW s, IsOutput(s), BlocksKnown(s.t, AbsorbAll(c0, s.out)),
         NEW x, x = stopActiveBlock(s)
  PROVE  /\ IsOutput(x) /\ x.bad = s.bad /\ SameNotes(s.t, x.t) /\ x.t.next = s.t.next
         /\ x.t.active = None /\ BlocksKnown(x.t, AbsorbAll(c0, x.out))
         /\ SameParts(AbsorbAll(c0, s.out), AbsorbAll(c0, x.out))
         /\ AbsorbAll(c0, x.out).block = AbsorbAll(c0, s.out).block
         /\ OpenKnown(s.t, AbsorbAll(c0, s.out)) => OpenKnown(x.t, AbsorbAll(c0, x.out))
<1> DEFINE c == AbsorbAll(c0, s.out)
<1>0. BlocksKnown(s.t, c) /\ IsMessage(c)
  BY DEF BlocksKnown
<1>1. CASE s.t.active = None
  <2>1. x = s
    BY <1>1 DEF stopActiveBlock
  <2> QED BY <1>1, <2>1 DEF SameNotes, SameParts
<1>2. CASE s.t.active # None
  <2> DEFINE y == [s EXCEPT !.t.active = None]
             v == Ev("stop", s.t.index, None, 0)
  <2>1. x = emits(y, v)
    BY <1>2 DEF stopActiveBlock
  <2>2. /\ IsOutput(y) /\ y.out = s.out /\ y.bad = s.bad
        /\ IsOpenAI(y.t) /\ y.t.active = None /\ y.t.next = s.t.next /\ SameNotes(s.t, y.t)
    BY <1>0 DEF IsOutput, StateFields, BlocksKnown, IsOpenAI, OpenAIFields, SameNotes
  <2> HIDE DEF y
  <2>3. IsOutput(x) /\ x.t = y.t /\ x.bad = y.bad /\ x.out = Append(s.out, v)
    <3> HIDE DEF v
    <3> QED BY <2>1, <2>2, EmitsOutput
  <2> DEFINE d == AbsorbAll(c0, x.out)
  <2>4. d = Absorb(c, v)
    <3>1. Listed(s.out)
      BY DEF IsOutput
    <3> HIDE DEF v
    <3> QED BY <2>3, <3>1, AbsorbMore
  <2> HIDE DEF c, d
  <2>5. /\ IsMessage(d) /\ d.open = 0 /\ (d.stray <=> (c.stray \/ s.t.index # c.open)) /\ d.malformed = c.malformed
        /\ d.text = c.text /\ d.reasoning = c.reasoning /\ d.calls = c.calls /\ d.reason = c.reason
        /\ d.block = c.block
    BY <1>0, <2>4, BlockClosed
  <2>6. SameParts(c, d)
    BY <2>5 DEF SameParts
  <2>7. BlocksKnown(x.t, d)
    <3>1. None # "text"
      BY StreamingAssumptions
    <3> QED BY <1>0, <2>2, <2>3, <2>5, <3>1 DEF BlocksKnown
  <2>8. OpenKnown(s.t, c) => OpenKnown(x.t, d)
    BY <1>2, <2>2, <2>3, <2>5 DEF OpenKnown
  <2> QED BY <2>2, <2>3, <2>5, <2>6, <2>7, <2>8 DEF c, d
<1> QED BY <1>1, <1>2

NewCall(n) == [id |-> n, args |-> <<>>]
NewBlock(type, call) == [type |-> type, call |-> call]

\* x is the output s after a block of this type was begun.
Started(c0, s, type, id, x) ==
  LET c == AbsorbAll(c0, s.out)
      d == AbsorbAll(c0, x.out)
  IN  /\ IsOutput(x) /\ x.bad = s.bad /\ SameNotes(s.t, x.t)
      /\ x.t.active = type /\ x.t.index = s.t.next /\ BlocksKnown(x.t, d)
      /\ d.text = c.text /\ d.reasoning = c.reasoning
      /\ d.calls = IF type = "tool_use" THEN Append(c.calls, NewCall(id)) ELSE c.calls
      /\ d.block = Append(c.block, NewBlock(type, Len(d.calls)))
      /\ OpenKnown(s.t, c) => OpenKnown(x.t, d)

LEMMA StartKnown ==
  ASSUME NEW c0, NEW s, IsOutput(s), BlocksKnown(s.t, AbsorbAll(c0, s.out)),
         NEW type, type \in {"text", "tool_use"}, ~(type = "text" /\ s.t.active = "text"), NEW id,
         NEW x, x = startBlock(s, type, id)
  PROVE  Started(c0, s, type, id, x)
<1> DEFINE c == AbsorbAll(c0, s.out)
           y == stopActiveBlock(s)
           e == AbsorbAll(c0, y.out)
           i == s.t.next
           z == [y EXCEPT !.t.active = type, !.t.index = i, !.t.next = i + 1]
           v == Ev("start", i, type, id)
           d == AbsorbAll(c0, x.out)
<1>1. x = emits(z, v)
  BY Zenon DEF startBlock
<1>2. /\ IsOutput(y) /\ y.bad = s.bad /\ SameNotes(s.t, y.t) /\ y.t.next = i
      /\ y.t.active = None /\ BlocksKnown(y.t, e) /\ SameParts(c, e) /\ e.block = c.block
      /\ OpenKnown(s.t, c) => OpenKnown(y.t, e)
  <2> HIDE DEF y
  <2>1. y = stopActiveBlock(s)
    BY DEF y
  <2> QED BY <2>1, StopKnown
<1>3. i \in Nat \ {0} /\ i + 1 \in Nat \ {0} /\ Len(c.block) + 1 = i
  BY DEF BlocksKnown
<1> HIDE DEF y, i
<1>4. /\ IsOutput(z) /\ z.out = y.out /\ z.bad = y.bad
      /\ IsOpenAI(z.t) /\ z.t.active = type /\ z.t.index = i /\ z.t.next = i + 1 /\ SameNotes(y.t, z.t)
  <2>1. IsOpenAI(y.t)
    BY <1>2 DEF BlocksKnown
  <2> QED BY <1>2, <2>1 DEF IsOutput, StateFields, IsOpenAI, OpenAIFields, SameNotes
<1> HIDE DEF z
<1>5. IsOutput(x) /\ x.t = z.t /\ x.bad = z.bad /\ x.out = Append(y.out, v)
  <2> HIDE DEF v
  <2> QED BY <1>1, <1>4, EmitsOutput
<1>6. d = Absorb(e, v)
  <2>1. Listed(y.out)
    BY <1>2 DEF IsOutput
  <2> HIDE DEF v
  <2> QED BY <1>5, <2>1, AbsorbMore
<1>7. IsMessage(e)
  BY <1>2 DEF BlocksKnown
<1> HIDE DEF c, d, e
<1>8. /\ IsMessage(d) /\ d.block = Append(e.block, NewBlock(type, Len(d.calls))) /\ d.open = i
      /\ d.calls = IF type = "tool_use" THEN Append(e.calls, NewCall(id)) ELSE e.calls
      /\ d.malformed <=> (e.malformed \/ e.open # 0 \/ i # Len(e.block) + 1)
      /\ d.text = e.text /\ d.reasoning = e.reasoning /\ d.stray = e.stray
  BY <1>6, <1>7, BlockOpened DEF NewBlock, NewCall
<1>9. Listed(d.block) /\ Len(d.block) = i /\ DOMAIN d.block = 1 .. i
  <2>1. Listed(c.block)
    BY DEF BlocksKnown, c
  <2> DEFINE w == NewBlock(type, Len(d.calls))
  <2> HIDE DEF w
  <2>2. d.block = Append(c.block, w)
    BY <1>2, <1>8 DEF w
  <2> QED BY <1>3, <2>1, <2>2, ListedAppend
<1>10. BlocksKnown(x.t, d)
  <2>1. Len(d.block) + 1 = x.t.next /\ x.t.next \in Nat \ {0} /\ x.t.index \in DOMAIN d.block
    BY <1>3, <1>4, <1>5, <1>9
  <2>2. ~e.malformed /\ e.open = 0
    BY <1>2 DEF BlocksKnown
  <2>3. ~d.malformed
    BY <1>2, <1>3, <1>8, <2>2
  <2>4. type # None
    BY StreamingAssumptions
  <2> QED BY <1>4, <1>5, <1>8, <1>9, <2>1, <2>3, <2>4 DEF BlocksKnown
<1>11. OpenKnown(s.t, c) => OpenKnown(x.t, d)
  <2> SUFFICES ASSUME OpenKnown(s.t, c) PROVE OpenKnown(x.t, d)
    OBVIOUS
  <2>1. ~e.stray
    BY <1>2 DEF OpenKnown
  <2>2. ~d.stray
    BY <1>8, <2>1
  <2>3. type # None
    BY StreamingAssumptions
  <2> QED BY <1>4, <1>5, <1>8, <2>2, <2>3 DEF OpenKnown
<1>12. SameNotes(s.t, x.t)
  BY <1>2, <1>4, <1>5 DEF SameNotes
<1>13. d.text = c.text /\ d.reasoning = c.reasoning
  BY <1>2, <1>8 DEF SameParts
<1>14. d.calls = IF type = "tool_use" THEN Append(c.calls, NewCall(id)) ELSE c.calls
  BY <1>2, <1>8 DEF SameParts
<1>15. d.block = Append(c.block, NewBlock(type, Len(d.calls)))
  BY <1>2, <1>8
<1> QED BY <1>2, <1>4, <1>5, <1>10, <1>11, <1>12, <1>13, <1>14, <1>15 DEF c, d, i, Started

LEMMA Emitted ==
  ASSUME NEW s, IsOutput(s), NEW v, NEW x, x = emits(s, v), NEW c0
  PROVE  /\ IsOutput(x) /\ x.t = s.t /\ x.bad = s.bad
         /\ AbsorbAll(c0, x.out) = Absorb(AbsorbAll(c0, s.out), v)
<1>1. Listed(s.out)
  BY DEF IsOutput
<1>2. IsOutput(x) /\ x.t = s.t /\ x.bad = s.bad /\ x.out = Append(s.out, v)
  BY EmitsOutput
<1> QED BY <1>1, <1>2, AbsorbMore

\* The blocks of the calls.
ToolsKnown(calls, tools, block) ==
  /\ Listed(calls) /\ Listed(block) /\ DOMAIN tools = DOMAIN calls
  /\ \A i \in DOMAIN calls :
        tools[i] \in DOMAIN block /\ block[tools[i]].type = "tool_use" /\ block[tools[i]].call = i

\* The active block is that of the part that came last.
Followed(m, t, c) ==
  /\ OpenKnown(t, c)
  /\ m.last # 0 => m.last \in DOMAIN m.calls /\ t.active = "tool_use" /\ t.index = t.tools[m.last]

\* The client's message c is the provider's m, as far as it has come.
InAnthropic(m, t, c) ==
  /\ IsMessage(m) /\ Listed(m.text) /\ Listed(m.full) /\ Listed(m.reasoning)
  /\ BlocksKnown(t, c) /\ ToolsKnown(m.calls, t.tools, c.block)
  /\ c.text = m.text /\ c.calls = m.calls /\ c.reasoning = <<>>
  /\ t.reason = m.reason
  /\ m.reasoning # <<>> => t.sawReasoning
  /\ t.sawVisible => Visible(m)
  /\ m.resumed \/ Followed(m, t, c)

\* More blocks do no harm.
LEMMA ToolsKept ==
  ASSUME NEW calls, NEW tools, NEW block, ToolsKnown(calls, tools, block), NEW w
  PROVE  ToolsKnown(calls, tools, Append(block, w))
<1>1. Listed(block)
  BY DEF ToolsKnown
<1> DEFINE more == Append(block, w)
<1>2. Listed(more) /\ DOMAIN block \subseteq DOMAIN more /\ \A i \in DOMAIN block : more[i] = block[i]
  <2>1. Len(block) \in Nat /\ DOMAIN block = 1 .. Len(block)
    BY <1>1, ListedFacts
  <2>2. DOMAIN more = 1 .. Len(block) + 1
    BY <1>1, ListedAppend
  <2>3. DOMAIN block \subseteq DOMAIN more
    BY <2>1, <2>2
  <2> QED BY <1>1, <2>3, ListedAppend
<1> HIDE DEF more
<1> QED BY <1>2 DEF ToolsKnown, more

LEMMA ToolAdded ==
  ASSUME NEW calls, NEW tools, NEW block, ToolsKnown(calls, tools, block), NEW call,
         NEW k, k = Len(calls) + 1
  PROVE  ToolsKnown(Append(calls, call), Assign(tools, k, Len(block) + 1),
                    Append(block, NewBlock("tool_use", k)))
<1> DEFINE w == NewBlock("tool_use", k)
           l == Len(block) + 1
           more == Append(block, w)
           longer == Append(calls, call)
           all == Assign(tools, k, l)
<1>1. Listed(calls) /\ Listed(block) /\ DOMAIN tools = DOMAIN calls
  BY DEF ToolsKnown
<1>2. w.type = "tool_use" /\ w.call = k
  BY DEF NewBlock
<1> HIDE DEF w
<1>3. Listed(more) /\ DOMAIN block \subseteq DOMAIN more /\ (\A i \in DOMAIN block : more[i] = block[i])
      /\ l \in DOMAIN more /\ more[l] = w
  <2>1. Len(block) \in Nat /\ DOMAIN block = 1 .. Len(block)
    BY <1>1, ListedFacts
  <2>2. DOMAIN more = 1 .. Len(block) + 1
    BY <1>1, ListedAppend
  <2>3. DOMAIN block \subseteq DOMAIN more /\ l \in DOMAIN more
    BY <2>1, <2>2
  <2> QED BY <1>1, <2>3, ListedAppend
<1>4. Listed(longer) /\ DOMAIN longer = DOMAIN calls \cup {k} /\ k \notin DOMAIN calls
  <2>1. Len(calls) \in Nat /\ DOMAIN calls = 1 .. Len(calls)
    BY <1>1, ListedFacts
  <2>2. DOMAIN longer = 1 .. Len(calls) + 1 /\ Listed(longer)
    BY <1>1, ListedAppend
  <2> QED BY <2>1, <2>2
<1> HIDE DEF l
<1>5. DOMAIN all = DOMAIN tools \cup {k} /\ all[k] = l /\ \A i \in DOMAIN tools : i # k => all[i] = tools[i]
  BY DEF Assign
<1> HIDE DEF more, longer, all
<1>6. ASSUME NEW i \in DOMAIN longer
      PROVE  all[i] \in DOMAIN more /\ more[all[i]].type = "tool_use" /\ more[all[i]].call = i
  <2>1. CASE i = k
    BY <1>2, <1>3, <1>5, <2>1
  <2>2. CASE i # k
    <3>1. i \in DOMAIN calls /\ all[i] = tools[i]
      BY <1>1, <1>4, <1>5, <2>2
    <3>2. tools[i] \in DOMAIN block /\ block[tools[i]].type = "tool_use" /\ block[tools[i]].call = i
      BY <3>1 DEF ToolsKnown
    <3> QED BY <1>3, <3>1, <3>2
  <2> QED BY <2>1, <2>2
<1>7. ToolsKnown(longer, all, more)
  BY <1>1, <1>3, <1>4, <1>5, <1>6 DEF ToolsKnown
<1> QED BY <1>7 DEF longer, all, more, w, l

\* A text block is active, and the client c knows what m says.
TextActive(m, s, x, c) ==
  /\ IsOutput(x) /\ x.bad = s.bad /\ SameNotes(s.t, x.t)
  /\ x.t.active = "text" /\ BlocksKnown(x.t, c)
  /\ c.text = m.text /\ c.reasoning = <<>> /\ c.calls = m.calls
  /\ ToolsKnown(m.calls, x.t.tools, c.block)
  /\ m.resumed \/ OpenKnown(x.t, c)

LEMMA TextStarted ==
  ASSUME NEW c0, NEW s, IsOutput(s), NEW m, InAnthropic(m, s.t, AbsorbAll(c0, s.out)),
         NEW x, x = startBlock(s, "text", 0)
  PROVE  TextActive(m, s, x, AbsorbAll(c0, x.out))
<1>1. /\ BlocksKnown(s.t, AbsorbAll(c0, s.out)) /\ ToolsKnown(m.calls, s.t.tools, AbsorbAll(c0, s.out).block)
      /\ AbsorbAll(c0, s.out).text = m.text /\ AbsorbAll(c0, s.out).reasoning = <<>>
      /\ AbsorbAll(c0, s.out).calls = m.calls
      /\ m.resumed \/ OpenKnown(s.t, AbsorbAll(c0, s.out))
  BY DEF InAnthropic, Followed
<1>2. CASE s.t.active = "text"
  <2>1. x = s
    BY <1>2 DEF startBlock
  <2> QED BY <1>1, <1>2, <2>1 DEF SameNotes, TextActive
<1>3. CASE s.t.active # "text"
  <2> DEFINE c == AbsorbAll(c0, s.out)
             d == AbsorbAll(c0, x.out)
  <2>1. /\ IsOutput(x) /\ x.bad = s.bad /\ SameNotes(s.t, x.t)
        /\ x.t.active = "text" /\ BlocksKnown(x.t, d)
        /\ d.text = c.text /\ d.reasoning = c.reasoning /\ d.calls = c.calls
        /\ d.block = Append(c.block, NewBlock("text", Len(d.calls)))
        /\ OpenKnown(s.t, c) => OpenKnown(x.t, d)
    <3>1. Started(c0, s, "text", 0, x)
      BY <1>1, <1>3, StartKnown
    <3> QED BY <3>1 DEF Started
  <2> HIDE DEF c, d
  <2>2. ToolsKnown(m.calls, s.t.tools, c.block)
    BY <1>1 DEF c
  <2>3. ToolsKnown(m.calls, x.t.tools, d.block)
    BY <2>1, <2>2, ToolsKept DEF SameNotes
  <2> QED BY <1>1, <2>1, <2>3 DEF c, d, TextActive
<1> QED BY <1>2, <1>3

LEMMA TextAgrees ==
  ASSUME NEW c0, NEW s, IsOutput(s), NEW m, InAnthropic(m, s.t, AbsorbAll(c0, s.out)),
         NEW n, NEW p, p = Ev("text", 0, None, n), NEW y, y = textPart(s, p)
  PROVE  /\ IsOutput(y) /\ y.bad = s.bad
         /\ InAnthropic(Absorb(m, p), y.t, AbsorbAll(c0, y.out))
<1> DEFINE x == startBlock(s, "text", 0)
           z == [x EXCEPT !.t.sawVisible = TRUE]
           v == Ev("delta", x.t.index, "text", n)
           c == AbsorbAll(c0, x.out)
           d == AbsorbAll(c0, y.out)
           w == Absorb(m, p)
<1>0. p.n = n
  BY DEF Ev
<1>1. y = emits(z, v)
  BY <1>0, Zenon DEF textPart
<1>2. /\ IsOutput(x) /\ x.bad = s.bad /\ SameNotes(s.t, x.t)
      /\ x.t.active = "text" /\ BlocksKnown(x.t, c)
      /\ c.text = m.text /\ c.reasoning = <<>> /\ c.calls = m.calls
      /\ ToolsKnown(m.calls, x.t.tools, c.block)
      /\ m.resumed \/ OpenKnown(x.t, c)
  <2>1. TextActive(m, s, x, c)
    BY TextStarted, Zenon
  <2> HIDE DEF x, c
  <2> QED BY <2>1 DEF TextActive
<1>3. IsMessage(c) /\ IsOpenAI(x.t)
  BY <1>2 DEF BlocksKnown
<1> HIDE DEF x
<1>4. /\ IsOutput(z) /\ z.out = x.out /\ z.bad = x.bad
      /\ IsOpenAI(z.t) /\ z.t.sawVisible /\ z.t.active = x.t.active /\ z.t.index = x.t.index
      /\ z.t.next = x.t.next /\ z.t.tools = x.t.tools /\ z.t.reason = x.t.reason
      /\ z.t.sawReasoning = x.t.sawReasoning
  BY <1>2, <1>3 DEF IsOutput, StateFields, IsOpenAI, OpenAIFields
<1> HIDE DEF z
<1>5. IsOutput(y) /\ y.t = z.t /\ y.bad = z.bad /\ d = Absorb(c, v)
  <2> HIDE DEF v
  <2> QED BY <1>1, <1>4, Emitted
<1>7. /\ IsMessage(m) /\ Listed(m.text) /\ Listed(m.full) /\ Listed(m.reasoning) /\ s.t.reason = m.reason
      /\ m.reasoning # <<>> => s.t.sawReasoning
  BY DEF InAnthropic
<1> HIDE DEF c, d
<1>8. /\ IsMessage(d) /\ d.text = Append(m.text, n) /\ d.reasoning = <<>> /\ d.calls = m.calls
      /\ d.block = c.block /\ d.open = c.open
      /\ d.malformed <=> (c.malformed \/ x.t.index # c.open)
      /\ d.stray <=> (c.stray \/ x.t.index # c.open)
  <2> DEFINE a == Added(c, x.t.index, "text", n)
  <2>1. a = addText(c, n)
    BY DEF Added
  <2> HIDE DEF a
  <2>2. /\ IsMessage(a) /\ a.text = Append(c.text, n) /\ a.reasoning = c.reasoning /\ a.calls = c.calls
        /\ a.block = c.block /\ a.open = c.open /\ a.malformed = c.malformed /\ a.stray = c.stray
    BY <1>3, <2>1, TextAdded
  <2>3. /\ IsMessage(d) /\ (d.malformed <=> (a.malformed \/ x.t.index # c.open))
        /\ d.stray <=> (a.stray \/ x.t.index # c.open)
        /\ d.text = a.text /\ d.reasoning = a.reasoning /\ d.calls = a.calls
        /\ d.block = a.block /\ d.open = a.open
    BY <1>5, <2>2, DeltaAdded DEF a
  <2> QED BY <1>2, <2>2, <2>3
<1>9. /\ IsMessage(w) /\ w.text = Append(m.text, n) /\ w.full = Append(m.full, n) /\ w.last = 0 /\ w.reasoning = m.reasoning
      /\ w.calls = m.calls /\ w.reason = m.reason /\ w.resumed = m.resumed
  <2>1. w = addText(m, n)
    BY SmallEvents
  <2> HIDE DEF w
  <2> QED BY <1>7, <2>1, TextAdded
<1> HIDE DEF w, v
<1>10. Listed(w.text) /\ Listed(w.full) /\ w.full # <<>>
  <2>1. Listed(m.text) /\ Listed(m.full) /\ w.text = Append(m.text, n) /\ w.full = Append(m.full, n)
    BY <1>7, <1>9
  <2>2. Listed(w.text)
    BY <2>1, ListedAppend
  <2>3. Listed(w.full) /\ w.full # <<>>
    BY <2>1, ListedAppend
  <2> QED BY <2>2, <2>3
<1>11. BlocksKnown(y.t, d)
  BY <1>2, <1>4, <1>5, <1>8 DEF BlocksKnown
<1>12. ToolsKnown(w.calls, y.t.tools, d.block)
  BY <1>2, <1>4, <1>5, <1>8, <1>9
<1>13. m.resumed \/ Followed(w, y.t, d)
  <2> SUFFICES ASSUME OpenKnown(x.t, c) PROVE Followed(w, y.t, d)
    BY <1>2
  <2>1. c.open = x.t.index /\ ~c.stray
    BY <1>2, StreamingAssumptions DEF OpenKnown
  <2>2. OpenKnown(y.t, d)
    BY <1>4, <1>5, <1>8, <2>1 DEF OpenKnown
  <2> QED BY <1>9, <2>2 DEF Followed
<1>14. y.t.reason = w.reason /\ (w.reasoning # <<>> => y.t.sawReasoning) /\ Visible(w)
  BY <1>2, <1>4, <1>5, <1>7, <1>9, <1>10 DEF SameNotes, Visible
<1>15. InAnthropic(w, y.t, d)
  BY <1>7, <1>8, <1>9, <1>10, <1>11, <1>12, <1>13, <1>14 DEF InAnthropic
<1> QED BY <1>2, <1>4, <1>5, <1>15 DEF w, d

\* u is the output s after a part of a call was seen, for the client c.
Seen(s, u, c) ==
  /\ IsOutput(u) /\ u.out = s.out /\ u.bad = s.bad
  /\ u.t.sawVisible /\ u.t.active = s.t.active /\ u.t.index = s.t.index
  /\ u.t.next = s.t.next /\ u.t.tools = s.t.tools /\ u.t.reason = s.t.reason
  /\ u.t.sawReasoning = s.t.sawReasoning
  /\ BlocksKnown(u.t, c)
  /\ OpenKnown(s.t, c) => OpenKnown(u.t, c)

LEMMA CallSeen ==
  ASSUME NEW c0, NEW s, IsOutput(s), NEW m, InAnthropic(m, s.t, AbsorbAll(c0, s.out)),
         NEW u, u = [s EXCEPT !.t.sawVisible = TRUE]
  PROVE  Seen(s, u, AbsorbAll(c0, s.out))
<1> DEFINE c == AbsorbAll(c0, s.out)
<1>1. BlocksKnown(s.t, c) /\ IsOpenAI(s.t)
  BY DEF InAnthropic, BlocksKnown
<1>2. /\ IsOutput(u) /\ u.out = s.out /\ u.bad = s.bad /\ IsOpenAI(u.t)
      /\ u.t.sawVisible /\ u.t.active = s.t.active /\ u.t.index = s.t.index
      /\ u.t.next = s.t.next /\ u.t.tools = s.t.tools /\ u.t.reason = s.t.reason
      /\ u.t.sawReasoning = s.t.sawReasoning
  BY <1>1 DEF IsOutput, StateFields, IsOpenAI, OpenAIFields
<1> HIDE DEF c
<1>3. BlocksKnown(u.t, c)
  BY <1>1, <1>2 DEF BlocksKnown
<1>4. OpenKnown(s.t, c) => OpenKnown(u.t, c)
  BY <1>2 DEF OpenKnown
<1> QED BY <1>2, <1>3, <1>4 DEF c, Seen

LEMMA ToolAgrees ==
  ASSUME NEW c0, NEW s, IsOutput(s), NEW m, InAnthropic(m, s.t, AbsorbAll(c0, s.out)),
         NEW k, k = Len(m.calls) + 1, NEW p, p = Ev("tool", k, None, k), NEW y, y = toolPart(s, p)
  PROVE  IsOutput(y) /\ InAnthropic(Absorb(m, p), y.t, AbsorbAll(c0, y.out))
<1> DEFINE u == [s EXCEPT !.t.sawVisible = TRUE]
           x == startBlock(u, "tool_use", k)
           z == [x EXCEPT !.t.tools = Assign(@, k, x.t.index)]
           c == AbsorbAll(c0, s.out)
           d == AbsorbAll(c0, x.out)
           w == Absorb(m, p)
<1>0. p.n = k /\ p.i = k /\ p.e = "tool"
  BY DEF Ev
<1>1. /\ IsMessage(m) /\ Listed(m.text) /\ Listed(m.full) /\ Listed(m.reasoning) /\ s.t.reason = m.reason
      /\ m.reasoning # <<>> => s.t.sawReasoning
      /\ ToolsKnown(m.calls, s.t.tools, c.block)
      /\ c.text = m.text /\ c.calls = m.calls /\ c.reasoning = <<>>
      /\ m.resumed \/ OpenKnown(s.t, c)
  BY DEF InAnthropic, Followed
<1>2. /\ IsOutput(u) /\ u.out = s.out /\ u.bad = s.bad
      /\ u.t.sawVisible /\ u.t.next = s.t.next /\ u.t.tools = s.t.tools /\ u.t.reason = s.t.reason
      /\ u.t.sawReasoning = s.t.sawReasoning
      /\ BlocksKnown(u.t, AbsorbAll(c0, u.out))
      /\ OpenKnown(s.t, c) => OpenKnown(u.t, c)
  <2>1. Seen(s, u, c)
    BY CallSeen, Zenon
  <2> HIDE DEF u
  <2> QED BY <2>1 DEF Seen
<1>3. k \notin DOMAIN u.t.tools /\ Listed(m.calls) /\ Len(c.block) + 1 = s.t.next
  <2>1. Listed(m.calls) /\ DOMAIN s.t.tools = DOMAIN m.calls
    BY <1>1 DEF ToolsKnown
  <2>2. Len(m.calls) \in Nat /\ DOMAIN m.calls = 1 .. Len(m.calls)
    BY <2>1, ListedFacts
  <2>3. Len(c.block) + 1 = s.t.next
    BY DEF InAnthropic, BlocksKnown
  <2>4. k \notin DOMAIN m.calls
    BY <2>2
  <2> HIDE DEF u, c
  <2> QED BY <1>2, <2>1, <2>3, <2>4
<1>4. y = z
  <2> HIDE DEF u
  <2>1. toolBlock(u, p) = z
    BY <1>0, <1>3 DEF toolBlock
  <2> HIDE DEF x, z
  <2>2. y = IF toolBlock(u, p).bad \/ p.e = "tool" THEN toolBlock(u, p)
            ELSE emits(toolBlock(u, p), Ev("delta", toolBlock(u, p).t.index, "json", p.n))
    BY Zenon DEF toolPart, u
  <2> QED BY <1>0, <2>1, <2>2
<1>5. Started(c0, u, "tool_use", k, x)
  <2> HIDE DEF u
  <2> QED BY <1>2, StartKnown
<1>6. /\ IsOutput(x) /\ x.bad = s.bad /\ SameNotes(u.t, x.t)
      /\ x.t.active = "tool_use" /\ x.t.index = Len(c.block) + 1 /\ BlocksKnown(x.t, d)
      /\ d.text = m.text /\ d.reasoning = <<>>
      /\ d.calls = Append(m.calls, NewCall(k))
      /\ d.block = Append(c.block, NewBlock("tool_use", Len(d.calls)))
      /\ m.resumed \/ OpenKnown(x.t, d)
  <2> HIDE DEF x, u, c, d
  <2>1. /\ IsOutput(x) /\ x.bad = u.bad /\ SameNotes(u.t, x.t)
        /\ x.t.active = "tool_use" /\ x.t.index = u.t.next
    BY <1>5 DEF Started
  <2>2. /\ BlocksKnown(x.t, d)
        /\ d.text = c.text /\ d.reasoning = c.reasoning
        /\ d.calls = Append(c.calls, NewCall(k))
        /\ d.block = Append(c.block, NewBlock("tool_use", Len(d.calls)))
        /\ OpenKnown(u.t, c) => OpenKnown(x.t, d)
    BY <1>2, <1>5 DEF Started, c, d
  <2> QED BY <1>1, <1>2, <1>3, <2>1, <2>2
<1>7. IsMessage(d) /\ IsOpenAI(x.t)
  BY <1>6 DEF BlocksKnown
<1> HIDE DEF x, u, c, d
<1>8. /\ IsOutput(z) /\ z.out = x.out /\ z.bad = x.bad /\ IsOpenAI(z.t)
      /\ z.t.tools = Assign(u.t.tools, k, x.t.index)
      /\ z.t.active = x.t.active /\ z.t.index = x.t.index /\ z.t.next = x.t.next
      /\ z.t.reason = x.t.reason /\ z.t.sawReasoning = x.t.sawReasoning /\ z.t.sawVisible = x.t.sawVisible
  <2> DEFINE tt == [x.t EXCEPT !.tools = Assign(@, k, x.t.index)]
  <2>1. z = [x EXCEPT !.t = tt]
    BY <1>6 DEF IsOutput, StateFields
  <2>2. /\ IsOpenAI(tt) /\ tt.tools = Assign(x.t.tools, k, x.t.index)
        /\ tt.active = x.t.active /\ tt.index = x.t.index /\ tt.next = x.t.next
        /\ tt.reason = x.t.reason /\ tt.sawReasoning = x.t.sawReasoning /\ tt.sawVisible = x.t.sawVisible
    BY <1>7 DEF IsOpenAI, OpenAIFields
  <2> HIDE DEF z, tt
  <2>3. IsOutput(z) /\ z.out = x.out /\ z.bad = x.bad /\ z.t = tt
    BY <1>6, <2>1 DEF IsOutput, StateFields
  <2> QED BY <1>6, <2>2, <2>3 DEF SameNotes
<1> HIDE DEF z
<1>9. /\ IsMessage(w) /\ w.calls = Append(m.calls, NewCall(k)) /\ w.last = k
      /\ w.text = m.text /\ w.full = m.full /\ w.reasoning = m.reasoning /\ w.reason = m.reason /\ w.resumed = m.resumed
  <2>1. w = addCall(m, k)
    BY SmallEvents
  <2> HIDE DEF w
  <2> QED BY <1>1, <2>1, CallAdded DEF NewCall
<1> HIDE DEF w
<1>10. Listed(w.calls) /\ w.calls # <<>> /\ Len(w.calls) = k /\ k \in DOMAIN w.calls
  <2> DEFINE call == NewCall(k)
  <2> HIDE DEF call
  <2>1. w.calls = Append(m.calls, call)
    BY <1>9 DEF call
  <2>2. Len(m.calls) \in Nat
    BY <1>3, ListedFacts
  <2>3. Listed(w.calls) /\ w.calls # <<>> /\ Len(w.calls) = k /\ DOMAIN w.calls = 1 .. k
    BY <1>3, <2>1, ListedAppend
  <2> QED BY <2>2, <2>3
<1>11. ToolsKnown(w.calls, z.t.tools, d.block)
  <2>1. z.t.tools = Assign(s.t.tools, k, Len(c.block) + 1)
    BY <1>2, <1>6, <1>8
  <2>2. d.block = Append(c.block, NewBlock("tool_use", k)) /\ w.calls = Append(m.calls, NewCall(k))
    BY <1>6, <1>9, <1>10
  <2> DEFINE call == NewCall(k)
  <2> HIDE DEF call
  <2>3. ToolsKnown(Append(m.calls, call), Assign(s.t.tools, k, Len(c.block) + 1),
                   Append(c.block, NewBlock("tool_use", k)))
    BY <1>1, ToolAdded
  <2> QED BY <2>1, <2>2, <2>3 DEF call
<1>12. BlocksKnown(z.t, d)
  BY <1>6, <1>8 DEF BlocksKnown
<1>13. m.resumed \/ Followed(w, z.t, d)
  <2> SUFFICES ASSUME OpenKnown(x.t, d) PROVE Followed(w, z.t, d)
    BY <1>6
  <2>1. OpenKnown(z.t, d)
    BY <1>8 DEF OpenKnown
  <2>2. z.t.tools[k] = x.t.index
    BY <1>8 DEF Assign
  <2> QED BY <1>6, <1>8, <1>9, <1>10, <2>1, <2>2 DEF Followed
<1>14. z.t.reason = w.reason /\ (w.reasoning # <<>> => z.t.sawReasoning) /\ Visible(w)
  BY <1>1, <1>2, <1>6, <1>8, <1>9, <1>10 DEF SameNotes, Visible
<1>15. InAnthropic(w, z.t, d)
  BY <1>1, <1>6, <1>9, <1>11, <1>12, <1>13, <1>14 DEF InAnthropic
<1> QED BY <1>4, <1>6, <1>8, <1>15 DEF w, d

LEMMA ToolsGrown ==
  ASSUME NEW calls, NEW tools, NEW block, ToolsKnown(calls, tools, block), NEW i \in DOMAIN calls, NEW n,
         NEW more, more = Grown(calls, i, n)
  PROVE  ToolsKnown(more, tools, block) /\ Listed(more) /\ more # <<>> /\ DOMAIN more = DOMAIN calls
<1>1. Listed(calls)
  BY DEF ToolsKnown
<1> DEFINE y == [calls[i] EXCEPT !.args = Append(@, n)]
<1>2. more = [calls EXCEPT ![i] = y]
  BY DEF Grown
<1> HIDE DEF y
<1>3. Listed(more) /\ Len(more) = Len(calls) /\ DOMAIN more = DOMAIN calls
  BY <1>1, <1>2, ListedExcept
<1>4. more # <<>>
  <2>1. Len(calls) \in Nat /\ DOMAIN calls = 1 .. Len(calls)
    BY <1>1, ListedFacts
  <2>2. Len(more) # 0
    BY <1>3, <2>1
  <2> QED BY <1>3, <2>2, ListedFacts
<1> QED BY <1>3, <1>4 DEF ToolsKnown

\* w is the output u when the block k is the active one, for the clients c and d before and after.
ToolActive(u, w, k, c, d) ==
  /\ IsOutput(w) /\ w.bad = u.bad /\ SameNotes(u.t, w.t)
  /\ w.t.active = "tool_use" /\ w.t.index = k /\ BlocksKnown(w.t, d)
  /\ SameParts(c, d) /\ d.block = c.block

\* A call that goes on has its block active again.
LEMMA ToolResumed ==
  ASSUME NEW c0, NEW u, IsOutput(u), BlocksKnown(u.t, AbsorbAll(c0, u.out)),
         NEW k \in DOMAIN AbsorbAll(c0, u.out).block,
         NEW y, y = stopActiveBlock(u),
         NEW w, w = [y EXCEPT !.t.active = "tool_use", !.t.index = k]
  PROVE  ToolActive(u, w, k, AbsorbAll(c0, u.out), AbsorbAll(c0, w.out))
<1> DEFINE c == AbsorbAll(c0, u.out)
           d == AbsorbAll(c0, y.out)
<1>1. /\ IsOutput(y) /\ y.bad = u.bad /\ SameNotes(u.t, y.t)
      /\ BlocksKnown(y.t, d) /\ SameParts(c, d) /\ d.block = c.block /\ y.t.active = None
  BY StopKnown
<1>2. IsOpenAI(y.t)
  BY <1>1 DEF BlocksKnown
<1>3. /\ IsOutput(w) /\ w.out = y.out /\ w.bad = y.bad
      /\ IsOpenAI(w.t) /\ w.t.active = "tool_use" /\ w.t.index = k /\ w.t.next = y.t.next
      /\ SameNotes(y.t, w.t)
  BY <1>1, <1>2 DEF IsOutput, StateFields, IsOpenAI, OpenAIFields, SameNotes
<1> HIDE DEF c, d
<1>4. k \in DOMAIN d.block
  BY <1>1 DEF c
<1>5. BlocksKnown(w.t, d)
  BY <1>1, <1>3, <1>4 DEF BlocksKnown
<1>6. SameNotes(u.t, w.t)
  BY <1>1, <1>3 DEF SameNotes
<1>7. ToolActive(u, w, k, c, d)
  BY <1>1, <1>3, <1>5, <1>6 DEF ToolActive
<1> QED BY <1>3, <1>7 DEF c, d

LEMMA ArgsAgrees ==
  ASSUME NEW c0, NEW s, IsOutput(s), NEW m, InAnthropic(m, s.t, AbsorbAll(c0, s.out)),
         NEW i, NEW n, NEW p, p = Ev("args", i, None, n), NEW y, y = toolPart(s, p), ~y.bad
  PROVE  IsOutput(y) /\ InAnthropic(Absorb(m, p), y.t, AbsorbAll(c0, y.out))
<1> DEFINE u == [s EXCEPT !.t.sawVisible = TRUE]
           k == u.t.tools[i]
           c == AbsorbAll(c0, s.out)
           x == toolBlock(u, p)
           d == AbsorbAll(c0, x.out)
           v == Ev("delta", x.t.index, "json", n)
           e == AbsorbAll(c0, y.out)
           w == Absorb(m, p)
<1>0. p.n = n /\ p.i = i /\ p.e = "args"
  BY DEF Ev
<1>1. /\ IsMessage(m) /\ Listed(m.text) /\ Listed(m.full) /\ Listed(m.reasoning) /\ s.t.reason = m.reason
      /\ m.reasoning # <<>> => s.t.sawReasoning
      /\ ToolsKnown(m.calls, s.t.tools, c.block)
      /\ c.text = m.text /\ c.calls = m.calls /\ c.reasoning = <<>>
      /\ m.resumed \/ Followed(m, s.t, c)
  BY DEF InAnthropic
<1>2. Seen(s, u, c)
  BY CallSeen, Zenon
<1>3. y = IF x.bad THEN x ELSE emits(x, v)
  <2> HIDE DEF u, x, v
  <2>1. y = IF x.bad \/ p.e = "tool" THEN x ELSE emits(x, Ev("delta", x.t.index, "json", p.n))
    BY Zenon DEF toolPart, u, x
  <2> QED BY <1>0, <2>1 DEF v
<1>4. y = emits(x, v) /\ ~x.bad
  <2> HIDE DEF x, v
  <2> QED BY <1>3
<1> HIDE DEF u
<1>5. i \in DOMAIN u.t.tools
  <2> SUFFICES ASSUME i \notin DOMAIN u.t.tools PROVE FALSE
    OBVIOUS
  <2>1. x = [u EXCEPT !.bad = TRUE]
    BY <1>0 DEF toolBlock
  <2>2. x.bad
    BY <1>2, <2>1 DEF Seen, IsOutput, StateFields
  <2> QED BY <1>4, <2>2
<1>6. i \in DOMAIN m.calls /\ k \in DOMAIN c.block /\ c.block[k].type = "tool_use" /\ c.block[k].call = i
  <2>1. u.t.tools = s.t.tools
    BY <1>2 DEF Seen
  <2> HIDE DEF c
  <2>2. DOMAIN s.t.tools = DOMAIN m.calls
    BY <1>1 DEF ToolsKnown
  <2> QED BY <1>1, <1>5, <2>1, <2>2 DEF ToolsKnown
<1>7. u.out = s.out /\ IsOutput(u) /\ BlocksKnown(u.t, c)
  BY <1>2 DEF Seen
<1>8. ToolActive(u, x, k, c, d) /\ (m.resumed \/ m.last # i \/ OpenKnown(x.t, d))
  <2>1. CASE u.t.active = "tool_use" /\ u.t.index = k
    <3>1. x = u
      <4> HIDE DEF x, k
      <4>1. x = toolBlock(u, p)
        BY DEF x
      <4> QED BY <1>0, <1>5, <2>1, <4>1 DEF toolBlock, k
    <3>2. d = c
      <4> HIDE DEF x
      <4> QED BY <1>7, <3>1
    <3> HIDE DEF x, c, d, k
    <3>3. ToolActive(u, x, k, c, d)
      BY <1>7, <2>1, <3>1, <3>2 DEF ToolActive, SameNotes, SameParts
    <3>4. m.resumed \/ OpenKnown(x.t, d)
      BY <1>1, <1>2, <3>1, <3>2 DEF Seen, Followed
    <3> QED BY <3>3, <3>4
  <2>2. CASE ~(u.t.active = "tool_use" /\ u.t.index = k)
    <3> DEFINE z == stopActiveBlock(u)
    <3>1. x = [z EXCEPT !.t.active = "tool_use", !.t.index = k]
      <4> HIDE DEF x, k, z
      <4>1. x = toolBlock(u, p)
        BY DEF x
      <4> QED BY <1>0, <1>5, <2>2, <4>1 DEF toolBlock, k, z
    <3>2. c = AbsorbAll(c0, u.out)
      BY <1>7
    <3>3. ToolActive(u, x, k, c, d)
      <4> HIDE DEF x, z, k, c
      <4>1. z = stopActiveBlock(u)
        BY DEF z
      <4>2. BlocksKnown(u.t, AbsorbAll(c0, u.out)) /\ k \in DOMAIN AbsorbAll(c0, u.out).block
        BY <1>6, <1>7, <3>2
      <4>3. ToolActive(u, x, k, AbsorbAll(c0, u.out), AbsorbAll(c0, x.out))
        BY <1>7, <3>1, <4>1, <4>2, ToolResumed
      <4> QED BY <3>2, <4>3
    <3>4. m.resumed \/ m.last # i
      <4> SUFFICES ASSUME Followed(m, s.t, c), m.last = i PROVE FALSE
        BY <1>1
      <4>1. i # 0
        <5>1. Listed(m.calls)
          BY <1>1 DEF ToolsKnown
        <5>2. DOMAIN m.calls = 1 .. Len(m.calls) /\ Len(m.calls) \in Nat
          BY <5>1, ListedFacts
        <5> QED BY <1>6, <5>2
      <4>2. s.t.active = "tool_use" /\ s.t.index = s.t.tools[i]
        BY <4>1 DEF Followed
      <4> QED BY <1>2, <2>2, <4>2 DEF Seen
    <3> QED BY <3>3, <3>4
  <2> QED BY <2>1, <2>2
<1> HIDE DEF x, d, k, c
<1>9. /\ IsOutput(x) /\ x.t.active = "tool_use" /\ x.t.index = k /\ BlocksKnown(x.t, d) /\ IsMessage(d)
      /\ x.t.tools = s.t.tools /\ x.t.reason = s.t.reason /\ x.t.sawReasoning = s.t.sawReasoning /\ x.t.sawVisible
      /\ d.text = m.text /\ d.calls = m.calls /\ d.reasoning = <<>> /\ d.block = c.block
  <2>1. IsOutput(x) /\ x.t.active = "tool_use" /\ x.t.index = k /\ BlocksKnown(x.t, d) /\ IsMessage(d)
    BY <1>8 DEF ToolActive, BlocksKnown
  <2>2. x.t.tools = s.t.tools /\ x.t.reason = s.t.reason /\ x.t.sawReasoning = s.t.sawReasoning /\ x.t.sawVisible
    BY <1>2, <1>8 DEF ToolActive, SameNotes, Seen
  <2>3. d.text = m.text /\ d.calls = m.calls /\ d.reasoning = <<>> /\ d.block = c.block
    BY <1>1, <1>8 DEF ToolActive, SameParts
  <2> QED BY <2>1, <2>2, <2>3
<1>10. IsOutput(y) /\ y.t = x.t /\ e = Absorb(d, v)
  <2> HIDE DEF v
  <2> QED BY <1>4, <1>9, Emitted DEF d
<1> HIDE DEF e
<1>11. /\ IsMessage(e) /\ e.text = m.text /\ e.reasoning = <<>> /\ e.calls = Grown(m.calls, i, n)
       /\ e.block = c.block /\ e.open = d.open
       /\ e.malformed <=> d.malformed
       /\ e.stray <=> (d.stray \/ k # d.open)
  <2> DEFINE a == Added(d, x.t.index, "json", n)
  <2>1. a = addArgs(d, i, n)
    <3>1. k \in DOMAIN d.block /\ d.block[k].type = "tool_use" /\ d.block[k].call = i
      BY <1>6, <1>9
    <3> QED BY <1>9, <3>1 DEF Added
  <2> HIDE DEF a
  <2>2. /\ IsMessage(a) /\ a.calls = Grown(d.calls, i, n)
        /\ a.text = d.text /\ a.reasoning = d.reasoning /\ a.block = d.block
        /\ a.open = d.open /\ a.malformed = d.malformed /\ a.stray = d.stray
    BY <1>6, <1>9, <2>1, ArgsAdded
  <2>3. /\ IsMessage(e) /\ (e.malformed <=> a.malformed) /\ (e.stray <=> (a.stray \/ x.t.index # d.open))
        /\ e.text = a.text /\ e.reasoning = a.reasoning /\ e.calls = a.calls
        /\ e.block = a.block /\ e.open = a.open
    BY <1>10, <2>2, DeltaAdded DEF a
  <2> QED BY <1>9, <2>2, <2>3
<1>12. /\ IsMessage(w) /\ w.calls = Grown(m.calls, i, n) /\ w.last = i
       /\ w.resumed <=> (m.resumed \/ m.last # i)
       /\ w.text = m.text /\ w.full = m.full /\ w.reasoning = m.reasoning /\ w.reason = m.reason
  <2>1. w = addArgs(m, i, n)
    BY SmallEvents
  <2> HIDE DEF w
  <2> QED BY <1>1, <1>6, <2>1, ArgsAdded
<1> HIDE DEF w, v
<1>13. ToolsKnown(w.calls, y.t.tools, e.block) /\ w.calls # <<>> /\ i \in DOMAIN w.calls
  <2>1. ToolsKnown(m.calls, s.t.tools, c.block) /\ w.calls = Grown(m.calls, i, n)
    BY <1>1, <1>12
  <2>2. ToolsKnown(w.calls, s.t.tools, c.block) /\ w.calls # <<>> /\ DOMAIN w.calls = DOMAIN m.calls
    BY <1>6, <2>1, ToolsGrown
  <2> QED BY <1>6, <1>9, <1>10, <1>11, <2>2
<1>14. BlocksKnown(y.t, e)
  BY <1>9, <1>10, <1>11 DEF BlocksKnown
<1>15. w.resumed \/ Followed(w, y.t, e)
  <2> SUFFICES ASSUME OpenKnown(x.t, d) PROVE Followed(w, y.t, e)
    BY <1>8, <1>12
  <2>1. d.open = k /\ ~d.stray
    BY <1>9, StreamingAssumptions DEF OpenKnown
  <2>2. OpenKnown(y.t, e)
    <3>1. "tool_use" # None
      BY StreamingAssumptions
    <3> QED BY <1>9, <1>10, <1>11, <2>1, <3>1 DEF OpenKnown
  <2>3. k = s.t.tools[i]
    BY <1>2 DEF Seen, k
  <2> QED BY <1>9, <1>10, <1>12, <1>13, <2>2, <2>3 DEF Followed
<1>16. y.t.reason = w.reason /\ (w.reasoning # <<>> => y.t.sawReasoning) /\ Visible(w)
  BY <1>1, <1>9, <1>10, <1>12, <1>13 DEF Visible
<1>17. InAnthropic(w, y.t, e)
  BY <1>1, <1>11, <1>12, <1>13, <1>14, <1>15, <1>16 DEF InAnthropic
<1> QED BY <1>10, <1>17 DEF w, e

LEMMA ReasoningAgrees ==
  ASSUME NEW c, NEW s, IsOutput(s), NEW m, InAnthropic(m, s.t, c),
         NEW n, NEW p, p = Ev("reasoning", 0, None, n), NEW y, y = [s EXCEPT !.t.sawReasoning = TRUE]
  PROVE  IsOutput(y) /\ y.out = s.out /\ InAnthropic(Absorb(m, p), y.t, c)
<1> DEFINE w == Absorb(m, p)
<1>1. BlocksKnown(s.t, c) /\ IsOpenAI(s.t) /\ IsMessage(m) /\ Listed(m.reasoning)
  BY DEF InAnthropic, BlocksKnown
<1>2. /\ IsOutput(y) /\ y.out = s.out /\ IsOpenAI(y.t)
      /\ y.t.sawReasoning /\ y.t.sawVisible = s.t.sawVisible
      /\ y.t.active = s.t.active /\ y.t.index = s.t.index
      /\ y.t.next = s.t.next /\ y.t.tools = s.t.tools /\ y.t.reason = s.t.reason
  BY <1>1 DEF IsOutput, StateFields, IsOpenAI, OpenAIFields
<1>3. /\ IsMessage(w) /\ w.reasoning = Append(m.reasoning, n) /\ w.text = m.text /\ w.full = m.full /\ w.calls = m.calls
      /\ w.reason = m.reason /\ w.last = m.last /\ w.resumed = m.resumed
  <2>1. w = addReasoning(m, n)
    BY SmallEvents
  <2> HIDE DEF w
  <2> QED BY <1>1, <2>1, ReasoningAdded
<1> HIDE DEF w
<1>4. Listed(w.reasoning)
  BY <1>1, <1>3, ListedAppend
<1>5. BlocksKnown(y.t, c)
  BY <1>1, <1>2 DEF BlocksKnown
<1>6. w.resumed \/ Followed(w, y.t, c)
  BY <1>2, <1>3 DEF InAnthropic, Followed, OpenKnown
<1>7. Visible(w) <=> Visible(m)
  BY <1>3 DEF Visible
<1>8. InAnthropic(w, y.t, c)
  BY <1>2, <1>3, <1>4, <1>5, <1>6, <1>7 DEF InAnthropic
<1> QED BY <1>2, <1>8 DEF w

\* Text in an array is dropped.
LEMMA ListAgrees ==
  ASSUME NEW c, NEW t, NEW m, InAnthropic(m, t, c), NEW n, NEW p, p = Ev("list", 0, None, n)
  PROVE  InAnthropic(Absorb(m, p), t, c)
<1> DEFINE w == Absorb(m, p)
<1>1. IsMessage(m) /\ Listed(m.full)
  BY DEF InAnthropic
<1>2. /\ IsMessage(w) /\ w.full = Append(m.full, n) /\ w.text = m.text /\ w.reasoning = m.reasoning
      /\ w.calls = m.calls /\ w.reason = m.reason /\ w.last = m.last /\ w.resumed = m.resumed
  <2>1. w = addList(m, n)
    BY SmallEvents
  <2> HIDE DEF w
  <2> QED BY <1>1, <2>1, ListAdded
<1> HIDE DEF w
<1>3. Listed(w.full) /\ w.full # <<>>
  BY <1>1, <1>2, ListedAppend
<1>4. w.resumed \/ Followed(w, t, c)
  BY <1>2 DEF InAnthropic, Followed
<1>5. Visible(w)
  BY <1>3 DEF Visible
<1>6. InAnthropic(w, t, c)
  BY <1>2, <1>3, <1>4, <1>5 DEF InAnthropic
<1> QED BY <1>6 DEF w

LEMMA FinishAgrees ==
  ASSUME NEW c, NEW s, IsOutput(s), NEW m, InAnthropic(m, s.t, c),
         NEW r, r # None, NEW p, p = Ev("finish", 0, r, 0), NEW y, y = openAIPart(s, p), ~s.bad
  PROVE  IsOutput(y) /\ y.out = s.out /\ InAnthropic(Absorb(m, p), y.t, c)
<1> DEFINE w == Absorb(m, p)
<1>0. y = [s EXCEPT !.t.finished = TRUE, !.t.reason = r]
  <2>1. p.e = "finish" /\ p.b = r
    BY DEF Ev
  <2> QED BY <2>1 DEF openAIPart
<1>1. BlocksKnown(s.t, c) /\ IsOpenAI(s.t) /\ IsMessage(m)
  BY DEF InAnthropic, BlocksKnown
<1>2. /\ IsOutput(y) /\ y.out = s.out /\ IsOpenAI(y.t)
      /\ y.t.sawReasoning = s.t.sawReasoning /\ y.t.sawVisible = s.t.sawVisible
      /\ y.t.active = s.t.active /\ y.t.index = s.t.index
      /\ y.t.next = s.t.next /\ y.t.tools = s.t.tools /\ y.t.reason = r
  <2> DEFINE tt == [s.t EXCEPT !.finished = TRUE, !.reason = r]
  <2>1. y = [s EXCEPT !.t = tt]
    BY <1>0 DEF IsOutput, StateFields
  <2>2. /\ IsOpenAI(tt) /\ tt.sawReasoning = s.t.sawReasoning /\ tt.sawVisible = s.t.sawVisible
        /\ tt.active = s.t.active /\ tt.index = s.t.index
        /\ tt.next = s.t.next /\ tt.tools = s.t.tools /\ tt.reason = r
    BY <1>1 DEF IsOpenAI, OpenAIFields
  <2> HIDE DEF tt
  <2>3. IsOutput(y) /\ y.out = s.out /\ y.t = tt
    BY <2>1 DEF IsOutput, StateFields
  <2> QED BY <2>2, <2>3
<1>3. /\ IsMessage(w) /\ w.reason = r /\ w.text = m.text /\ w.full = m.full /\ w.reasoning = m.reasoning /\ w.calls = m.calls
      /\ w.last = m.last /\ w.resumed = m.resumed
  <2> HIDE DEF w
  <2>1. w = Absorb(m, Ev("finish", 0, r, 0))
    BY DEF w
  <2>2. ReasonedBy(m, r, w)
    BY <1>1, <2>1, ReasonGiven
  <2> QED BY <2>2 DEF ReasonedBy
<1> HIDE DEF w
<1>5. BlocksKnown(y.t, c)
  BY <1>1, <1>2 DEF BlocksKnown
<1>6. w.resumed \/ Followed(w, y.t, c)
  BY <1>2, <1>3 DEF InAnthropic, Followed, OpenKnown
<1>7. Visible(w) <=> Visible(m)
  BY <1>3 DEF Visible
<1>8. InAnthropic(w, y.t, c)
  BY <1>2, <1>3, <1>5, <1>6, <1>7 DEF InAnthropic
<1> QED BY <1>2, <1>8 DEF w

\* One part of a chunk after the message m.
OnePart(m, p) ==
  \/ \E n : p = Ev("text", 0, None, n)
  \/ \E n : p = Ev("list", 0, None, n)
  \/ \E n : p = Ev("reasoning", 0, None, n)
  \/ p = Ev("role", 0, None, 0)
  \/ p = Ev("tool", Len(m.calls) + 1, None, Len(m.calls) + 1)
  \/ \E i, n : p = Ev("args", i, None, n)
  \/ \E r : r # None /\ p = Ev("finish", 0, r, 0)

LEMMA PartAgrees ==
  ASSUME NEW c0, NEW s, IsOutput(s), NEW m, InAnthropic(m, s.t, AbsorbAll(c0, s.out)),
         NEW p, OnePart(m, p), NEW y, y = openAIPart(s, p), ~s.bad, ~y.bad
  PROVE  IsOutput(y) /\ InAnthropic(Absorb(m, p), y.t, AbsorbAll(c0, y.out))
<1> DEFINE c == AbsorbAll(c0, s.out)
<1>1. CASE \E n : p = Ev("text", 0, None, n)
  <2>1. PICK n : p = Ev("text", 0, None, n)
    BY <1>1
  <2>2. p.e = "text"
    BY <2>1 DEF Ev
  <2>3. y = textPart(s, p)
    BY <2>2 DEF openAIPart
  <2> QED BY <2>1, <2>3, TextAgrees
<1>2. CASE \E n : p = Ev("reasoning", 0, None, n)
  <2>1. PICK n : p = Ev("reasoning", 0, None, n)
    BY <1>2
  <2>2. p.e = "reasoning"
    BY <2>1 DEF Ev
  <2>3. y = [s EXCEPT !.t.sawReasoning = TRUE]
    BY <2>2 DEF openAIPart
  <2>4. IsOutput(y) /\ y.out = s.out /\ InAnthropic(Absorb(m, p), y.t, c)
    <3> HIDE DEF c
    <3>1. InAnthropic(m, s.t, c)
      BY DEF c
    <3> QED BY <2>1, <2>3, <3>1, ReasoningAgrees
  <2> QED BY <2>4
<1>3. CASE p = Ev("role", 0, None, 0)
  <2>1. p.e = "role"
    BY <1>3 DEF Ev
  <2>2. y = s
    BY <2>1 DEF openAIPart
  <2>3. Absorb(m, p) = m
    BY <1>3, SmallEvents
  <2> QED BY <2>2, <2>3
<1>4. CASE p = Ev("tool", Len(m.calls) + 1, None, Len(m.calls) + 1)
  <2> DEFINE k == Len(m.calls) + 1
  <2>1. p = Ev("tool", k, None, k)
    BY <1>4
  <2>2. p.e = "tool"
    BY <1>4 DEF Ev
  <2>3. y = toolPart(s, p)
    BY <2>2 DEF openAIPart
  <2>4. k = Len(m.calls) + 1
    OBVIOUS
  <2> HIDE DEF k
  <2> QED BY <2>1, <2>3, <2>4, ToolAgrees
<1>5. CASE \E i, n : p = Ev("args", i, None, n)
  <2>1. PICK i, n : p = Ev("args", i, None, n)
    BY <1>5
  <2>2. p.e = "args"
    BY <2>1 DEF Ev
  <2>3. y = toolPart(s, p)
    BY <2>2 DEF openAIPart
  <2> QED BY <2>1, <2>3, ArgsAgrees
<1>6. CASE \E r : r # None /\ p = Ev("finish", 0, r, 0)
  <2>1. PICK r : r # None /\ p = Ev("finish", 0, r, 0)
    BY <1>6
  <2>4. IsOutput(y) /\ y.out = s.out /\ InAnthropic(Absorb(m, p), y.t, c)
    <3> HIDE DEF c
    <3>1. InAnthropic(m, s.t, c)
      BY DEF c
    <3> QED BY <2>1, <3>1, FinishAgrees
  <2> QED BY <2>4
<1>7. CASE \E n : p = Ev("list", 0, None, n)
  <2>1. PICK n : p = Ev("list", 0, None, n)
    BY <1>7
  <2>2. p.e = "list"
    BY <2>1 DEF Ev
  <2>3. y = s
    BY <2>2 DEF openAIPart
  <2>4. InAnthropic(Absorb(m, p), s.t, c)
    <3> HIDE DEF c
    <3>1. InAnthropic(m, s.t, c)
      BY DEF c
    <3> QED BY <2>1, <3>1, ListAgrees
  <2> QED BY <2>3, <2>4
<1> QED BY <1>1, <1>2, <1>3, <1>4, <1>5, <1>6, <1>7 DEF OnePart

LEMMA StartAgrees ==
  ASSUME NEW m, NEW t, NEW c, InAnthropic(m, t, c)
  PROVE  InAnthropic(m, FrameStart(t).t, AbsorbAll(c, FrameStart(t).out))
<1> DEFINE s == FrameStart(t)
<1>1. s.t = [t EXCEPT !.started = TRUE] /\ s.out = IF t.started THEN <<>> ELSE <<Ev("message_start", 0, None, 0)>>
  BY FrameStartIs
<1> HIDE DEF s
<1>2. AbsorbAll(c, s.out) = c
  <2>1. CASE t.started
    <3>1. s.out = <<>>
      BY <1>1, <2>1
    <3> QED BY <3>1, AbsorbNothing
  <2>2. CASE ~t.started
    <3> DEFINE v == Ev("message_start", 0, None, 0)
    <3>1. Absorb(c, v) = c
      BY SmallEvents
    <3> HIDE DEF v
    <3>2. s.out = <<v>>
      BY <1>1, <2>2 DEF v
    <3>3. AbsorbAll(c, s.out) = Absorb(c, v)
      BY <3>2, AbsorbOne
    <3> QED BY <3>1, <3>3
  <2> QED BY <2>1, <2>2
<1>3. IsOpenAI(t)
  BY DEF InAnthropic, BlocksKnown
<1>4. /\ IsOpenAI(s.t) /\ SameNotes(t, s.t) /\ s.t.active = t.active /\ s.t.index = t.index /\ s.t.next = t.next
  BY <1>1, <1>3 DEF IsOpenAI, OpenAIFields, SameNotes
<1>5. BlocksKnown(s.t, c)
  BY <1>4 DEF InAnthropic, BlocksKnown
<1>6. m.resumed \/ Followed(m, s.t, c)
  BY <1>4 DEF InAnthropic, Followed, OpenKnown, SameNotes
<1>7. InAnthropic(m, s.t, c)
  BY <1>4, <1>5, <1>6 DEF InAnthropic, SameNotes
<1> QED BY <1>2, <1>7 DEF s

\* A chunk through the translator.
LEMMA OpenAIFrameAgrees ==
  ASSUME NEW m, NEW t, NEW c, InAnthropic(m, t, c), NEW p, OpenAIParts(m, p),
         NEW x, x = OpenAIFrame(t, p), ~x.bad
  PROVE  IsOutput(x) /\ InAnthropic(AbsorbAll(m, p), x.t, AbsorbAll(c, x.out))
<1> DEFINE s == FrameStart(t)
<1>1. IsOutput(s) /\ s.bad = FALSE /\ InAnthropic(m, s.t, AbsorbAll(c, s.out))
  BY FrameStartIs, StartAgrees
<1>2. CASE \E v : OnePart(m, v) /\ p = <<v>>
  <2>1. PICK v : OnePart(m, v) /\ p = <<v>>
    BY <1>2
  <2>2. x = openAIPart(s, v)
    BY <2>1, OneChunk
  <2>3. AbsorbAll(m, p) = Absorb(m, v)
    BY <2>1, AbsorbOne
  <2> HIDE DEF s
  <2>4. IsOutput(x) /\ InAnthropic(Absorb(m, v), x.t, AbsorbAll(c, x.out))
    BY <1>1, <2>1, <2>2, PartAgrees
  <2> QED BY <2>3, <2>4
<1>3. CASE \E n : p = <<Ev("text", 0, None, n), Ev("finish", 0, "length", 0)>>
  <2>1. PICK n : p = <<Ev("text", 0, None, n), Ev("finish", 0, "length", 0)>>
    BY <1>3
  <2> DEFINE v == Ev("text", 0, None, n)
             w == Ev("finish", 0, "length", 0)
             y == openAIPart(s, v)
  <2>2. OnePart(m, v) /\ v.e = "text"
    BY DEF OnePart, Ev
  <2>3. OnePart(Absorb(m, v), w)
    BY StreamingAssumptions DEF OnePart
  <2> HIDE DEF v, w
  <2>4. x = openAIPart(y, w)
    BY <2>1, TwoChunks DEF v, w
  <2>5. AbsorbAll(m, p) = Absorb(Absorb(m, v), w)
    BY <2>1, AbsorbTwo DEF v, w
  <2> HIDE DEF s, y
  <2>6. ~y.bad
    BY <2>4 DEF openAIPart
  <2>7. y = openAIPart(s, v)
    BY DEF y
  <2>8. IsOutput(y) /\ InAnthropic(Absorb(m, v), y.t, AbsorbAll(c, y.out))
    BY <1>1, <2>2, <2>6, <2>7, PartAgrees
  <2> DEFINE k == Absorb(m, v)
  <2>9. InAnthropic(k, y.t, AbsorbAll(c, y.out)) /\ OnePart(k, w)
    BY <2>3, <2>8
  <2> HIDE DEF k
  <2>10. IsOutput(x) /\ InAnthropic(Absorb(k, w), x.t, AbsorbAll(c, x.out))
    BY <2>4, <2>6, <2>8, <2>9, PartAgrees
  <2> QED BY <2>5, <2>10 DEF k
<1>4. \/ \E v : OnePart(m, v) /\ p = <<v>>
      \/ \E n : p = <<Ev("text", 0, None, n), Ev("finish", 0, "length", 0)>>
  <2>1. CASE \E r \in Reasons["openai"] : p = <<Ev("finish", 0, r, 0)>>
    <3>1. PICK r \in Reasons["openai"] : p = <<Ev("finish", 0, r, 0)>>
      BY <2>1
    <3>2. r # None
      BY StreamingAssumptions
    <3> QED BY <3>1, <3>2, Zenon DEF OnePart
  <2>2. CASE p = <<Ev("tool", Len(m.calls) + 1, None, Len(m.calls) + 1)>>
    BY <2>2, Zenon DEF OnePart
  <2>3. CASE p = <<Ev("role", 0, None, 0)>>
    BY <2>3, Zenon DEF OnePart
  <2>4. CASE \E n : p = <<Ev("text", 0, None, n)>>
    BY <2>4, Zenon DEF OnePart
  <2>5. CASE \E n : p = <<Ev("reasoning", 0, None, n)>>
    BY <2>5, Zenon DEF OnePart
  <2>6. CASE \E i, n : p = <<Ev("args", i, None, n)>>
    BY <2>6, Zenon DEF OnePart
  <2>7. CASE \E n : p = <<Ev("list", 0, None, n)>>
    BY <2>7, Zenon DEF OnePart
  <2> QED BY <2>1, <2>2, <2>3, <2>4, <2>5, <2>6, <2>7, Zenon DEF OpenAIParts
<1> QED BY <1>2, <1>3, <1>4

\* The client's message has the parts of the provider's, which has a meaning for
\* it.
OpenAIDelivered(m, c) ==
  /\ ~UnrepresentableOpenAI(m) /\ Content(c) = Passed("openai", m)
  /\ ~c.malformed /\ (m.resumed \/ ~c.stray)

\* The parts of an answer, field by field.
LEMMA OpenAIAnswerIs ==
  ASSUME NEW m
  PROVE  Passed("openai", m) =
           [text |-> m.text, reasoning |-> <<>>, calls |-> m.calls, reason |-> StopReason(m.reason)]
<1> DEFINE k == Content(m)
<1>1. k = [text |-> m.text, reasoning |-> m.reasoning, calls |-> m.calls, reason |-> m.reason]
  BY DEF Content
<1>2. Passed("openai", m) = [k EXCEPT !.reasoning = <<>>, !.reason = StopReason(k.reason)]
  BY Zenon DEF Passed
<1>3. k.reason = m.reason
  BY <1>1
<1> HIDE DEF k
<1>4. Passed("openai", m) = [k EXCEPT !.reasoning = <<>>, !.reason = StopReason(m.reason)]
  BY <1>2, <1>3
<1> DEFINE r == StopReason(m.reason)
           e == <<>>
<1>5. Passed("openai", m) = [k EXCEPT !.reasoning = e, !.reason = r]
  BY <1>4
<1> HIDE DEF r, e
<1>6. Passed("openai", m) = [text |-> m.text, reasoning |-> e, calls |-> m.calls, reason |-> r]
  BY <1>1, <1>5
<1> QED BY <1>6 DEF e, r

LEMMA OpenAIEndAgrees ==
  ASSUME NEW m, NEW t, NEW c, InAnthropic(m, t, c), NEW x, x = OpenAITerminal(t), ~x.bad
  PROVE  Listed(x.out) /\ OpenAIDelivered(Absorb(m, Ev("done", 0, None, 0)), AbsorbAll(c, x.out))
<1> DEFINE s0 == [t |-> t, out |-> <<>>, bad |-> FALSE]
           s == stopActiveBlock(s0)
           r == StopReason(t.reason)
           v == Ev("message_delta", 0, r, 0)
           z == Ev("message_stop", 0, None, 0)
           y == emits(s, v)
           bad == ~t.started \/ ~t.finished \/ (t.sawReasoning /\ ~t.sawVisible) \/ r = None
           e == AbsorbAll(c, s.out)
           f == AbsorbAll(c, y.out)
           d == AbsorbAll(c, x.out)
           w == Absorb(m, Ev("done", 0, None, 0))
<1>1. IsOutput(s0) /\ s0.t = t /\ AbsorbAll(c, s0.out) = c
  <2>1. IsOutput(s0) /\ s0.t = t /\ s0.out = <<>>
    BY ListedFew DEF IsOutput, StateFields
  <2> HIDE DEF s0
  <2> QED BY <2>1, AbsorbNothing
<1>2. x = IF bad THEN [s EXCEPT !.bad = TRUE] ELSE emits(y, z)
  BY Zenon DEF OpenAITerminal
<1> HIDE DEF s0
<1>3. /\ IsOutput(s) /\ s.t.active = None /\ SameParts(c, e)
      /\ OpenKnown(t, c) => OpenKnown(s.t, e)
      /\ BlocksKnown(s.t, e)
  <2>1. BlocksKnown(s0.t, AbsorbAll(c, s0.out))
    BY <1>1 DEF InAnthropic
  <2> HIDE DEF s
  <2>2. s = stopActiveBlock(s0)
    BY DEF s
  <2> QED BY <1>1, <2>1, <2>2, StopKnown
<1>4. ~bad /\ x = emits(y, z)
  <2> HIDE DEF bad, y, z, s
  <2>1. bad => x.bad
    BY <1>2, <1>3 DEF IsOutput, StateFields
  <2> QED BY <1>2, <2>1
<1>5. r # None /\ (t.sawReasoning => t.sawVisible)
  BY <1>4
<1> HIDE DEF s, bad, r
<1>6. IsOutput(y) /\ f = Absorb(e, v)
  <2> HIDE DEF v
  <2> QED BY <1>3, Emitted
<1> HIDE DEF y
<1>7. d = Absorb(f, z) /\ Listed(x.out)
  <2> HIDE DEF z
  <2>1. d = Absorb(f, z) /\ IsOutput(x)
    BY <1>4, <1>6, Emitted
  <2> QED BY <2>1 DEF IsOutput
<1>8. IsMessage(e) /\ IsMessage(m)
  BY <1>3 DEF BlocksKnown, InAnthropic
<1> HIDE DEF e, f, d
<1>9. /\ IsMessage(f) /\ f.reason = r /\ f.text = e.text /\ f.reasoning = e.reasoning /\ f.calls = e.calls
      /\ f.open = e.open /\ f.malformed = e.malformed /\ f.stray = e.stray
  <2>1. f = Absorb(e, Ev("message_delta", 0, r, 0))
    BY <1>6
  <2> DEFINE k == "message_delta"
  <2>2. k \in {"finish", "message_delta"} /\ f = Absorb(e, Ev(k, 0, r, 0))
    BY <2>1
  <2> HIDE DEF k
  <2>3. IsMessage(e)
    BY <1>8
  <2>4. ReasonedBy(e, r, f)
    BY <2>2, <2>3, ReasonGiven
  <2> QED BY <1>5, <2>4 DEF ReasonedBy
<1>10. /\ d.reason = f.reason /\ d.text = f.text /\ d.reasoning = f.reasoning /\ d.calls = f.calls
       /\ d.malformed <=> (f.malformed \/ f.open # 0)
       /\ d.stray = f.stray
  <2>1. d = Absorb(f, Ev("message_stop", 0, None, 0))
    BY <1>7
  <2> DEFINE k == "message_stop"
  <2>2. k \in {"done", "message_stop"} /\ d = Absorb(f, Ev(k, 0, None, 0))
    BY <2>1
  <2> HIDE DEF k
  <2>3. IsMessage(f)
    BY <1>9
  <2>4. EndedBy(f, d)
    BY <2>2, <2>3, EndGiven
  <2> QED BY <2>4 DEF EndedBy
<1>11. /\ w.reason = m.reason /\ w.text = m.text /\ w.reasoning = m.reasoning /\ w.calls = m.calls
       /\ w.resumed = m.resumed /\ w.full = m.full
  <2> HIDE DEF w
  <2> DEFINE k == "done"
  <2>1. k \in {"done", "message_stop"} /\ w = Absorb(m, Ev(k, 0, None, 0))
    BY DEF w
  <2> HIDE DEF k
  <2>2. EndedBy(m, w)
    BY <1>8, <2>1, EndGiven
  <2> QED BY <2>2 DEF EndedBy
<1> HIDE DEF w
<1>12. d.text = w.text /\ d.calls = w.calls /\ d.reasoning = <<>> /\ d.reason = StopReason(w.reason)
  <2>1. c.text = m.text /\ c.calls = m.calls /\ c.reasoning = <<>> /\ t.reason = m.reason
    BY DEF InAnthropic
  <2>2. e.text = c.text /\ e.calls = c.calls /\ e.reasoning = c.reasoning
    BY <1>3 DEF SameParts
  <2>3. d.reason = r
    BY <1>9, <1>10
  <2> QED BY <1>9, <1>10, <1>11, <2>1, <2>2, <2>3 DEF r
<1>13. Content(d) = Passed("openai", w)
  <2>1. Passed("openai", w) =
          [text |-> w.text, reasoning |-> <<>>, calls |-> w.calls, reason |-> StopReason(w.reason)]
    BY OpenAIAnswerIs
  <2> QED BY <1>12, <2>1 DEF Content
<1>14. ~UnrepresentableOpenAI(w)
  <2>1. StopReason(w.reason) # None
    BY <1>5, <1>11 DEF InAnthropic, r
  <2>2. w.reasoning # <<>> => Visible(w)
    BY <1>5, <1>11 DEF InAnthropic, Visible
  <2> QED BY <2>1, <2>2 DEF UnrepresentableOpenAI
<1>15. ~d.malformed /\ (w.resumed \/ ~d.stray)
  <2>1. ~e.malformed /\ e.open = 0
    BY <1>3 DEF BlocksKnown
  <2>2. ~d.malformed
    BY <1>9, <1>10, <2>1
  <2>3. w.resumed \/ OpenKnown(t, c)
    BY <1>11 DEF InAnthropic, Followed
  <2>4. OpenKnown(t, c) => ~d.stray
    BY <1>3, <1>9, <1>10 DEF OpenKnown
  <2> QED BY <2>2, <2>3, <2>4
<1>16. OpenAIDelivered(w, d)
  BY <1>13, <1>14, <1>15 DEF OpenAIDelivered
<1> QED BY <1>7, <1>16 DEF w, d

\* Nothing has come yet.
LEMMA NothingInAnthropic == InAnthropic(NoMessage, NewOpenAI, NoMessage)
<1>1. IsMessage(NoMessage) /\ Listed(<<>>) /\ Len(<<>>) = 0 /\ DOMAIN <<>> = {}
  <2>1. Len(<<>>) = 0 /\ DOMAIN <<>> = {}
    OBVIOUS
  <2> QED BY <2>1, NoMessageIs, ListedFew
<1>2. /\ NoMessage.text = <<>> /\ NoMessage.reasoning = <<>> /\ NoMessage.calls = <<>>
      /\ NoMessage.block = <<>> /\ NoMessage.reason = None /\ NoMessage.open = 0 /\ NoMessage.last = 0
      /\ NoMessage.malformed = FALSE /\ NoMessage.stray = FALSE /\ NoMessage.full = <<>>
  BY DEF NoMessage
<1>3. /\ IsOpenAI(NewOpenAI) /\ NewOpenAI.next = 1 /\ NewOpenAI.active = None /\ NewOpenAI.tools = <<>>
      /\ NewOpenAI.reason = None /\ NewOpenAI.sawVisible = FALSE
  BY DEF NewOpenAI, IsOpenAI, OpenAIFields
<1>4. BlocksKnown(NewOpenAI, NoMessage)
  <2>1. None # "text"
    BY StreamingAssumptions
  <2> QED BY <1>1, <1>2, <1>3, <2>1 DEF BlocksKnown
<1>5. ToolsKnown(NoMessage.calls, NewOpenAI.tools, NoMessage.block)
  BY <1>1, <1>2, <1>3 DEF ToolsKnown
<1>6. Followed(NoMessage, NewOpenAI, NoMessage)
  BY <1>2, <1>3 DEF Followed, OpenKnown
<1> QED BY <1>1, <1>2, <1>3, <1>4, <1>5, <1>6 DEF InAnthropic

-----------------------------------------------------------------------------
(* An Anthropic answer in OpenAI's protocol.                               *)

AnthropicFields == {"tools", "serverTools", "nextTool", "sawVisible", "sawReasoning", "sawDropped"}

IsAnthropic(t) == DOMAIN t = AnthropicFields /\ t = [f \in AnthropicFields |-> t[f]]

\* The translator knows the tools among the provider's blocks.
BlocksNoted(block, calls, t) ==
  /\ Listed(block) /\ Listed(calls)
  /\ DOMAIN t.tools \subseteq DOMAIN block /\ t.serverTools \subseteq DOMAIN block
  /\ \A i \in DOMAIN block :
        /\ i \in DOMAIN t.tools <=> block[i].type = "tool_use"
        /\ i \in t.serverTools <=> block[i].type = "server_tool_use"
  /\ \A i \in DOMAIN t.tools : t.tools[i] = block[i].call /\ block[i].call \in DOMAIN calls

\* What the translator has seen has come, and what was dropped it has seen.
Noted(m, t) ==
  /\ m.dropped => t.sawDropped
  /\ t.sawVisible => Visible(m)
  /\ t.sawReasoning => m.reasoning # <<>>

\* The two messages say the same.
SameSaid(m, c) ==
  /\ IsMessage(m) /\ IsMessage(c) /\ Listed(m.text) /\ Listed(m.full) /\ Listed(m.reasoning)
  /\ c.text = m.text /\ c.reasoning = m.reasoning /\ c.calls = m.calls
  /\ m.reason # None => c.reason # None /\ c.reason = FinishReason(m.reason)

\* The client's message c is the provider's m, as far as it has come.
InOpenAI(m, t, c) ==
  /\ SameSaid(m, c)
  /\ IsAnthropic(t) /\ t.nextTool = Len(m.calls) + 1
  /\ BlocksNoted(m.block, m.calls, t) /\ Noted(m, t)

\* The translator at the beginning of a frame.
AtFrame(t) == [t |-> t, out |-> <<>>, bad |-> FALSE]

LEMMA AtFrameIs ==
  ASSUME NEW t
  PROVE  IsOutput(AtFrame(t)) /\ AtFrame(t).t = t /\ AtFrame(t).out = <<>> /\ AtFrame(t).bad = FALSE
<1>1. Listed(<<>>)
  BY ListedFew
<1> QED BY <1>1 DEF AtFrame, IsOutput, StateFields

\* One event for the client.
LEMMA EmittedOne ==
  ASSUME NEW s, IsOutput(s), s.out = <<>>, NEW v, NEW x, x = emits(s, v), NEW c
  PROVE  IsOutput(x) /\ x.t = s.t /\ x.bad = s.bad /\ AbsorbAll(c, x.out) = Absorb(c, v)
<1>1. AbsorbAll(c, s.out) = c
  BY AbsorbNothing
<1> QED BY <1>1, Emitted

\* The messages after a piece of text.
LEMMA TextSaid ==
  ASSUME NEW m, NEW c, SameSaid(m, c), NEW n, NEW x, x = addText(m, n), NEW d, d = addText(c, n)
  PROVE  SameSaid(x, d) /\ Visible(x)
<1>1. IsMessage(m) /\ IsMessage(c)
  BY DEF SameSaid
<1>2. /\ IsMessage(x) /\ x.text = Append(m.text, n) /\ x.full = Append(m.full, n) /\ x.reasoning = m.reasoning
      /\ x.calls = m.calls /\ x.reason = m.reason
  BY <1>1, TextAdded
<1>3. /\ IsMessage(d) /\ d.text = Append(c.text, n) /\ d.reasoning = c.reasoning
      /\ d.calls = c.calls /\ d.reason = c.reason
  BY <1>1, TextAdded
<1>4. Listed(x.text) /\ Listed(x.full) /\ x.full # <<>>
  <2>1. Listed(m.text) /\ Listed(m.full) /\ x.text = Append(m.text, n) /\ x.full = Append(m.full, n)
    BY <1>2 DEF SameSaid
  <2>2. Listed(x.text)
    BY <2>1, ListedAppend
  <2>3. Listed(x.full) /\ x.full # <<>>
    BY <2>1, ListedAppend
  <2> QED BY <2>2, <2>3
<1> QED BY <1>2, <1>3, <1>4 DEF SameSaid, Visible

LEMMA ReasoningSaid ==
  ASSUME NEW m, NEW c, SameSaid(m, c), NEW n, NEW x, x = addReasoning(m, n), NEW d, d = addReasoning(c, n)
  PROVE  SameSaid(x, d) /\ x.reasoning # <<>>
<1>1. IsMessage(m) /\ IsMessage(c)
  BY DEF SameSaid
<1>2. /\ IsMessage(x) /\ x.reasoning = Append(m.reasoning, n) /\ x.text = m.text /\ x.full = m.full
      /\ x.calls = m.calls /\ x.reason = m.reason
  BY <1>1, ReasoningAdded
<1>3. /\ IsMessage(d) /\ d.reasoning = Append(c.reasoning, n) /\ d.text = c.text
      /\ d.calls = c.calls /\ d.reason = c.reason
  BY <1>1, ReasoningAdded
<1>4. Listed(x.reasoning) /\ x.reasoning # <<>>
  BY <1>2, ListedAppend DEF SameSaid
<1> QED BY <1>2, <1>3, <1>4 DEF SameSaid

LEMMA ArgsSaid ==
  ASSUME NEW m, NEW c, SameSaid(m, c), NEW k \in DOMAIN m.calls, NEW n,
         NEW x, x = addArgs(m, k, n), NEW d, d = addArgs(c, k, n)
  PROVE  SameSaid(x, d)
<1>1. IsMessage(m) /\ IsMessage(c) /\ k \in DOMAIN c.calls
  BY DEF SameSaid
<1>2. /\ IsMessage(x) /\ x.calls = Grown(m.calls, k, n) /\ x.text = m.text /\ x.full = m.full
      /\ x.reasoning = m.reasoning /\ x.reason = m.reason
  BY <1>1, ArgsAdded
<1>3. /\ IsMessage(d) /\ d.calls = Grown(c.calls, k, n) /\ d.text = c.text
      /\ d.reasoning = c.reasoning /\ d.reason = c.reason
  BY <1>1, ArgsAdded
<1> QED BY <1>2, <1>3 DEF SameSaid

\* What is said does not depend on the blocks.
LEMMA SaidKept ==
  ASSUME NEW m, NEW c, SameSaid(m, c), NEW x, IsMessage(x),
         x.text = m.text, x.full = m.full, x.reasoning = m.reasoning, x.calls = m.calls, x.reason = m.reason
  PROVE  SameSaid(x, c)
BY DEF SameSaid

\* The translator's records that concern the blocks.
SameBlocks(t, u) ==
  IsAnthropic(u) /\ u.tools = t.tools /\ u.serverTools = t.serverTools /\ u.nextTool = t.nextTool

\* The output y is s, but that the translator has seen what it says.
NotedAs(s, y, visible, reasoning, dropped) ==
  /\ IsOutput(y) /\ y.out = s.out /\ y.bad = s.bad /\ SameBlocks(s.t, y.t)
  /\ y.t.sawVisible = visible /\ y.t.sawReasoning = reasoning /\ y.t.sawDropped = dropped

LEMMA VisibleNoted ==
  ASSUME NEW s, IsOutput(s), IsAnthropic(s.t), NEW y, y = [s EXCEPT !.t.sawVisible = TRUE]
  PROVE  NotedAs(s, y, TRUE, s.t.sawReasoning, s.t.sawDropped)
BY DEF IsOutput, StateFields, IsAnthropic, AnthropicFields, SameBlocks, NotedAs

LEMMA ReasoningNoted ==
  ASSUME NEW s, IsOutput(s), IsAnthropic(s.t), NEW y, y = [s EXCEPT !.t.sawReasoning = TRUE]
  PROVE  NotedAs(s, y, s.t.sawVisible, TRUE, s.t.sawDropped)
BY DEF IsOutput, StateFields, IsAnthropic, AnthropicFields, SameBlocks, NotedAs

LEMMA DroppedNoted ==
  ASSUME NEW s, IsOutput(s), IsAnthropic(s.t), NEW y, y = [s EXCEPT !.t.sawDropped = TRUE]
  PROVE  NotedAs(s, y, s.t.sawVisible, s.t.sawReasoning, TRUE)
BY DEF IsOutput, StateFields, IsAnthropic, AnthropicFields, SameBlocks, NotedAs

\* The blocks stay as they were noted while calls grow.
LEMMA BlocksStay ==
  ASSUME NEW block, NEW calls, NEW t, BlocksNoted(block, calls, t),
         NEW u, SameBlocks(t, u), NEW more, Listed(more), DOMAIN calls \subseteq DOMAIN more
  PROVE  BlocksNoted(block, more, u)
BY DEF BlocksNoted, SameBlocks

\* A delta changes no block: what it adds decides.
LEMMA DeltaAgrees ==
  ASSUME NEW m, NEW t, NEW c, InOpenAI(m, t, c),
         NEW i, NEW b, NEW n, NEW y, y = Added(m, i, b, n), NEW d, SameSaid(y, d),
         NEW u, SameBlocks(t, u), y.block = m.block,
         Listed(y.calls), DOMAIN m.calls \subseteq DOMAIN y.calls, Len(y.calls) = Len(m.calls), Noted(y, u),
         NEW x, x = Absorb(m, Ev("delta", i, b, n))
  PROVE  InOpenAI(x, u, d)
<1>1. IsMessage(y)
  BY DEF SameSaid
<1>2. /\ IsMessage(x) /\ x.text = y.text /\ x.full = y.full /\ x.reasoning = y.reasoning /\ x.calls = y.calls
      /\ x.reason = y.reason /\ x.block = y.block /\ x.dropped = y.dropped
  BY <1>1, DeltaAdded
<1>3. SameSaid(x, d)
  BY <1>2, SaidKept
<1>4. BlocksNoted(y.block, y.calls, u)
  BY BlocksStay DEF InOpenAI
<1>5. Noted(x, u)
  BY <1>2 DEF Noted, Visible
<1> QED BY <1>2, <1>3, <1>4, <1>5 DEF InOpenAI, SameBlocks

\* What holds after the frame of one part v, with the output x.
OneInOpenAI(m, v, x, c) == IsOutput(x) /\ InOpenAI(Absorb(m, v), x.t, AbsorbAll(c, x.out))

LEMMA TextDelta ==
  ASSUME NEW m, NEW t, NEW c, InOpenAI(m, t, c), NEW i, NEW n,
         NEW v, v = Ev("delta", i, "text", n), NEW x, x = blockDelta(AtFrame(t), v)
  PROVE  OneInOpenAI(m, v, x, c)
<1> DEFINE s == AtFrame(t)
           e == Ev("text", 0, None, n)
           y == [s EXCEPT !.t.sawVisible = TRUE]
           a == addText(m, n)
           d == addText(c, n)
<1>1. x = emits(y, e)
  <2>1. v.b = "text" /\ v.n = n
    BY DEF Ev
  <2> HIDE DEF s
  <2>2. x = emits([s EXCEPT !.t.sawVisible = TRUE], Ev("text", 0, None, v.n))
    BY <2>1 DEF blockDelta, s
  <2> QED BY <2>1, <2>2
<1>2. IsOutput(s) /\ s.t = t /\ s.out = <<>> /\ IsAnthropic(s.t)
  BY AtFrameIs DEF InOpenAI
<1> HIDE DEF s
<1>3. /\ IsOutput(y) /\ y.out = s.out /\ SameBlocks(t, y.t)
      /\ y.t.sawVisible /\ y.t.sawReasoning = t.sawReasoning /\ y.t.sawDropped = t.sawDropped
  <2>1. NotedAs(s, y, TRUE, s.t.sawReasoning, s.t.sawDropped)
    BY <1>2, VisibleNoted, Zenon
  <2> HIDE DEF y
  <2> QED BY <1>2, <2>1 DEF NotedAs
<1> HIDE DEF y
<1>4. Absorb(c, e) = d
  BY SmallEvents
<1> HIDE DEF e
<1>5. IsOutput(x) /\ x.t = y.t /\ AbsorbAll(c, x.out) = d
  BY <1>1, <1>2, <1>3, <1>4, EmittedOne
<1> HIDE DEF d, a
<1>6. SameSaid(a, d) /\ Visible(a)
  BY TextSaid DEF InOpenAI, a, d
<1>7. a.calls = m.calls /\ a.block = m.block /\ a.dropped = m.dropped /\ a.reasoning = m.reasoning
  BY TextAdded DEF InOpenAI, SameSaid, a
<1>8. a = Added(m, i, "text", n)
  BY DEF Added, a
<1>9. Noted(a, y.t)
  BY <1>3, <1>6, <1>7 DEF InOpenAI, Noted
<1>10. Listed(a.calls)
  BY <1>7 DEF InOpenAI, BlocksNoted
<1>11. InOpenAI(Absorb(m, v), y.t, d)
  BY <1>3, <1>6, <1>7, <1>8, <1>9, <1>10, DeltaAgrees
<1> QED BY <1>5, <1>11 DEF OneInOpenAI

LEMMA ThinkingDelta ==
  ASSUME NEW m, NEW t, NEW c, InOpenAI(m, t, c), NEW i, NEW n,
         NEW v, v = Ev("delta", i, "thinking", n), NEW x, x = blockDelta(AtFrame(t), v)
  PROVE  OneInOpenAI(m, v, x, c)
<1> DEFINE s == AtFrame(t)
           e == Ev("reasoning", 0, None, n)
           y == [s EXCEPT !.t.sawReasoning = TRUE]
           a == addReasoning(m, n)
           d == addReasoning(c, n)
<1>1. x = emits(y, e)
  <2>1. v.b = "thinking" /\ v.n = n
    BY DEF Ev
  <2> HIDE DEF s
  <2>2. x = emits([s EXCEPT !.t.sawReasoning = TRUE], Ev("reasoning", 0, None, v.n))
    BY <2>1 DEF blockDelta, s
  <2> QED BY <2>1, <2>2
<1>2. IsOutput(s) /\ s.t = t /\ s.out = <<>> /\ IsAnthropic(s.t)
  BY AtFrameIs DEF InOpenAI
<1> HIDE DEF s
<1>3. /\ IsOutput(y) /\ y.out = s.out /\ SameBlocks(t, y.t)
      /\ y.t.sawReasoning /\ y.t.sawVisible = t.sawVisible /\ y.t.sawDropped = t.sawDropped
  <2>1. NotedAs(s, y, s.t.sawVisible, TRUE, s.t.sawDropped)
    BY <1>2, ReasoningNoted, Zenon
  <2> HIDE DEF y
  <2> QED BY <1>2, <2>1 DEF NotedAs
<1> HIDE DEF y
<1>4. Absorb(c, e) = d
  BY SmallEvents
<1> HIDE DEF e
<1>5. IsOutput(x) /\ x.t = y.t /\ AbsorbAll(c, x.out) = d
  BY <1>1, <1>2, <1>3, <1>4, EmittedOne
<1> HIDE DEF d, a
<1>6. SameSaid(a, d) /\ a.reasoning # <<>>
  BY ReasoningSaid DEF InOpenAI, a, d
<1>7. a.calls = m.calls /\ a.block = m.block /\ a.dropped = m.dropped /\ a.full = m.full
  BY ReasoningAdded DEF InOpenAI, SameSaid, a
<1>8. a = Added(m, i, "thinking", n)
  BY DEF Added, a
<1>9. Noted(a, y.t)
  BY <1>3, <1>6, <1>7 DEF InOpenAI, Noted, Visible
<1>10. Listed(a.calls)
  BY <1>7 DEF InOpenAI, BlocksNoted
<1>11. InOpenAI(Absorb(m, v), y.t, d)
  BY <1>3, <1>6, <1>7, <1>8, <1>9, <1>10, DeltaAgrees
<1> QED BY <1>5, <1>11 DEF OneInOpenAI

LEMMA OtherDelta ==
  ASSUME NEW m, NEW t, NEW c, InOpenAI(m, t, c), NEW i, NEW n, NEW b, b \notin {"text", "thinking", "json"},
         NEW v, v = Ev("delta", i, b, n), NEW x, x = blockDelta(AtFrame(t), v)
  PROVE  OneInOpenAI(m, v, x, c)
<1> DEFINE s == AtFrame(t)
<1>1. x = [s EXCEPT !.t.sawDropped = TRUE]
  <2>1. v.b = b
    BY DEF Ev
  <2> HIDE DEF s
  <2> QED BY <2>1 DEF blockDelta, s
<1>2. IsOutput(s) /\ s.t = t /\ s.out = <<>> /\ IsAnthropic(s.t)
  BY AtFrameIs DEF InOpenAI
<1> HIDE DEF s
<1>3. /\ IsOutput(x) /\ x.out = s.out /\ SameBlocks(t, x.t)
      /\ x.t.sawDropped /\ x.t.sawVisible = t.sawVisible /\ x.t.sawReasoning = t.sawReasoning
  <2>1. NotedAs(s, x, s.t.sawVisible, s.t.sawReasoning, TRUE)
    BY <1>1, <1>2, DroppedNoted, Zenon
  <2> QED BY <1>2, <2>1 DEF NotedAs
<1>4. AbsorbAll(c, x.out) = c
  BY <1>2, <1>3, AbsorbNothing
<1>5. m = Added(m, i, b, n)
  BY DEF Added
<1>6. Noted(m, x.t)
  BY <1>3 DEF InOpenAI, Noted
<1>7. Listed(m.calls) /\ SameSaid(m, c)
  BY DEF InOpenAI, BlocksNoted
<1>8. InOpenAI(Absorb(m, v), x.t, c)
  BY <1>3, <1>5, <1>6, <1>7, DeltaAgrees
<1> QED BY <1>3, <1>4, <1>8 DEF OneInOpenAI

\* Arguments: of a hosted tool they are dropped with it, of a call they are passed on.
LEMMA JsonDelta ==
  ASSUME NEW m, NEW t, NEW c, InOpenAI(m, t, c), NEW i, NEW n,
         NEW v, v = Ev("delta", i, "json", n), NEW x, x = blockDelta(AtFrame(t), v), ~x.bad
  PROVE  OneInOpenAI(m, v, x, c)
<1> DEFINE s == AtFrame(t)
<1>1. x = jsonDelta(s, v) /\ v.i = i /\ v.n = n
  <2>1. v.b = "json" /\ v.i = i /\ v.n = n
    BY DEF Ev
  <2> HIDE DEF s
  <2> QED BY <2>1 DEF blockDelta, s
<1>2. IsOutput(s) /\ s.t = t /\ s.out = <<>> /\ s.bad = FALSE
  BY AtFrameIs
<1> HIDE DEF s
<1>3. /\ SameBlocks(t, t) /\ Listed(m.calls) /\ SameSaid(m, c) /\ Noted(m, t)
      /\ BlocksNoted(m.block, m.calls, t)
  BY DEF InOpenAI, BlocksNoted, SameBlocks
<1>4. CASE i \in t.serverTools
  <2>1. x = s
    BY <1>1, <1>2, <1>4 DEF jsonDelta
  <2>2. AbsorbAll(c, x.out) = c
    BY <1>2, <2>1, AbsorbNothing
  <2>3. m.block[i].type = "server_tool_use" /\ i \in DOMAIN m.block
    BY <1>3, <1>4 DEF BlocksNoted
  <2>4. m = Added(m, i, "json", n)
    BY <2>3 DEF Added
  <2>5. InOpenAI(Absorb(m, v), t, c)
    BY <1>3, <2>4, DeltaAgrees
  <2> QED BY <1>2, <2>1, <2>2, <2>5 DEF OneInOpenAI
<1>5. CASE i \notin t.serverTools
  <2>1. i \in DOMAIN t.tools
    <3> SUFFICES ASSUME i \notin DOMAIN t.tools PROVE FALSE
      OBVIOUS
    <3>1. x = [s EXCEPT !.bad = TRUE]
      BY <1>1, <1>2, <1>5 DEF jsonDelta
    <3> QED BY <1>2, <3>1 DEF IsOutput, StateFields
  <2> DEFINE k == t.tools[i]
             e == Ev("args", k, None, n)
             a == addArgs(m, k, n)
             d == addArgs(c, k, n)
  <2>2. x = emits(s, e)
    BY <1>1, <1>2, <1>5, <2>1 DEF jsonDelta
  <2>3. i \in DOMAIN m.block /\ m.block[i].type = "tool_use" /\ k = m.block[i].call /\ k \in DOMAIN m.calls
    BY <1>3, <2>1 DEF BlocksNoted
  <2>4. a = Added(m, i, "json", n)
    BY <2>3 DEF Added
  <2>5. Absorb(c, e) = d
    BY SmallEvents
  <2> HIDE DEF e, k
  <2>6. IsOutput(x) /\ x.t = t /\ AbsorbAll(c, x.out) = d
    BY <1>2, <2>2, <2>5, EmittedOne
  <2> HIDE DEF a, d
  <2>7. SameSaid(a, d)
    BY <1>3, <2>3, ArgsSaid DEF a, d
  <2>8. /\ a.calls = Grown(m.calls, k, n) /\ a.block = m.block /\ a.dropped = m.dropped
        /\ a.full = m.full /\ a.reasoning = m.reasoning
    BY <1>3, <2>3, ArgsAdded DEF SameSaid, a
  <2>9. Listed(a.calls) /\ Len(a.calls) = Len(m.calls) /\ DOMAIN a.calls = DOMAIN m.calls
    <3> DEFINE y == [m.calls[k] EXCEPT !.args = Append(@, n)]
    <3>1. a.calls = [m.calls EXCEPT ![k] = y]
      BY <2>8 DEF Grown
    <3> HIDE DEF y
    <3> QED BY <1>3, <2>3, <3>1, ListedExcept
  <2>10. Visible(m) => Visible(a)
    <3>1. m.calls # <<>> => a.calls # <<>>
      BY <1>3, <2>9, ListedFacts
    <3> QED BY <2>8, <3>1 DEF Visible
  <2>11. Noted(a, t)
    BY <1>3, <2>8, <2>10 DEF Noted
  <2>12. InOpenAI(Absorb(m, v), t, d)
    BY <1>3, <2>4, <2>7, <2>8, <2>9, <2>11, DeltaAgrees
  <2> QED BY <2>6, <2>12 DEF OneInOpenAI
<1> QED BY <1>4, <1>5

\* The end of a block, and the frames that say nothing.
LEMMA StopAgrees ==
  ASSUME NEW m, NEW t, NEW c, InOpenAI(m, t, c), NEW i, NEW v, v = Ev("stop", i, None, 0)
  PROVE  OneInOpenAI(m, v, AtFrame(t), c)
<1> DEFINE x == Absorb(m, v)
<1>1. IsMessage(m)
  BY DEF InOpenAI, SameSaid
<1>2. /\ IsMessage(x) /\ x.text = m.text /\ x.full = m.full /\ x.reasoning = m.reasoning /\ x.calls = m.calls
      /\ x.reason = m.reason /\ x.block = m.block /\ x.dropped = m.dropped
  <2> HIDE DEF x
  <2>1. x = Absorb(m, Ev("stop", i, None, 0))
    BY DEF x
  <2> QED BY <1>1, <2>1, BlockClosed
<1> HIDE DEF x
<1>3. SameSaid(x, c)
  BY <1>2, SaidKept DEF InOpenAI
<1>4. Noted(x, t)
  BY <1>2 DEF InOpenAI, Noted, Visible
<1>5. InOpenAI(x, t, c)
  BY <1>2, <1>3, <1>4 DEF InOpenAI
<1>6. AbsorbAll(c, AtFrame(t).out) = c
  BY AtFrameIs, AbsorbNothing
<1> QED BY <1>5, <1>6, AtFrameIs DEF OneInOpenAI, x

LEMMA RoleAgrees ==
  ASSUME NEW m, NEW t, NEW c, InOpenAI(m, t, c), NEW v, v = Ev("message_start", 0, None, 0),
         NEW x, x = emits(AtFrame(t), Ev("role", 0, None, 0))
  PROVE  OneInOpenAI(m, v, x, c)
<1> DEFINE s == AtFrame(t)
           e == Ev("role", 0, None, 0)
<1>1. Absorb(m, v) = m /\ Absorb(c, e) = c
  BY SmallEvents
<1>2. IsOutput(s) /\ s.t = t /\ s.out = <<>>
  BY AtFrameIs
<1>3. x = emits(s, e)
  OBVIOUS
<1> HIDE DEF s, e
<1>4. IsOutput(x) /\ x.t = s.t /\ AbsorbAll(c, x.out) = Absorb(c, e)
  BY <1>2, <1>3, EmittedOne
<1> QED BY <1>1, <1>2, <1>4 DEF OneInOpenAI

LEMMA ReasonAgrees ==
  ASSUME NEW m, NEW t, NEW c, InOpenAI(m, t, c), NEW r, r = None => m.reason = None,
         NEW v, v = Ev("message_delta", 0, r, 0), NEW x, x = messageDelta(AtFrame(t), v), ~x.bad
  PROVE  OneInOpenAI(m, v, x, c)
<1> DEFINE s == AtFrame(t)
           f == FinishReason(r)
           e == Ev("finish", 0, f, 0)
           w == Absorb(m, v)
           d == Absorb(c, e)
<1>1. v.b = r
  BY DEF Ev
<1>2. IsOutput(s) /\ s.t = t /\ s.out = <<>>
  BY AtFrameIs
<1>3. x = IF f = None THEN [s EXCEPT !.bad = TRUE] ELSE emits(s, e)
  BY <1>1, Zenon DEF messageDelta
<1> HIDE DEF s, f
<1>4. f # None /\ x = emits(s, e)
  <2>1. f = None => x.bad
    BY <1>2, <1>3 DEF IsOutput, StateFields
  <2> QED BY <1>3, <2>1
<1>5. ReasonedBy(m, r, w) /\ ReasonedBy(c, f, d)
  <2>1. IsMessage(m) /\ IsMessage(c)
    BY DEF InOpenAI, SameSaid
  <2> HIDE DEF w, d
  <2>2. w = Absorb(m, Ev("message_delta", 0, r, 0)) /\ d = Absorb(c, Ev("finish", 0, f, 0))
    BY DEF w, d
  <2> DEFINE p == "message_delta"
             q == "finish"
  <2>3. /\ p \in {"finish", "message_delta"} /\ w = Absorb(m, Ev(p, 0, r, 0))
        /\ q \in {"finish", "message_delta"} /\ d = Absorb(c, Ev(q, 0, f, 0))
    BY <2>2
  <2> HIDE DEF p, q
  <2>4. ReasonedBy(m, r, w)
    BY <2>1, <2>3, ReasonGiven
  <2>5. ReasonedBy(c, f, d)
    BY <2>1, <2>3, ReasonGiven
  <2> QED BY <2>4, <2>5
<1>6. IsOutput(x) /\ x.t = t /\ AbsorbAll(c, x.out) = d
  <2> HIDE DEF e
  <2> QED BY <1>2, <1>4, EmittedOne
<1> HIDE DEF w, d
<1>7. SameSaid(w, d)
  <2>1. w.reason = (IF r = None THEN m.reason ELSE r) /\ d.reason = f
    BY <1>4, <1>5 DEF ReasonedBy
  <2>2. w.reason # None => d.reason # None /\ d.reason = FinishReason(w.reason)
    BY <1>4, <2>1 DEF f
  <2> QED BY <1>5, <2>2 DEF InOpenAI, SameSaid, ReasonedBy
<1>8. Noted(w, t)
  BY <1>5 DEF InOpenAI, Noted, Visible, ReasonedBy
<1>9. InOpenAI(w, t, d)
  BY <1>5, <1>7, <1>8 DEF InOpenAI, ReasonedBy
<1> QED BY <1>6, <1>9 DEF OneInOpenAI, w

\* A new block i of type b is a tool for the translator, hosted, or nothing to it.
NotedBlock(t, u, i, b, call) ==
  /\ u.tools = IF b = "tool_use" THEN Assign(t.tools, i, call) ELSE t.tools
  /\ u.serverTools = IF b = "server_tool_use" THEN t.serverTools \cup {i} ELSE t.serverTools

LEMMA BlockNoted ==
  ASSUME NEW block, NEW calls, NEW t, BlocksNoted(block, calls, t),
         NEW b, NEW call, NEW more, Listed(more), DOMAIN calls \subseteq DOMAIN more,
         NEW i, i = Len(block) + 1, NEW u, NEW blocks, blocks = Append(block, NewBlock(b, call)),
         b = "tool_use" => call \in DOMAIN more, NotedBlock(t, u, i, b, call)
  PROVE  BlocksNoted(blocks, more, u)
<1>1. Listed(block) /\ Len(block) \in Nat /\ DOMAIN block = 1 .. Len(block)
  BY ListedFacts DEF BlocksNoted
<1>2. /\ Listed(blocks) /\ DOMAIN blocks = DOMAIN block \cup {i} /\ i \notin DOMAIN block
      /\ blocks[i] = NewBlock(b, call) /\ \A j \in DOMAIN block : blocks[j] = block[j]
  <2> DEFINE w == NewBlock(b, call)
  <2> HIDE DEF w
  <2>1. blocks = Append(block, w)
    BY DEF w
  <2>2. /\ Listed(blocks) /\ DOMAIN blocks = 1 .. Len(block) + 1 /\ blocks[Len(block) + 1] = w
        /\ \A j \in DOMAIN block : blocks[j] = block[j]
    BY <1>1, <2>1, ListedAppend
  <2>3. DOMAIN blocks = DOMAIN block \cup {i} /\ i \notin DOMAIN block
    BY <1>1, <2>2
  <2> QED BY <2>2, <2>3 DEF w
<1>3. blocks[i].type = b /\ blocks[i].call = call
  BY <1>2 DEF NewBlock
<1>4. /\ DOMAIN u.tools = IF b = "tool_use" THEN DOMAIN t.tools \cup {i} ELSE DOMAIN t.tools
      /\ b = "tool_use" => u.tools[i] = call
      /\ \A j \in DOMAIN t.tools : j # i => u.tools[j] = t.tools[j]
      /\ u.serverTools = IF b = "server_tool_use" THEN t.serverTools \cup {i} ELSE t.serverTools
  BY DEF Assign, NotedBlock
<1>5. DOMAIN u.tools \subseteq DOMAIN blocks /\ u.serverTools \subseteq DOMAIN blocks
  BY <1>2, <1>4 DEF BlocksNoted
<1>6. \A j \in DOMAIN blocks :
        /\ j \in DOMAIN u.tools <=> blocks[j].type = "tool_use"
        /\ j \in u.serverTools <=> blocks[j].type = "server_tool_use"
  <2> TAKE j \in DOMAIN blocks
  <2>1. CASE j = i
    <3>1. j \notin DOMAIN t.tools /\ j \notin t.serverTools
      BY <1>2, <2>1 DEF BlocksNoted
    <3> QED BY <1>3, <1>4, <2>1, <3>1
  <2>2. CASE j # i
    <3>1. j \in DOMAIN block /\ blocks[j] = block[j]
      BY <1>2, <2>2
    <3>2. j \in DOMAIN u.tools <=> j \in DOMAIN t.tools
      BY <1>4, <2>2
    <3>3. j \in u.serverTools <=> j \in t.serverTools
      BY <1>4, <2>2
    <3> QED BY <3>1, <3>2, <3>3 DEF BlocksNoted
  <2> QED BY <2>1, <2>2
<1>7. \A j \in DOMAIN u.tools : u.tools[j] = blocks[j].call /\ blocks[j].call \in DOMAIN more
  <2> TAKE j \in DOMAIN u.tools
  <2>1. CASE j = i
    <3>1. b = "tool_use"
      BY <1>2, <1>4, <2>1 DEF BlocksNoted
    <3> QED BY <1>3, <1>4, <2>1, <3>1
  <2>2. CASE j # i
    <3>1. j \in DOMAIN t.tools /\ u.tools[j] = t.tools[j] /\ j \in DOMAIN block
      BY <1>4, <2>2 DEF BlocksNoted
    <3>2. blocks[j] = block[j]
      BY <1>2, <3>1
    <3> QED BY <3>1, <3>2 DEF BlocksNoted
  <2> QED BY <2>1, <2>2
<1> QED BY <1>2, <1>5, <1>6, <1>7 DEF BlocksNoted

\* What the translator does with the start of a block: d is the client after c.
BlockBegun(t, u, i, b, n, c, d) ==
  /\ IsAnthropic(u) /\ u.sawReasoning = t.sawReasoning
  /\ d = IF b = "tool_use" THEN addCall(c, n) ELSE c
  /\ u.nextTool = IF b = "tool_use" THEN t.nextTool + 1 ELSE t.nextTool
  /\ NotedBlock(t, u, i, b, t.nextTool)
  /\ u.sawVisible = IF b = "tool_use" THEN TRUE ELSE t.sawVisible
  /\ u.sawDropped = IF b = "server_tool_use" THEN TRUE ELSE t.sawDropped

LEMMA StartNoted ==
  ASSUME NEW s, IsOutput(s), s.out = <<>>, IsAnthropic(s.t), NEW i, NEW b, NEW n,
         NEW v, v = Ev("start", i, b, n), NEW x, x = blockStart(s, v), NEW c
  PROVE  IsOutput(x) /\ BlockBegun(s.t, x.t, i, b, n, c, AbsorbAll(c, x.out))
<1>0. v.i = i /\ v.b = b /\ v.n = n
  BY DEF Ev
<1>1. AbsorbAll(c, s.out) = c
  BY AbsorbNothing
<1>2. CASE b = "tool_use"
  <2> DEFINE k == s.t.nextTool
             e == Ev("tool", k, None, n)
             tools == Assign(s.t.tools, i, k)
             tt == [s.t EXCEPT !.sawVisible = TRUE, !.nextTool = k + 1, !.tools = tools]
             y == [s EXCEPT !.t = tt]
  <2>1. x = emits([s EXCEPT !.t.sawVisible = TRUE, !.t.nextTool = @ + 1, !.t.tools = Assign(@, i, k)], e)
    BY <1>0, <1>2, Zenon DEF blockStart
  <2>2. [s EXCEPT !.t.sawVisible = TRUE, !.t.nextTool = @ + 1, !.t.tools = Assign(@, i, k)] = y
    BY DEF IsOutput, StateFields, IsAnthropic, AnthropicFields
  <2>3. /\ IsAnthropic(tt) /\ tt.sawVisible = TRUE /\ tt.nextTool = k + 1 /\ tt.tools = tools
        /\ tt.sawReasoning = s.t.sawReasoning /\ tt.sawDropped = s.t.sawDropped
        /\ tt.serverTools = s.t.serverTools
    <3> HIDE DEF tools, k
    <3> QED BY DEF IsAnthropic, AnthropicFields
  <2>4. Absorb(c, e) = addCall(c, n)
    BY SmallEvents
  <2> HIDE DEF tt, e
  <2>5. IsOutput(y) /\ y.t = tt /\ y.out = <<>>
    BY DEF IsOutput, StateFields
  <2> HIDE DEF y
  <2>6. x = emits(y, e)
    BY <2>1, <2>2
  <2>7. IsOutput(x) /\ x.t = tt /\ AbsorbAll(c, x.out) = Absorb(c, e)
    BY <2>5, <2>6, EmittedOne
  <2> QED BY <1>2, <2>3, <2>4, <2>7 DEF BlockBegun, NotedBlock
<1>3. CASE b = "server_tool_use"
  <2> DEFINE hosted == s.t.serverTools \cup {i}
             tt == [s.t EXCEPT !.serverTools = hosted, !.sawDropped = TRUE]
  <2>1. x = [s EXCEPT !.t.serverTools = @ \cup {i}, !.t.sawDropped = TRUE]
    BY <1>0, <1>3 DEF blockStart
  <2>2. x = [s EXCEPT !.t = tt]
    BY <2>1 DEF IsOutput, StateFields, IsAnthropic, AnthropicFields
  <2>3. /\ IsAnthropic(tt) /\ tt.serverTools = hosted /\ tt.sawDropped = TRUE
        /\ tt.sawReasoning = s.t.sawReasoning /\ tt.sawVisible = s.t.sawVisible
        /\ tt.nextTool = s.t.nextTool /\ tt.tools = s.t.tools
    <3> HIDE DEF hosted
    <3> QED BY DEF IsAnthropic, AnthropicFields
  <2> HIDE DEF tt
  <2>4. IsOutput(x) /\ x.t = tt /\ x.out = s.out
    BY <2>2 DEF IsOutput, StateFields
  <2> QED BY <1>1, <1>3, <2>3, <2>4 DEF BlockBegun, NotedBlock
<1>4. CASE b # "tool_use" /\ b # "server_tool_use"
  <2>1. x = s
    BY <1>0, <1>4 DEF blockStart
  <2> QED BY <1>1, <1>4, <2>1 DEF BlockBegun, NotedBlock
<1> QED BY <1>2, <1>3, <1>4

LEMMA StartedAgrees ==
  ASSUME NEW m, NEW t, NEW c, InOpenAI(m, t, c), NEW b, NEW n, NEW i, i = Len(m.block) + 1,
         NEW v, v = Ev("start", i, b, n), NEW x, x = blockStart(AtFrame(t), v)
  PROVE  OneInOpenAI(m, v, x, c)
<1> DEFINE s == AtFrame(t)
           w == Absorb(m, v)
           d == AbsorbAll(c, x.out)
           u == x.t
           k == Len(m.calls) + 1
<1>1. IsOutput(s) /\ s.t = t /\ s.out = <<>> /\ IsAnthropic(s.t)
  BY AtFrameIs DEF InOpenAI
<1> HIDE DEF s
<1>2. IsOutput(x) /\ BlockBegun(t, u, i, b, n, c, d)
  <2>1. x = blockStart(s, v)
    BY DEF s
  <2>2. IsOutput(x) /\ BlockBegun(s.t, x.t, i, b, n, c, AbsorbAll(c, x.out))
    BY <1>1, <2>1, StartNoted
  <2> QED BY <1>1, <2>2
<1>3. IsMessage(m) /\ IsMessage(c) /\ c.calls = m.calls /\ t.nextTool = k /\ Listed(m.calls)
  BY DEF InOpenAI, SameSaid, BlocksNoted
<1>4. /\ IsMessage(w) /\ w.block = Append(m.block, NewBlock(b, Len(w.calls)))
      /\ w.calls = (IF b = "tool_use" THEN Append(m.calls, NewCall(n)) ELSE m.calls)
      /\ w.dropped <=> (m.dropped \/ b = "server_tool_use")
      /\ w.text = m.text /\ w.full = m.full /\ w.reasoning = m.reasoning /\ w.reason = m.reason
  <2> HIDE DEF w
  <2>1. w = Absorb(m, Ev("start", i, b, n))
    BY DEF w
  <2> QED BY <1>3, <2>1, BlockOpened DEF NewBlock, NewCall
<1> HIDE DEF w, d, u
<1>5. /\ IsMessage(d) /\ d.calls = w.calls /\ d.text = c.text /\ d.reasoning = c.reasoning
      /\ d.reason = c.reason
  <2>1. CASE b = "tool_use"
    <3>1. d = addCall(c, n)
      BY <1>2, <2>1 DEF BlockBegun
    <3> QED BY <1>3, <1>4, <2>1, <3>1, CallAdded DEF NewCall
  <2>2. CASE b # "tool_use"
    BY <1>2, <1>3, <1>4, <2>2 DEF BlockBegun
  <2> QED BY <2>1, <2>2
<1>6. /\ Listed(w.calls) /\ DOMAIN m.calls \subseteq DOMAIN w.calls
      /\ b = "tool_use" => Len(w.calls) = k /\ k \in DOMAIN w.calls /\ w.calls # <<>>
  <2>1. CASE b = "tool_use"
    <3> DEFINE e == NewCall(n)
    <3>1. w.calls = Append(m.calls, e)
      BY <1>4, <2>1
    <3> HIDE DEF e
    <3>2. Len(m.calls) \in Nat /\ DOMAIN m.calls = 1 .. Len(m.calls)
      BY <1>3, ListedFacts
    <3>3. /\ Listed(w.calls) /\ w.calls # <<>> /\ Len(w.calls) = k /\ DOMAIN w.calls = 1 .. k
      BY <1>3, <3>1, ListedAppend
    <3> QED BY <3>2, <3>3
  <2>2. CASE b # "tool_use"
    BY <1>3, <1>4, <2>2
  <2> QED BY <2>1, <2>2
<1>7. SameSaid(w, d)
  BY <1>4, <1>5 DEF InOpenAI, SameSaid
<1>8. u.nextTool = Len(w.calls) + 1
  <2>1. CASE b = "tool_use"
    BY <1>2, <1>3, <1>6, <2>1 DEF BlockBegun
  <2>2. CASE b # "tool_use"
    BY <1>2, <1>3, <1>4, <2>2 DEF BlockBegun
  <2> QED BY <2>1, <2>2
<1>9. BlocksNoted(w.block, w.calls, u)
  <2> DEFINE call == Len(w.calls)
  <2>1. b = "tool_use" => call \in DOMAIN w.calls /\ t.nextTool = call
    BY <1>3, <1>6
  <2>2. w.block = Append(m.block, NewBlock(b, call))
    BY <1>4
  <2>3. NotedBlock(t, u, i, b, call)
    BY <1>2, <2>1 DEF BlockBegun, NotedBlock
  <2>4. BlocksNoted(m.block, m.calls, t)
    BY DEF InOpenAI
  <2> HIDE DEF call
  <2> QED BY <1>6, <2>1, <2>2, <2>3, <2>4, BlockNoted
<1>10. Noted(w, u)
  <2>1. Visible(m) \/ b = "tool_use" => Visible(w)
    <3>1. CASE b = "tool_use"
      BY <1>6, <3>1 DEF Visible
    <3>2. CASE b # "tool_use"
      BY <1>4, <3>2 DEF Visible
    <3> QED BY <3>1, <3>2
  <2>2. w.dropped => u.sawDropped
    BY <1>2, <1>4 DEF InOpenAI, Noted, BlockBegun
  <2>3. u.sawVisible => Visible(w)
    BY <1>2, <2>1 DEF InOpenAI, Noted, BlockBegun
  <2>4. u.sawReasoning => w.reasoning # <<>>
    BY <1>2, <1>4 DEF InOpenAI, Noted, BlockBegun
  <2> QED BY <2>2, <2>3, <2>4 DEF Noted
<1>11. InOpenAI(w, u, d)
  BY <1>2, <1>7, <1>8, <1>9, <1>10 DEF InOpenAI, BlockBegun
<1> QED BY <1>2, <1>11 DEF OneInOpenAI, w, d, u

\* Which part of the translator takes which frame.
LEMMA AnthropicFrameIs ==
  ASSUME NEW t, NEW v, NEW p, p = <<v>>, NEW x, x = AnthropicFrame(t, p)
  PROVE  /\ v.e = "message_start" => x = emits(AtFrame(t), Ev("role", 0, None, 0))
         /\ v.e = "start" => x = blockStart(AtFrame(t), v)
         /\ v.e = "delta" => x = blockDelta(AtFrame(t), v)
         /\ v.e = "message_delta" => x = messageDelta(AtFrame(t), v)
         /\ v.e = "stop" => x = AtFrame(t)
<1> DEFINE s == AtFrame(t)
<1>1. p[1] = v
  OBVIOUS
<1>2. x = CASE v.e = "message_start" -> emits(s, Ev("role", 0, None, 0))
            [] v.e = "start"         -> blockStart(s, v)
            [] v.e = "delta"         -> blockDelta(s, v)
            [] v.e = "message_delta" -> messageDelta(s, v)
            [] OTHER                 -> s
  <2>1. x = CASE p[1].e = "message_start" -> emits(s, Ev("role", 0, None, 0))
              [] p[1].e = "start"         -> blockStart(s, p[1])
              [] p[1].e = "delta"         -> blockDelta(s, p[1])
              [] p[1].e = "message_delta" -> messageDelta(s, p[1])
              [] OTHER                    -> s
    BY Zenon DEF AnthropicFrame, AtFrame
  <2> QED BY <1>1, <2>1, Zenon
<1> HIDE DEF s
<1>3. /\ v.e = "message_start" => x = emits(s, Ev("role", 0, None, 0))
      /\ v.e = "start" => x = blockStart(s, v)
      /\ v.e = "delta" => x = blockDelta(s, v)
      /\ v.e = "message_delta" => x = messageDelta(s, v)
      /\ v.e = "stop" => x = s
  BY <1>2
<1> QED BY <1>3, Zenon DEF s

\* A frame through the translator.
LEMMA AnthropicFrameAgrees ==
  ASSUME NEW m, NEW t, NEW c, InOpenAI(m, t, c), NEW p, AnthropicParts(m, p),
         NEW x, x = AnthropicFrame(t, p), ~x.bad
  PROVE  IsOutput(x) /\ InOpenAI(AbsorbAll(m, p), x.t, AbsorbAll(c, x.out))
<1>1. ASSUME NEW v, p = <<v>>, OneInOpenAI(m, v, x, c)
      PROVE  IsOutput(x) /\ InOpenAI(AbsorbAll(m, p), x.t, AbsorbAll(c, x.out))
  <2>1. AbsorbAll(m, p) = Absorb(m, v)
    BY <1>1, AbsorbOne
  <2> QED BY <1>1, <2>1 DEF OneInOpenAI
<1>2. CASE p = <<Ev("message_start", 0, None, 0)>>
  <2> DEFINE v == Ev("message_start", 0, None, 0)
  <2>1. v.e = "message_start" /\ v = Ev("message_start", 0, None, 0) /\ p = <<v>>
    BY <1>2 DEF Ev
  <2> HIDE DEF v
  <2>2. x = emits(AtFrame(t), Ev("role", 0, None, 0))
    BY <2>1, AnthropicFrameIs
  <2> QED BY <1>1, <2>1, <2>2, RoleAgrees
<1>3. CASE \E b, n : m.open = 0 /\ p = <<Ev("start", Len(m.block) + 1, b, n)>>
  <2>1. PICK b, n : p = <<Ev("start", Len(m.block) + 1, b, n)>>
    BY <1>3
  <2> DEFINE i == Len(m.block) + 1
             v == Ev("start", i, b, n)
  <2>2. v.e = "start" /\ p = <<v>>
    BY <2>1 DEF Ev
  <2>3. x = blockStart(AtFrame(t), v)
    <3> HIDE DEF v
    <3> QED BY <2>2, AnthropicFrameIs
  <2>4. i = Len(m.block) + 1 /\ v = Ev("start", i, b, n)
    OBVIOUS
  <2> HIDE DEF i, v
  <2> QED BY <1>1, <2>2, <2>3, <2>4, StartedAgrees
<1>4. ASSUME NEW i, NEW b, NEW n, p = <<Ev("delta", i, b, n)>>
      PROVE  IsOutput(x) /\ InOpenAI(AbsorbAll(m, p), x.t, AbsorbAll(c, x.out))
  <2> DEFINE v == Ev("delta", i, b, n)
  <2>1. v.e = "delta" /\ p = <<v>> /\ v = Ev("delta", i, b, n)
    BY <1>4 DEF Ev
  <2> HIDE DEF v
  <2>2. x = blockDelta(AtFrame(t), v)
    BY <2>1, AnthropicFrameIs
  <2>3. CASE b = "text"
    BY <1>1, <2>1, <2>2, <2>3, TextDelta
  <2>4. CASE b = "thinking"
    BY <1>1, <2>1, <2>2, <2>4, ThinkingDelta
  <2>5. CASE b = "json"
    BY <1>1, <2>1, <2>2, <2>5, JsonDelta
  <2>6. CASE b \notin {"text", "thinking", "json"}
    BY <1>1, <2>1, <2>2, <2>6, OtherDelta
  <2> QED BY <2>3, <2>4, <2>5, <2>6
<1>5. CASE m.open # 0 /\ p = <<Ev("stop", m.open, None, 0)>>
  <2> DEFINE i == m.open
             v == Ev("stop", i, None, 0)
  <2>1. v.e = "stop" /\ p = <<v>> /\ v = Ev("stop", i, None, 0)
    BY <1>5 DEF Ev
  <2> HIDE DEF v, i
  <2>2. x = AtFrame(t)
    BY <2>1, AnthropicFrameIs
  <2> QED BY <1>1, <2>1, <2>2, StopAgrees
<1>6. CASE \E r : (r = None => m.reason = None) /\ p = <<Ev("message_delta", 0, r, 0)>>
  <2>1. PICK r : (r = None => m.reason = None) /\ p = <<Ev("message_delta", 0, r, 0)>>
    BY <1>6
  <2> DEFINE v == Ev("message_delta", 0, r, 0)
  <2>2. v.e = "message_delta" /\ p = <<v>> /\ v = Ev("message_delta", 0, r, 0)
    BY <2>1 DEF Ev
  <2> HIDE DEF v
  <2>3. x = messageDelta(AtFrame(t), v)
    BY <2>2, AnthropicFrameIs
  <2> QED BY <1>1, <2>1, <2>2, <2>3, ReasonAgrees
<1>7. CASE \E i, b, n : p = <<Ev("delta", i, b, n)>>
  BY <1>4, <1>7
<1>8. \/ p = <<Ev("message_start", 0, None, 0)>>
      \/ \E b, n : m.open = 0 /\ p = <<Ev("start", Len(m.block) + 1, b, n)>>
      \/ \E i, b, n : p = <<Ev("delta", i, b, n)>>
      \/ m.open # 0 /\ p = <<Ev("stop", m.open, None, 0)>>
      \/ \E r : (r = None => m.reason = None) /\ p = <<Ev("message_delta", 0, r, 0)>>
  BY Zenon DEF AnthropicParts
<1> QED BY <1>2, <1>3, <1>5, <1>6, <1>7, <1>8

\* The client's message has the parts of the provider's, which has a meaning for
\* it.
AnthropicDelivered(m, c) ==
  ~UnrepresentableAnthropic(m) /\ Content(c) = Passed("anthropic", m) /\ Listed(m.calls)

LEMMA AnthropicAnswerIs ==
  ASSUME NEW m
  PROVE  Passed("anthropic", m) =
           [text |-> m.text, reasoning |-> m.reasoning, calls |-> m.calls, reason |-> FinishReason(m.reason)]
<1> DEFINE k == Content(m)
           r == FinishReason(m.reason)
<1>1. k = [text |-> m.text, reasoning |-> m.reasoning, calls |-> m.calls, reason |-> m.reason]
  BY DEF Content
<1>2. Passed("anthropic", m) = [k EXCEPT !.reason = FinishReason(k.reason)]
  <2>1. "anthropic" # "openai"
    OBVIOUS
  <2> QED BY <2>1, Zenon DEF Passed
<1>3. k.reason = m.reason
  BY <1>1
<1> HIDE DEF k
<1>4. Passed("anthropic", m) = [k EXCEPT !.reason = r]
  BY <1>2, <1>3
<1> HIDE DEF r
<1>5. Passed("anthropic", m) = [text |-> m.text, reasoning |-> m.reasoning, calls |-> m.calls, reason |-> r]
  BY <1>1, <1>4
<1> QED BY <1>5 DEF r

LEMMA AnthropicEndAgrees ==
  ASSUME NEW m, m.reason # None, NEW t, NEW c, InOpenAI(m, t, c), NEW x, x = AnthropicTerminal(t), ~x.bad
  PROVE  Listed(x.out) /\ AnthropicDelivered(Absorb(m, Ev("message_stop", 0, None, 0)), AbsorbAll(c, x.out))
<1> DEFINE v == Ev("done", 0, None, 0)
           w == Absorb(m, Ev("message_stop", 0, None, 0))
           d == AbsorbAll(c, x.out)
<1>1. x.out = <<v>> /\ ~(t.sawDropped /\ ~t.sawVisible /\ ~t.sawReasoning)
  BY DEF AnthropicTerminal
<1>2. d = Absorb(c, v)
  <2> HIDE DEF v
  <2> QED BY <1>1, AbsorbOne
<1>3. Listed(x.out)
  BY <1>1, ListedFew
<1>4. IsMessage(m) /\ IsMessage(c)
  BY DEF InOpenAI, SameSaid
<1>5. EndedBy(m, w)
  <2> DEFINE k == "message_stop"
  <2> HIDE DEF w
  <2>1. k \in {"done", "message_stop"} /\ w = Absorb(m, Ev(k, 0, None, 0))
    BY DEF w
  <2> HIDE DEF k
  <2> QED BY <1>4, <2>1, EndGiven
<1>6. EndedBy(c, d)
  <2> DEFINE k == "done"
  <2> HIDE DEF d
  <2>1. k \in {"done", "message_stop"} /\ d = Absorb(c, Ev(k, 0, None, 0))
    BY <1>2
  <2> HIDE DEF k
  <2> QED BY <1>4, <2>1, EndGiven
<1> HIDE DEF w, d
<1>7. /\ d.text = w.text /\ d.reasoning = w.reasoning /\ d.calls = w.calls
      /\ d.reason = FinishReason(w.reason) /\ d.reason # None
  BY <1>5, <1>6 DEF EndedBy, InOpenAI, SameSaid
<1>8. Content(d) = Passed("anthropic", w)
  BY <1>7, AnthropicAnswerIs DEF Content
<1>9. ~UnrepresentableAnthropic(w)
  <2>1. m.dropped => Visible(m) \/ m.reasoning # <<>>
    BY <1>1 DEF InOpenAI, Noted
  <2>2. w.dropped = m.dropped /\ w.reasoning = m.reasoning /\ (Visible(w) <=> Visible(m))
    BY <1>5 DEF EndedBy, Visible
  <2> QED BY <1>7, <2>1, <2>2 DEF UnrepresentableAnthropic
<1>10. Listed(w.calls)
  BY <1>5 DEF EndedBy, InOpenAI, BlocksNoted
<1>11. AnthropicDelivered(w, d)
  BY <1>8, <1>9, <1>10 DEF AnthropicDelivered
<1> QED BY <1>3, <1>11 DEF w, d

LEMMA NothingInOpenAI == InOpenAI(NoMessage, NewAnthropic, NoMessage)
<1>1. IsMessage(NoMessage) /\ Listed(<<>>) /\ Len(<<>>) = 0 /\ DOMAIN <<>> = {}
  <2>1. Len(<<>>) = 0 /\ DOMAIN <<>> = {}
    OBVIOUS
  <2> QED BY <2>1, NoMessageIs, ListedFew
<1>2. /\ NoMessage.text = <<>> /\ NoMessage.full = <<>> /\ NoMessage.reasoning = <<>> /\ NoMessage.calls = <<>>
      /\ NoMessage.block = <<>> /\ NoMessage.reason = None /\ NoMessage.dropped = FALSE
  BY DEF NoMessage
<1>3. /\ IsAnthropic(NewAnthropic) /\ NewAnthropic.tools = <<>> /\ NewAnthropic.serverTools = {}
      /\ NewAnthropic.nextTool = 1 /\ NewAnthropic.sawVisible = FALSE /\ NewAnthropic.sawReasoning = FALSE
  BY DEF NewAnthropic, IsAnthropic, AnthropicFields
<1>4. BlocksNoted(NoMessage.block, NoMessage.calls, NewAnthropic)
  BY <1>1, <1>2, <1>3 DEF BlocksNoted
<1>5. SameSaid(NoMessage, NoMessage) /\ Noted(NoMessage, NewAnthropic)
  BY <1>1, <1>2, <1>3 DEF SameSaid, Noted
<1> QED BY <1>1, <1>2, <1>3, <1>4, <1>5 DEF InOpenAI

-----------------------------------------------------------------------------
(* The types of a call.                                                    *)

DueTyped == due \subseteq [generation : 1 .. generation, wait : Nat]

Causes == {None, "deadline", "client", "closed"}

TypesInv ==
  /\ pair \in Pairs
  /\ reader.total <= StreamBytes
  /\ Listed(held) /\ Len(held) <= StreamBytes
  /\ delivered \in BOOLEAN /\ audited \in BOOLEAN /\ told \in BOOLEAN /\ gone \in BOOLEAN
  /\ DueTyped /\ cause \in Causes

LEMMA TypesInit == StreamInit => TypesInv
<1> SUFFICES ASSUME StreamInit PROVE TypesInv
  OBVIOUS
<1>1. /\ pair \in Pairs /\ reader = NewReader /\ held = <<>> /\ due = {} /\ cause = None
      /\ delivered = FALSE /\ audited = FALSE /\ told = FALSE /\ gone = FALSE
  BY Zenon DEF StreamInit
<1>2. Listed(held) /\ Len(held) = 0
  BY <1>1, ListedFew
<1>3. reader.total = 0
  BY <1>1 DEF NewReader
<1>4. StreamBytes \in Nat
  BY StreamingAssumptions
<1>5. reader.total <= StreamBytes /\ Len(held) <= StreamBytes
  BY <1>2, <1>3, <1>4
<1>6. DueTyped /\ cause \in Causes
  BY <1>1 DEF DueTyped, Causes
<1> QED BY <1>1, <1>2, <1>5, <1>6 DEF TypesInv

\* Callbacks that were started stay typed when the generation grows.
LEMMA DueKept ==
  ASSUME TypesInv, generation \in Nat, generation' \in Nat, generation' >= generation, due' \subseteq due
  PROVE  DueTyped'
<1>1. 1 .. generation \subseteq 1 .. generation'
  OBVIOUS
<1> QED BY <1>1 DEF TypesInv, DueTyped

\* The attempt is over: what it held is kept, or nothing is.
LEMMA TypesAttempt ==
  ASSUME TypesInv, EndsInv, TimerInv, NEW f, attemptEnds(f),
         UNCHANGED <<pair, audited, told, gone, due>>, delivered' \in BOOLEAN
  PROVE  TypesInv'
<1>1. /\ reader' = NewReader /\ held' = (IF f THEN <<>> ELSE held) /\ cause' = "closed"
      /\ generation' = generation + 1
  BY DEF attemptEnds, stop
<1>2. Listed(held') /\ Len(held') <= StreamBytes
  <2>1. Listed(<<>>) /\ Len(<<>>) <= StreamBytes
    <3>1. Len(<<>>) = 0 /\ Listed(<<>>)
      <4>1. Len(<<>>) = 0
        OBVIOUS
      <4> QED BY <4>1, ListedFew
    <3>2. StreamBytes \in Nat
      BY StreamingAssumptions
    <3> QED BY <3>1, <3>2
  <2>2. CASE f
    BY <1>1, <2>1, <2>2
  <2>3. CASE ~f
    BY <1>1, <2>3 DEF TypesInv
  <2> QED BY <2>2, <2>3
<1>3. reader'.total = 0
  BY <1>1 DEF NewReader
<1>4. DueTyped'
  BY <1>1, DueKept DEF TimerInv
<1> QED BY <1>1, <1>2, <1>3, <1>4, StreamingAssumptions DEF TypesInv, Causes

LEMMA TypesRead ==
  ASSUME TypesInv, EndsInv, TimerInv, ReadFrame
  PROVE  TypesInv'
<1> DEFINE x == Translate
           nonempty == ~x.bad /\ (x.out # <<>> \/ ~translated)
           holds == nonempty /\ HoldsBack(x.out)
           writes == nonempty /\ ~holds
           fails == \/ x.bad
                    \/ holds /\ Len(held) + Len(x.out) > StreamBytes
                    \/ writes /\ gone
<1>1. /\ phase = "got" /\ frame.kind \in {"data", "comment"} /\ ~Rejected
      /\ delivered' = (delivered \/ writes)
      /\ \/ fails /\ attemptEnds(TRUE)
         \/ /\ ~fails /\ stop(TRUE)
            /\ held' = IF holds THEN held \o x.out ELSE held
            /\ reader' = [started  |-> reader.started \/ Starts,
                          finished |-> reader.finished \/ Finishes,
                          total    |-> reader.total + 1]
            /\ UNCHANGED cause
      /\ UNCHANGED <<pair, audited, told, gone, due>>
  BY Zenon DEF ReadFrame
<1>2. delivered' \in BOOLEAN
  <2> HIDE DEF writes
  <2> QED BY <1>1, Zenon
<1>3. Listed(x.out)
  BY <1>1, TranslateListed DEF EndsInv
<1>4. CASE attemptEnds(TRUE)
  BY <1>1, <1>2, <1>4, TypesAttempt
<1>5. CASE /\ ~fails /\ stop(TRUE)
           /\ held' = IF holds THEN held \o x.out ELSE held
           /\ reader' = [started  |-> reader.started \/ Starts,
                         finished |-> reader.finished \/ Finishes,
                         total    |-> reader.total + 1]
           /\ UNCHANGED cause
  <2>1. reader'.total = reader.total + 1
    BY <1>5
  <2>2. reader'.total <= StreamBytes
    <3>1. ~(reader.total + 1 > StreamBytes)
      BY <1>1 DEF Rejected
    <3>2. reader.total \in Nat /\ StreamBytes \in Nat
      BY StreamingAssumptions DEF EndsInv, EndsTyped
    <3> QED BY <2>1, <3>1, <3>2
  <2>3. Listed(held') /\ Len(held') <= StreamBytes
    <3> HIDE DEF x, nonempty
    <3>1. CASE holds
      <4>1. held' = held \o x.out /\ ~(Len(held) + Len(x.out) > StreamBytes)
        BY <1>5, <3>1
      <4>2. Listed(held)
        BY DEF TypesInv
      <4>3. Listed(held \o x.out) /\ Len(held \o x.out) = Len(held) + Len(x.out)
        BY <1>3, <4>2, ListedConcat
      <4>4. Len(held) \in Nat /\ Len(x.out) \in Nat /\ StreamBytes \in Nat
        BY <1>3, <4>2, ListedFacts, StreamingAssumptions
      <4> QED BY <4>1, <4>3, <4>4
    <3>2. CASE ~holds
      BY <1>5, <3>2 DEF TypesInv
    <3> QED BY <3>1, <3>2
  <2>4. generation' = generation + 2
    BY <1>5 DEF stop
  <2>5. DueTyped'
    BY <1>1, <2>4, DueKept DEF TimerInv
  <2>6. UNCHANGED <<pair, audited, told, gone, cause>>
    BY <1>1, <1>5
  <2> QED BY <1>2, <2>2, <2>3, <2>5, <2>6 DEF TypesInv
<1> QED BY <1>1, <1>4, <1>5

LEMMA TypesNext ==
  ASSUME TypesInv, EndsInv, TimerInv, [StreamNext]_streamVars
  PROVE  TypesInv'
<1>0. generation \in Nat
  BY DEF TimerInv
<1>1. CASE Headers
  <2>1. UNCHANGED <<pair, reader, held, delivered, audited, told, gone, due, cause>> /\ generation' = generation + 2
    BY <1>1 DEF Headers, readVars, replyVars, stop
  <2>2. DueTyped'
    BY <1>0, <2>1, DueKept
  <2> QED BY <2>1, <2>2 DEF TypesInv
<1>2. CASE Arrive \/ Break \/ UNCHANGED streamVars
  <2>1. UNCHANGED <<pair, reader, held, delivered, audited, told, gone, due, cause, generation>>
    BY <1>2, Zenon DEF Arrive, Break, streamVars, readVars, replyVars, timerVars
  <2>2. DueTyped'
    BY <2>1 DEF TypesInv, DueTyped
  <2> QED BY <2>1, <2>2 DEF TypesInv
<1>3. CASE Leave
  <2>1. /\ UNCHANGED <<pair, reader, held, delivered, audited, told, due, generation>> /\ gone' = TRUE
        /\ cause' = cause \/ cause' = "client"
    BY <1>3 DEF Leave, readVars, cancel
  <2>2. DueTyped'
    BY <2>1 DEF TypesInv, DueTyped
  <2>3. cause' \in Causes
    BY <2>1 DEF TypesInv, Causes
  <2> QED BY <2>1, <2>2, <2>3 DEF TypesInv
<1>4. CASE ReadFails
  <2>1. attemptEnds(TRUE) /\ UNCHANGED <<pair, delivered, audited, told, gone, due>>
    BY <1>4, Zenon DEF ReadFails, replyVars
  <2>2. delivered' \in BOOLEAN
    BY <2>1 DEF TypesInv
  <2> QED BY <2>1, <2>2, TypesAttempt
<1>5. CASE ReadTerminal
  <2>1. \E f : attemptEnds(f)
    BY <1>5, Zenon DEF ReadTerminal
  <2>2. UNCHANGED <<pair, delivered, audited, told, gone, due>>
    BY <1>5, Zenon DEF ReadTerminal, replyVars
  <2>3. delivered' \in BOOLEAN
    BY <2>2 DEF TypesInv
  <2> QED BY <2>1, <2>2, <2>3, TypesAttempt
<1>6. CASE ReadFrame
  BY <1>6, TypesRead
<1>7. CASE Audit
  <2>1. /\ UNCHANGED <<pair, reader, held, delivered, told, gone, due, generation, cause>>
        /\ audited' = TRUE \/ audited' = audited
    BY <1>7, Zenon DEF Audit, readVars, timerVars
  <2>2. DueTyped'
    BY <2>1 DEF TypesInv, DueTyped
  <2> QED BY <2>1, <2>2 DEF TypesInv
<1>8. CASE Reply
  <2>1. /\ UNCHANGED <<pair, reader, held, audited, gone, due, generation, cause>>
        /\ told' = told \/ told' = ~gone
        /\ delivered' = TRUE \/ delivered' = delivered
    BY <1>8, Zenon DEF Reply, readVars, timerVars
  <2>2. DueTyped'
    BY <2>1 DEF TypesInv, DueTyped
  <2>3. told' \in BOOLEAN /\ delivered' \in BOOLEAN
    BY <2>1 DEF TypesInv
  <2> QED BY <2>1, <2>2, <2>3 DEF TypesInv
<1>9. CASE Expire
  <2>1. /\ UNCHANGED <<pair, reader, held, delivered, audited, told, gone, generation, cause>>
        /\ timer # 0 /\ due' = {[generation |-> timer, wait |-> WaitNumber]}
    BY <1>9, Zenon DEF Expire, readVars, replyVars
  <2>2. WaitNumber \in Nat /\ timer \in 1 .. generation
    BY <2>1 DEF WaitNumber, EndsInv, EndsTyped, TimerInv
  <2>3. DueTyped'
    <3> DEFINE w == WaitNumber
    <3>1. due' = {[generation |-> timer, wait |-> w]} /\ w \in Nat
      BY <2>1, <2>2
    <3> HIDE DEF w
    <3> QED BY <2>1, <2>2, <3>1 DEF DueTyped
  <2> QED BY <2>1, <2>3 DEF TypesInv
<1>10. CASE \E d \in due : Callback(d)
  <2>1. /\ UNCHANGED <<pair, reader, held, delivered, audited, told, gone, generation>>
        /\ due' \subseteq due /\ (cause' = cause \/ cause' = "deadline")
    BY <1>10 DEF Callback, readVars, replyVars, cancel
  <2>2. DueTyped'
    BY <1>0, <2>1, DueKept
  <2>3. cause' \in Causes
    BY <2>1 DEF TypesInv, Causes
  <2> QED BY <2>1, <2>2, <2>3 DEF TypesInv
<1> QED BY <1>1, <1>2, <1>3, <1>4, <1>5, <1>6, <1>7, <1>8, <1>9, <1>10 DEF StreamNext

LEMMA TypesAll == TypesInv /\ EndsInv /\ TimerInv => StreamTypeOK
<1> SUFFICES ASSUME TypesInv, EndsInv, TimerInv PROVE StreamTypeOK
  OBVIOUS
<1>1. Cardinality(due) <= 1
  <2>1. CASE due = {}
    <3>1. Cardinality(due) = 0
      BY <2>1, FS_EmptySet
    <3> QED BY <3>1
  <2>2. CASE \E d : due = {d}
    <3>1. PICK d : due = {d}
      BY <2>2
    <3>2. Cardinality(due) = 1
      BY <3>1, FS_Singleton
    <3> QED BY <3>2
  <2>3. due = {} \/ \E d : due = {d}
    BY DEF TimerInv
  <2> QED BY <2>1, <2>2, <2>3
<1>2. reader \in [started : BOOLEAN, finished : BOOLEAN, total : 0 .. StreamBytes]
  <2>1. reader \in [started : BOOLEAN, finished : BOOLEAN, total : Nat] /\ reader.total <= StreamBytes
    BY DEF EndsInv, EndsTyped, TypesInv
  <2>2. reader.total \in 0 .. StreamBytes
    BY <2>1, StreamingAssumptions
  <2> QED BY <2>1, <2>2
<1>3. frame.kind \in {"none", "data", "comment", "terminal", "broken", "refused"}
      /\ phase \in {"headers", "read", "got", "audit", "reply", "done"} /\ failed \in BOOLEAN
  BY DEF EndsInv, EndsTyped, FrameKinds
<1>4. /\ pair \in Pairs /\ Len(held) <= StreamBytes
      /\ delivered \in BOOLEAN /\ audited \in BOOLEAN /\ told \in BOOLEAN /\ gone \in BOOLEAN
      /\ due \subseteq [generation : 1 .. generation, wait : Nat]
      /\ cause \in {None, "deadline", "client", "closed"}
  BY DEF TypesInv, DueTyped, Causes
<1>5. generation \in Nat /\ timer \in {0, generation}
  BY DEF TimerInv
<1>6. {failed, delivered, audited, told, gone} \subseteq BOOLEAN
  BY <1>3, <1>4
<1> QED BY <1>1, <1>2, <1>3, <1>4, <1>5, <1>6 DEF StreamTypeOK

-----------------------------------------------------------------------------
(* The answer that the client receives.                                    *)

\* A call that goes on after another one did stays noted.
LEMMA OnceResumed ==
  ASSUME NEW m, IsMessage(m), m.resumed, NEW v
  PROVE  Absorb(m, v).resumed
<1> DEFINE x == Absorb(m, v)
<1>1. ASSUME NEW n, NEW c PROVE addText(m, n).resumed /\ addCall(m, n).resumed /\ addArgs(m, c, n).resumed
                                /\ addReasoning(m, n).resumed /\ addList(m, n).resumed
  <2>1. addText(m, n).resumed
    BY DEF IsMessage, MessageFields, addText
  <2>2. addCall(m, n).resumed
    BY DEF IsMessage, MessageFields, addCall
  <2>3. addArgs(m, c, n).resumed
    BY DEF IsMessage, MessageFields, addArgs
  <2>4. addReasoning(m, n).resumed
    BY DEF IsMessage, MessageFields, addReasoning
  <2>5. addList(m, n).resumed
    BY DEF IsMessage, MessageFields, addList
  <2> QED BY <2>1, <2>2, <2>3, <2>4, <2>5
<1>2. openBlock(m, v).resumed
  <2> DEFINE y == IF v.b = "tool_use" THEN addCall(m, v.n) ELSE m
  <2>1. y.resumed /\ IsMessage(y)
    BY <1>1, SmallPartsKeepEnd DEF SameEnd
  <2>2. openBlock(m, v) =
          [y EXCEPT !.block = Append(@, [type |-> v.b, call |-> Len(y.calls)]),
                    !.open = v.i,
                    !.dropped = @ \/ v.b = "server_tool_use",
                    !.malformed = @ \/ m.open # 0 \/ v.i # Len(m.block) + 1]
    BY Zenon DEF openBlock
  <2> HIDE DEF y
  <2> QED BY <2>1, <2>2 DEF IsMessage, MessageFields
<1>3. addDelta(m, v).resumed
  <2> DEFINE y == CASE v.b = "text"     -> addText(m, v.n)
                    [] v.b = "thinking" -> addReasoning(m, v.n)
                    [] v.b = "json" /\ v.i \in DOMAIN m.block /\ m.block[v.i].type = "tool_use"
                                        -> addArgs(m, m.block[v.i].call, v.n)
                    [] OTHER            -> m
  <2>1. \/ y = addText(m, v.n) \/ y = addReasoning(m, v.n)
        \/ y = addArgs(m, m.block[v.i].call, v.n) \/ y = m
    OBVIOUS
  <2>2. IsMessage(addReasoning(m, v.n))
    BY DEF IsMessage, MessageFields, addReasoning
  <2>3. IsMessage(addText(m, v.n)) /\ IsMessage(addArgs(m, m.block[v.i].call, v.n))
    BY SmallPartsKeepEnd DEF SameEnd
  <2>4. y.resumed /\ IsMessage(y)
    <3> HIDE DEF y
    <3> QED BY <1>1, <2>1, <2>2, <2>3
  <2>5. addDelta(m, v) = [y EXCEPT !.malformed = @ \/ (v.b # "json" /\ v.i # m.open),
                                   !.stray = @ \/ v.i # m.open]
    BY Zenon DEF addDelta
  <2> HIDE DEF y
  <2> QED BY <2>4, <2>5 DEF IsMessage, MessageFields
<1>4. \/ x = addText(m, v.n) \/ x = addReasoning(m, v.n) \/ x = addCall(m, v.n) \/ x = addArgs(m, v.i, v.n)
      \/ x = openBlock(m, v) \/ x = addDelta(m, v) \/ x = m \/ x = addList(m, v.n)
      \/ x = [m EXCEPT !.open = 0, !.stray = @ \/ v.i # m.open]
      \/ x = [m EXCEPT !.reason = IF v.b = None THEN @ ELSE v.b]
      \/ x = [m EXCEPT !.ended = TRUE, !.malformed = @ \/ m.open # 0]
  BY DEF Absorb
<1> SUFFICES x.resumed
  OBVIOUS
<1> HIDE DEF x
<1>5. CASE x = [m EXCEPT !.open = 0, !.stray = @ \/ v.i # m.open]
  BY <1>5 DEF IsMessage, MessageFields
<1>6. CASE x = [m EXCEPT !.reason = IF v.b = None THEN @ ELSE v.b]
  BY <1>6 DEF IsMessage, MessageFields
<1>7. CASE x = [m EXCEPT !.ended = TRUE, !.malformed = @ \/ m.open # 0]
  BY <1>7 DEF IsMessage, MessageFields
<1>8. CASE \/ x = addText(m, v.n) \/ x = addList(m, v.n) \/ x = addReasoning(m, v.n) \/ x = addCall(m, v.n) \/ x = addArgs(m, v.i, v.n)
  BY <1>1, <1>8
<1>9. CASE x = openBlock(m, v) \/ x = addDelta(m, v) \/ x = m
  BY <1>2, <1>3, <1>9
<1> QED BY <1>4, <1>5, <1>6, <1>7, <1>8, <1>9

LEMMA StaysResumed ==
  ASSUME NEW m, IsMessage(m), m.resumed, NEW s, Listed(s), Len(s) \in 0 .. 2
  PROVE  AbsorbAll(m, s).resumed
<1>1. CASE Len(s) = 0
  <2>1. s = <<>>
    BY <1>1, ListedFacts
  <2> QED BY <2>1, AbsorbNothing
<1>2. CASE Len(s) = 1
  <2> DEFINE v == s[1]
  <2>1. s = <<v>>
    BY <1>2, FewListed
  <2>2. AbsorbAll(m, s) = Absorb(m, v)
    BY <2>1, AbsorbOne
  <2> QED BY <2>2, OnceResumed
<1>3. CASE Len(s) = 2
  <2> DEFINE v == s[1]
             w == s[2]
             x == Absorb(m, v)
  <2>1. s = <<v, w>>
    BY <1>3, FewListed, Zenon
  <2>2. AbsorbAll(m, s) = Absorb(x, w)
    <3> HIDE DEF v, w
    <3> QED BY <2>1, AbsorbTwo DEF x
  <2>3. IsMessage(x) /\ x.resumed
    BY OnceResumed, AbsorbEnd
  <2> HIDE DEF x
  <2> QED BY <2>2, <2>3, OnceResumed
<1> QED BY <1>1, <1>2, <1>3

\* The frame f is one that the provider may send after the message m.
Follows(m, f) ==
  /\ f.kind = "data" => IF provider = "openai" THEN OpenAIParts(m, f.parts) ELSE AnthropicParts(m, f.parts)
  /\ f.kind = "terminal" =>
        f.parts = <<Ev(IF provider = "openai" THEN "done" ELSE "message_stop", 0, None, 0)>>
  /\ f.kind \notin {"data", "terminal"} => f.parts = <<>>

\* The client's message c is the provider's m, as far as it has come.
Agrees(m, t, c) ==
  IF ~translated THEN c = m
  ELSE IF provider = "openai" THEN InAnthropic(m, t, c) ELSE InOpenAI(m, t, c)

\* The client has the whole answer.
Delivered(m, c) ==
  IF ~translated THEN c = m
  ELSE IF provider = "openai" THEN OpenAIDelivered(m, c) ELSE AnthropicDelivered(m, c)

\* What the client has, with what is held back, is what was sent: but for the
\* frame just read, and to the end once the stream is over.
FaithInv ==
  /\ phase \in {"headers", "read"} /\ ~gone => Agrees(sent, tr, AbsorbAll(client, held))
  /\ phase = "got" /\ ~gone =>
        \E m : /\ Follows(m, frame) /\ sent = AbsorbAll(m, frame.parts)
               /\ Agrees(m, tr, AbsorbAll(client, held))
               /\ reader.finished => m.reason # None
  /\ phase \in {"audit", "reply"} /\ ~failed /\ ~gone => Delivered(sent, AbsorbAll(client, held \o rest))
  /\ client.ended => Delivered(sent, client)
  /\ BlocksWellFormed

LEMMA FramesFollow ==
  ASSUME NEW f \in Frames
  PROVE  Follows(sent, f)
<1>1. CASE f = [kind |-> "comment", parts |-> <<>>]
  <2>1. f.kind = "comment" /\ f.parts = <<>>
    BY <1>1
  <2> QED BY <2>1 DEF Follows
<1>2. CASE \E p \in IF provider = "openai" THEN OpenAIFrames ELSE AnthropicFrames :
              f = [kind |-> "data", parts |-> p]
  <2>1. PICK p \in IF provider = "openai" THEN OpenAIFrames ELSE AnthropicFrames :
           f = [kind |-> "data", parts |-> p]
    BY <1>2
  <2>2. f.kind = "data" /\ f.parts = p
    BY <2>1
  <2>3. IF provider = "openai" THEN OpenAIParts(sent, p) ELSE AnthropicParts(sent, p)
    BY <2>1, OpenAIFramesCases, AnthropicFramesCases
  <2> QED BY <2>2, <2>3 DEF Follows
<1>3. CASE f = [kind |-> "terminal",
                parts |-> <<Ev(IF provider = "openai" THEN "done" ELSE "message_stop", 0, None, 0)>>]
  <2> DEFINE v == Ev(IF provider = "openai" THEN "done" ELSE "message_stop", 0, None, 0)
  <2>1. f = [kind |-> "terminal", parts |-> <<v>>]
    BY <1>3, Zenon
  <2> HIDE DEF v
  <2>2. f.kind = "terminal" /\ f.parts = <<v>>
    BY <2>1
  <2> QED BY <2>2 DEF Follows, v
<1> QED BY <1>1, <1>2, <1>3, Zenon DEF Frames

\* A pair of protocols that differ is one of two.
LEMMA TwoProtocols ==
  ASSUME pair \in Pairs, translated
  PROVE  provider = "openai" <=> protocol = "anthropic"
<1>1. pair[1] \in {"openai", "anthropic"} /\ pair[2] \in {"openai", "anthropic"}
  BY StreamingAssumptions
<1> QED BY <1>1 DEF translated, provider, protocol

\* In Anthropic's protocol the client's stream is in order.
LEMMA AgreesInOrder ==
  ASSUME pair \in Pairs, NEW m, NEW t, NEW c, Agrees(m, t, c), translated, protocol = "anthropic"
  PROVE  ~c.malformed /\ (c.stray => m.resumed)
<1>1. InAnthropic(m, t, c)
  BY TwoProtocols DEF Agrees
<1> QED BY <1>1 DEF InAnthropic, BlocksKnown, Followed, OpenKnown

LEMMA DeliveredInOrder ==
  ASSUME pair \in Pairs, NEW m, NEW c, Delivered(m, c), translated, protocol = "anthropic"
  PROVE  ~c.malformed /\ (c.stray => m.resumed)
<1>1. OpenAIDelivered(m, c)
  BY TwoProtocols DEF Delivered
<1> QED BY <1>1 DEF OpenAIDelivered

\* A frame passed on keeps the two sides in agreement.
LEMMA TranslateAgrees ==
  ASSUME frame.kind \in {"data", "comment"}, NEW m, Follows(m, frame), NEW c, Agrees(m, tr, c), ~Translate.bad
  PROVE  Agrees(AbsorbAll(m, frame.parts), Translate.t, AbsorbAll(c, Translate.out))
<1> DEFINE x == Translate
           w == AbsorbAll(m, frame.parts)
           d == AbsorbAll(c, x.out)
<1>1. CASE ~translated
  <2>1. x.out = frame.parts
    BY <1>1 DEF Translate
  <2>2. c = m
    BY <1>1 DEF Agrees
  <2> QED BY <1>1, <2>1, <2>2 DEF Agrees
<1>2. CASE translated /\ frame.kind = "comment"
  <2>1. x.t = tr /\ x.out = <<>>
    BY <1>2 DEF Translate
  <2>2. frame.parts = <<>>
    BY <1>2 DEF Follows
  <2>3. w = m /\ d = c
    BY <2>1, <2>2, AbsorbNothing
  <2> QED BY <2>1, <2>3
<1>3. CASE translated /\ frame.kind = "data" /\ provider = "openai"
  <2>1. x = OpenAIFrame(tr, frame.parts)
    BY <1>3 DEF Translate
  <2>2. OpenAIParts(m, frame.parts) /\ InAnthropic(m, tr, c)
    BY <1>3 DEF Follows, Agrees
  <2> HIDE DEF x
  <2>3. ~x.bad
    BY DEF x
  <2>4. InAnthropic(AbsorbAll(m, frame.parts), x.t, AbsorbAll(c, x.out))
    BY <2>1, <2>2, <2>3, OpenAIFrameAgrees
  <2> QED BY <1>3, <2>4 DEF Agrees, x
<1>4. CASE translated /\ frame.kind = "data" /\ provider # "openai"
  <2>1. x = AnthropicFrame(tr, frame.parts)
    BY <1>4 DEF Translate
  <2>2. AnthropicParts(m, frame.parts) /\ InOpenAI(m, tr, c)
    BY <1>4 DEF Follows, Agrees
  <2> HIDE DEF x
  <2>3. ~x.bad
    BY DEF x
  <2>4. InOpenAI(AbsorbAll(m, frame.parts), x.t, AbsorbAll(c, x.out))
    BY <2>1, <2>2, <2>3, AnthropicFrameAgrees
  <2> QED BY <1>4, <2>4 DEF Agrees, x
<1> QED BY <1>1, <1>2, <1>3, <1>4

\* The end passed on completes the client's answer.
LEMMA TerminalDelivers ==
  ASSUME Listed(frame.parts), frame.kind = "terminal", NEW m, Follows(m, frame), m.reason # None,
         NEW c, Agrees(m, tr, c), ~Terminal.bad
  PROVE  Listed(Terminal.out) /\ Delivered(AbsorbAll(m, frame.parts), AbsorbAll(c, Terminal.out))
<1> DEFINE x == Terminal
           e == IF provider = "openai" THEN "done" ELSE "message_stop"
           v == Ev(e, 0, None, 0)
<1>1. frame.parts = <<v>>
  BY Zenon DEF Follows
<1>2. AbsorbAll(m, frame.parts) = Absorb(m, v)
  <2> HIDE DEF v
  <2> QED BY <1>1, AbsorbOne
<1>3. CASE ~translated
  <2>1. x.out = frame.parts
    BY <1>3 DEF Terminal
  <2>2. c = m
    BY <1>3 DEF Agrees
  <2> QED BY <1>3, <2>1, <2>2 DEF Delivered
<1>4. CASE translated /\ provider = "openai"
  <2>1. x = OpenAITerminal(tr) /\ v = Ev("done", 0, None, 0)
    BY <1>4 DEF Terminal
  <2>2. InAnthropic(m, tr, c)
    BY <1>4 DEF Agrees
  <2> HIDE DEF x
  <2>3. ~x.bad
    BY DEF x
  <2>4. Listed(x.out) /\ OpenAIDelivered(Absorb(m, Ev("done", 0, None, 0)), AbsorbAll(c, x.out))
    BY <2>1, <2>2, <2>3, OpenAIEndAgrees
  <2> QED BY <1>2, <1>4, <2>1, <2>4 DEF Delivered, x
<1>5. CASE translated /\ provider # "openai"
  <2>1. x = AnthropicTerminal(tr) /\ v = Ev("message_stop", 0, None, 0)
    BY <1>5 DEF Terminal
  <2>2. InOpenAI(m, tr, c)
    BY <1>5 DEF Agrees
  <2> HIDE DEF x
  <2>3. ~x.bad
    BY DEF x
  <2>4. Listed(x.out) /\ AnthropicDelivered(Absorb(m, Ev("message_stop", 0, None, 0)), AbsorbAll(c, x.out))
    BY <2>1, <2>2, <2>3, AnthropicEndAgrees
  <2> QED BY <1>2, <1>5, <2>1, <2>4 DEF Delivered, x
<1> QED BY <1>3, <1>4, <1>5

LEMMA FaithInit == StreamInit => FaithInv
<1> SUFFICES ASSUME StreamInit PROVE FaithInv
  OBVIOUS
<1>1. /\ phase = "headers" /\ sent = NoMessage /\ client = NoMessage /\ held = <<>>
      /\ tr = IF provider = "openai" THEN NewOpenAI ELSE NewAnthropic
  BY Zenon DEF StreamInit, NewTranslator
<1>2. AbsorbAll(client, held) = NoMessage
  BY <1>1, AbsorbNothing
<1>3. Agrees(NoMessage, tr, NoMessage)
  BY <1>1, NothingInAnthropic, NothingInOpenAI DEF Agrees
<1>4. ~client.ended /\ ~client.malformed /\ ~client.stray
  BY <1>1 DEF NoMessage
<1>5. BlocksWellFormed
  BY <1>4 DEF BlocksWellFormed
<1>6. phase # "got" /\ phase \notin {"audit", "reply"}
  BY <1>1
<1>7. Agrees(sent, tr, AbsorbAll(client, held))
  BY <1>1, <1>2, <1>3
<1> QED BY <1>4, <1>5, <1>6, <1>7 DEF FaithInv

\* Steps that touch neither the answer nor its course; the client may leave.
LEMMA FaithKept ==
  ASSUME FaithInv, UNCHANGED <<pair, phase, frame, sent, reader, tr, held, rest, failed, client>>, gone => gone'
  PROVE  FaithInv'
<1>1. /\ BlocksWellFormed' <=> BlocksWellFormed
      /\ Delivered(sent, client)' <=> Delivered(sent, client)
      /\ Delivered(sent, AbsorbAll(client, held \o rest))' <=> Delivered(sent, AbsorbAll(client, held \o rest))
      /\ Agrees(sent, tr, AbsorbAll(client, held))' <=> Agrees(sent, tr, AbsorbAll(client, held))
  BY DEF BlocksWellFormed, Delivered, Agrees, translated, provider, protocol
<1>2. /\ (phase \in {"headers", "read"} /\ ~gone => Agrees(sent, tr, AbsorbAll(client, held)))'
      /\ (phase \in {"audit", "reply"} /\ ~failed /\ ~gone => Delivered(sent, AbsorbAll(client, held \o rest)))'
      /\ (client.ended => Delivered(sent, client))' /\ BlocksWellFormed'
  BY <1>1 DEF FaithInv
<1>3. ASSUME phase' = "got", ~gone'
      PROVE  (\E m : /\ Follows(m, frame) /\ sent = AbsorbAll(m, frame.parts)
                     /\ Agrees(m, tr, AbsorbAll(client, held))
                     /\ reader.finished => m.reason # None)'
  <2>1. PICK m : /\ Follows(m, frame) /\ sent = AbsorbAll(m, frame.parts)
                 /\ Agrees(m, tr, AbsorbAll(client, held))
                 /\ reader.finished => m.reason # None
    BY <1>3 DEF FaithInv
  <2>2. (/\ Follows(m, frame) /\ sent = AbsorbAll(m, frame.parts)
         /\ Agrees(m, tr, AbsorbAll(client, held))
         /\ reader.finished => m.reason # None)'
    BY <2>1 DEF Follows, Agrees, translated, provider, protocol
  <2> QED BY <2>2
<1> QED BY <1>2, <1>3 DEF FaithInv

\* The steps of the provider.
LEMMA FaithSent ==
  ASSUME FaithInv, EndsInv, Headers \/ Arrive \/ Break
  PROVE  FaithInv'
<1>0. phase # "done" => ~client.ended
  BY DEF EndsInv, EndsInOrder
<1>1. CASE Headers
  <2>1. /\ phase = "headers" /\ phase' = "read"
        /\ UNCHANGED <<pair, frame, sent, reader, tr, held, rest, failed, client, gone>>
    BY <1>1, Zenon DEF Headers, readVars, replyVars
  <2>2. /\ BlocksWellFormed' <=> BlocksWellFormed
        /\ Agrees(sent, tr, AbsorbAll(client, held))' <=> Agrees(sent, tr, AbsorbAll(client, held))
    BY <2>1 DEF BlocksWellFormed, Agrees, translated, provider, protocol
  <2> QED BY <1>0, <2>1, <2>2 DEF FaithInv
<1>2. ASSUME phase \in {"headers", "read"}, phase' = "got", pair' = pair,
             UNCHANGED <<reader, tr, held, client, gone>>,
             Follows(sent, frame'), sent' = AbsorbAll(sent, frame'.parts), sent.resumed => sent'.resumed
      PROVE  FaithInv'
  <2>1. reader.finished => sent.reason # None
    BY DEF EndsInv, EndsInOrder
  <2>2. BlocksWellFormed'
    BY <1>2 DEF FaithInv, BlocksWellFormed, translated, provider, protocol
  <2>3. ASSUME ~gone'
        PROVE  (\E m : /\ Follows(m, frame) /\ sent = AbsorbAll(m, frame.parts)
                       /\ Agrees(m, tr, AbsorbAll(client, held))
                       /\ reader.finished => m.reason # None)'
    <3>1. Agrees(sent, tr, AbsorbAll(client, held))
      BY <1>2, <2>3 DEF FaithInv
    <3> DEFINE m == sent
    <3>2. /\ Follows(m, frame') /\ sent' = AbsorbAll(m, frame'.parts)
          /\ Agrees(m, tr, AbsorbAll(client, held)) /\ (reader.finished => m.reason # None)
      BY <1>2, <2>1, <3>1
    <3>3. \E n : /\ Follows(n, frame') /\ sent' = AbsorbAll(n, frame'.parts)
                 /\ Agrees(n, tr, AbsorbAll(client, held)) /\ (reader.finished => n.reason # None)
      BY <3>2
    <3>4. PICK n : /\ Follows(n, frame') /\ sent' = AbsorbAll(n, frame'.parts)
                   /\ Agrees(n, tr, AbsorbAll(client, held)) /\ (reader.finished => n.reason # None)
      BY <3>3
    <3>5. (/\ Follows(n, frame) /\ sent = AbsorbAll(n, frame.parts)
           /\ Agrees(n, tr, AbsorbAll(client, held))
           /\ reader.finished => n.reason # None)'
      BY <1>2, <3>4 DEF Follows, Agrees, translated, provider, protocol
    <3> QED BY <3>5
  <2> QED BY <1>0, <1>2, <2>2, <2>3 DEF FaithInv
<1>3. CASE Arrive
  <2>1. PICK f \in Frames : frame' = f /\ sent' = AbsorbAll(sent, f.parts)
    BY <1>3, Zenon DEF Arrive
  <2>2. phase = "read" /\ phase' = "got" /\ UNCHANGED <<pair, reader, tr, held, client, gone>>
    BY <1>3, Zenon DEF Arrive, replyVars
  <2>3. Follows(sent, frame')
    BY <2>1, FramesFollow
  <2>4. sent.resumed => sent'.resumed
    <3>1. Listed(f.parts) /\ Len(f.parts) \in 0 .. 2 /\ IsMessage(sent)
      BY FramesShort DEF EndsInv, EndsTyped
    <3> QED BY <2>1, <3>1, StaysResumed
  <2> QED BY <1>2, <2>1, <2>2, <2>3, <2>4
<1>4. CASE Break
  <2>1. /\ phase \in {"headers", "read"} /\ phase' = "got"
        /\ frame'.kind \in {"refused", "broken"} /\ frame'.parts = <<>>
        /\ UNCHANGED <<pair, sent, reader, tr, held, client, gone>>
    BY <1>4 DEF Break, replyVars
  <2>2. Follows(sent, frame')
    BY <2>1 DEF Follows
  <2>3. sent' = AbsorbAll(sent, frame'.parts)
    BY <2>1, AbsorbNothing
  <2> QED BY <1>2, <2>1, <2>2, <2>3
<1> QED BY <1>1, <1>3, <1>4

\* A step that ends the attempt: it has failed, or the answer is complete.
LEMMA FaithClosed ==
  ASSUME FaithInv, EndsInv, phase = "got", phase' \in {"audit", "reply"},
         UNCHANGED <<pair, sent, client, gone>>,
         ~failed' /\ ~gone => Delivered(sent, AbsorbAll(client, held' \o rest'))
  PROVE  FaithInv'
<1>1. ~client.ended
  BY DEF EndsInv, EndsInOrder
<1>2. BlocksWellFormed'
  BY DEF FaithInv, BlocksWellFormed, translated, provider, protocol
<1>3. ASSUME ~failed', ~gone'
      PROVE  Delivered(sent, AbsorbAll(client, held \o rest))'
  <2>1. Delivered(sent, AbsorbAll(client, held' \o rest'))
    BY <1>3
  <2> QED BY <2>1 DEF Delivered, translated, provider, protocol
<1> QED BY <1>1, <1>2, <1>3 DEF FaithInv

LEMMA FaithTerminal ==
  ASSUME FaithInv, EndsInv, TypesInv, ReadTerminal
  PROVE  FaithInv'
<1> DEFINE x == Terminal
           bad == x.bad \/ Len(held) + Len(x.out) > StreamBytes
<1>1. /\ phase = "got" /\ frame.kind = "terminal" /\ ~Rejected
      /\ rest' = (IF bad THEN <<>> ELSE x.out) /\ failed' = bad /\ phase' = "audit"
      /\ held' = (IF bad THEN <<>> ELSE held)
      /\ UNCHANGED <<pair, sent, client, gone>>
  BY Zenon DEF ReadTerminal, attemptEnds, replyVars
<1>2. ASSUME ~bad, ~gone PROVE Delivered(sent, AbsorbAll(client, held \o x.out))
  <2>1. Listed(frame.parts) /\ Listed(held) /\ reader.finished
    BY <1>1 DEF EndsInv, EndsTyped, TypesInv, Rejected, Whole
  <2>2. ~x.bad
    BY <1>2
  <2>3. PICK m : /\ Follows(m, frame) /\ sent = AbsorbAll(m, frame.parts)
                 /\ Agrees(m, tr, AbsorbAll(client, held))
                 /\ reader.finished => m.reason # None
    BY <1>1, <1>2 DEF FaithInv
  <2> DEFINE c == AbsorbAll(client, held)
  <2>4. Agrees(m, tr, c) /\ m.reason # None
    BY <2>1, <2>3
  <2> HIDE DEF c, x
  <2>5. Listed(x.out) /\ Delivered(sent, AbsorbAll(c, x.out))
    BY <1>1, <2>1, <2>2, <2>3, <2>4, TerminalDelivers DEF x
  <2>6. AbsorbAll(client, held \o x.out) = AbsorbAll(c, x.out)
    BY <2>1, <2>5, AbsorbConcat DEF c
  <2> QED BY <2>5, <2>6
<1>3. ~failed' /\ ~gone => Delivered(sent, AbsorbAll(client, held' \o rest'))
  <2> HIDE DEF bad, x
  <2> SUFFICES ASSUME ~failed', ~gone PROVE Delivered(sent, AbsorbAll(client, held' \o rest'))
    OBVIOUS
  <2>1. ~bad /\ rest' = x.out /\ held' = held
    BY <1>1
  <2> QED BY <1>2, <2>1
<1> QED BY <1>1, <1>3, FaithClosed

LEMMA FaithFails ==
  ASSUME FaithInv, EndsInv, ReadFails
  PROVE  FaithInv'
<1>1. phase = "got" /\ failed' = TRUE /\ phase' = "audit" /\ UNCHANGED <<pair, sent, client, gone>>
  BY Zenon DEF ReadFails, attemptEnds, replyVars
<1> QED BY <1>1, FaithClosed

\* A frame that is passed on or held back, for a client that is there.
LEMMA FaithPassed ==
  ASSUME FaithInv, EndsInv, TypesInv, ~gone, phase = "got", frame.kind \in {"data", "comment"}, ~Rejected,
         NEW x, x = Translate, ~x.bad,
         \/ held' = held \o x.out /\ client' = client
         \/ held = <<>> /\ held' = <<>> /\ client' = AbsorbAll(client, x.out)
         \/ x.out = <<>> /\ held' = held /\ client' = client
  PROVE  Agrees(sent, x.t, AbsorbAll(client', held'))
<1>1. Listed(held) /\ Listed(x.out)
  BY TranslateListed DEF TypesInv, EndsInv
<1> DEFINE c == AbsorbAll(client, held)
<1>2. PICK m : /\ Follows(m, frame) /\ sent = AbsorbAll(m, frame.parts)
               /\ Agrees(m, tr, AbsorbAll(client, held))
               /\ reader.finished => m.reason # None
  BY DEF FaithInv
<1>3. Agrees(m, tr, c)
  BY <1>2
<1>4. AbsorbAll(client', held') = AbsorbAll(c, x.out)
  <2>1. CASE held' = held \o x.out /\ client' = client
    BY <1>1, <2>1, AbsorbConcat
  <2>2. CASE held = <<>> /\ held' = <<>> /\ client' = AbsorbAll(client, x.out)
    <3>1. c = client
      BY <2>2, AbsorbNothing
    <3>2. AbsorbAll(client', <<>>) = client'
      BY AbsorbNothing
    <3> HIDE DEF c
    <3> QED BY <2>2, <3>1, <3>2
  <2>3. CASE x.out = <<>> /\ held' = held /\ client' = client
    <3> HIDE DEF c
    <3>1. AbsorbAll(c, x.out) = c
      BY <2>3, AbsorbNothing
    <3> QED BY <2>3, <3>1 DEF c
  <2> QED BY <2>1, <2>2, <2>3
<1> HIDE DEF c
<1>5. Agrees(AbsorbAll(m, frame.parts), x.t, AbsorbAll(c, x.out))
  BY <1>2, <1>3, TranslateAgrees
<1> QED BY <1>2, <1>4, <1>5

\* The handler reads on.
LEMMA FaithReadsOn ==
  ASSUME FaithInv, EndsInv, EndsInv', TypesInv, phase = "got", frame.kind \in {"data", "comment"}, ~Rejected,
         NEW x, x = Translate, ~x.bad, phase' = "read", tr' = x.t, UNCHANGED <<pair, sent, gone>>,
         gone => client' = client,
         ~gone => \/ held' = held \o x.out /\ client' = client
                  \/ held = <<>> /\ held' = <<>> /\ client' = AbsorbAll(client, x.out)
                  \/ x.out = <<>> /\ held' = held /\ client' = client
  PROVE  FaithInv'
<1>1. ~client'.ended
  BY DEF EndsInv, EndsInOrder
<1>2. ASSUME ~gone PROVE Agrees(sent, tr', AbsorbAll(client', held'))
  BY <1>2, FaithPassed
<1>3. ASSUME ~gone' PROVE Agrees(sent, tr, AbsorbAll(client, held))'
  BY <1>2, <1>3 DEF Agrees, translated, provider, protocol
<1>4. BlocksWellFormed'
  <2>1. CASE client' = client
    BY <2>1 DEF FaithInv, BlocksWellFormed, translated, provider, protocol
  <2>2. CASE client' # client
    <3>1. ~gone /\ held' = <<>>
      BY <2>2
    <3>2. AbsorbAll(client', held') = client'
      BY <3>1, AbsorbNothing
    <3>3. Agrees(sent, tr', client')
      BY <1>2, <3>1, <3>2
    <3>4. pair \in Pairs
      BY DEF TypesInv
    <3>5. ASSUME translated, protocol = "anthropic"
          PROVE  ~client'.malformed /\ (client'.stray => sent.resumed)
      BY <3>3, <3>4, <3>5, AgreesInOrder
    <3> QED BY <3>5 DEF BlocksWellFormed, translated, provider, protocol
  <2> QED BY <2>1, <2>2
<1>5. phase' # "got" /\ phase' \notin {"audit", "reply"}
  OBVIOUS
<1> QED BY <1>1, <1>3, <1>4, <1>5 DEF FaithInv

LEMMA FaithRead ==
  ASSUME FaithInv, EndsInv, EndsInv', TypesInv, ReadFrame
  PROVE  FaithInv'
<1> DEFINE x == Translate
           nonempty == ~x.bad /\ (x.out # <<>> \/ ~translated)
           holds == nonempty /\ HoldsBack(x.out)
           writes == nonempty /\ ~holds
           fails == \/ x.bad
                    \/ holds /\ Len(held) + Len(x.out) > StreamBytes
                    \/ writes /\ gone
<1>1. /\ phase = "got" /\ frame.kind \in {"data", "comment"} /\ ~Rejected
      /\ client' = (IF writes /\ ~gone THEN AbsorbAll(client, x.out) ELSE client)
      /\ UNCHANGED <<pair, sent, gone>>
      /\ \/ fails /\ attemptEnds(TRUE)
         \/ /\ ~fails /\ phase' = "read" /\ tr' = x.t
            /\ held' = IF holds THEN held \o x.out ELSE held
  BY Zenon DEF ReadFrame
<1>2. writes /\ ~gone => ~fails
  OBVIOUS
<1>3. ~fails /\ writes => ~gone
  OBVIOUS
<1>4. ~fails => ~x.bad
  OBVIOUS
<1>5. writes => ~holds /\ held = <<>>
  BY DEF HoldsBack
<1>6. ~x.bad /\ ~holds /\ ~writes => x.out = <<>>
  OBVIOUS
<1>7. holds => ~writes
  OBVIOUS
<1> HIDE DEF fails, writes, holds, nonempty, x
<1>8. CASE fails /\ attemptEnds(TRUE)
  <2>1. failed' = TRUE /\ phase' = "audit"
    BY <1>8 DEF attemptEnds
  <2>2. client' = client
    BY <1>1, <1>2, <1>8
  <2> QED BY <1>1, <2>1, <2>2, FaithClosed
<1>9. CASE /\ ~fails /\ phase' = "read" /\ tr' = x.t
           /\ held' = IF holds THEN held \o x.out ELSE held
  <2>1. gone => client' = client
    BY <1>1
  <2>2. ~gone => \/ held' = held \o x.out /\ client' = client
                 \/ held = <<>> /\ held' = <<>> /\ client' = AbsorbAll(client, x.out)
                 \/ x.out = <<>> /\ held' = held /\ client' = client
    BY <1>1, <1>4, <1>5, <1>6, <1>7, <1>9
  <2>3. x = Translate /\ ~x.bad
    BY <1>4, <1>9 DEF x
  <2> QED BY <1>1, <1>9, <2>1, <2>2, <2>3, FaithReadsOn
<1> QED BY <1>1, <1>8, <1>9

LEMMA FaithAudited ==
  ASSUME FaithInv, EndsInv, Audit
  PROVE  FaithInv'
<1>1. /\ phase = "audit" /\ phase' = "reply" /\ (failed' = failed \/ failed' = TRUE)
      /\ UNCHANGED <<pair, sent, held, rest, client, gone>>
  BY Zenon DEF Audit, readVars
<1>2. ~client'.ended
  BY <1>1 DEF EndsInv, EndsInOrder
<1>3. BlocksWellFormed'
  BY <1>1 DEF FaithInv, BlocksWellFormed, translated, provider, protocol
<1>4. ASSUME ~failed', ~gone'
      PROVE  Delivered(sent, AbsorbAll(client, held \o rest))'
  <2>1. Delivered(sent, AbsorbAll(client, held \o rest))
    BY <1>1, <1>4 DEF FaithInv
  <2> QED BY <1>1, <2>1 DEF Delivered, translated, provider, protocol
<1>5. phase' # "got" /\ phase' \notin {"headers", "read"}
  BY <1>1
<1> QED BY <1>2, <1>3, <1>4, <1>5 DEF FaithInv

LEMMA FaithReplied ==
  ASSUME FaithInv, EndsInv, TypesInv, Reply
  PROVE  FaithInv'
<1>1. /\ phase = "reply" /\ phase' = "done" /\ UNCHANGED <<pair, sent>>
      /\ \/ client' = client
         \/ ~failed /\ ~gone /\ client' = AbsorbAll(client, held \o rest)
  BY Zenon DEF Reply, readVars
<1>2. phase' \notin {"headers", "read", "got", "audit", "reply"}
  BY <1>1
<1>3. CASE client' = client
  <2>1. ~client'.ended
    BY <1>1, <1>3 DEF EndsInv, EndsInOrder
  <2>2. BlocksWellFormed'
    BY <1>1, <1>3 DEF FaithInv, BlocksWellFormed, translated, provider, protocol
  <2> QED BY <1>2, <2>1, <2>2 DEF FaithInv
<1>4. CASE ~failed /\ ~gone /\ client' = AbsorbAll(client, held \o rest)
  <2>1. Delivered(sent, client')
    BY <1>1, <1>4 DEF FaithInv
  <2>2. Delivered(sent, client)'
    BY <1>1, <2>1 DEF Delivered, translated, provider, protocol
  <2>3. pair \in Pairs
    BY DEF TypesInv
  <2>4. ASSUME translated, protocol = "anthropic"
        PROVE  ~client'.malformed /\ (client'.stray => sent.resumed)
    BY <2>1, <2>3, <2>4, DeliveredInOrder
  <2>5. BlocksWellFormed'
    BY <1>1, <2>4 DEF BlocksWellFormed, translated, provider, protocol
  <2> QED BY <1>2, <2>2, <2>5 DEF FaithInv
<1> QED BY <1>1, <1>3, <1>4

LEMMA FaithNext ==
  ASSUME FaithInv, EndsInv, EndsInv', TypesInv, [StreamNext]_streamVars
  PROVE  FaithInv'
<1>1. CASE Leave \/ Expire \/ (\E d \in due : Callback(d)) \/ UNCHANGED streamVars
  <2>1. UNCHANGED <<pair, phase, frame, sent, reader, tr, held, rest, failed, client>>
    BY <1>1 DEF Leave, Expire, Callback, streamVars, readVars, replyVars
  <2>2. gone' = TRUE \/ gone' = gone
    BY <1>1 DEF Leave, Expire, Callback, streamVars, replyVars
  <2> QED BY <2>1, <2>2, FaithKept
<1>2. CASE Headers \/ Arrive \/ Break
  BY <1>2, FaithSent
<1>3. CASE ReadFails
  BY <1>3, FaithFails
<1>4. CASE ReadTerminal
  BY <1>4, FaithTerminal
<1>5. CASE ReadFrame
  BY <1>5, FaithRead
<1>6. CASE Audit
  BY <1>6, FaithAudited
<1>7. CASE Reply
  BY <1>7, FaithReplied
<1> QED BY <1>1, <1>2, <1>3, <1>4, <1>5, <1>6, <1>7 DEF StreamNext

\* Where both have a form, the whole answer is the parts as they came.
LEMMA AlikeOpenAI ==
  ASSUME NEW m, Alike("openai", m), ~UnrepresentableOpenAI(m)
  PROVE  translateOpenAIResponse(m) = Passed("openai", m)
<1> DEFINE k == Passed("openai", m)
           r == StopReason(m.reason)
<1>1. ~Empty("openai", m) /\ m.full = m.text /\ \A i \in DOMAIN m.calls : m.calls[i].args \in Objects
  BY Zenon DEF Alike
<1>2. ~Unrepresentable("openai", m)
  BY DEF Unrepresentable
<1>3. translateOpenAIResponse(m) = [k EXCEPT !.text = m.full]
  BY <1>1, <1>2, Zenon DEF translateOpenAIResponse
<1>4. k = [text |-> m.text, reasoning |-> <<>>, calls |-> m.calls, reason |-> r]
  BY OpenAIAnswerIs
<1> HIDE DEF k, r
<1>5. translateOpenAIResponse(m) = k
  BY <1>1, <1>3, <1>4
<1> QED BY <1>5 DEF k

LEMMA AlikeAnthropic ==
  ASSUME NEW m, Alike("anthropic", m), ~UnrepresentableAnthropic(m), Listed(m.calls)
  PROVE  translateAnthropicResponse(m) = Passed("anthropic", m)
<1> DEFINE k == Passed("anthropic", m)
           r == FinishReason(m.reason)
           c == [i \in DOMAIN m.calls |-> IF m.calls[i].args = <<>> THEN [m.calls[i] EXCEPT !.args = <<0>>]
                                          ELSE m.calls[i]]
<1>1. ~Empty("anthropic", m) /\ \A i \in DOMAIN m.calls : m.calls[i].args \in Objects
  BY Zenon DEF Alike
<1>2. ~Unrepresentable("anthropic", m)
  BY DEF Unrepresentable
<1>3. translateAnthropicResponse(m) = [k EXCEPT !.calls = c]
  <2>1. ~\E i \in DOMAIN m.calls : m.calls[i].args \notin Objects \cup {<<>>}
    BY <1>1
  <2> QED BY <1>1, <1>2, <2>1, Zenon DEF translateAnthropicResponse
<1>4. c = m.calls
  <2>1. \A i \in DOMAIN m.calls : m.calls[i].args # <<>>
    BY <1>1, ObjectsAssumption
  <2>2. c = [i \in DOMAIN m.calls |-> m.calls[i]]
    BY <2>1
  <2>3. m.calls = [i \in DOMAIN m.calls |-> m.calls[i]]
    <3> DEFINE V == {m.calls[i] : i \in DOMAIN m.calls}
    <3>1. m.calls \in Seq(V)
      BY DEF Listed
    <3> HIDE DEF V
    <3> QED BY <3>1
  <2> QED BY <2>2, <2>3, Zenon
<1>5. k = [text |-> m.text, reasoning |-> m.reasoning, calls |-> m.calls, reason |-> r]
  BY AnthropicAnswerIs
<1> HIDE DEF k, r, c
<1>6. translateAnthropicResponse(m) = k
  BY <1>3, <1>4, <1>5
<1> QED BY <1>6 DEF k

\* What is delivered has the parts of the answer, and is its translation.
LEMMA FaithEnds ==
  ASSUME FaithInv, TypesInv, client.ended
  PROVE  IF ~translated THEN Content(client) = Content(sent)
         ELSE /\ ~Unrepresentable(provider, sent)
              /\ Content(client) = Passed(provider, sent)
              /\ Alike(provider, sent) => Content(client) = TranslateResponse(provider, sent)
<1>1. Delivered(sent, client)
  BY DEF FaithInv
<1>2. CASE ~translated
  BY <1>1, <1>2 DEF Delivered
<1>3. CASE translated /\ provider = "openai"
  <2>1. ~UnrepresentableOpenAI(sent) /\ Content(client) = Passed("openai", sent)
    BY <1>1, <1>3 DEF Delivered, OpenAIDelivered
  <2>2. Alike("openai", sent) => Content(client) = translateOpenAIResponse(sent)
    BY <2>1, AlikeOpenAI, Zenon
  <2> QED BY <1>3, <2>1, <2>2, Zenon DEF Unrepresentable, TranslateResponse
<1>4. CASE translated /\ provider # "openai"
  <2>0. provider = "anthropic"
    <3>1. pair[1] \in {"openai", "anthropic"}
      BY StreamingAssumptions DEF TypesInv
    <3> QED BY <1>4, <3>1 DEF provider
  <2>1. ~UnrepresentableAnthropic(sent) /\ Content(client) = Passed("anthropic", sent) /\ Listed(sent.calls)
    BY <1>1, <1>4 DEF Delivered, AnthropicDelivered
  <2>2. Alike("anthropic", sent) => Content(client) = translateAnthropicResponse(sent)
    BY <2>1, AlikeAnthropic, Zenon
  <2> QED BY <1>4, <2>0, <2>1, <2>2, Zenon DEF Unrepresentable, TranslateResponse
<1> QED BY <1>2, <1>3, <1>4

\* Between two frames the client has the parts that have come.
LEMMA FaithBetween ==
  ASSUME FaithInv, TypesInv, translated, phase = "read", ~gone
  PROVE  Parts(AbsorbAll(client, held)) = Parts(Passed(provider, sent))
<1> DEFINE c == AbsorbAll(client, held)
           r == Passed(provider, sent)
<1>1. Agrees(sent, tr, c)
  BY DEF FaithInv
<1>2. CASE provider = "openai"
  <2>1. InAnthropic(sent, tr, c)
    BY <1>1, <1>2 DEF Agrees
  <2>2. r = Passed("openai", sent)
    BY <1>2
  <2> HIDE DEF c, r
  <2>3. r.text = sent.text /\ r.reasoning = <<>> /\ r.calls = sent.calls
    BY <2>2, OpenAIAnswerIs
  <2>4. c.text = sent.text /\ c.reasoning = <<>> /\ c.calls = sent.calls
    BY <2>1 DEF InAnthropic
  <2>5. Parts(c) = Parts(r)
    BY <2>3, <2>4 DEF Parts
  <2> QED BY <2>5 DEF c, r
<1>3. CASE provider # "openai"
  <2>1. InOpenAI(sent, tr, c)
    BY <1>1, <1>3 DEF Agrees
  <2>2. r = Passed("anthropic", sent)
    <3>1. pair[1] \in {"openai", "anthropic"}
      BY StreamingAssumptions DEF TypesInv
    <3>2. provider = "anthropic"
      BY <1>3, <3>1 DEF provider
    <3> QED BY <3>2
  <2> HIDE DEF c, r
  <2>3. r.text = sent.text /\ r.reasoning = sent.reasoning /\ r.calls = sent.calls
    BY <2>2, AnthropicAnswerIs
  <2>4. c.text = sent.text /\ c.reasoning = sent.reasoning /\ c.calls = sent.calls
    BY <2>1 DEF InOpenAI, SameSaid
  <2>5. Parts(c) = Parts(r)
    BY <2>3, <2>4 DEF Parts
  <2> QED BY <2>5 DEF c, r
<1> QED BY <1>2, <1>3

LEMMA FaithAll == FaithInv /\ TypesInv /\ EndsInv /\ TimerInv => AnswersFaithful
<1> SUFFICES ASSUME FaithInv, TypesInv, EndsInv, TimerInv PROVE AnswersFaithful
  OBVIOUS
<1>1. StreamTypeOK
  BY TypesAll
<1>2. TranslationsAgree
  BY FaithEnds, FaithBetween DEF TranslationsAgree
<1>3. BlocksWellFormed
  BY DEF FaithInv
<1> QED BY <1>1, <1>2, <1>3 DEF AnswersFaithful

\* Whatever the pairs of protocols, the lengths and the interleaving: what a client
\* has received is the provider's answer, translated or not, in order, complete and
\* in a legal form, and what the whole answer is translated to wherever that and the
\* stream have a form for all of it (AnswersFaithful: the translators of translate.go
\* and the holding back of client.go).
THEOREM AnswersAreFaithful == StreamSpec => []AnswersFaithful
<1> DEFINE CallInv == FaithInv /\ TypesInv /\ EndsInv /\ TimerInv
<1>1. StreamInit => CallInv
  BY FaithInit, TypesInit, EndsInit, TimerInit
<1>2. CallInv /\ [StreamNext]_streamVars => CallInv'
  <2> SUFFICES ASSUME CallInv, [StreamNext]_streamVars PROVE CallInv'
    OBVIOUS
  <2>1. EndsInv'
    BY EndsNext
  <2>2. TypesInv'
    BY TypesNext
  <2>3. TimerInv'
    BY TimerNext
  <2>4. FaithInv'
    BY <2>1, FaithNext
  <2> QED BY <2>1, <2>2, <2>3, <2>4
<1>3. CallInv => AnswersFaithful
  BY FaithAll
<1> HIDE DEF CallInv
<1> QED BY <1>1, <1>2, <1>3, PTL DEF StreamSpec

=============================================================================
