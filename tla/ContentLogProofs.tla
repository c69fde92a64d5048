-------------------------- MODULE ContentLogProofs --------------------------
(***************************************************************************)
(* Proofs about ContentLog, for any number of captures and files and any   *)
(* limits: what a complete record promises, the limits of the directory,   *)
(* and that a file that was handed off stays as it is.                     *)
(***************************************************************************)
EXTENDS ContentLog, FiniteSetTheorems, WellFoundedInduction, TLAPS

\* The definitions of the model for a directory fs.
States == {"none", "active", "sealed", "interrupted", "taken"}
Directory == [Files -> [state : States, lines : Seq(Lines \cup {Torn})]]

Spots(fs) ==
  UNION {{f} \X DOMAIN fs[f].lines : f \in {g \in Files : fs[g].state \notin {"none", "taken"}}}
TornSpots(fs) == {l \in Spots(fs) : fs[l[1]].lines[l[2]] = Torn}
Total(fs) == LineBytes * Cardinality(Spots(fs) \ TornSpots(fs)) + Cardinality(TornSpots(fs))

Kept(fs, c, n) ==
  \E f \in Files : \E i \in DOMAIN fs[f].lines :
    fs[f].lines[i].cap = c /\ fs[f].lines[i].seq = n /\ fs[f].lines[i] # Torn

TornLast(fs) ==
  \A f \in Files : \A i \in DOMAIN fs[f].lines :
    fs[f].lines[i] = Torn => i = Len(fs[f].lines) /\ fs[f].state # "sealed"

Honest(fs) ==
  \A f \in Files : \A i \in DOMAIN fs[f].lines :
    LET e == fs[f].lines[i] IN
      e.terminal /\ e.complete => \A n \in 0 .. e.seq - 1 : Kept(fs, e.cap, n)

LEMMA InDirectory ==
  /\ Positions = Spots(file) /\ TornAt = TornSpots(file) /\ UsedBytes = Total(file)
  /\ (TornLineLast <=> TornLast(file)) /\ (CompleteIsWhole <=> Honest(file))
  /\ \A c, n : Persisted(c, n) <=> Kept(file, c, n)
<1>1. Positions = Spots(file)
  BY DEF Positions, Present, Spots
<1>2. TornAt = TornSpots(file)
  BY <1>1 DEF TornAt, TornSpots
<1>3. \A c, n : Persisted(c, n) <=> Kept(file, c, n)
  BY DEF Persisted, Kept
<1>4. TornLineLast <=> TornLast(file)
  BY DEF TornLineLast, TornLast
<1>5. CompleteIsWhole <=> Honest(file)
  BY <1>3 DEF CompleteIsWhole, Honest
<1> QED BY <1>1, <1>2, <1>3, <1>4, <1>5 DEF UsedBytes, Total

LEMMA InNextDirectory ==
  /\ Positions' = Spots(file') /\ UsedBytes' = Total(file')
  /\ (TornLineLast' <=> TornLast(file')) /\ (CompleteIsWhole' <=> Honest(file'))
  /\ \A c, n : Persisted(c, n)' <=> Kept(file', c, n)
<1>1. Positions' = Spots(file')
  BY DEF Positions, Present, Spots
<1>2. TornAt' = TornSpots(file')
  BY <1>1 DEF TornAt, TornSpots
<1>3. \A c, n : Persisted(c, n)' <=> Kept(file', c, n)
  BY DEF Persisted, Kept
<1>4. TornLineLast' <=> TornLast(file')
  BY DEF TornLineLast, TornLast
<1>5. CompleteIsWhole' <=> Honest(file')
  BY <1>3 DEF CompleteIsWhole, Honest
<1> QED BY <1>1, <1>2, <1>3, <1>4, <1>5 DEF UsedBytes, Total

-----------------------------------------------------------------------------
(* Names, bytes and lines.                                                 *)

LEMMA Bounds ==
  /\ LineBytes \in Nat /\ FileBytes \in Nat /\ DirectoryBytes \in Nat /\ QueueEvents \in Nat
  /\ LineBytes > 1 /\ LineBytes <= FileBytes /\ FileBytes <= DirectoryBytes
  /\ MaxChunks \in Nat /\ MaxFaults \in Nat /\ MaxCrashes \in Nat
  /\ Files \subseteq Nat
  /\ None \notin Files /\ None \notin Captures /\ None \notin Lines
  /\ Torn \notin Lines
<1>1. Cardinality(Files) \in Nat
  BY ContentBounds, FS_CardinalityType
<1>2. Files \subseteq Nat
  BY ContentBounds, <1>1
<1>3. Torn \notin Lines
  BY ContentBounds DEF Torn, Lines
<1> QED BY <1>2, <1>3, ContentBounds

\* A set of numbers that is not empty has a least one.
LEMMA Least ==
  ASSUME NEW T \in SUBSET Nat, T # {}
  PROVE  \E x \in T : \A y \in T : x <= y
<1> DEFINE R == OpToRel(<, Nat)
<1>1. IsWellFoundedOn(R, Nat)
  BY NatLessThanWellFounded
<1>2. \A x, y \in Nat : <<x, y>> \in R <=> x < y
  BY DEF OpToRel
<1> HIDE DEF R
<1>3. PICK x \in T : \A y \in T : ~(<<y, x>> \in R)
  BY <1>1, WFMin
<1>4. ASSUME NEW y \in T PROVE x <= y
  <2>1. x \in Nat /\ y \in Nat
    OBVIOUS
  <2>2. ~(y < x)
    BY <1>2, <1>3, <2>1
  <2> QED BY <2>1, <2>2
<1> QED BY <1>4

LEMMA NextName ==
  ASSUME CanCreate
  PROVE  NewFile \in Files /\ file[NewFile].state = "none"
<1> DEFINE T == {f \in Files : file[f].state = "none"}
<1>1. T \in SUBSET Nat /\ T # {}
  BY Bounds DEF CanCreate
<1>2. PICK f \in T : \A g \in T : f <= g
  BY <1>1, Least
<1>3. \E x \in Files : /\ file[x].state = "none"
                       /\ \A g \in Files : file[g].state = "none" => x <= g
  BY <1>2
<1> QED BY <1>3 DEF NewFile

LEMMA SpotAt ==
  ASSUME NEW fs
  PROVE  /\ \A f, i : <<f, i>> \in Spots(fs) <=>
              f \in Files /\ fs[f].state \notin {"none", "taken"} /\ i \in DOMAIN fs[f].lines
         /\ \A l \in Spots(fs) : l = <<l[1], l[2]>>
BY DEF Spots

LEMMA TotalTyped ==
  ASSUME NEW fs, IsFiniteSet(Spots(fs))
  PROVE  /\ Total(fs) \in Nat
         /\ IsFiniteSet(TornSpots(fs)) /\ IsFiniteSet(Spots(fs) \ TornSpots(fs))
<1>1. TornSpots(fs) \subseteq Spots(fs) /\ Spots(fs) \ TornSpots(fs) \subseteq Spots(fs)
  BY DEF TornSpots
<1>2. IsFiniteSet(TornSpots(fs)) /\ IsFiniteSet(Spots(fs) \ TornSpots(fs))
  BY <1>1, FS_Subset
<1>3. Cardinality(TornSpots(fs)) \in Nat /\ Cardinality(Spots(fs) \ TornSpots(fs)) \in Nat
  BY <1>2, FS_CardinalityType
<1> QED BY <1>2, <1>3, Bounds DEF Total

\* Line joins file f of fs.
Grown(fs, f, line) ==
  [fs EXCEPT ![f] = [state |-> "active", lines |-> Append(@.lines, line)]]

\* f can be written: it is active and whole, or is created now.
Writable(fs, f) ==
  /\ f \in Files
  /\ \/ fs[f].state = "active"
     \/ fs[f].state = "none" /\ fs[f].lines = <<>>
  /\ \A i \in DOMAIN fs[f].lines : fs[f].lines[i] # Torn

LEMMA GrownLines ==
  ASSUME NEW fs \in Directory, NEW f \in Files, NEW line \in Lines \cup {Torn}
  PROVE  LET g == Grown(fs, f, line)
             k == Len(fs[f].lines) + 1 IN
         /\ g \in Directory /\ g[f].state = "active"
         /\ k \in Nat /\ k \notin DOMAIN fs[f].lines
         /\ Len(g[f].lines) = k
         /\ DOMAIN g[f].lines = DOMAIN fs[f].lines \cup {k}
         /\ g[f].lines[k] = line
         /\ \A i \in DOMAIN fs[f].lines : g[f].lines[i] = fs[f].lines[i]
         /\ \A h \in Files \ {f} : g[h] = fs[h]
<1> DEFINE q == fs[f].lines
           r == Append(q, line)
           k == Len(q) + 1
           g == Grown(fs, f, line)
<1>1. q \in Seq(Lines \cup {Torn}) /\ fs[f] \in [state : States, lines : Seq(Lines \cup {Torn})]
  BY DEF Directory
<1>2. g = [fs EXCEPT ![f] = [state |-> "active", lines |-> r]]
  BY DEF Grown
<1> HIDE DEF q
<1>3. /\ r \in Seq(Lines \cup {Torn}) /\ Len(r) = k /\ k \in Nat
      /\ DOMAIN r = 1 .. k /\ DOMAIN q = 1 .. Len(q) /\ Len(q) \in Nat
      /\ r[k] = line /\ \A i \in 1 .. Len(q) : r[i] = q[i]
  BY <1>1
<1> HIDE DEF r
<1>4. "active" \in States
  BY DEF States
<1>5. /\ g \in Directory /\ g[f].state = "active" /\ g[f].lines = r
      /\ \A h \in Files \ {f} : g[h] = fs[h]
  BY <1>2, <1>3, <1>4 DEF Directory
<1> HIDE DEF g
<1>6. k \notin DOMAIN q /\ DOMAIN r = DOMAIN q \cup {k}
  BY <1>3
<1> QED BY <1>3, <1>5, <1>6 DEF q, g

\* The line is one more position.
LEMMA GrownTotal ==
  ASSUME NEW fs \in Directory, NEW f, Writable(fs, f), NEW line \in Lines \cup {Torn},
         IsFiniteSet(Spots(fs))
  PROVE  /\ IsFiniteSet(Spots(Grown(fs, f, line)))
         /\ Total(Grown(fs, f, line)) = Total(fs) + (IF line = Torn THEN 1 ELSE LineBytes)
<1> DEFINE g == Grown(fs, f, line)
           k == Len(fs[f].lines) + 1
           x == <<f, k>>
           S == Spots(fs)
           T == TornSpots(fs)
<1>1. /\ g \in Directory /\ g[f].state = "active"
      /\ k \notin DOMAIN fs[f].lines /\ DOMAIN g[f].lines = DOMAIN fs[f].lines \cup {k}
      /\ g[f].lines[k] = line
      /\ \A i \in DOMAIN fs[f].lines : g[f].lines[i] = fs[f].lines[i]
      /\ \A h \in Files \ {f} : g[h] = fs[h]
      /\ f \in Files
  BY GrownLines DEF Writable
<1>2. fs[f].state = "active" \/ DOMAIN fs[f].lines = {}
  BY DEF Writable
<1> HIDE DEF g, k
<1>3. x \notin S
  BY <1>1, SpotAt
<1>4. ASSUME NEW h, NEW i
      PROVE  /\ <<h, i>> \in Spots(g) <=> <<h, i>> \in S \cup {x}
             /\ <<h, i>> \in S => g[h].lines[i] = fs[h].lines[i]
  <2>1. CASE h = f
    BY <1>1, <1>2, <2>1, SpotAt
  <2>2. CASE h # f
    BY <1>1, <2>2, SpotAt
  <2> QED BY <2>1, <2>2
<1>5. Spots(g) = S \cup {x}
  BY <1>4, SpotAt
<1>6. TornSpots(g) = T \cup (IF line = Torn THEN {x} ELSE {})
  BY <1>1, <1>3, <1>4, <1>5, SpotAt DEF TornSpots
<1>7. IsFiniteSet(Spots(g))
  BY <1>5, FS_AddElement
<1>8. /\ IsFiniteSet(T) /\ IsFiniteSet(S \ T)
      /\ Cardinality(T) \in Nat /\ Cardinality(S \ T) \in Nat
  BY TotalTyped, FS_CardinalityType
<1>9. CASE line = Torn
  <2>1. TornSpots(g) = T \cup {x} /\ x \notin T /\ Spots(g) \ TornSpots(g) = S \ T
    BY <1>3, <1>5, <1>6, <1>9 DEF TornSpots
  <2>2. Cardinality(T \cup {x}) = Cardinality(T) + 1
    BY <1>8, <2>1, FS_AddElement
  <2> HIDE DEF S, T, x
  <2>3. Total(g) = LineBytes * Cardinality(S \ T) + (Cardinality(T) + 1)
    BY <2>1, <2>2 DEF Total
  <2>4. Total(fs) = LineBytes * Cardinality(S \ T) + Cardinality(T)
    BY DEF Total, S, T
  <2> QED BY <1>7, <1>8, <1>9, <2>3, <2>4, Bounds DEF g
<1>10. CASE line # Torn
  <2>1. /\ TornSpots(g) = T /\ x \notin S \ T
        /\ Spots(g) \ TornSpots(g) = (S \ T) \cup {x}
    BY <1>3, <1>5, <1>6, <1>10 DEF TornSpots
  <2>2. Cardinality((S \ T) \cup {x}) = Cardinality(S \ T) + 1
    BY <1>8, <2>1, FS_AddElement
  <2> HIDE DEF S, T, x
  <2>3. Total(g) = LineBytes * (Cardinality(S \ T) + 1) + Cardinality(T)
    BY <2>1, <2>2 DEF Total
  <2>4. Total(fs) = LineBytes * Cardinality(S \ T) + Cardinality(T)
    BY DEF Total, S, T
  <2> QED BY <1>7, <1>8, <1>10, <2>3, <2>4, Bounds DEF g
<1> QED BY <1>9, <1>10

\* Files that keep their lines and may be taken away need no more room.
LEMMA LessTotal ==
  ASSUME NEW fs, NEW gs, IsFiniteSet(Spots(fs)),
         \A f \in Files : /\ gs[f].lines = fs[f].lines
                          /\ gs[f].state \notin {"none", "taken"} =>
                               fs[f].state \notin {"none", "taken"}
  PROVE  IsFiniteSet(Spots(gs)) /\ Total(gs) <= Total(fs)
<1> DEFINE S == Spots(fs)
           T == TornSpots(fs)
           U == Spots(gs)
           V == TornSpots(gs)
<1>1. U \subseteq S /\ \A l \in U : gs[l[1]].lines = fs[l[1]].lines
  BY SpotAt
<1>2. V \subseteq T /\ U \ V \subseteq S \ T
  BY <1>1 DEF TornSpots
<1>3. IsFiniteSet(U)
  BY <1>1, FS_Subset
<1>4. IsFiniteSet(T) /\ IsFiniteSet(S \ T)
  BY TotalTyped
<1> HIDE DEF S, T, U, V
<1>5. /\ Cardinality(V) \in Nat /\ Cardinality(T) \in Nat /\ Cardinality(V) <= Cardinality(T)
      /\ Cardinality(U \ V) \in Nat /\ Cardinality(S \ T) \in Nat
      /\ Cardinality(U \ V) <= Cardinality(S \ T)
  BY <1>2, <1>4, FS_Subset, FS_CardinalityType
<1>6. \A a, b, c \in Nat : a <= b => c * a <= c * b
  OBVIOUS
<1>7. LineBytes * Cardinality(U \ V) <= LineBytes * Cardinality(S \ T)
  BY <1>5, <1>6, Bounds
<1>8. /\ Total(gs) = LineBytes * Cardinality(U \ V) + Cardinality(V)
      /\ Total(fs) = LineBytes * Cardinality(S \ T) + Cardinality(T)
  BY DEF Total, S, T, U, V
<1>9. /\ LineBytes * Cardinality(U \ V) \in Nat /\ LineBytes * Cardinality(S \ T) \in Nat
  BY <1>5, Bounds
<1> QED BY <1>3, <1>5, <1>7, <1>8, <1>9 DEF U

\* What a new line keeps, brings and needs.
LEMMA GrownRecords ==
  ASSUME NEW fs \in Directory, NEW f, Writable(fs, f), NEW line \in Lines \cup {Torn}
  PROVE  LET g == Grown(fs, f, line) IN
         /\ \A c, n : Kept(fs, c, n) => Kept(g, c, n)
         /\ line \in Lines => Kept(g, line.cap, line.seq)
         /\ TornLast(fs) => TornLast(g)
         /\ Honest(fs) /\ (line.terminal /\ line.complete =>
                             \A n \in 0 .. line.seq - 1 : Kept(fs, line.cap, n))
              => Honest(g)
<1> DEFINE g == Grown(fs, f, line)
           k == Len(fs[f].lines) + 1
<1>1. /\ g[f].state = "active" /\ Len(g[f].lines) = k
      /\ k \notin DOMAIN fs[f].lines /\ DOMAIN g[f].lines = DOMAIN fs[f].lines \cup {k}
      /\ g[f].lines[k] = line
      /\ \A i \in DOMAIN fs[f].lines : g[f].lines[i] = fs[f].lines[i]
      /\ \A h \in Files \ {f} : g[h] = fs[h]
      /\ f \in Files /\ \A i \in DOMAIN fs[f].lines : fs[f].lines[i] # Torn
  BY GrownLines DEF Writable
<1> HIDE DEF g, k
<1>2. \A h \in Files : \A i \in DOMAIN fs[h].lines :
        i \in DOMAIN g[h].lines /\ g[h].lines[i] = fs[h].lines[i]
  BY <1>1
<1>3. \A h \in Files : \A i \in DOMAIN g[h].lines :
        \/ i \in DOMAIN fs[h].lines /\ g[h].lines[i] = fs[h].lines[i]
        \/ h = f /\ i = k /\ g[h].lines[i] = line
  BY <1>1
<1>4. ASSUME NEW c, NEW n, Kept(fs, c, n) PROVE Kept(g, c, n)
  BY <1>2, <1>4 DEF Kept
<1>5. ASSUME line \in Lines PROVE Kept(g, line.cap, line.seq)
  BY <1>1, <1>5, Bounds DEF Kept
<1>6. ASSUME TornLast(fs) PROVE TornLast(g)
  <2> SUFFICES ASSUME NEW h \in Files, NEW i \in DOMAIN g[h].lines, g[h].lines[i] = Torn
               PROVE  i = Len(g[h].lines) /\ g[h].state # "sealed"
    BY DEF TornLast
  <2>1. CASE h = f
    BY <1>1, <2>1
  <2>2. CASE h # f
    BY <1>1, <1>6, <2>2 DEF TornLast
  <2> QED BY <2>1, <2>2
<1>7. ASSUME Honest(fs), line.terminal /\ line.complete =>
               \A n \in 0 .. line.seq - 1 : Kept(fs, line.cap, n)
      PROVE  Honest(g)
  <2> SUFFICES ASSUME NEW h \in Files, NEW i \in DOMAIN g[h].lines,
                      g[h].lines[i].terminal /\ g[h].lines[i].complete,
                      NEW n \in 0 .. g[h].lines[i].seq - 1
               PROVE  Kept(g, g[h].lines[i].cap, n)
    BY DEF Honest
  <2>1. Kept(fs, g[h].lines[i].cap, n)
    BY <1>3, <1>7 DEF Honest
  <2> QED BY <1>4, <2>1
<1> QED BY <1>4, <1>5, <1>6, <1>7 DEF g

\* The same lines are the same records.
LEMMA SameRecords ==
  ASSUME NEW fs, NEW gs, \A f \in Files : gs[f].lines = fs[f].lines
  PROVE  /\ \A c, n : Kept(gs, c, n) <=> Kept(fs, c, n)
         /\ Honest(fs) => Honest(gs)
<1>1. \A c, n : Kept(gs, c, n) <=> Kept(fs, c, n)
  BY DEF Kept
<1> QED BY <1>1 DEF Honest

-----------------------------------------------------------------------------
(* The directory through a step.                                           *)

DirectoryInv == TornLineLast /\ DirectoryBounded /\ CurrentSound

\* A step that renames files or lets go of the current one: what it seals has
\* no partial line, and nothing that was handed off comes back.
LEMMA DirectoryMoves ==
  ASSUME TypeOK, DirectoryInv, used' \in Nat,
         \A f \in Files :
           /\ file'[f].lines = file[f].lines
           /\ file'[f].state \notin {"none", "taken"} => file[f].state \notin {"none", "taken"}
           /\ file'[f].state = "none" => file[f].state = "none"
           /\ file'[f].state = "sealed" =>
                \/ file[f].state = "sealed"
                \/ \A i \in DOMAIN file[f].lines : file[f].lines[i] # Torn,
         \/ current' = None /\ size' = 0
         \/ /\ current' = current /\ size' = size
            /\ current # None =>
                 up' /\ file'[current].state = file[current].state /\ UsedBytes <= used'
  PROVE  DirectoryInv'
<1>1. IsFiniteSet(Spots(file)) /\ Total(file) <= DirectoryBytes /\ TornLast(file)
  BY InDirectory DEF DirectoryInv, CurrentSound, DirectoryBounded
<1>2. IsFiniteSet(Spots(file')) /\ Total(file') <= Total(file)
  BY <1>1, LessTotal
<1>3. Total(file) \in Nat /\ Total(file') \in Nat
  BY <1>1, <1>2, TotalTyped
<1>4. DirectoryBounded'
  BY <1>1, <1>2, <1>3, InNextDirectory, Bounds DEF DirectoryBounded
<1>5. TornLast(file')
  BY <1>1 DEF TornLast
<1>6. IsFiniteSet(Positions)'
  BY <1>2, InNextDirectory
<1>7. \A f \in Files : file'[f].state = "none" => file'[f].lines = <<>>
  BY DEF DirectoryInv, CurrentSound
<1>8. CASE current' = None /\ size' = 0
  <2>1. CurrentSound'
    BY <1>6, <1>7, <1>8 DEF CurrentSound
  <2> QED BY <1>4, <1>5, <2>1, InNextDirectory DEF DirectoryInv
<1>9. CASE /\ current' = current /\ size' = size
           /\ current # None =>
                up' /\ file'[current].state = file[current].state /\ UsedBytes <= used'
  <2>1. ASSUME current # None
        PROVE  /\ up' /\ file'[current'].state = "active"
               /\ \A i \in DOMAIN file'[current'].lines : file'[current'].lines[i] # Torn
               /\ UsedBytes' <= used'
    <3>1. current \in Files /\ file'[current].lines = file[current].lines
      BY <2>1 DEF TypeOK
    <3>2. Total(file) <= used'
      BY <1>9, <2>1, InDirectory
    <3>3. UsedBytes' <= used'
      BY <1>2, <1>3, <3>2, InNextDirectory
    <3> QED BY <1>9, <2>1, <3>1, <3>3 DEF DirectoryInv, CurrentSound
  <2>2. CurrentSound'
    BY <1>6, <1>7, <1>9, <2>1 DEF CurrentSound, DirectoryInv
  <2> QED BY <1>4, <1>5, <2>2, InNextDirectory DEF DirectoryInv
<1> QED BY <1>8, <1>9

\* What write appends to can be written, and it knows of at least the bytes
\* that are there.
LEMMA TargetWritable ==
  ASSUME TypeOK, DirectoryInv, CanWrite
  PROVE  /\ Writable(file, Target)
         /\ Scanned \in Nat /\ Total(file) <= Scanned
         /\ Scanned + LineBytes <= DirectoryBytes
<1>1. IsFiniteSet(Spots(file)) /\ UsedBytes = Total(file) /\ Total(file) \in Nat
  BY InDirectory, TotalTyped DEF DirectoryInv, CurrentSound
<1>2. Writable(file, Target)
  <2>1. CASE current = None
    <3>1. NewFile \in Files /\ file[NewFile].state = "none"
      BY <2>1, NextName DEF CanWrite
    <3>2. file[NewFile].lines = <<>>
      BY <3>1 DEF DirectoryInv, CurrentSound
    <3> QED BY <2>1, <3>1, <3>2 DEF Writable, Target
  <2>2. CASE current # None
    BY <2>2 DEF Writable, Target, TypeOK, DirectoryInv, CurrentSound
  <2> QED BY <2>1, <2>2
<1>3. Scanned \in Nat /\ Total(file) <= Scanned
  <2>1. CASE MustScan
    BY <1>1, <2>1 DEF Scanned
  <2>2. CASE ~MustScan
    BY <1>1, <2>2 DEF Scanned, MustScan, TypeOK, DirectoryInv, CurrentSound
  <2> QED BY <2>1, <2>2
<1> QED BY <1>2, <1>3 DEF CanWrite, Fits

\* A line is written: the file is let go, or the line is whole.
LEMMA DirectoryGrows ==
  ASSUME TypeOK, DirectoryInv, CanWrite, NEW line \in Lines \cup {Torn},
         file' = Appended(line),
         \/ current' = None /\ size' = 0
         \/ line \in Lines /\ current' = Target /\ up' /\ used' = Scanned + LineBytes
  PROVE  DirectoryInv'
<1>1. /\ Writable(file, Target) /\ Scanned \in Nat /\ Total(file) <= Scanned
      /\ Scanned + LineBytes <= DirectoryBytes
  BY TargetWritable
<1> DEFINE t == Target
<1>2. file' = Grown(file, t, line) /\ file \in Directory /\ t \in Files
  BY <1>1 DEF Appended, Grown, TypeOK, Directory, States, Writable
<1>3. IsFiniteSet(Spots(file)) /\ Total(file) \in Nat /\ TornLast(file)
  BY InDirectory, TotalTyped DEF DirectoryInv, CurrentSound
<1> HIDE DEF t
<1>4. Writable(file, t) /\ (current' = None \/ current' = t)
  BY <1>1 DEF t
<1>5. /\ IsFiniteSet(Spots(file'))
      /\ Total(file') = Total(file) + (IF line = Torn THEN 1 ELSE LineBytes)
  BY <1>2, <1>3, <1>4, GrownTotal
<1>6. Total(file') <= Scanned + LineBytes /\ Total(file') \in Nat
  BY <1>1, <1>3, <1>5, Bounds
<1>7. DirectoryBounded'
  BY <1>1, <1>6, InNextDirectory, Bounds DEF DirectoryBounded
<1>8. TornLast(file')
  BY <1>2, <1>3, <1>4, GrownRecords
<1>9. /\ file'[t].state = "active"
      /\ DOMAIN file'[t].lines = DOMAIN file[t].lines \cup {Len(file[t].lines) + 1}
      /\ file'[t].lines[Len(file[t].lines) + 1] = line
      /\ \A i \in DOMAIN file[t].lines : file'[t].lines[i] = file[t].lines[i]
      /\ \A h \in Files \ {t} : file'[h] = file[h]
  BY <1>2, GrownLines
<1>10. \A f \in Files : file'[f].state = "none" => file'[f].lines = <<>>
  <2> SUFFICES ASSUME NEW f \in Files, file'[f].state = "none" PROVE file'[f].lines = <<>>
    OBVIOUS
  <2>1. f # t
    BY <1>9
  <2> QED BY <1>9, <2>1 DEF DirectoryInv, CurrentSound
<1>11. IsFiniteSet(Positions)'
  BY <1>5, InNextDirectory
<1>12. CASE current' = None /\ size' = 0
  <2>1. CurrentSound'
    BY <1>10, <1>11, <1>12 DEF CurrentSound
  <2> QED BY <1>7, <1>8, <2>1, InNextDirectory DEF DirectoryInv
<1>13. CASE line \in Lines /\ current' = Target /\ up' /\ used' = Scanned + LineBytes
  <2>1. current' = t /\ current' # None /\ line # Torn
    BY <1>2, <1>13, Bounds DEF t
  <2>2. \A i \in DOMAIN file'[t].lines : file'[t].lines[i] # Torn
    BY <1>4, <1>9, <2>1 DEF Writable
  <2>3. UsedBytes' <= used'
    BY <1>6, <1>13, InNextDirectory
  <2>4. CurrentSound'
    BY <1>9, <1>10, <1>11, <1>13, <2>1, <2>2, <2>3 DEF CurrentSound
  <2> QED BY <1>7, <1>8, <2>4, InNextDirectory DEF DirectoryInv
<1> QED BY <1>12, <1>13

-----------------------------------------------------------------------------
(* The events through a step.                                              *)

LEMMA Queued ==
  ASSUME TypeOK
  PROVE  /\ Len(queue) \in Nat /\ DOMAIN queue = 1 .. Len(queue)
         /\ \A i \in DOMAIN queue : queue[i] \in Lines /\ queue[i].cap \in Captures
         /\ packet # None => packet \in Lines /\ packet.cap \in Captures
<1>1. queue \in Seq(Lines) /\ packet \in Lines \cup {None}
  BY DEF TypeOK
<1>2. \A e \in Lines : e.cap \in Captures
  BY DEF Lines
<1> QED BY <1>1, <1>2

\* The definitions of the model for a directory fs, a packet p, a queue q and
\* captures cs.
Held(fs, p, q, c, n, i) ==
  \/ Kept(fs, c, n)
  \/ p # None /\ p.cap = c /\ p.seq = n
  \/ \E j \in DOMAIN q : j < i /\ q[j].cap = c /\ q[j].seq = n

RunningKept(cs, fs, p, q) ==
  \A c \in Captures : cs[c].phase # "ended" /\ ~cs[c].gap =>
    \A n \in 0 .. cs[c].seq - 1 : Held(fs, p, q, c, n, Len(q) + 1)

QueuedKept(cs, fs, p, q) ==
  \A i \in DOMAIN q :
    q[i].terminal /\ q[i].complete /\ ~cs[q[i].cap].gap =>
      \A n \in 0 .. q[i].seq - 1 : Held(fs, p, q, q[i].cap, n, i)

PacketKept(fs, p) ==
  p # None /\ p.terminal /\ p.complete => \A n \in 0 .. p.seq - 1 : Kept(fs, p.cap, n)

LEMMA InFlow ==
  NothingLost <=> /\ RunningKept(capture, file, packet, queue)
                  /\ QueuedKept(capture, file, packet, queue)
                  /\ PacketKept(file, packet)
<1>1. \A c, n, i : Safe(c, n, i) <=> Held(file, packet, queue, c, n, i)
  BY InDirectory DEF Safe, Held
<1> QED BY <1>1, InDirectory DEF NothingLost, RunningKept, QueuedKept, PacketKept

LEMMA InNextFlow ==
  NothingLost' <=> /\ RunningKept(capture', file', packet', queue')
                   /\ QueuedKept(capture', file', packet', queue')
                   /\ PacketKept(file', packet')
BY DEF NothingLost, RunningKept, QueuedKept, PacketKept, Safe, Held, Persisted, Kept

\* A step that leaves the queue alone: a packet leaves the writer only into a
\* file or into a gap.
LEMMA EventsStay ==
  ASSUME TypeOK, NothingLost, queue' = queue,
         \A c \in Captures : /\ capture'[c].seq = capture[c].seq
                             /\ capture[c].gap => capture'[c].gap
                             /\ capture'[c].phase # "ended" => capture[c].phase # "ended",
         \A c, n : Kept(file, c, n) => Kept(file', c, n),
         \/ packet' = packet
         \/ /\ packet' = None
            /\ packet # None => \/ capture'[packet.cap].gap
                                \/ Kept(file', packet.cap, packet.seq)
  PROVE  NothingLost'
<1>0. /\ RunningKept(capture, file, packet, queue)
      /\ QueuedKept(capture, file, packet, queue) /\ PacketKept(file, packet)
  BY InFlow
<1>1. ASSUME NEW c \in Captures, ~capture'[c].gap, NEW n, NEW i,
             Held(file, packet, queue, c, n, i)
      PROVE  Held(file', packet', queue, c, n, i)
  BY <1>1 DEF Held
<1>2. RunningKept(capture', file', packet', queue)
  BY <1>0, <1>1 DEF RunningKept
<1>3. QueuedKept(capture', file', packet', queue)
  <2> SUFFICES ASSUME NEW i \in DOMAIN queue, queue[i].terminal, queue[i].complete,
                      ~capture'[queue[i].cap].gap, NEW n \in 0 .. queue[i].seq - 1
               PROVE  Held(file', packet', queue, queue[i].cap, n, i)
    BY DEF QueuedKept
  <2>1. queue[i].cap \in Captures
    BY Queued
  <2>2. Held(file, packet, queue, queue[i].cap, n, i)
    BY <1>0, <2>1 DEF QueuedKept
  <2> QED BY <1>1, <2>1, <2>2
<1>4. PacketKept(file', packet')
  BY <1>0 DEF PacketKept
<1> QED BY <1>2, <1>3, <1>4, InNextFlow

\* What the types say of capture c.
CaptureType == [phase : {"new", "open", "ended"}, seq : 0 .. MaxChunks + 1,
                gap : BOOLEAN, failed : BOOLEAN]

LEMMA OfCapture ==
  ASSUME TypeOK, NEW c \in Captures
  PROVE  capture \in [Captures -> CaptureType] /\ capture[c] \in CaptureType
BY DEF TypeOK, CaptureType

\* A longer queue holds what it held.
LEMMA HeldLonger ==
  ASSUME NEW fs, NEW p, NEW q \in Seq(Lines), NEW e \in Lines,
         NEW c, NEW n, NEW i \in Nat, NEW k \in Nat, i <= k, Held(fs, p, q, c, n, i)
  PROVE  Held(fs, p, Append(q, e), c, n, k)
<1>1. \A j \in DOMAIN q : j \in Nat /\ j \in DOMAIN Append(q, e) /\ Append(q, e)[j] = q[j]
  OBVIOUS
<1> QED BY <1>1 DEF Held

\* A capture numbers an event and queues it, or has a gap from now on.  A
\* terminal event claims completeness only if there is no gap so far.
LEMMA EventEmitted ==
  ASSUME TypeOK, NothingLost, CapturesInStep, NEW c \in Captures,
         NEW terminal \in BOOLEAN, NEW complete \in BOOLEAN, NEW phase \in {"open", "ended"},
         capture[c].phase \in {"new", "open"}, phase = "open" => capture[c].seq < MaxChunks,
         complete => ~capture[c].gap,
         emit(c, terminal, complete, phase), UNCHANGED <<packet, file>>
  PROVE  /\ NothingLost' /\ CapturesInStep'
         /\ queue' \in Seq(Lines) /\ Len(queue') <= QueueEvents
         /\ capture' \in [Captures -> CaptureType]
<1> DEFINE s == capture[c]
           e == [cap |-> c, seq |-> s.seq, terminal |-> terminal, complete |-> complete]
           gap == s.gap \/ ~Accepts
           t == [s EXCEPT !.phase = phase, !.seq = @ + 1, !.gap = gap]
<1>1. /\ queue' = IF Accepts THEN Append(queue, e) ELSE queue
      /\ capture' = [capture EXCEPT ![c] = t]
  BY DEF emit
<1>2. capture \in [Captures -> CaptureType] /\ s \in CaptureType
  BY OfCapture
<1>3. s.seq \in Nat /\ s.seq <= MaxChunks /\ s.gap \in BOOLEAN
  BY <1>2, Bounds DEF CapturesInStep, CaptureType
<1>0. gap \in BOOLEAN /\ (gap <=> s.gap \/ ~Accepts)
  OBVIOUS
<1> HIDE DEF gap
<1>4. /\ t.phase = phase /\ t.seq = s.seq + 1 /\ (t.gap <=> s.gap \/ ~Accepts)
      /\ t \in CaptureType
  <2>1. t.phase = phase /\ t.seq = s.seq + 1 /\ t.gap = gap
    BY <1>2 DEF CaptureType
  <2>2. s.seq + 1 \in 0 .. MaxChunks + 1
    BY <1>3, Bounds
  <2>3. t \in CaptureType
    BY <1>0, <1>2, <2>2 DEF CaptureType
  <2> QED BY <1>0, <2>1, <2>3
<1> HIDE DEF t
<1>5. /\ capture' \in [Captures -> CaptureType] /\ capture'[c] = t
      /\ \A d \in Captures \ {c} : capture'[d] = capture[d]
  BY <1>1, <1>2, <1>4
<1>6. e \in Lines /\ e.cap = c /\ e.seq = s.seq
  BY <1>3, Bounds DEF Lines
<1>7. CapturesInStep'
  BY <1>3, <1>4, <1>5, Bounds DEF CapturesInStep
<1>8. /\ RunningKept(capture, file, packet, queue)
      /\ QueuedKept(capture, file, packet, queue) /\ PacketKept(file, packet)
  BY InFlow
<1>9. /\ queue \in Seq(Lines) /\ Len(queue) \in Nat /\ DOMAIN queue = 1 .. Len(queue)
      /\ Len(queue) <= QueueEvents
  BY DEF TypeOK
<1> DEFINE k == Len(queue) + 1
<1>10. \A n \in 0 .. s.seq - 1 : ~s.gap => Held(file, packet, queue, c, n, k)
  BY <1>8 DEF RunningKept
<1>11. CASE ~Accepts
  <2>1. queue' = queue /\ capture'[c].gap
    BY <1>1, <1>4, <1>5, <1>11
  <2>2. RunningKept(capture', file, packet, queue)
    BY <1>5, <1>8, <2>1 DEF RunningKept
  <2>3. QueuedKept(capture', file, packet, queue)
    BY <1>5, <1>8, <2>1, Queued DEF QueuedKept
  <2>4. NothingLost'
    BY <1>8, <2>1, <2>2, <2>3, InNextFlow
  <2> QED BY <1>5, <1>7, <1>9, <2>1, <2>4
<1>12. CASE Accepts
  <2> DEFINE q == Append(queue, e)
  <2>1. /\ queue' = q /\ (t.gap <=> s.gap) /\ Len(queue) < QueueEvents
    BY <1>1, <1>4, <1>12 DEF Accepts
  <2> HIDE DEF e
  <2>2. /\ q \in Seq(Lines) /\ Len(q) = k /\ DOMAIN q = 1 .. k /\ q[k] = e /\ k \in Nat
        /\ \A j \in 1 .. Len(queue) : q[j] = queue[j]
    BY <1>6, <1>9
  <2>3. \A d, n, i, j : i \in Nat /\ j \in Nat /\ i <= j /\ Held(file, packet, queue, d, n, i)
          => Held(file, packet, q, d, n, j)
    BY <1>6, <1>9, HeldLonger
  <2>4. Held(file, packet, q, c, s.seq, Len(q) + 1)
    BY <1>6, <2>2 DEF Held
  <2> HIDE DEF q
  <2>5. RunningKept(capture', file, packet, q)
    <3> SUFFICES ASSUME NEW d \in Captures, capture'[d].phase # "ended", ~capture'[d].gap,
                        NEW n \in 0 .. capture'[d].seq - 1
                 PROVE  Held(file, packet, q, d, n, Len(q) + 1)
      BY DEF RunningKept
    <3>1. CASE d = c
      <4>1. n \in 0 .. s.seq /\ ~s.gap
        BY <1>3, <1>4, <1>5, <2>1, <3>1
      <4>2. CASE n = s.seq
        BY <2>4, <3>1, <4>2
      <4>3. CASE n # s.seq
        <5>1. n \in 0 .. s.seq - 1
          BY <1>3, <4>1, <4>3
        <5>2. Held(file, packet, queue, c, n, k)
          BY <1>10, <4>1, <5>1
        <5> QED BY <2>2, <2>3, <3>1, <5>2
      <4> QED BY <4>2, <4>3
    <3>2. CASE d # c
      <4>1. Held(file, packet, queue, d, n, k)
        BY <1>5, <1>8, <3>2 DEF RunningKept
      <4> QED BY <2>2, <2>3, <4>1
    <3> QED BY <3>1, <3>2
  <2>6. QueuedKept(capture', file, packet, q)
    <3> SUFFICES ASSUME NEW i \in DOMAIN q, q[i].terminal, q[i].complete,
                        ~capture'[q[i].cap].gap, NEW n \in 0 .. q[i].seq - 1
                 PROVE  Held(file, packet, q, q[i].cap, n, i)
      BY DEF QueuedKept
    <3>1. CASE i = k
      <4>1. q[i].cap = c /\ n \in 0 .. s.seq - 1 /\ ~s.gap
        BY <1>4, <1>5, <1>6, <2>1, <2>2, <3>1
      <4>2. Held(file, packet, queue, c, n, k)
        BY <1>10, <4>1
      <4> QED BY <2>2, <2>3, <3>1, <4>1, <4>2
    <3>2. CASE i # k
      <4>1. i \in DOMAIN queue /\ q[i] = queue[i] /\ i \in Nat
        BY <1>9, <2>2, <3>2
      <4>2. ~capture[queue[i].cap].gap
        BY <1>4, <1>5, <2>1, <4>1, Queued
      <4>3. Held(file, packet, queue, queue[i].cap, n, i)
        BY <1>8, <4>1, <4>2 DEF QueuedKept
      <4> QED BY <2>3, <4>1, <4>3
    <3> QED BY <3>1, <3>2
  <2>7. NothingLost'
    BY <1>8, <2>1, <2>5, <2>6, InNextFlow
  <2>8. Len(q) <= QueueEvents
    BY <1>9, <2>1, <2>2, Bounds
  <2> QED BY <1>5, <1>7, <2>1, <2>2, <2>7, <2>8
<1> QED BY <1>11, <1>12

\* The writer takes the first event: nothing is ahead of it any more, so that
\* a terminal event that is still complete has all the others in the files.
LEMMA EventTaken ==
  ASSUME TypeOK, NothingLost, Dequeue
  PROVE  NothingLost' /\ queue' \in Seq(Lines) /\ Len(queue') <= QueueEvents /\ packet' \in Lines
<1> DEFINE h == Head(queue)
<1>1. /\ queue # <<>> /\ packet = None /\ packet' = marked(h) /\ queue' = Tail(queue)
      /\ UNCHANGED <<capture, file>>
  BY DEF Dequeue, Idle, capVars
<1>2. /\ queue \in Seq(Lines) /\ Len(queue) \in Nat /\ DOMAIN queue = 1 .. Len(queue)
      /\ Len(queue) <= QueueEvents
  BY DEF TypeOK
<1>3. /\ h = queue[1] /\ 1 \in DOMAIN queue /\ h \in Lines
      /\ queue' \in Seq(Lines) /\ Len(queue') = Len(queue) - 1 /\ Len(queue') \in Nat
      /\ DOMAIN queue' = 1 .. Len(queue')
      /\ \A i \in 1 .. Len(queue') : queue'[i] = queue[i + 1]
  BY <1>1, <1>2
<1> HIDE DEF h
<1>4. /\ packet' \in Lines /\ packet'.cap = h.cap /\ packet'.seq = h.seq
      /\ packet'.terminal = h.terminal
      /\ packet'.terminal /\ packet'.complete => h.complete /\ ~capture[h.cap].gap
  BY <1>1, <1>3, OfCapture DEF marked, Lines, CaptureType
<1>5. /\ RunningKept(capture, file, packet, queue)
      /\ QueuedKept(capture, file, packet, queue)
  BY InFlow
<1>6. packet' # None
  BY <1>4, Bounds
<1>7. ASSUME NEW c, NEW n, NEW i \in Nat, Held(file, packet, queue, c, n, i + 1)
      PROVE  Held(file, packet', queue', c, n, i)
  <2>1. CASE Kept(file, c, n)
    BY <2>1 DEF Held
  <2>2. CASE ~Kept(file, c, n)
    <3>1. PICK j \in DOMAIN queue : j < i + 1 /\ queue[j].cap = c /\ queue[j].seq = n
      BY <1>1, <1>7, <2>2 DEF Held
    <3>2. CASE j = 1
      BY <1>3, <1>4, <1>6, <3>1, <3>2 DEF Held
    <3>3. CASE j # 1
      <4>1. j - 1 \in DOMAIN queue' /\ j - 1 < i /\ queue'[j - 1] = queue[j]
        BY <1>2, <1>3, <3>1, <3>3
      <4> QED BY <3>1, <4>1 DEF Held
    <3> QED BY <3>2, <3>3
  <2> QED BY <2>1, <2>2
<1>8. RunningKept(capture, file, packet', queue')
  <2> SUFFICES ASSUME NEW c \in Captures, capture[c].phase # "ended", ~capture[c].gap,
                      NEW n \in 0 .. capture[c].seq - 1
               PROVE  Held(file, packet', queue', c, n, Len(queue') + 1)
    BY DEF RunningKept
  <2>1. Held(file, packet, queue, c, n, Len(queue) + 1)
    BY <1>5 DEF RunningKept
  <2>2. Len(queue') + 1 \in Nat /\ (Len(queue') + 1) + 1 = Len(queue) + 1
    BY <1>2, <1>3
  <2> QED BY <1>7, <2>1, <2>2
<1>9. QueuedKept(capture, file, packet', queue')
  <2> SUFFICES ASSUME NEW i \in DOMAIN queue', queue'[i].terminal, queue'[i].complete,
                      ~capture[queue'[i].cap].gap, NEW n \in 0 .. queue'[i].seq - 1
               PROVE  Held(file, packet', queue', queue'[i].cap, n, i)
    BY DEF QueuedKept
  <2>1. i \in Nat /\ i + 1 \in DOMAIN queue /\ queue'[i] = queue[i + 1]
    BY <1>2, <1>3
  <2>2. Held(file, packet, queue, queue[i + 1].cap, n, i + 1)
    BY <1>5, <2>1 DEF QueuedKept
  <2> QED BY <1>7, <2>1, <2>2
<1>10. PacketKept(file, packet')
  <2> SUFFICES ASSUME packet'.terminal, packet'.complete, NEW n \in 0 .. packet'.seq - 1
               PROVE  Kept(file, packet'.cap, n)
    BY DEF PacketKept
  <2>1. Held(file, packet, queue, h.cap, n, 1)
    BY <1>3, <1>4, <1>5 DEF QueuedKept
  <2>2. ~\E j \in DOMAIN queue : j < 1
    BY <1>2
  <2> QED BY <1>1, <1>4, <2>1, <2>2 DEF Held
<1>11. NothingLost'
  BY <1>1, <1>8, <1>9, <1>10, InNextFlow
<1>12. Len(queue') <= QueueEvents
  BY <1>2, <1>3, Bounds
<1> QED BY <1>3, <1>4, <1>11, <1>12

-----------------------------------------------------------------------------
(* Every step keeps the invariant.                                         *)

LEMMA Parts ==
  /\ IInv <=> TypeOK /\ DirectoryInv /\ CapturesInStep /\ NothingLost /\ CompleteIsWhole
  /\ IInv' <=> TypeOK' /\ DirectoryInv' /\ CapturesInStep' /\ NothingLost' /\ CompleteIsWhole'
BY DEF IInv, DirectoryConsistent, DirectoryInv

LEMMA Typed ==
  ASSUME IInv
  PROVE  /\ capture \in [Captures -> CaptureType] /\ file \in Directory
         /\ up \in BOOLEAN /\ closed \in BOOLEAN /\ writer \in {"run", "done"}
         /\ queue \in Seq(Lines) /\ Len(queue) <= QueueEvents
         /\ packet \in Lines \cup {None} /\ current \in Files \cup {None}
         /\ size \in 0 .. FileBytes /\ used \in Nat
         /\ faults \in 0 .. MaxFaults /\ crashes \in 0 .. MaxCrashes
         /\ UsedBytes \in Nat /\ Scanned \in Nat
<1>1. TypeOK /\ IsFiniteSet(Spots(file))
  BY InDirectory DEF IInv, DirectoryConsistent, CurrentSound
<1>2. UsedBytes \in Nat
  BY <1>1, InDirectory, TotalTyped
<1> QED BY <1>1, <1>2 DEF TypeOK, CaptureType, Directory, States, Scanned

LEMMA TypedNext ==
  ASSUME capture' \in [Captures -> CaptureType], file' \in Directory,
         up' \in BOOLEAN, closed' \in BOOLEAN, writer' \in {"run", "done"},
         queue' \in Seq(Lines), Len(queue') <= QueueEvents,
         packet' \in Lines \cup {None}, current' \in Files \cup {None},
         size' \in 0 .. FileBytes, used' \in Nat,
         faults' \in 0 .. MaxFaults, crashes' \in 0 .. MaxCrashes
  PROVE  TypeOK'
BY DEF TypeOK, CaptureType, Directory, States

\* A step that leaves the directory and what the writer knows of it alone.
LEMMA DirectoryStays ==
  ASSUME IInv, UNCHANGED <<up, current, size, used, file>>
  PROVE  DirectoryInv' /\ CompleteIsWhole'
<1>1. TypeOK /\ DirectoryInv /\ used' \in Nat /\ Honest(file)
  BY Parts, Typed, InDirectory
<1>2. current # None => up' /\ UsedBytes <= used'
  BY <1>1 DEF DirectoryInv, CurrentSound
<1>3. DirectoryInv'
  BY <1>1, <1>2, DirectoryMoves
<1>4. CompleteIsWhole'
  BY <1>1, InNextDirectory
<1> QED BY <1>3, <1>4

LEMMA ChunkKeeps ==
  ASSUME IInv, NEW c \in Captures, Chunk(c)
  PROVE  IInv'
<1>1. /\ capture[c].phase \in {"new", "open"} /\ capture[c].seq < MaxChunks
      /\ emit(c, FALSE, FALSE, "open")
      /\ UNCHANGED <<up, closed, writer, packet, current, size, used, file, faults, crashes>>
  BY DEF Chunk
<1>2. TypeOK /\ NothingLost /\ CapturesInStep
  BY Parts
<1>3. /\ NothingLost' /\ CapturesInStep' /\ queue' \in Seq(Lines) /\ Len(queue') <= QueueEvents
      /\ capture' \in [Captures -> CaptureType]
  BY <1>1, <1>2, EventEmitted
<1>4. TypeOK'
  BY <1>1, <1>3, Typed, TypedNext
<1> QED BY <1>1, <1>3, <1>4, DirectoryStays, Parts

LEMMA FinishKeeps ==
  ASSUME IInv, NEW c \in Captures, Finish(c)
  PROVE  IInv'
<1>1. PICK success \in BOOLEAN : emit(c, TRUE, Whole(c, success), "ended")
  BY DEF Finish
<1>2. /\ capture[c].phase \in {"new", "open"}
      /\ UNCHANGED <<up, closed, writer, packet, current, size, used, file, faults, crashes>>
  BY DEF Finish
<1>3. TypeOK /\ NothingLost /\ CapturesInStep
  BY Parts
<1> DEFINE complete == Whole(c, success)
<1>4. complete \in BOOLEAN /\ (complete => ~capture[c].gap)
  BY DEF Whole
<1>5. emit(c, TRUE, complete, "ended")
  BY <1>1
<1> HIDE DEF complete
<1>6. /\ NothingLost' /\ CapturesInStep' /\ queue' \in Seq(Lines) /\ Len(queue') <= QueueEvents
      /\ capture' \in [Captures -> CaptureType]
  BY <1>2, <1>3, <1>4, <1>5, EventEmitted
<1>7. TypeOK'
  BY <1>2, <1>6, Typed, TypedNext
<1> QED BY <1>2, <1>6, <1>7, DirectoryStays, Parts

LEMMA WriteFailsKeeps ==
  ASSUME IInv, NEW c \in Captures, WriteFails(c)
  PROVE  IInv'
<1> DEFINE t == [capture[c] EXCEPT !.failed = TRUE]
<1>1. /\ capture' = [capture EXCEPT ![c] = t]
      /\ UNCHANGED <<up, queue, closed, writer, packet, current, size, used, file, faults, crashes>>
  BY DEF WriteFails, logVars
<1>2. capture \in [Captures -> CaptureType]
  BY Typed
<1>3. /\ t \in CaptureType /\ t.seq = capture[c].seq /\ t.gap = capture[c].gap
      /\ t.phase = capture[c].phase
  BY <1>2 DEF CaptureType
<1> HIDE DEF t
<1>4. /\ capture' \in [Captures -> CaptureType]
      /\ \A d \in Captures : /\ capture'[d].seq = capture[d].seq
                             /\ capture'[d].gap = capture[d].gap
                             /\ capture'[d].phase = capture[d].phase
  BY <1>1, <1>2, <1>3
<1>5. TypeOK'
  BY <1>1, <1>4, Typed, TypedNext
<1>6. NothingLost'
  BY <1>1, <1>4, Parts, EventsStay
<1>7. CapturesInStep'
  BY <1>4, Parts DEF CapturesInStep
<1> QED BY <1>1, <1>5, <1>6, <1>7, DirectoryStays, Parts

LEMMA CloseKeeps ==
  ASSUME IInv, Close
  PROVE  IInv'
<1>1. /\ closed' = TRUE
      /\ UNCHANGED <<capture, up, queue, writer, packet, current, size, used, file, faults, crashes>>
  BY DEF Close, capVars
<1>2. TypeOK'
  BY <1>1, Typed, TypedNext
<1>3. NothingLost'
  BY <1>1, Parts, EventsStay
<1>4. CapturesInStep'
  BY <1>1, Parts DEF CapturesInStep
<1> QED BY <1>1, <1>2, <1>3, <1>4, DirectoryStays, Parts

LEMMA DequeueKeeps ==
  ASSUME IInv, Dequeue
  PROVE  IInv'
<1>1. UNCHANGED <<capture, up, closed, writer, current, size, used, file, faults, crashes>>
  BY DEF Dequeue, capVars
<1>2. NothingLost' /\ queue' \in Seq(Lines) /\ Len(queue') <= QueueEvents /\ packet' \in Lines
  BY Parts, EventTaken
<1>3. TypeOK'
  BY <1>1, <1>2, Typed, TypedNext
<1>4. CapturesInStep'
  BY <1>1, Parts DEF CapturesInStep
<1> QED BY <1>1, <1>2, <1>3, <1>4, DirectoryStays, Parts

\* A packet that is lost is a gap of its capture.
LEMMA PacketDropped ==
  ASSUME IInv, packet # None, dropPacket, queue' = queue,
         \A c, n : Kept(file, c, n) => Kept(file', c, n)
  PROVE  /\ NothingLost' /\ CapturesInStep'
         /\ capture' \in [Captures -> CaptureType] /\ packet' = None
<1> DEFINE c == packet.cap
           t == [capture[c] EXCEPT !.gap = TRUE]
<1>1. capture' = [capture EXCEPT ![c] = t] /\ packet' = None
  BY DEF dropPacket
<1>2. capture \in [Captures -> CaptureType] /\ c \in Captures /\ TypeOK
  BY Typed, Parts, Queued
<1>3. /\ t \in CaptureType /\ t.seq = capture[c].seq /\ t.gap
      /\ t.phase = capture[c].phase
  BY <1>2 DEF CaptureType
<1> HIDE DEF t
<1>4. /\ capture' \in [Captures -> CaptureType] /\ capture'[c].gap
      /\ \A d \in Captures : /\ capture'[d].seq = capture[d].seq
                             /\ capture[d].gap => capture'[d].gap
                             /\ capture'[d].phase = capture[d].phase
  BY <1>1, <1>2, <1>3
<1>5. NothingLost'
  BY <1>1, <1>2, <1>4, Parts, EventsStay
<1>6. CapturesInStep'
  BY <1>4, Parts DEF CapturesInStep
<1> QED BY <1>1, <1>4, <1>5, <1>6

LEMMA FaultCounted ==
  ASSUME IInv, UNCHANGED faults \/ Fault
  PROVE  faults' \in 0 .. MaxFaults
BY Typed, Bounds DEF Fault

\* Sealing lets go of a whole file.
LEMMA SealMoves ==
  ASSUME IInv, NEW ok \in BOOLEAN, seal(ok), used' = used
  PROVE  /\ DirectoryInv' /\ CompleteIsWhole'
         /\ file' \in Directory /\ current' = None /\ size' = 0
         /\ faults' \in 0 .. MaxFaults
         /\ \A c, n : Kept(file, c, n) <=> Kept(file', c, n)
         /\ \A f \in Files : file[f].state \notin {"none", "active"} => file'[f] = file[f]
<1>1. current' = None /\ size' = 0 /\ (UNCHANGED faults \/ Fault)
  BY DEF seal
<1>2. /\ TypeOK /\ DirectoryInv /\ CompleteIsWhole /\ file \in Directory /\ used' \in Nat
      /\ current \in Files \cup {None}
  BY Parts, Typed
<1>3. /\ file' \in Directory
      /\ \A f \in Files :
           /\ file'[f].lines = file[f].lines
           /\ \/ file'[f] = file[f]
              \/ f = current /\ current # None /\ file'[f].state = "sealed"
  <2>1. CASE file' = file
    BY <1>2, <2>1
  <2>2. CASE current # None /\ file' = [file EXCEPT ![current].state = "sealed"]
    <3>1. current \in Files /\ "sealed" \in States
      BY <1>2, <2>2 DEF States
    <3> QED BY <1>2, <2>2, <3>1 DEF Directory
  <2> QED BY <2>1, <2>2 DEF seal
<1>4. current # None => /\ file[current].state = "active"
                        /\ \A i \in DOMAIN file[current].lines : file[current].lines[i] # Torn
  BY <1>2 DEF DirectoryInv, CurrentSound
<1>5. DirectoryInv'
  <2>1. \A f \in Files :
           /\ file'[f].lines = file[f].lines
           /\ file'[f].state \notin {"none", "taken"} => file[f].state \notin {"none", "taken"}
           /\ file'[f].state = "none" => file[f].state = "none"
           /\ file'[f].state = "sealed" =>
                \/ file[f].state = "sealed"
                \/ \A i \in DOMAIN file[f].lines : file[f].lines[i] # Torn
    BY <1>3, <1>4
  <2> QED BY <1>1, <1>2, <2>1, DirectoryMoves
<1>6. /\ \A c, n : Kept(file, c, n) <=> Kept(file', c, n)
      /\ Honest(file) => Honest(file')
  BY <1>3, SameRecords
<1>7. CompleteIsWhole'
  BY <1>2, <1>6, InDirectory, InNextDirectory
<1>8. \A f \in Files : file[f].state \notin {"none", "active"} => file'[f] = file[f]
  BY <1>3, <1>4
<1> QED BY <1>1, <1>3, <1>5, <1>6, <1>7, <1>8, FaultCounted

\* What a step may never do to a file that was handed off.
Frozen ==
  \A f \in Files : file[f].state \notin {"none", "active"} =>
    /\ file'[f].lines = file[f].lines
    /\ file'[f].state # "active"

LEMMA FrozenUnchanged ==
  ASSUME file' = file
  PROVE  Frozen
BY DEF Frozen

LEMMA SealFreezes ==
  ASSUME IInv, NEW ok \in BOOLEAN, seal(ok), used' = used
  PROVE  Frozen
BY SealMoves DEF Frozen

LEMMA RotateKeeps ==
  ASSUME IInv, Rotate
  PROVE  IInv' /\ Frozen
<1>1. /\ packet # None
      /\ UNCHANGED <<up, queue, closed, writer, used, crashes>>
  BY DEF Rotate, Holds
<1>2. CASE seal(TRUE) /\ UNCHANGED <<capture, packet>>
  <2>1. /\ DirectoryInv' /\ CompleteIsWhole' /\ file' \in Directory
        /\ current' = None /\ size' = 0 /\ faults' \in 0 .. MaxFaults
        /\ \A c, n : Kept(file, c, n) <=> Kept(file', c, n)
    BY <1>1, <1>2, SealMoves
  <2>2. TypeOK'
    BY <1>1, <1>2, <2>1, Typed, TypedNext, Bounds
  <2>3. NothingLost'
    BY <1>1, <1>2, <2>1, Parts, EventsStay
  <2>4. CapturesInStep'
    BY <1>2, Parts DEF CapturesInStep
  <2> QED BY <1>1, <1>2, <2>1, <2>2, <2>3, <2>4, Parts, SealFreezes
<1>3. CASE seal(FALSE) /\ dropPacket
  <2>1. /\ DirectoryInv' /\ CompleteIsWhole' /\ file' \in Directory
        /\ current' = None /\ size' = 0 /\ faults' \in 0 .. MaxFaults
        /\ \A c, n : Kept(file, c, n) <=> Kept(file', c, n)
    BY <1>1, <1>3, SealMoves
  <2>2. /\ NothingLost' /\ CapturesInStep'
        /\ capture' \in [Captures -> CaptureType] /\ packet' = None
    BY <1>1, <1>3, <2>1, PacketDropped
  <2>3. TypeOK'
    BY <1>1, <2>1, <2>2, Typed, TypedNext, Bounds
  <2> QED BY <1>1, <1>3, <2>1, <2>2, <2>3, Parts, SealFreezes
<1> QED BY <1>2, <1>3 DEF Rotate, capVars

\* The ticker and the end of the goroutine seal alike.
LEMMA SealKeeps ==
  ASSUME IInv, NEW ok \in BOOLEAN, seal(ok), writer' \in {"run", "done"},
         UNCHANGED <<capture, up, queue, closed, packet, used, crashes>>
  PROVE  IInv' /\ Frozen
<1>1. /\ DirectoryInv' /\ CompleteIsWhole' /\ file' \in Directory
      /\ current' = None /\ size' = 0 /\ faults' \in 0 .. MaxFaults
      /\ \A c, n : Kept(file, c, n) <=> Kept(file', c, n)
  BY SealMoves
<1>2. TypeOK'
  BY <1>1, Typed, TypedNext, Bounds
<1>3. NothingLost'
  BY <1>1, Parts, EventsStay
<1>4. CapturesInStep'
  BY Parts DEF CapturesInStep
<1> QED BY <1>1, <1>2, <1>3, <1>4, Parts, SealFreezes

LEMMA TickKeeps ==
  ASSUME IInv, Tick
  PROVE  IInv' /\ Frozen
<1>1. PICK ok \in BOOLEAN : seal(ok)
  BY DEF Tick
<1>2. UNCHANGED <<capture, up, queue, closed, writer, packet, used, crashes>>
  BY DEF Tick, capVars
<1>3. writer' \in {"run", "done"}
  BY <1>2, Typed
<1> QED BY <1>1, <1>2, <1>3, SealKeeps

LEMMA RunEndsKeeps ==
  ASSUME IInv, RunEnds
  PROVE  IInv' /\ Frozen
<1>1. PICK ok \in BOOLEAN : seal(ok)
  BY DEF RunEnds
<1>2. UNCHANGED <<capture, up, queue, closed, packet, used, crashes>> /\ writer' = "done"
  BY DEF RunEnds, capVars
<1> QED BY <1>1, <1>2, SealKeeps

\* A line written: what it does to the directory, but for the writer's part.
LEMMA LineJoins ==
  ASSUME IInv, CanWrite, NEW line \in Lines \cup {Torn}, file' = Appended(line),
         line.terminal /\ line.complete =>
           \A n \in 0 .. line.seq - 1 : Kept(file, line.cap, n)
  PROVE  /\ file' \in Directory /\ CompleteIsWhole' /\ Frozen
         /\ \A c, n : Kept(file, c, n) => Kept(file', c, n)
         /\ line \in Lines => Kept(file', line.cap, line.seq)
         /\ Target \in Files /\ Scanned \in Nat
<1> DEFINE t == Target
<1>1. TypeOK /\ DirectoryInv /\ CompleteIsWhole /\ file \in Directory
  BY Parts, Typed
<1>2. Writable(file, t) /\ Scanned \in Nat
  BY <1>1, TargetWritable
<1>3. t \in Files /\ file' = Grown(file, t, line)
  BY <1>2 DEF Appended, Grown, Writable
<1> HIDE DEF t
<1>4. Honest(file)
  BY <1>1, InDirectory
<1>5. /\ \A c, n : Kept(file, c, n) => Kept(file', c, n)
      /\ line \in Lines => Kept(file', line.cap, line.seq)
      /\ Honest(file')
  BY <1>1, <1>2, <1>3, <1>4, GrownRecords
<1>6. file' \in Directory /\ \A h \in Files \ {t} : file'[h] = file[h]
  BY <1>1, <1>3, GrownLines
<1>7. Frozen
  <2>1. file[t].state \in {"none", "active"}
    BY <1>2 DEF Writable
  <2> QED BY <1>6, <2>1 DEF Frozen
<1>8. CompleteIsWhole'
  BY <1>5, InNextDirectory
<1> QED BY <1>2, <1>3, <1>5, <1>6, <1>7, <1>8 DEF t

LEMMA WriteKeeps ==
  ASSUME IInv, Write
  PROVE  IInv' /\ Frozen
<1>1. /\ CanWrite /\ file' = Appended(packet) /\ current' = Target
      /\ size' = size + LineBytes /\ used' = Scanned + LineBytes /\ packet' = None
      /\ UNCHANGED <<capture, up, queue, closed, writer, faults, crashes>>
  BY DEF Write, capVars
<1>2. up /\ packet # None /\ ~MustRotate
  BY <1>1 DEF CanWrite, Holds
<1>3. TypeOK /\ DirectoryInv /\ NothingLost /\ packet \in Lines
  BY <1>2, Parts, Typed
<1>4. packet.terminal /\ packet.complete =>
        \A n \in 0 .. packet.seq - 1 : Kept(file, packet.cap, n)
  BY <1>2, <1>3, InFlow DEF PacketKept
<1>5. /\ file' \in Directory /\ CompleteIsWhole' /\ Frozen
      /\ \A c, n : Kept(file, c, n) => Kept(file', c, n)
      /\ Kept(file', packet.cap, packet.seq)
      /\ Target \in Files /\ Scanned \in Nat
  BY <1>1, <1>3, <1>4, LineJoins
<1>6. DirectoryInv'
  BY <1>1, <1>2, <1>3, DirectoryGrows
<1>7. NothingLost'
  BY <1>1, <1>3, <1>5, EventsStay
<1>8. size' \in 0 .. FileBytes
  <2>1. size \in Nat /\ size + LineBytes <= FileBytes
    BY <1>2, <1>3, Typed, Bounds DEF MustRotate, DirectoryInv, CurrentSound
  <2> QED BY <1>1, <2>1, Bounds
<1>9. used' \in Nat
  BY <1>1, <1>5, Bounds
<1>10. TypeOK'
  BY <1>1, <1>5, <1>8, <1>9, Typed, TypedNext
<1>11. CapturesInStep'
  BY <1>1, Parts DEF CapturesInStep
<1> QED BY <1>5, <1>6, <1>7, <1>10, <1>11, Parts

LEMMA ShortWriteKeeps ==
  ASSUME IInv, ShortWrite
  PROVE  IInv' /\ Frozen
<1>1. /\ CanWrite /\ file' = Appended(Torn) /\ current' = None
      /\ size' = 0 /\ used' = Scanned + 1 /\ dropPacket /\ Fault
      /\ UNCHANGED <<up, queue, closed, writer, crashes>>
  BY DEF ShortWrite, closeTornFile
<1>2. packet # None
  BY <1>1 DEF CanWrite, Holds
<1>3. TypeOK /\ DirectoryInv /\ ~Torn.terminal
  BY Parts DEF Torn
<1>4. /\ file' \in Directory /\ CompleteIsWhole' /\ Frozen
      /\ \A c, n : Kept(file, c, n) => Kept(file', c, n)
      /\ Scanned \in Nat
  BY <1>1, <1>3, LineJoins
<1>5. DirectoryInv'
  BY <1>1, <1>3, DirectoryGrows
<1>6. /\ NothingLost' /\ CapturesInStep'
      /\ capture' \in [Captures -> CaptureType] /\ packet' = None
  BY <1>1, <1>2, <1>4, PacketDropped
<1>7. used' \in Nat /\ faults' \in 0 .. MaxFaults
  BY <1>1, <1>4, FaultCounted
<1>8. TypeOK'
  BY <1>1, <1>4, <1>6, <1>7, Typed, TypedNext, Bounds
<1> QED BY <1>4, <1>5, <1>6, <1>8, Parts

LEMMA WriteRefusedKeeps ==
  ASSUME IInv, WriteRefused
  PROVE  IInv' /\ Frozen
<1>1. /\ packet # None /\ dropPacket /\ (used' = used \/ used' = Scanned)
      /\ (UNCHANGED faults \/ Fault)
      /\ UNCHANGED <<up, queue, closed, writer, current, size, file, crashes>>
  BY DEF WriteRefused, Holds
<1>2. TypeOK /\ DirectoryInv /\ CompleteIsWhole
  BY Parts
<1>3. used' \in Nat /\ faults' \in 0 .. MaxFaults
  BY <1>1, Typed, FaultCounted
<1>4. current # None => up' /\ UsedBytes <= used'
  BY <1>1, <1>2, Typed DEF DirectoryInv, CurrentSound, Scanned
<1>5. DirectoryInv'
  BY <1>1, <1>2, <1>3, <1>4, DirectoryMoves
<1>6. CompleteIsWhole'
  BY <1>1, <1>2, InDirectory, InNextDirectory
<1>7. /\ NothingLost' /\ CapturesInStep'
      /\ capture' \in [Captures -> CaptureType] /\ packet' = None
  BY <1>1, PacketDropped
<1>8. TypeOK'
  BY <1>1, <1>3, <1>7, Typed, TypedNext
<1> QED BY <1>1, <1>5, <1>6, <1>7, <1>8, Parts, FrozenUnchanged

\* A process that ends leaves no event that anyone waits for: a capture that
\* goes on has not begun.
LEMMA MemoryLost ==
  ASSUME IInv, loseMemory
  PROVE  /\ NothingLost' /\ CapturesInStep'
         /\ capture' \in [Captures -> CaptureType]
         /\ queue' \in Seq(Lines) /\ Len(queue') <= QueueEvents
<1> DEFINE over(c) == [capture[c] EXCEPT !.phase = "ended"]
<1>1. /\ queue' = <<>> /\ packet' = None
      /\ capture' = [c \in Captures |->
                       IF capture[c].phase = "open" THEN over(c) ELSE capture[c]]
  BY DEF loseMemory
<1>2. capture \in [Captures -> CaptureType] /\ CapturesInStep
  BY Typed, Parts
<1>3. \A c \in Captures : over(c) \in CaptureType /\ over(c).phase = "ended"
  BY <1>2 DEF CaptureType
<1> HIDE DEF over
<1>4. /\ capture' \in [Captures -> CaptureType]
      /\ \A c \in Captures : \/ capture'[c].phase = "ended"
                             \/ capture'[c] = capture[c] /\ capture[c].phase = "new"
  <2>1. capture' \in [Captures -> CaptureType]
    BY <1>1, <1>2, <1>3
  <2>2. ASSUME NEW c \in Captures
        PROVE  \/ capture'[c].phase = "ended"
               \/ capture'[c] = capture[c] /\ capture[c].phase = "new"
    BY <1>1, <1>2, <1>3 DEF CaptureType
  <2> QED BY <2>1, <2>2
<1>5. CapturesInStep'
  BY <1>2, <1>4, Bounds DEF CapturesInStep
<1>6. RunningKept(capture', file', packet', queue')
  <2> SUFFICES ASSUME NEW c \in Captures, capture'[c].phase # "ended",
                      NEW n \in 0 .. capture'[c].seq - 1
               PROVE  FALSE
    BY DEF RunningKept
  <2>1. capture'[c].seq = 0
    BY <1>2, <1>4 DEF CapturesInStep
  <2> QED BY <2>1
<1>7. QueuedKept(capture', file', packet', queue') /\ PacketKept(file', packet')
  BY <1>1 DEF QueuedKept, PacketKept
<1>8. queue' \in Seq(Lines) /\ Len(queue') = 0
  BY <1>1
<1> QED BY <1>4, <1>5, <1>6, <1>7, <1>8, InNextFlow, Bounds

LEMMA CrashKeeps ==
  ASSUME IInv, Crash
  PROVE  IInv' /\ Frozen
<1>1. /\ loseMemory /\ crashes < MaxCrashes /\ crashes' = crashes + 1
      /\ up' = FALSE /\ packet' = None /\ writer' = "done" /\ current' = None /\ size' = 0
      /\ UNCHANGED <<closed, used, faults>>
  BY DEF Crash, loseMemory
<1>2. TypeOK /\ DirectoryInv /\ CompleteIsWhole /\ file \in Directory /\ used' \in Nat
  BY <1>1, Parts, Typed
<1>3. file' \in Directory /\ CompleteIsWhole' /\ Frozen /\ DirectoryInv'
  <2>1. CASE file' = file
    <3>1. DirectoryInv'
      BY <1>1, <1>2, <2>1, DirectoryMoves
    <3> QED BY <1>2, <2>1, <3>1, InDirectory, InNextDirectory, FrozenUnchanged
  <2>2. CASE CanWrite /\ file' = Appended(Torn)
    <3>1. ~Torn.terminal
      BY DEF Torn
    <3>2. file' \in Directory /\ CompleteIsWhole' /\ Frozen
      BY <2>2, <3>1, LineJoins
    <3>3. DirectoryInv'
      BY <1>1, <1>2, <2>2, DirectoryGrows
    <3> QED BY <3>2, <3>3
  <2> QED BY <2>1, <2>2 DEF Crash
<1>4. crashes' \in 0 .. MaxCrashes
  BY <1>1, Typed, Bounds
<1>5. up' \in BOOLEAN /\ size' \in 0 .. FileBytes
  <2>1. up' \in BOOLEAN
    BY <1>1
  <2> QED BY <1>1, <2>1, Bounds
<1>6. TypeOK'
  <2>1. /\ writer' \in {"run", "done"} /\ packet' \in Lines \cup {None}
        /\ current' \in Files \cup {None}
        /\ closed' \in BOOLEAN /\ faults' \in 0 .. MaxFaults
    BY <1>1, Typed
  <2> QED BY <1>1, <1>2, <1>3, <1>4, <1>5, <2>1, MemoryLost, TypedNext
<1> QED BY <1>1, <1>3, <1>6, MemoryLost, Parts

LEMMA ExitKeeps ==
  ASSUME IInv, Exit
  PROVE  IInv' /\ Frozen
<1>1. /\ loseMemory
      /\ up' = FALSE /\ packet' = None /\ writer' = "done" /\ current' = None /\ size' = 0
      /\ UNCHANGED <<closed, used, faults, file, crashes>>
  BY DEF Exit, loseMemory
<1>2. TypeOK /\ DirectoryInv /\ CompleteIsWhole /\ used' \in Nat
  BY <1>1, Parts, Typed
<1>3. DirectoryInv'
  BY <1>1, <1>2, DirectoryMoves
<1>4. CompleteIsWhole'
  BY <1>1, <1>2, InDirectory, InNextDirectory
<1>5. up' \in BOOLEAN /\ size' \in 0 .. FileBytes
  <2>1. up' \in BOOLEAN
    BY <1>1
  <2> QED BY <1>1, <2>1, Bounds
<1>6. TypeOK'
  <2>1. /\ writer' \in {"run", "done"} /\ packet' \in Lines \cup {None}
        /\ current' \in Files \cup {None} /\ file' \in Directory
        /\ closed' \in BOOLEAN /\ faults' \in 0 .. MaxFaults /\ crashes' \in 0 .. MaxCrashes
    BY <1>1, Typed
  <2> QED BY <1>1, <1>2, <1>5, <2>1, MemoryLost, TypedNext
<1> QED BY <1>1, <1>3, <1>4, <1>6, MemoryLost, Parts, FrozenUnchanged

\* A step that renames files, and nothing else.
LEMMA RenamesKeep ==
  ASSUME IInv, UNCHANGED <<capture, queue, packet, current, size, crashes>>,
         up' \in BOOLEAN, closed' \in BOOLEAN, writer' \in {"run", "done"}, used' \in Nat,
         UNCHANGED faults \/ Fault,
         current = None \/ UNCHANGED <<up, used>>,
         file' \in Directory,
         \A f \in Files :
           /\ file'[f].lines = file[f].lines
           /\ \/ file'[f].state = file[f].state
              \/ file[f].state = "active" /\ current = None /\ file'[f].state = "interrupted"
              \/ file[f].state \in {"sealed", "interrupted"} /\ file'[f].state = "taken"
  PROVE  IInv' /\ Frozen
<1>1. TypeOK /\ DirectoryInv /\ CompleteIsWhole /\ CapturesInStep /\ NothingLost
  BY Parts
<1>2. \A f \in Files :
        /\ file'[f].lines = file[f].lines
        /\ file'[f].state \notin {"none", "taken"} => file[f].state \notin {"none", "taken"}
        /\ file'[f].state = "none" => file[f].state = "none"
        /\ file'[f].state = "sealed" => file[f].state = "sealed"
  OBVIOUS
<1>3. current # None =>
        up' /\ file'[current].state = file[current].state /\ UsedBytes <= used'
  <2> SUFFICES ASSUME current # None
               PROVE  up' /\ file'[current].state = file[current].state /\ UsedBytes <= used'
    OBVIOUS
  <2>1. up /\ file[current].state = "active" /\ UsedBytes <= used /\ current \in Files
    BY <1>1 DEF DirectoryInv, CurrentSound, TypeOK
  <2> QED BY <2>1
<1>4. DirectoryInv'
  BY <1>1, <1>2, <1>3, DirectoryMoves
<1>5. /\ \A c, n : Kept(file', c, n) <=> Kept(file, c, n)
      /\ Honest(file) => Honest(file')
  BY <1>2, SameRecords
<1>6. CompleteIsWhole'
  BY <1>1, <1>5, InDirectory, InNextDirectory
<1>7. NothingLost'
  BY <1>1, <1>5, EventsStay
<1>8. CapturesInStep'
  BY <1>1 DEF CapturesInStep
<1>9. TypeOK'
  BY Typed, TypedNext, FaultCounted
<1>10. Frozen
  BY DEF Frozen
<1> QED BY <1>4, <1>6, <1>7, <1>8, <1>9, <1>10, Parts

\* fs after the files of S were handed off.
Interrupted(fs, S) ==
  [f \in Files |-> IF f \in S THEN [fs[f] EXCEPT !.state = "interrupted"] ELSE fs[f]]

LEMMA HandedOff ==
  ASSUME NEW fs \in Directory, NEW S
  PROVE  /\ Interrupted(fs, S) \in Directory
         /\ \A f \in Files : /\ Interrupted(fs, S)[f].lines = fs[f].lines
                             /\ f \in S => Interrupted(fs, S)[f].state = "interrupted"
                             /\ f \notin S => Interrupted(fs, S)[f] = fs[f]
<1> DEFINE r(f) == [fs[f] EXCEPT !.state = "interrupted"]
<1>1. "interrupted" \in States
  BY DEF States
<1>2. \A f \in Files : /\ r(f) \in [state : States, lines : Seq(Lines \cup {Torn})]
                       /\ r(f).lines = fs[f].lines /\ r(f).state = "interrupted"
  BY <1>1 DEF Directory
<1>3. Interrupted(fs, S) = [f \in Files |-> IF f \in S THEN r(f) ELSE fs[f]]
  BY DEF Interrupted
<1> HIDE DEF r
<1> QED BY <1>2, <1>3 DEF Directory

LEMMA OpenKeeps ==
  ASSUME IInv, Open
  PROVE  IInv' /\ Frozen
<1>1. ~up /\ UNCHANGED <<capture, queue, packet, current, size, crashes>>
  BY DEF Open, capVars
<1>2. current = None
  BY <1>1, Parts DEF DirectoryInv, CurrentSound
<1>3. PICK S \in SUBSET Active : file' = Interrupted(file, S)
  BY DEF Open, Interrupted
<1>4. /\ file' \in Directory
      /\ \A f \in Files :
           /\ file'[f].lines = file[f].lines
           /\ \/ file'[f].state = file[f].state
              \/ file[f].state = "active" /\ file'[f].state = "interrupted"
  BY <1>3, HandedOff, Typed DEF Active
<1>5. /\ up' \in BOOLEAN /\ closed' \in BOOLEAN /\ writer' \in {"run", "done"} /\ used' \in Nat
      /\ (UNCHANGED faults \/ Fault)
  BY Typed DEF Open
<1> QED BY <1>1, <1>2, <1>4, <1>5, RenamesKeep

LEMMA CollectKeeps ==
  ASSUME IInv, Collect
  PROVE  IInv' /\ Frozen
<1>1. UNCHANGED <<capture, up, queue, closed, writer, packet, current, size, used, faults, crashes>>
  BY DEF Collect, capVars, logVars
<1>2. PICK f \in Files : /\ file[f].state \in {"sealed", "interrupted"}
                         /\ file' = [file EXCEPT ![f].state = "taken"]
  BY DEF Collect
<1>3. /\ file' \in Directory
      /\ \A g \in Files :
           /\ file'[g].lines = file[g].lines
           /\ \/ file'[g].state = file[g].state
              \/ file[g].state \in {"sealed", "interrupted"} /\ file'[g].state = "taken"
  <2>1. file \in Directory /\ "taken" \in States
    BY Typed DEF States
  <2> QED BY <1>2, <2>1 DEF Directory
<1> QED BY <1>1, <1>3, Typed, RenamesKeep

LEMMA StutterKeeps ==
  ASSUME IInv, UNCHANGED vars
  PROVE  IInv' /\ Frozen
<1>1. UNCHANGED <<capture, up, queue, closed, writer, packet, current, size, used, file, faults, crashes>>
  BY DEF vars, capVars, logVars
<1> QED BY <1>1, Typed, RenamesKeep

LEMMA StepKeeps ==
  ASSUME IInv, [Next]_vars
  PROVE  IInv' /\ Frozen
<1>1. ASSUME NEW c \in Captures, Chunk(c) PROVE IInv' /\ Frozen
  BY <1>1, ChunkKeeps, FrozenUnchanged DEF Chunk
<1>2. ASSUME NEW c \in Captures, WriteFails(c) PROVE IInv' /\ Frozen
  BY <1>2, WriteFailsKeeps, FrozenUnchanged DEF WriteFails
<1>3. ASSUME NEW c \in Captures, Finish(c) PROVE IInv' /\ Frozen
  BY <1>3, FinishKeeps, FrozenUnchanged DEF Finish
<1>4. CASE Close
  BY <1>4, CloseKeeps, FrozenUnchanged DEF Close
<1>5. CASE Dequeue
  BY <1>5, DequeueKeeps, FrozenUnchanged DEF Dequeue
<1> QED BY <1>1, <1>2, <1>3, <1>4, <1>5, RotateKeeps, WriteKeeps, ShortWriteKeeps,
           WriteRefusedKeeps, TickKeeps, RunEndsKeeps, CrashKeeps, ExitKeeps, OpenKeeps,
           CollectKeeps, StutterKeeps DEF Next

LEMMA InitSound ==
  ASSUME Init
  PROVE  IInv
<1>1. /\ capture = [c \in Captures |-> NewCapture] /\ up = TRUE
      /\ queue = <<>> /\ closed = FALSE /\ writer = "run" /\ packet = None
      /\ current = None /\ size = 0 /\ used = 0
      /\ file = [f \in Files |-> [state |-> "none", lines |-> <<>>]]
      /\ faults = 0 /\ crashes = 0
  BY DEF Init
<1>2. NewCapture \in CaptureType /\ NewCapture.seq = 0 /\ NewCapture.phase = "new"
  BY Bounds DEF NewCapture, CaptureType
<1>3. \A f \in Files : file[f].state = "none" /\ file[f].lines = <<>>
  BY <1>1
<1>4. TypeOK
  <2>1. capture \in [Captures -> CaptureType]
    BY <1>1, <1>2
  <2>2. file \in Directory
    BY <1>1 DEF Directory, States
  <2>3. queue \in Seq(Lines) /\ Len(queue) <= QueueEvents
    BY <1>1, Bounds
  <2>4. up \in BOOLEAN /\ closed \in BOOLEAN
    BY <1>1
  <2>5. /\ writer \in {"run", "done"} /\ packet \in Lines \cup {None}
        /\ current \in Files \cup {None} /\ size \in 0 .. FileBytes /\ used \in Nat
        /\ faults \in 0 .. MaxFaults /\ crashes \in 0 .. MaxCrashes
    BY <1>1, Bounds
  <2> QED BY <2>1, <2>2, <2>3, <2>4, <2>5 DEF TypeOK, CaptureType, Directory, States
<1>5. Spots(file) = {}
  BY <1>3, SpotAt
<1>6. IsFiniteSet(Spots(file)) /\ Total(file) = 0
  <2>1. TornSpots(file) = {} /\ Spots(file) \ TornSpots(file) = {}
    BY <1>5 DEF TornSpots
  <2>2. IsFiniteSet({}) /\ Cardinality({}) = 0
    BY FS_EmptySet
  <2> QED BY <1>5, <2>1, <2>2, Bounds DEF Total
<1>7. TornLast(file) /\ Honest(file)
  BY <1>3 DEF TornLast, Honest
<1>8. DirectoryInv
  BY <1>1, <1>3, <1>6, <1>7, InDirectory, Bounds DEF DirectoryInv, DirectoryBounded, CurrentSound
<1>9. CapturesInStep
  BY <1>1, <1>2, Bounds DEF CapturesInStep
<1>10. NothingLost
  <2>1. RunningKept(capture, file, packet, queue)
    BY <1>1, <1>2 DEF RunningKept
  <2>2. QueuedKept(capture, file, packet, queue) /\ PacketKept(file, packet)
    BY <1>1 DEF QueuedKept, PacketKept
  <2> QED BY <2>1, <2>2, InFlow
<1> QED BY <1>4, <1>7, <1>8, <1>9, <1>10, InDirectory, Parts

-----------------------------------------------------------------------------
(* The results.                                                            *)

\* The inductive invariant of the content log holds in every state: besides
\* the results below, an event of a capture without a gap is in a file, in the
\* writer's hands or queued ahead of its terminal event.
THEOREM Inductive == Spec => []IInv
<1>1. Init => IInv
  BY InitSound
<1>2. IInv /\ [Next]_vars => IInv'
  BY StepKeeps
<1> QED BY <1>1, <1>2, PTL DEF Spec

\* A terminal line that says complete=true comes with every earlier event of
\* its request, whatever Capture.emit dropped, Log.write failed to write and
\* whenever the process died.
THEOREM CompleteRecordsWhole == Spec => []CompleteIsWhole
<1>1. IInv => CompleteIsWhole
  BY DEF IInv
<1> QED BY <1>1, Inductive, PTL

\* The directory never exceeds directory_bytes, with Log.used trusted between
\* two scans, and a partial line is the last of a file that is never sealed.
THEOREM DirectorySound == Spec => []DirectoryConsistent
<1>1. IInv => DirectoryConsistent
  BY DEF IInv
<1> QED BY <1>1, Inductive, PTL

\* No step of any process writes to a file that seal or contentlog.Open has
\* handed off to the collector, or makes it active again.
THEOREM HandedOffStay == Spec => HandedOffFrozen
<1>1. IInv /\ [Next]_vars =>
        [\A f \in Files : file[f].state \notin {"none", "active"} =>
           /\ file'[f].lines = file[f].lines
           /\ file'[f].state # "active"]_vars
  BY StepKeeps DEF Frozen
<1> QED BY <1>1, Inductive, PTL DEF Spec, HandedOffFrozen
=============================================================================
