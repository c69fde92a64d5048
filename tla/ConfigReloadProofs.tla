------------------------- MODULE ConfigReloadProofs -------------------------
(***************************************************************************)
(* Proofs about ConfigFile and about ConfigReload, which extends it, for   *)
(* every set of providers and commands and every bound.                    *)
(*                                                                         *)
(* The file: it never names a secret that is gone, and no secret is left   *)
(* behind without anyone knowing of it.  Commands rename the file inside   *)
(* the unguarded windows of others too; what such a rename puts back into  *)
(* the file or takes out of it unawares is all that is excepted.           *)
(*                                                                         *)
(* The gateway: it serves the revision that it reports as applied, and a   *)
(* generation number stands for one connection.                            *)
(***************************************************************************)
EXTENDS ConfigReload, FiniteSetTheorems, TLAPS

\* The references a command has a hold on: those it has made, those it will
\* delete and those in the configuration it works on.
Made(s) == s.todo \union s.new
Reach(s) == Made(s) \union s.gone \union References(s.c)

\* What is known of one command, given the references R of the file, the
\* Keychain K, the number n of references generated, the references L that
\* races have disturbed, and whether (b) the command was raced itself.
Own(s, R, K, n, L, b) ==
  /\ Reach(s) \subseteq 1 .. n
  /\ Made(s) \intersect R = {}
  /\ s.new \subseteq K
  /\ s.phase \in {"start", "read", "report"} => s.c = EmptyConfig
  /\ s.phase \in {"start", "read", "report", "loaded"} =>
       Made(s) = {} /\ s.gone = {}
  /\ s.phase = "read" /\ s.data # NoFile => b \/ References(s.data.c) = R
  /\ s.phase \in {"loaded", "store", "write"} =>
       b \/ References(s.c) \subseteq References(s.data.c) \union Made(s)
  /\ s.phase \in {"write", "install"} => s.todo = {}
  /\ s.phase = "install" => b \/ References(s.c) \subseteq R \union s.new
  /\ s.phase \in {"cleanup", "rollback"} =>
       Made(s) = {} /\ s.gone \intersect R \subseteq L

\* What is known of two commands: neither reaches what the other has made.
Apart(s, t) == Made(s) \intersect Reach(t) = {}

OwnInv ==
  \A m \in Commands :
    Own(cmd[m], References(file.c), keychain, issued, lost, m \in raced)

ApartInv == \A m, n \in Commands : m # n => Apart(cmd[m], cmd[n])

FileInv ==
  /\ References(file.c) \subseteq 1 .. issued
  /\ References(file.c) \subseteq keychain \union lost

IInv == FileTypeOK /\ FileInv /\ OwnInv /\ ApartInv

-----------------------------------------------------------------------------
(* References.                                                             *)

LEMMA Member ==
  ASSUME NEW c, NEW r
  PROVE  r \in References(c) <=>
           \/ \E p \in Providers : r \in c.keys[p]
           \/ r = c.gateway /\ r # 0
BY DEF References, ProviderKeys

LEMMA EmptyRefs == EmptyConfig \in Config /\ References(EmptyConfig) = {}
BY CountsAssumption DEF EmptyConfig, Config, References, ProviderKeys

LEMMA RefsTyped ==
  ASSUME NEW c \in Config
  PROVE  References(c) \subseteq Refs
<1>1. /\ \A p \in Providers : c.keys[p] \subseteq Refs
      /\ c.gateway \in 0 .. MaxRefs
  BY DEF Config
<1> QED BY <1>1, CountsAssumption DEF References, ProviderKeys, Refs

\* References depend on the keys and the gateway credential alone.
LEMMA SameRefs ==
  ASSUME NEW c, NEW d, c.keys = d.keys, c.gateway = d.gateway
  PROVE  References(c) = References(d)
BY DEF References, ProviderKeys

\* Flipping flags keeps the references.
LEMMA Flags ==
  ASSUME NEW c \in Config, NEW p \in Providers
  PROVE  /\ [c EXCEPT !.policy = ~@] \in Config
         /\ References([c EXCEPT !.policy = ~@]) = References(c)
         /\ [c EXCEPT !.settings = ~@] \in Config
         /\ References([c EXCEPT !.settings = ~@]) = References(c)
         /\ [c EXCEPT !.schedule = ~@] \in Config
         /\ References([c EXCEPT !.schedule = ~@]) = References(c)
         /\ [c EXCEPT !.endpoint[p] = ~@] \in Config
         /\ References([c EXCEPT !.endpoint[p] = ~@]) = References(c)
<1>1. /\ [c EXCEPT !.policy = ~@] \in Config
      /\ [c EXCEPT !.settings = ~@] \in Config
      /\ [c EXCEPT !.schedule = ~@] \in Config
      /\ [c EXCEPT !.endpoint[p] = ~@] \in Config
  BY DEF Config
<1>2. References([c EXCEPT !.policy = ~@]) = References(c)
  BY SameRefs DEF Config
<1>3. References([c EXCEPT !.settings = ~@]) = References(c)
  BY SameRefs DEF Config
<1>4. References([c EXCEPT !.schedule = ~@]) = References(c)
  BY SameRefs DEF Config
<1>5. References([c EXCEPT !.endpoint[p] = ~@]) = References(c)
  BY SameRefs DEF Config
<1> QED BY <1>1, <1>2, <1>3, <1>4, <1>5

\* New keys for a provider bring no other references, and what they replace
\* was a reference.
LEMMA Rekeyed ==
  ASSUME NEW c \in Config, NEW p \in Providers, NEW K \in SUBSET Refs
  PROVE  /\ [c EXCEPT !.keys[p] = K] \in Config
         /\ References([c EXCEPT !.keys[p] = K]) \subseteq References(c) \union K
         /\ c.keys[p] \subseteq References(c)
         /\ References(c) \subseteq References([c EXCEPT !.keys[p] = K]) \union c.keys[p]
         /\ K \subseteq References([c EXCEPT !.keys[p] = K])
<1> DEFINE d == [c EXCEPT !.keys[p] = K]
<1>1. d \in Config
  BY DEF Config
<1>2. /\ \A q \in Providers : d.keys[q] = IF q = p THEN K ELSE c.keys[q]
      /\ d.gateway = c.gateway
  BY DEF Config
<1> HIDE DEF d
<1>3. References(d) \subseteq References(c) \union K
  BY <1>2, Member
<1>4. c.keys[p] \subseteq References(c)
  BY Member
<1>5. References(c) \subseteq References(d) \union c.keys[p] /\ K \subseteq References(d)
  BY <1>2, Member
<1> QED BY <1>1, <1>3, <1>4, <1>5 DEF d

LEMMA NewGateway ==
  ASSUME NEW c \in Config, NEW g \in Refs
  PROVE  /\ [c EXCEPT !.gateway = g] \in Config
         /\ References([c EXCEPT !.gateway = g]) \subseteq References(c) \union {g}
         /\ References(c) \subseteq References([c EXCEPT !.gateway = g]) \union {c.gateway}
         /\ g \in References([c EXCEPT !.gateway = g])
<1> DEFINE d == [c EXCEPT !.gateway = g]
<1>1. d \in Config
  BY CountsAssumption DEF Config, Refs
<1>2. d.keys = c.keys /\ d.gateway = g
  BY DEF Config
<1> HIDE DEF d
<1>3. References(d) \subseteq References(c) \union {g}
  BY <1>2, Member
<1>4. References(c) \subseteq References(d) \union {c.gateway} /\ g \in References(d)
  BY <1>2, Member DEF Refs
<1> QED BY <1>1, <1>3, <1>4 DEF d

-----------------------------------------------------------------------------
(* What the local steps of a command make of its state.                    *)

LEMMA LeaveFields ==
  ASSUME NEW s \in Command, NEW phase \in Phases
  PROVE  /\ Leave(s, phase) \in Command
         /\ Leave(s, phase).phase = phase
         /\ Leave(s, phase).c = EmptyConfig
         /\ Leave(s, phase).todo = s.todo
         /\ Leave(s, phase).new = s.new
         /\ Leave(s, phase).gone = s.gone
<1>1. NoFile \in File
  BY EmptyRefs DEF NoFile, File
<1> QED BY <1>1, EmptyRefs DEF Leave, Command

LEMMA RolledBackFields ==
  ASSUME NEW s \in Command
  PROVE  /\ RolledBack(s) \in Command
         /\ RolledBack(s).phase \in {"over", "rollback"}
         /\ RolledBack(s).phase = "over" => s.new = {}
         /\ RolledBack(s).c = EmptyConfig
         /\ RolledBack(s).todo = {}
         /\ RolledBack(s).new = {}
         /\ RolledBack(s).gone = s.new
<1> DEFINE phase == IF s.new = {} THEN "over" ELSE "rollback"
           t == Leave(s, phase)
<1>1. /\ phase \in {"over", "rollback"} /\ phase \in Phases
      /\ phase = "over" => s.new = {}
  BY DEF Phases
<1>2. t \in Command /\ t.phase = phase /\ t.c = EmptyConfig
  BY <1>1, LeaveFields
<1> HIDE DEF phase, t
<1>3. RolledBack(s) = [t EXCEPT !.todo = {}, !.new = {}, !.gone = s.new]
  BY DEF RolledBack, t, phase
<1>4. s.new \subseteq Refs
  BY DEF Command
<1> QED BY <1>1, <1>2, <1>3, <1>4 DEF Command

\* References generated next are new, and as many as asked for.
LEMMA FreshRefs ==
  ASSUME FileTypeOK, NEW k \in {0, 1, 2}, CanIssue(k)
  PROVE  /\ Fresh(k) \subseteq Refs
         /\ Fresh(k) \intersect (1 .. issued) = {}
         /\ Fresh(k) \subseteq 1 .. (issued + k)
         /\ Cardinality(Fresh(k)) = k
         /\ issued + k \in 0 .. MaxRefs
         /\ issued <= issued + k
<1>1. issued \in Nat /\ MaxRefs \in Nat
  BY CountsAssumption DEF FileTypeOK
<1>2. Cardinality(Fresh(k)) = k
  BY <1>1, FS_Interval DEF Fresh
<1> QED BY <1>1, <1>2 DEF Fresh, CanIssue, Refs

LEMMA FreshNone == FileTypeOK => Fresh(0) = {} /\ CanIssue(0)
BY CountsAssumption DEF FileTypeOK, Fresh, CanIssue

LEMMA FreshOne == FileTypeOK => Fresh(1) = {issued + 1}
BY CountsAssumption DEF FileTypeOK, Fresh

LEMMA FreshTwo == FileTypeOK => Fresh(2) = {issued + 1, issued + 2}
BY CountsAssumption DEF FileTypeOK, Fresh

\* A command that changes what it loaded plans a configuration that names
\* nothing but what it loaded and all that it generates, and to delete
\* nothing but what it loaded; what it loaded and neither keeps nor deletes
\* is the gateway key at most.
Planned(m) ==
  \E c \in Config, k \in {0, 1, 2}, old \in SUBSET References(cmd[m].c) :
    /\ cmd[m].phase = "loaded"
    /\ CanIssue(k)
    /\ Plan(m, c, Fresh(k), old)
    /\ References(c) \subseteq References(cmd[m].c) \union Fresh(k)
    /\ Fresh(k) \subseteq References(c)
    /\ References(cmd[m].c) \subseteq References(c) \union old \union {cmd[m].c.gateway}

LEMMA ChangePlans ==
  ASSUME FileTypeOK, NEW m \in Commands, Change(m)
  PROVE  Planned(m) \/ EditSchedule(m)
<1> DEFINE c == cmd[m].c
<1>0. c \in Config
  BY DEF FileTypeOK, Command
<1>1. ASSUME EditPolicy(m) PROVE Planned(m)
  <2>1. [c EXCEPT !.policy = ~@] \in Config
    BY <1>0 DEF Config
  <2>2. References([c EXCEPT !.policy = ~@]) = References(c)
    BY <1>0, SameRefs DEF Config
  <2> QED BY <1>1, <2>1, <2>2, FreshNone DEF EditPolicy, Planned
<1>2. ASSUME EditSettings(m) PROVE Planned(m)
  <2>1. [c EXCEPT !.settings = ~@] \in Config
    BY <1>0 DEF Config
  <2>2. References([c EXCEPT !.settings = ~@]) = References(c)
    BY <1>0, SameRefs DEF Config
  <2> QED BY <1>2, <2>1, <2>2, FreshNone DEF EditSettings, Planned
<1>3. ASSUME RotateGatewayKey(m) PROVE Planned(m)
  <2>1. issued + 1 \in Refs /\ CanIssue(1)
    BY <1>3, FreshRefs, FreshOne DEF RotateGatewayKey
  <2>2. /\ [c EXCEPT !.gateway = issued + 1] \in Config
        /\ References([c EXCEPT !.gateway = issued + 1]) \subseteq References(c) \union Fresh(1)
        /\ Fresh(1) \subseteq References([c EXCEPT !.gateway = issued + 1])
        /\ References(c) \subseteq References([c EXCEPT !.gateway = issued + 1]) \union {c.gateway}
    BY <1>0, <2>1, NewGateway, FreshOne
  <2> QED BY <1>3, <2>1, <2>2 DEF RotateGatewayKey, Planned
<1>4. ASSUME NEW p \in Providers, UpdateEndpoint(m, p) PROVE Planned(m)
  <2>1. [c EXCEPT !.endpoint[p] = ~@] \in Config /\
        References([c EXCEPT !.endpoint[p] = ~@]) = References(c)
    BY <1>0, Flags
  <2> QED BY <1>4, <2>1, FreshNone DEF UpdateEndpoint, Planned
<1>5. ASSUME NEW p \in Providers, AppendProviderKey(m, p) PROVE Planned(m)
  <2>1. CanIssue(1) /\ Fresh(1) \subseteq Refs
    BY <1>5, FreshRefs DEF AppendProviderKey
  <2>2. c.keys[p] \subseteq References(c) /\ c.keys[p] \union Fresh(1) \in SUBSET Refs
    BY <1>0, <2>1, Rekeyed, RefsTyped
  <2> DEFINE K == c.keys[p] \union Fresh(1)
             d == [c EXCEPT !.keys[p] = K]
  <2>3. /\ d \in Config /\ References(d) \subseteq References(c) \union Fresh(1)
        /\ Fresh(1) \subseteq References(d) /\ References(c) \subseteq References(d)
    <3> HIDE DEF K
    <3>1. /\ K \in SUBSET Refs /\ K \subseteq References(c) \union Fresh(1)
          /\ c.keys[p] \subseteq K /\ Fresh(1) \subseteq K
      BY <2>2 DEF K
    <3>2. /\ d \in Config /\ References(d) \subseteq References(c) \union K
          /\ K \subseteq References(d)
          /\ References(c) \subseteq References(d) \union c.keys[p]
      BY <1>0, <3>1, Rekeyed
    <3> QED BY <3>1, <3>2
  <2>4. Plan(m, d, Fresh(1), {}) /\ cmd[m].phase = "loaded"
    BY <1>5 DEF AppendProviderKey
  <2>5. {} \in SUBSET References(c)
    OBVIOUS
  <2> HIDE DEF d, K
  <2> QED BY <2>1, <2>3, <2>4, <2>5 DEF Planned
<1>6. ASSUME NEW p \in Providers, RotateProviderKey(m, p) PROVE Planned(m)
  <2>1. CanIssue(1) /\ Fresh(1) \in SUBSET Refs
    BY <1>6, FreshRefs DEF RotateProviderKey
  <2> DEFINE d == [c EXCEPT !.keys[p] = Fresh(1)]
  <2>2. /\ d \in Config /\ References(d) \subseteq References(c) \union Fresh(1)
        /\ c.keys[p] \subseteq References(c) /\ Fresh(1) \subseteq References(d)
        /\ References(c) \subseteq References(d) \union c.keys[p]
    BY <1>0, <2>1, Rekeyed
  <2>3. Plan(m, d, Fresh(1), c.keys[p]) /\ cmd[m].phase = "loaded"
    BY <1>6 DEF RotateProviderKey
  <2> HIDE DEF d
  <2> QED BY <2>1, <2>2, <2>3 DEF Planned
<1>7. ASSUME NEW p \in Providers, RemoveProvider(m, p) PROVE Planned(m)
  <2> DEFINE d == [c EXCEPT !.keys[p] = {}]
             e == [c EXCEPT !.keys[p] = {}, !.endpoint[p] = FALSE]
  <2>1. /\ d \in Config /\ References(d) \subseteq References(c) \union {}
        /\ c.keys[p] \subseteq References(c)
        /\ References(c) \subseteq References(d) \union c.keys[p]
    <3>1. {} \in SUBSET Refs
      OBVIOUS
    <3> QED BY <1>0, <3>1, Rekeyed
  <2>2. e \in Config /\ e.keys = d.keys /\ e.gateway = d.gateway
    BY <1>0 DEF Config
  <2>3. Plan(m, e, {}, c.keys[p]) /\ cmd[m].phase = "loaded"
    BY <1>7 DEF RemoveProvider
  <2> HIDE DEF d, e
  <2>4. /\ References(e) \subseteq References(c)
        /\ References(c) \subseteq References(e) \union c.keys[p]
    BY <2>1, <2>2, SameRefs
  <2> QED BY <2>1, <2>2, <2>3, <2>4, FreshNone DEF Planned
<1>8. ASSUME NEW p \in Providers, NEW k \in Refs, RemoveProviderKey(m, p, k) PROVE Planned(m)
  <2> DEFINE d == [c EXCEPT !.keys[p] = c.keys[p] \ {k}]
  <2>1. c.keys[p] \subseteq References(c) /\ c.keys[p] \ {k} \in SUBSET Refs
    BY <1>0, Rekeyed, RefsTyped
  <2>2. /\ d \in Config /\ References(d) \subseteq References(c) \union (c.keys[p] \ {k})
        /\ References(c) \subseteq References(d) \union c.keys[p]
        /\ c.keys[p] \ {k} \subseteq References(d)
    BY <1>0, <2>1, Rekeyed
  <2>3. Plan(m, d, {}, {k}) /\ cmd[m].phase = "loaded" /\ k \in c.keys[p]
    BY <1>8 DEF RemoveProviderKey
  <2> HIDE DEF d
  <2> QED BY <2>1, <2>2, <2>3, FreshNone DEF Planned
<1>9. ASSUME NEW p \in Providers, AddProvider(m, p) PROVE Planned(m)
  <2>1. ASSUME CanIssue(1), Plan(m, [c EXCEPT !.keys[p] = Fresh(1)], Fresh(1), {})
        PROVE  Planned(m)
    <3> DEFINE d == [c EXCEPT !.keys[p] = Fresh(1)]
    <3>1. Fresh(1) \in SUBSET Refs
      BY <2>1, FreshRefs
    <3>2. /\ d \in Config /\ References(d) \subseteq References(c) \union Fresh(1)
          /\ Fresh(1) \subseteq References(d)
          /\ References(c) \subseteq References(d) \union c.keys[p]
      BY <1>0, <3>1, Rekeyed
    <3>3. cmd[m].phase = "loaded" /\ c.keys[p] = {}
      BY <1>9 DEF AddProvider, NewProvider
    <3> QED BY <2>1, <3>2, <3>3 DEF Planned
  <2>2. ASSUME CanIssue(2), c.gateway = 0,
               Plan(m, [c EXCEPT !.keys[p] = {issued + 1}, !.gateway = issued + 2],
                    Fresh(2), {})
        PROVE  Planned(m)
    <3> DEFINE K == {issued + 1}
               d == [c EXCEPT !.keys[p] = K]
               e == [d EXCEPT !.gateway = issued + 2]
    <3>1. Fresh(2) = {issued + 1, issued + 2} /\ Fresh(2) \subseteq Refs
      BY <2>2, FreshRefs, FreshTwo
    <3>2. /\ d \in Config /\ References(d) \subseteq References(c) \union K
          /\ K \subseteq References(d)
          /\ References(c) \subseteq References(d) \union c.keys[p]
      BY <1>0, <3>1, Rekeyed
    <3>0. d.gateway = 0
      BY <1>0, <2>2 DEF Config
    <3>3. /\ e \in Config /\ References(e) \subseteq References(d) \union {issued + 2}
          /\ issued + 2 \in References(e)
          /\ References(d) \subseteq References(e) \union {d.gateway}
      <4> HIDE DEF d
      <4>1. issued + 2 \in Refs
        BY <3>1
      <4> QED BY <3>2, <4>1, NewGateway
    <3>4. e = [c EXCEPT !.keys[p] = {issued + 1}, !.gateway = issued + 2]
      BY <1>0 DEF Config
    <3>5. cmd[m].phase = "loaded" /\ c.keys[p] = {}
      BY <1>9 DEF AddProvider, NewProvider
    <3>6. Plan(m, e, Fresh(2), {})
      BY <2>2, <3>4
    <3>7. 0 \notin Refs
      BY DEF Refs
    <3> HIDE DEF d, e
    <3>8. /\ References(e) \subseteq References(c) \union Fresh(2)
          /\ Fresh(2) \subseteq References(e)
          /\ References(c) \subseteq References(e) \union {c.gateway}
      BY <2>2, <3>0, <3>1, <3>2, <3>3, <3>5, <3>7
    <3> QED BY <2>2, <3>3, <3>5, <3>6, <3>8 DEF Planned
  <2> QED BY <1>9, <2>1, <2>2 DEF AddProvider
<1> QED
  BY <1>1, <1>2, <1>3, <1>4, <1>5, <1>6, <1>7, <1>8, <1>9
  DEF Change, SetRouting, SetAutoChain, SetPrice, RemovePrice, SetBudget,
      SetErrorMap, SetModels, SelectModels, EditProvider

-----------------------------------------------------------------------------
(* Types.                                                                  *)

\* A step that moves command m to a state of the right type.
LEMMA MoveTyped ==
  ASSUME FileTypeOK, NEW m \in Commands, NEW s \in Command,
         cmd' = [cmd EXCEPT ![m] = s],
         file' \in File, keychain' \subseteq Refs, issued' \in 0 .. MaxRefs,
         left' \subseteq Refs, edits' = edits, history' = history
  PROVE  FileTypeOK'
BY DEF FileTypeOK, history

LEMMA StepTyped ==
  ASSUME FileTypeOK, NEW m \in Commands, Step(m)
  PROVE  FileTypeOK'
<1> DEFINE s == cmd[m]
<1>0. /\ s \in Command /\ cmd \in [Commands -> Command]
      /\ file \in File /\ file.c \in Config /\ s.c \in Config
      /\ keychain \subseteq Refs /\ left \subseteq Refs /\ issued \in 0 .. MaxRefs
  BY DEF FileTypeOK, Command, File
<1>1. {"read", "loaded", "report", "over", "dead", "install", "write", "store"} \subseteq Phases
  BY DEF Phases
<1>2. ASSUME ReadFile(m) PROVE FileTypeOK'
  <2>1. [s EXCEPT !.phase = "read", !.data = file] \in Command
    BY <1>0, <1>1 DEF Command
  <2> QED BY <1>0, <1>2, <2>1, MoveTyped DEF ReadFile
<1>3. ASSUME LoadFile(m) PROVE FileTypeOK'
  <2>1. /\ [s EXCEPT !.phase = "loaded"] \in Command
        /\ [s EXCEPT !.phase = "loaded", !.c = file.c] \in Command
    BY <1>0, <1>1 DEF Command
  <2>2. Leave(s, "over") \in Command
    BY <1>0, <1>1, LeaveFields
  <2>3. \/ cmd' = [cmd EXCEPT ![m] = [s EXCEPT !.phase = "loaded"]]
        \/ cmd' = [cmd EXCEPT ![m] = [s EXCEPT !.phase = "loaded", !.c = file.c]]
        \/ cmd' = [cmd EXCEPT ![m] = Leave(s, "over")]
    BY <1>3 DEF LoadFile
  <2>4. UNCHANGED <<file, keychain, issued, left, edits, history>>
    BY <1>3 DEF LoadFile
  <2> QED BY <1>0, <2>1, <2>2, <2>3, <2>4, MoveTyped
<1>4. ASSUME LoadForReport(m) PROVE FileTypeOK'
  <2>1. [s EXCEPT !.phase = "report"] \in Command
    BY <1>0, <1>1 DEF Command
  <2> QED BY <1>0, <1>4, <2>1, MoveTyped DEF LoadForReport
<1>5. ASSUME Refuse(m) PROVE FileTypeOK'
  <2>1. Leave(s, "over") \in Command
    BY <1>0, <1>1, LeaveFields
  <2> QED BY <1>0, <1>5, <2>1, MoveTyped DEF Refuse
<1>6. ASSUME Planned(m) PROVE FileTypeOK'
  <2>1. PICK c \in Config, k \in {0, 1, 2}, old \in SUBSET References(s.c) :
           CanIssue(k) /\ Plan(m, c, Fresh(k), old)
    BY <1>6 DEF Planned
  <2>2. /\ Fresh(k) \subseteq Refs /\ old \subseteq Refs
        /\ Cardinality(Fresh(k)) = k /\ issued + k \in 0 .. MaxRefs
    BY <1>0, <2>1, FreshRefs, RefsTyped
  <2> DEFINE phase == IF Fresh(k) = {} THEN "write" ELSE "store"
             t == [s EXCEPT !.phase = phase, !.c = c, !.todo = Fresh(k), !.gone = old]
  <2>3. phase \in Phases
    BY <1>1
  <2>4. cmd' = [cmd EXCEPT ![m] = t]
    BY <2>1 DEF Plan
  <2> HIDE DEF phase
  <2>5. t \in Command
    BY <1>0, <2>2, <2>3 DEF Command
  <2>6. issued' = issued + k /\ UNCHANGED <<file, keychain, left, edits, history>>
    BY <2>1, <2>2 DEF Plan
  <2> HIDE DEF t
  <2> QED BY <1>0, <2>2, <2>4, <2>5, <2>6, MoveTyped
<1>7. ASSUME EditSchedule(m) PROVE FileTypeOK'
  <2> DEFINE c == [file.c EXCEPT !.schedule = ~@]
             t == [s EXCEPT !.phase = "install", !.c = c]
  <2>1. c \in Config
    BY <1>0 DEF Config
  <2>2. cmd' = [cmd EXCEPT ![m] = t] /\ UNCHANGED <<file, keychain, issued, left, edits, history>>
    BY <1>7 DEF EditSchedule
  <2> HIDE DEF c
  <2>3. t \in Command
    BY <1>0, <1>1, <2>1 DEF Command
  <2> HIDE DEF t
  <2> QED BY <1>0, <2>2, <2>3, MoveTyped
<1>8. ASSUME CompareFile(m) PROVE FileTypeOK'
  <2>1. [s EXCEPT !.phase = "install"] \in Command
    BY <1>0, <1>1 DEF Command
  <2> QED BY <1>0, <1>8, <2>1, MoveTyped DEF CompareFile
<1>9. ASSUME WriteFails(m) PROVE FileTypeOK'
  <2>1. RolledBack(s) \in Command
    BY <1>0, RolledBackFields
  <2> QED BY <1>0, <1>9, <2>1, MoveTyped DEF WriteFails
<1>10. ASSUME Install(m) PROVE FileTypeOK'
  <2> DEFINE stale == Unreferenced(s.c, s.gone)
             phase == IF stale = {} THEN "over" ELSE "cleanup"
             t == Leave(s, phase)
             u == [t EXCEPT !.new = {}, !.gone = stale]
  <2>1. stale \subseteq Refs /\ phase \in Phases
    BY <1>0 DEF Command, Unreferenced, Phases
  <2>2. cmd' = [cmd EXCEPT ![m] = u] /\ file' = Saved(s.c)
    BY <1>10 DEF Install
  <2> HIDE DEF stale, phase
  <2>3. t \in Command
    BY <1>0, <2>1, LeaveFields
  <2> HIDE DEF t
  <2>4. u \in Command
    BY <2>1, <2>3 DEF Command
  <2>5. Saved(s.c) \in File
    BY <1>0 DEF Saved, File
  <2>6. left' \subseteq Refs
    <3>1. file.c.gateway \in 0 .. MaxRefs
      BY <1>0 DEF Config
    <3>2. {file.c.gateway} \ {0, s.c.gateway} \subseteq Refs
      BY <3>1, CountsAssumption DEF Refs
    <3> QED BY <1>0, <1>10, <3>2 DEF Install
  <2>7. UNCHANGED <<keychain, issued, edits>>
    BY <1>10 DEF Install
  <2>8. raced' \subseteq Commands /\ lost' \subseteq Refs
    <3>1. PutBack(m) \subseteq Refs /\ Dropped(m) \subseteq Refs
      BY <1>0, RefsTyped DEF PutBack, Dropped
    <3>2. raced \subseteq Commands /\ lost \subseteq Refs
      BY DEF FileTypeOK
    <3> QED BY <1>10, <3>1, <3>2 DEF Install
  <2> HIDE DEF u
  <2>9. cmd' \in [Commands -> Command] /\ file' \in File
    BY <1>0, <2>2, <2>4, <2>5
  <2> QED BY <1>0, <2>6, <2>7, <2>8, <2>9 DEF FileTypeOK
<1>11. ASSUME NEW r \in Refs, StoreNew(m, r) PROVE FileTypeOK'
  <2> DEFINE phase == IF s.todo = {r} THEN "write" ELSE "store"
             t == [s EXCEPT !.phase = phase, !.todo = @ \ {r}, !.new = @ \union {r}]
  <2>1. phase \in Phases
    BY <1>1
  <2>2. cmd' = [cmd EXCEPT ![m] = t]
    BY <1>11 DEF StoreNew
  <2> HIDE DEF phase
  <2>3. t \in Command
    BY <1>0, <2>1 DEF Command
  <2>4. keychain' \subseteq Refs /\ UNCHANGED <<file, issued, left, edits, history>>
    BY <1>0, <1>11 DEF StoreNew
  <2> HIDE DEF t
  <2> QED BY <1>0, <2>2, <2>3, <2>4, MoveTyped
<1>12. ASSUME NEW r \in Refs, StoreNewFails(m, r) PROVE FileTypeOK'
  <2>1. RolledBack(s) \in Command
    BY <1>0, RolledBackFields
  <2>2. keychain' \subseteq Refs /\ left' \subseteq Refs
    BY <1>0, <1>12 DEF StoreNewFails
  <2> QED BY <1>0, <1>12, <2>1, <2>2, MoveTyped DEF StoreNewFails
<1>13. ASSUME NEW r \in Refs, ReadBackFails(m, r) PROVE FileTypeOK'
  <2> DEFINE t == [s EXCEPT !.new = @ \union {r}]
  <2>1. t \in Command
    BY <1>0 DEF Command
  <2>2. cmd' = [cmd EXCEPT ![m] = RolledBack(t)]
    BY <1>13 DEF ReadBackFails
  <2> HIDE DEF t
  <2>3. RolledBack(t) \in Command
    BY <2>1, RolledBackFields
  <2>4. keychain' \subseteq Refs /\ UNCHANGED <<file, issued, left, edits, history>>
    BY <1>0, <1>13 DEF ReadBackFails
  <2> QED BY <1>0, <2>2, <2>3, <2>4, MoveTyped
<1>14. ASSUME NEW r \in Refs, Delete(m, r) PROVE FileTypeOK'
  <2> DEFINE phase == IF s.gone = {r} THEN "over" ELSE s.phase
             t == [s EXCEPT !.phase = phase, !.gone = @ \ {r}]
  <2>1. phase \in Phases
    BY <1>0, <1>1 DEF Command
  <2>2. cmd' = [cmd EXCEPT ![m] = t]
    BY <1>14 DEF Delete
  <2> HIDE DEF phase
  <2>3. t \in Command
    BY <1>0, <2>1 DEF Command
  <2>4. /\ keychain' \subseteq Refs /\ left' \subseteq Refs
        /\ UNCHANGED <<file, issued, edits, history>>
    BY <1>0, <1>14 DEF Delete
  <2> HIDE DEF t
  <2> QED BY <1>0, <2>2, <2>3, <2>4, MoveTyped
<1>15. ASSUME Kill(m) PROVE FileTypeOK'
  <2>1. Leave(s, "dead") \in Command
    BY <1>0, <1>1, LeaveFields
  <2>2. keychain' \subseteq Refs
    BY <1>0, <1>15 DEF Kill
  <2> QED BY <1>0, <1>15, <2>1, <2>2, MoveTyped DEF Kill
<1> QED
  BY <1>2, <1>3, <1>4, <1>5, <1>6, <1>7, <1>8, <1>9, <1>10, <1>11, <1>12, <1>13,
     <1>14, <1>15, ChangePlans
  DEF Step

LEMMA FileNextTyped == FileTypeOK /\ [FileNext]_fileVars => FileTypeOK'
<1> SUFFICES ASSUME FileTypeOK, [FileNext]_fileVars PROVE FileTypeOK'
  OBVIOUS
<1>1. CASE EditByHand
  <2>1. /\ file \in File /\ file.c \in Config
        /\ UNCHANGED <<keychain, issued, cmd, left, history>>
        /\ edits' \in 0 .. MaxEdits
    BY <1>1, CountsAssumption DEF FileTypeOK, EditByHand, File
  <2>2. file' \in File
    <3>1. CASE file' = [file EXCEPT !.c.policy = ~@]
      BY <2>1, <3>1 DEF File, Config
    <3>2. CASE file' = [file EXCEPT !.c.settings = ~@]
      BY <2>1, <3>2 DEF File, Config
    <3>3. CASE file' = [file EXCEPT !.state = IF @ = "ok" THEN "broken" ELSE "ok"]
      BY <2>1, <3>3 DEF File
    <3> QED BY <1>1, <3>1, <3>2, <3>3 DEF EditByHand
  <2> QED BY <2>1, <2>2 DEF FileTypeOK, history
<1>2. CASE UNCHANGED fileVars
  BY <1>2 DEF fileVars, FileTypeOK
<1> QED BY <1>1, <1>2, StepTyped DEF FileNext

-----------------------------------------------------------------------------
(* One command moves.                                                      *)

\* A command that reaches and has made no more than before stays apart.
LEMMA ApartShrinks ==
  ASSUME NEW s, NEW t, NEW u, Apart(s, u), Apart(u, s),
         Made(t) \subseteq Made(s), Reach(t) \subseteq Reach(s)
  PROVE  Apart(t, u) /\ Apart(u, t)
BY DEF Apart

\* The other commands do not notice what keeps the references of the file,
\* the references generated and the items of the commands.
LEMMA OthersKeep ==
  ASSUME NEW s, NEW R, NEW K, NEW J, NEW L, NEW m, NEW W,
         NEW n \in Nat, NEW k \in Nat,
         Own(s, R, K, n, L, m \in W), n <= k, s.new \subseteq J
  PROVE  Own(s, R, J, k, L, m \in W)
<1>1. 1 .. n \subseteq 1 .. k
  OBVIOUS
<1> QED BY <1>1 DEF Own

\* A step of command m that keeps the references of the file.
LEMMA OneMoves ==
  ASSUME IInv, FileTypeOK', NEW m \in Commands, NEW s \in Command,
         cmd' = [cmd EXCEPT ![m] = s],
         References(file'.c) = References(file.c),
         issued <= issued', history' = history,
         \A r \in keychain \ keychain' :
            /\ r \notin References(file.c) \ lost
            /\ \A n \in Commands \ {m} : r \notin cmd[n].new,
         Own(s, References(file.c), keychain', issued', lost, m \in raced),
         \A n \in Commands \ {m} : Apart(s, cmd[n]) /\ Apart(cmd[n], s)
  PROVE  IInv'
<1>1. cmd \in [Commands -> Command] /\ issued \in Nat /\ issued' \in Nat
  BY CountsAssumption DEF IInv, FileTypeOK
<1>2. cmd'[m] = s /\ \A n \in Commands \ {m} : cmd'[n] = cmd[n]
  BY <1>1
<1>0. raced' = raced /\ lost' = lost
  BY DEF history
<1>3. FileInv'
  <2>1. 1 .. issued \subseteq 1 .. issued'
    BY <1>1
  <2> QED BY <1>0, <2>1 DEF IInv, FileInv
<1>4. OwnInv'
  <2> SUFFICES ASSUME NEW n \in Commands
               PROVE  Own(cmd'[n], References(file.c), keychain', issued', lost, n \in raced)
    BY <1>0 DEF OwnInv
  <2>1. CASE n = m
    BY <1>2, <2>1
  <2>2. CASE n # m
    <3>1. Own(cmd[n], References(file.c), keychain, issued, lost, n \in raced)
      BY DEF IInv, OwnInv
    <3>2. cmd[n].new \subseteq keychain'
      BY <3>1, <2>2 DEF Own
    <3>3. Own(cmd[n], References(file.c), keychain', issued', lost, n \in raced)
      BY <3>1, <3>2, <1>1, OthersKeep
    <3> QED BY <3>3, <1>2, <2>2
  <2> QED BY <2>1, <2>2
<1>5. ApartInv'
  BY <1>2 DEF IInv, ApartInv
<1> QED BY <1>3, <1>4, <1>5 DEF IInv

\* The same when the step does not touch the Keychain and makes nothing.
LEMMA OneShrinks ==
  ASSUME IInv, FileTypeOK', NEW m \in Commands, NEW s \in Command,
         cmd' = [cmd EXCEPT ![m] = s],
         References(file'.c) = References(file.c),
         keychain' = keychain, issued' = issued, history' = history,
         Made(s) \subseteq Made(cmd[m]), Reach(s) \subseteq Reach(cmd[m]),
         Own(s, References(file.c), keychain, issued, lost, m \in raced)
  PROVE  IInv'
<1>1. \A n \in Commands \ {m} : Apart(s, cmd[n]) /\ Apart(cmd[n], s)
  <2> SUFFICES ASSUME NEW n \in Commands \ {m} PROVE Apart(s, cmd[n]) /\ Apart(cmd[n], s)
    OBVIOUS
  <2>1. Apart(cmd[m], cmd[n]) /\ Apart(cmd[n], cmd[m])
    BY DEF IInv, ApartInv
  <2> QED BY <2>1, ApartShrinks
<1>2. issued <= issued'
  BY CountsAssumption DEF IInv, FileTypeOK
<1> QED BY <1>1, <1>2, OneMoves

-----------------------------------------------------------------------------
(* Every step of a command keeps the invariant.                            *)

\* What IInv says of command m.
LEMMA OfCommand ==
  ASSUME IInv, NEW m \in Commands
  PROVE  /\ cmd[m] \in Command
         /\ file \in File /\ file.c \in Config
         /\ References(file.c) \subseteq 1 .. issued
         /\ References(file.c) \subseteq keychain \union lost
         /\ Own(cmd[m], References(file.c), keychain, issued, lost, m \in raced)
         /\ \A n \in Commands \ {m} : Apart(cmd[m], cmd[n]) /\ Apart(cmd[n], cmd[m])
BY DEF IInv, FileTypeOK, FileInv, OwnInv, ApartInv, File

LEMMA PlannedKeeps ==
  ASSUME IInv, FileTypeOK', NEW m \in Commands, Planned(m)
  PROVE  IInv'
<1>1. PICK c \in Config, k \in {0, 1, 2}, old \in SUBSET References(cmd[m].c) :
         /\ cmd[m].phase = "loaded"
         /\ CanIssue(k)
         /\ Plan(m, c, Fresh(k), old)
         /\ References(c) \subseteq References(cmd[m].c) \union Fresh(k)
         /\ Fresh(k) \subseteq References(c)
         /\ References(cmd[m].c) \subseteq References(c) \union old \union {cmd[m].c.gateway}
  BY DEF Planned
<1> DEFINE fresh == Fresh(k)
           phase == IF fresh = {} THEN "write" ELSE "store"
           s == [cmd[m] EXCEPT !.phase = phase, !.c = c, !.todo = fresh, !.gone = old]
           R == References(file.c)
<1>2. /\ fresh \subseteq Refs /\ fresh \intersect (1 .. issued) = {}
      /\ fresh \subseteq 1 .. (issued + k) /\ Cardinality(fresh) = k
      /\ issued + k \in 0 .. MaxRefs /\ issued <= issued + k
  BY <1>1, FreshRefs DEF IInv
<1>3. /\ cmd' = [cmd EXCEPT ![m] = s] /\ issued' = issued + Cardinality(fresh)
      /\ UNCHANGED <<file, keychain, left, edits, history>>
  BY <1>1 DEF Plan
<1> HIDE DEF fresh
<1>4. /\ cmd[m] \in Command /\ cmd \in [Commands -> Command]
      /\ Own(cmd[m], R, keychain, issued, lost, m \in raced)
      /\ R \subseteq 1 .. issued
      /\ old \subseteq Refs
  BY OfCommand, RefsTyped DEF IInv, FileTypeOK, Command
<1>5. phase \in {"write", "store"} /\ (phase = "write" => fresh = {})
  OBVIOUS
<1> HIDE DEF phase
<1>6. /\ s \in Command /\ s.phase = phase /\ s.c = c /\ s.todo = fresh
      /\ s.gone = old /\ s.new = cmd[m].new /\ s.data = cmd[m].data
  BY <1>2, <1>4, <1>5 DEF Command, Phases
<1> HIDE DEF s
<1>7. /\ cmd[m].new = {}
      /\ m \in raced \/ References(cmd[m].c) \subseteq References(cmd[m].data.c)
      /\ References(cmd[m].c) \subseteq 1 .. issued
  BY <1>1, <1>4 DEF Own, Made, Reach
<1>8. 1 .. issued \subseteq 1 .. (issued + k)
  BY <1>2, CountsAssumption DEF IInv, FileTypeOK
<1>9. Own(s, R, keychain, issued + k, lost, m \in raced)
  <2>1. Made(s) = fresh /\ Reach(s) = fresh \union old \union References(c)
    BY <1>6, <1>7 DEF Made, Reach
  <2>2. Reach(s) \subseteq 1 .. (issued + k)
    BY <2>1, <1>1, <1>2, <1>7, <1>8 DEF fresh
  <2>3. Made(s) \intersect R = {}
    BY <2>1, <1>2, <1>4
  <2>4. m \in raced \/ References(s.c) \subseteq References(s.data.c) \union Made(s)
    BY <2>1, <1>1, <1>6, <1>7 DEF fresh
  <2> QED BY <2>2, <2>3, <2>4, <1>5, <1>6, <1>7 DEF Own
<1>10. ASSUME NEW n \in Commands \ {m} PROVE Apart(s, cmd[n]) /\ Apart(cmd[n], s)
  <2>1. Apart(cmd[m], cmd[n]) /\ Apart(cmd[n], cmd[m]) /\ Reach(cmd[n]) \subseteq 1 .. issued
    BY OfCommand DEF Own
  <2>2. Made(s) = fresh /\ Reach(s) \subseteq fresh \union References(cmd[m].c)
    BY <1>1, <1>6, <1>7 DEF Made, Reach, fresh
  <2>3. Made(s) \intersect Reach(cmd[n]) = {}
    BY <2>1, <2>2, <1>2
  <2>4. Made(cmd[n]) \intersect Reach(s) = {}
    BY <2>1, <2>2, <1>2 DEF Apart, Reach
  <2> QED BY <2>3, <2>4, <1>5, <1>6 DEF Apart
<1> HIDE DEF R
<1>11. issued' = issued + k /\ keychain' = keychain /\ References(file'.c) = R /\ R = References(file.c)
  BY <1>2, <1>3 DEF R
<1> QED BY <1>2, <1>3, <1>6, <1>9, <1>10, <1>11, OneMoves

\* A command that gives up, or was killed, with the same holds on references.
LEMMA LeavingKeeps ==
  ASSUME IInv, FileTypeOK', NEW m \in Commands, NEW phase \in {"over", "dead"},
         cmd' = [cmd EXCEPT ![m] = Leave(cmd[m], phase)],
         keychain \subseteq keychain', keychain' \subseteq Refs,
         UNCHANGED <<file, issued, left, edits, history>>
  PROVE  IInv'
<1> DEFINE s == Leave(cmd[m], phase)
<1>1. /\ cmd[m] \in Command /\ cmd \in [Commands -> Command]
      /\ Own(cmd[m], References(file.c), keychain, issued, lost, m \in raced)
  BY OfCommand DEF IInv, FileTypeOK
<1>2. phase \in Phases
  BY DEF Phases
<1>3. /\ s \in Command /\ s.phase = phase /\ s.c = EmptyConfig
      /\ s.todo = cmd[m].todo /\ s.new = cmd[m].new /\ s.gone = cmd[m].gone
  BY <1>1, <1>2, LeaveFields
<1> HIDE DEF s
<1>4. Made(s) = Made(cmd[m]) /\ Reach(s) \subseteq Reach(cmd[m])
  BY <1>3, EmptyRefs DEF Made, Reach
<1>5. Own(s, References(file.c), keychain', issued, lost, m \in raced)
  BY <1>1, <1>3, <1>4 DEF Own
<1>6. \A n \in Commands \ {m} : Apart(s, cmd[n]) /\ Apart(cmd[n], s)
  <2> SUFFICES ASSUME NEW n \in Commands \ {m} PROVE Apart(s, cmd[n]) /\ Apart(cmd[n], s)
    OBVIOUS
  <2>1. Apart(cmd[m], cmd[n]) /\ Apart(cmd[n], cmd[m])
    BY OfCommand
  <2> QED BY <2>1, <1>3, <1>4, ApartShrinks
<1>7. issued <= issued'
  BY CountsAssumption DEF IInv, FileTypeOK
<1>8. cmd' = [cmd EXCEPT ![m] = s]
  BY DEF s
<1> QED BY <1>3, <1>5, <1>6, <1>7, <1>8, OneMoves

\* A command that starts to delete what it has stored, some of it just now.
LEMMA RollingBackKeeps ==
  ASSUME IInv, FileTypeOK', NEW m \in Commands, NEW t \in Command,
         t.new \subseteq Made(cmd[m]),
         cmd' = [cmd EXCEPT ![m] = RolledBack(t)],
         keychain \subseteq keychain', keychain' \subseteq Refs, left' \subseteq Refs,
         UNCHANGED <<file, issued, edits, history>>
  PROVE  IInv'
<1> DEFINE s == RolledBack(t)
<1>1. /\ cmd[m] \in Command /\ cmd \in [Commands -> Command]
      /\ Own(cmd[m], References(file.c), keychain, issued, lost, m \in raced)
  BY OfCommand DEF IInv, FileTypeOK
<1>2. /\ s \in Command /\ s.phase \in {"over", "rollback"} /\ s.c = EmptyConfig
      /\ s.todo = {} /\ s.new = {} /\ s.gone = t.new
  BY RolledBackFields
<1> HIDE DEF s
<1>3. Made(s) = {} /\ Reach(s) = t.new /\ Reach(s) \subseteq Reach(cmd[m])
  BY <1>2, EmptyRefs DEF Made, Reach
<1>4. Own(s, References(file.c), keychain', issued, lost, m \in raced)
  BY <1>1, <1>2, <1>3 DEF Own
<1>5. \A n \in Commands \ {m} : Apart(s, cmd[n]) /\ Apart(cmd[n], s)
  <2> SUFFICES ASSUME NEW n \in Commands \ {m} PROVE Apart(s, cmd[n]) /\ Apart(cmd[n], s)
    OBVIOUS
  <2>1. Apart(cmd[m], cmd[n]) /\ Apart(cmd[n], cmd[m])
    BY OfCommand
  <2> QED BY <2>1, <1>2, <1>3, ApartShrinks
<1>6. issued <= issued'
  BY CountsAssumption DEF IInv, FileTypeOK
<1>7. cmd' = [cmd EXCEPT ![m] = s]
  BY DEF s
<1> QED BY <1>2, <1>4, <1>5, <1>6, <1>7, OneMoves

LEMMA ReadFileKeeps ==
  ASSUME IInv, FileTypeOK', NEW m \in Commands, ReadFile(m)
  PROVE  IInv'
<1> DEFINE s == [cmd[m] EXCEPT !.phase = "read", !.data = file]
<1>1. /\ cmd[m] \in Command /\ cmd \in [Commands -> Command] /\ file \in File
      /\ Own(cmd[m], References(file.c), keychain, issued, lost, m \in raced)
      /\ cmd[m].phase = "start"
  BY OfCommand DEF IInv, FileTypeOK, ReadFile
<1>2. cmd' = [cmd EXCEPT ![m] = s] /\ UNCHANGED <<file, keychain, issued, left, edits, history>>
  BY DEF ReadFile
<1>3. /\ s \in Command /\ s.phase = "read" /\ s.data = file /\ s.c = cmd[m].c
      /\ s.todo = cmd[m].todo /\ s.new = cmd[m].new /\ s.gone = cmd[m].gone
  BY <1>1 DEF Command, Phases
<1> HIDE DEF s
<1>4. Made(s) = Made(cmd[m]) /\ Reach(s) = Reach(cmd[m])
  BY <1>3 DEF Made, Reach
<1>5. Own(s, References(file.c), keychain, issued, lost, m \in raced)
  BY <1>1, <1>3, <1>4 DEF Own
<1> QED BY <1>2, <1>3, <1>4, <1>5, OneShrinks

\* A command without references of its own takes over those of the file.
LEMMA TakingOver ==
  ASSUME IInv, FileTypeOK', NEW m \in Commands, NEW s \in Command,
         cmd' = [cmd EXCEPT ![m] = s],
         UNCHANGED <<file, keychain, issued, left, edits, history>>,
         Made(s) = {}, s.gone = {},
         References(s.c) = References(file.c),
         \/ /\ s.phase = "loaded"
            /\ m \in raced \/ References(s.data.c) = References(file.c)
         \/ s.phase = "install"
  PROVE  IInv'
<1>1. cmd \in [Commands -> Command] /\ References(file.c) \subseteq 1 .. issued
  BY OfCommand DEF IInv, FileTypeOK
<1>2. Reach(s) = References(file.c) /\ s.todo = {} /\ s.new = {}
  BY DEF Made, Reach
<1>3. Own(s, References(file.c), keychain, issued, lost, m \in raced)
  BY <1>1, <1>2 DEF Own
<1>4. \A n \in Commands \ {m} : Apart(s, cmd[n]) /\ Apart(cmd[n], s)
  <2> SUFFICES ASSUME NEW n \in Commands \ {m} PROVE Apart(s, cmd[n]) /\ Apart(cmd[n], s)
    OBVIOUS
  <2>1. Own(cmd[n], References(file.c), keychain, issued, lost, n \in raced)
    BY OfCommand
  <2> QED BY <2>1, <1>2 DEF Own, Apart
<1>5. issued <= issued'
  BY CountsAssumption DEF IInv, FileTypeOK
<1> QED BY <1>3, <1>4, <1>5, OneMoves

LEMMA LoadFileKeeps ==
  ASSUME IInv, FileTypeOK', NEW m \in Commands, LoadFile(m)
  PROVE  IInv'
<1>1. /\ cmd[m] \in Command /\ cmd \in [Commands -> Command] /\ file.c \in Config
      /\ Own(cmd[m], References(file.c), keychain, issued, lost, m \in raced)
      /\ cmd[m].phase = "read" /\ UNCHANGED <<file, keychain, issued, left, edits, history>>
  BY OfCommand DEF IInv, FileTypeOK, LoadFile
<1>2. CASE cmd[m].data = NoFile
  <2> DEFINE s == [cmd[m] EXCEPT !.phase = "loaded"]
  <2>1. cmd' = [cmd EXCEPT ![m] = s]
    BY <1>2 DEF LoadFile
  <2>2. /\ s \in Command /\ s.phase = "loaded" /\ s.c = cmd[m].c
        /\ s.todo = cmd[m].todo /\ s.new = cmd[m].new /\ s.gone = cmd[m].gone
    BY <1>1 DEF Command, Phases
  <2> HIDE DEF s
  <2>3. Made(s) = Made(cmd[m]) /\ Reach(s) = Reach(cmd[m])
    BY <2>2 DEF Made, Reach
  <2>4. References(s.c) = {}
    BY <1>1, <2>2, EmptyRefs DEF Own
  <2>5. Own(s, References(file.c), keychain, issued, lost, m \in raced)
    BY <1>1, <2>2, <2>3, <2>4 DEF Own
  <2> QED BY <1>1, <2>1, <2>2, <2>3, <2>5, OneShrinks
<1>3. CASE cmd[m].data # NoFile /\ file.state = "ok"
  <2> DEFINE s == [cmd[m] EXCEPT !.phase = "loaded", !.c = file.c]
  <2>1. cmd' = [cmd EXCEPT ![m] = s]
    BY <1>3 DEF LoadFile
  <2>2. /\ s \in Command /\ s.phase = "loaded" /\ s.c = file.c /\ s.data = cmd[m].data
        /\ s.todo = cmd[m].todo /\ s.new = cmd[m].new /\ s.gone = cmd[m].gone
    BY <1>1 DEF Command, Phases
  <2> HIDE DEF s
  <2>3. Made(s) = {} /\ s.gone = {}
    BY <1>1, <2>2 DEF Made, Own
  <2>4. m \in raced \/ References(s.data.c) = References(file.c)
    BY <1>1, <1>3, <2>2 DEF Own
  <2> QED BY <1>1, <2>1, <2>2, <2>3, <2>4, TakingOver
<1>4. CASE cmd[m].data # NoFile /\ file.state # "ok"
  <2>1. cmd' = [cmd EXCEPT ![m] = Leave(cmd[m], "over")]
    BY <1>4 DEF LoadFile
  <2>2. keychain' \subseteq Refs
    BY <1>1 DEF IInv, FileTypeOK
  <2> QED BY <1>1, <2>1, <2>2, LeavingKeeps
<1> QED BY <1>2, <1>3, <1>4

LEMMA LoadForReportKeeps ==
  ASSUME IInv, FileTypeOK', NEW m \in Commands, LoadForReport(m)
  PROVE  IInv'
<1> DEFINE s == [cmd[m] EXCEPT !.phase = "report"]
<1>1. /\ cmd[m] \in Command /\ cmd \in [Commands -> Command]
      /\ Own(cmd[m], References(file.c), keychain, issued, lost, m \in raced)
      /\ cmd[m].phase = "start"
  BY OfCommand DEF IInv, FileTypeOK, LoadForReport
<1>2. cmd' = [cmd EXCEPT ![m] = s] /\ UNCHANGED <<file, keychain, issued, left, edits, history>>
  BY DEF LoadForReport
<1>3. /\ s \in Command /\ s.phase = "report" /\ s.c = cmd[m].c
      /\ s.todo = cmd[m].todo /\ s.new = cmd[m].new /\ s.gone = cmd[m].gone
  BY <1>1 DEF Command, Phases
<1> HIDE DEF s
<1>4. Made(s) = Made(cmd[m]) /\ Reach(s) = Reach(cmd[m])
  BY <1>3 DEF Made, Reach
<1>5. Own(s, References(file.c), keychain, issued, lost, m \in raced)
  BY <1>1, <1>3, <1>4 DEF Own
<1> QED BY <1>2, <1>3, <1>4, <1>5, OneShrinks

LEMMA EditScheduleKeeps ==
  ASSUME IInv, FileTypeOK', NEW m \in Commands, EditSchedule(m)
  PROVE  IInv'
<1> DEFINE c == [file.c EXCEPT !.schedule = ~@]
           s == [cmd[m] EXCEPT !.phase = "install", !.c = c]
<1>1. /\ cmd[m] \in Command /\ cmd \in [Commands -> Command] /\ file.c \in Config
      /\ Own(cmd[m], References(file.c), keychain, issued, lost, m \in raced)
      /\ cmd[m].phase = "report"
  BY OfCommand DEF IInv, FileTypeOK, EditSchedule
<1>2. cmd' = [cmd EXCEPT ![m] = s] /\ UNCHANGED <<file, keychain, issued, left, edits, history>>
  BY DEF EditSchedule
<1>3. c \in Config /\ References(c) = References(file.c)
  <2>1. c \in Config /\ c.keys = file.c.keys /\ c.gateway = file.c.gateway
    BY <1>1 DEF Config
  <2> QED BY <2>1, SameRefs
<1> HIDE DEF c
<1>4. /\ s \in Command /\ s.phase = "install" /\ s.c = c
      /\ s.todo = cmd[m].todo /\ s.new = cmd[m].new /\ s.gone = cmd[m].gone
  BY <1>1, <1>3 DEF Command, Phases
<1> HIDE DEF s
<1>5. Made(s) = {} /\ s.gone = {}
  BY <1>1, <1>4 DEF Made, Own
<1> QED BY <1>2, <1>3, <1>4, <1>5, TakingOver

LEMMA StoreNewKeeps ==
  ASSUME IInv, FileTypeOK', NEW m \in Commands, NEW r \in Refs, StoreNew(m, r)
  PROVE  IInv'
<1> DEFINE phase == IF cmd[m].todo = {r} THEN "write" ELSE "store"
           s == [cmd[m] EXCEPT !.phase = phase, !.todo = @ \ {r}, !.new = @ \union {r}]
<1>1. /\ cmd[m] \in Command /\ cmd \in [Commands -> Command]
      /\ Own(cmd[m], References(file.c), keychain, issued, lost, m \in raced)
      /\ cmd[m].phase = "store" /\ r \in cmd[m].todo
      /\ keychain' = keychain \union {r}
  BY OfCommand DEF IInv, FileTypeOK, StoreNew, Upcoming
<1>2. cmd' = [cmd EXCEPT ![m] = s] /\ UNCHANGED <<file, issued, left, edits, history>>
  BY DEF StoreNew
<1>3. phase \in {"write", "store"} /\ (phase = "write" => cmd[m].todo = {r})
  OBVIOUS
<1> HIDE DEF phase
<1>4. /\ s \in Command /\ s.phase = phase /\ s.c = cmd[m].c /\ s.data = cmd[m].data
      /\ s.todo = cmd[m].todo \ {r} /\ s.new = cmd[m].new \union {r}
      /\ s.gone = cmd[m].gone
  BY <1>1, <1>3 DEF Command, Phases
<1> HIDE DEF s
<1>5. Made(s) = Made(cmd[m]) /\ Reach(s) = Reach(cmd[m])
  BY <1>1, <1>4 DEF Made, Reach
<1>6. Own(s, References(file.c), keychain', issued, lost, m \in raced)
  BY <1>1, <1>3, <1>4, <1>5 DEF Own
<1>7. \A n \in Commands \ {m} : Apart(s, cmd[n]) /\ Apart(cmd[n], s)
  <2> SUFFICES ASSUME NEW n \in Commands \ {m} PROVE Apart(s, cmd[n]) /\ Apart(cmd[n], s)
    OBVIOUS
  <2>1. Apart(cmd[m], cmd[n]) /\ Apart(cmd[n], cmd[m])
    BY OfCommand
  <2> QED BY <2>1, <1>3, <1>4, <1>5, ApartShrinks
<1>8. issued <= issued'
  BY <1>2, CountsAssumption DEF IInv, FileTypeOK
<1> QED BY <1>1, <1>2, <1>4, <1>6, <1>7, <1>8, OneMoves

\* The comparison brings what the command read and what is in the file
\* together.
LEMMA CompareFileKeeps ==
  ASSUME IInv, FileTypeOK', NEW m \in Commands, CompareFile(m)
  PROVE  IInv'
<1> DEFINE s == [cmd[m] EXCEPT !.phase = "install"]
<1>1. /\ cmd[m] \in Command /\ cmd \in [Commands -> Command]
      /\ Own(cmd[m], References(file.c), keychain, issued, lost, m \in raced)
      /\ cmd[m].phase = "write" /\ file = cmd[m].data
  BY OfCommand DEF IInv, FileTypeOK, CompareFile
<1>2. cmd' = [cmd EXCEPT ![m] = s] /\ UNCHANGED <<file, keychain, issued, left, edits, history>>
  BY DEF CompareFile
<1>3. /\ s \in Command /\ s.phase = "install" /\ s.c = cmd[m].c
      /\ s.todo = cmd[m].todo /\ s.new = cmd[m].new /\ s.gone = cmd[m].gone
  BY <1>1 DEF Command, Phases
<1> HIDE DEF s
<1>4. Made(s) = Made(cmd[m]) /\ Reach(s) = Reach(cmd[m])
  BY <1>3 DEF Made, Reach
<1>5. /\ s.todo = {}
      /\ m \in raced \/ References(s.c) \subseteq References(file.c) \union s.new
  BY <1>1, <1>3 DEF Own, Made
<1>6. Own(s, References(file.c), keychain, issued, lost, m \in raced)
  BY <1>1, <1>3, <1>4, <1>5 DEF Own
<1>7. \A n \in Commands \ {m} : Apart(s, cmd[n]) /\ Apart(cmd[n], s)
  <2> SUFFICES ASSUME NEW n \in Commands \ {m} PROVE Apart(s, cmd[n]) /\ Apart(cmd[n], s)
    OBVIOUS
  <2>1. Apart(cmd[m], cmd[n]) /\ Apart(cmd[n], cmd[m])
    BY OfCommand
  <2> QED BY <2>1, <1>1, <1>4 DEF Apart
<1>8. issued <= issued'
  BY <1>2, CountsAssumption DEF IInv, FileTypeOK
<1> QED BY <1>2, <1>3, <1>6, <1>7, <1>8, OneMoves

\* The rename: the references of the file change for everyone.  Those who
\* are in a window are raced from now on, and what the rename of a raced
\* command puts back is lost.
LEMMA InstallKeeps ==
  ASSUME IInv, FileTypeOK', NEW m \in Commands, Install(m)
  PROVE  IInv'
<1> DEFINE c == cmd[m].c
           stale == Unreferenced(c, cmd[m].gone)
           phase == IF stale = {} THEN "over" ELSE "cleanup"
           t == Leave(cmd[m], phase)
           s == [t EXCEPT !.new = {}, !.gone = stale]
           R == References(file.c)
<1>1. /\ cmd[m] \in Command /\ cmd \in [Commands -> Command]
      /\ Own(cmd[m], R, keychain, issued, lost, m \in raced)
      /\ cmd[m].phase = "install" /\ file.c \in Config /\ issued \in Nat
      /\ R \subseteq 1 .. issued /\ R \subseteq keychain \union lost
  BY OfCommand, CountsAssumption DEF IInv, FileTypeOK, Install
<1>2. /\ cmd' = [cmd EXCEPT ![m] = s] /\ file' = Saved(c)
      /\ UNCHANGED <<keychain, issued, edits>>
      /\ \A n \in Commands \ {m} :
           /\ n \in raced => n \in raced'
           /\ cmd[n].phase \in {"read", "install"} => n \in raced'
      /\ lost \subseteq lost'
      /\ m \in raced => References(c) \ (R \union cmd[m].new) \subseteq lost'
  BY DEF Install, Windows, PutBack
<1>3. c \in Config /\ stale \subseteq cmd[m].gone /\ stale \intersect References(c) = {}
  BY <1>1 DEF Command, Unreferenced
<1> HIDE DEF stale
<1>4. phase \in {"over", "cleanup"} /\ phase \in Phases
  BY DEF Phases
<1> HIDE DEF phase
<1>5. /\ t \in Command /\ t.phase = phase /\ t.c = EmptyConfig
      /\ t.todo = cmd[m].todo
  BY <1>1, <1>4, LeaveFields
<1> HIDE DEF t
<1>6. /\ s \in Command /\ s.phase = phase /\ s.c = EmptyConfig
      /\ s.todo = cmd[m].todo /\ s.new = {} /\ s.gone = stale
  <2>1. stale \subseteq Refs
    BY <1>1, <1>3 DEF Command
  <2> QED BY <1>5, <2>1 DEF Command
<1> HIDE DEF s
<1>7. file' \in File /\ file'.c = c
  BY <1>2, <1>3 DEF Saved, File
<1> HIDE DEF c
<1>8. /\ References(c) \subseteq R \union cmd[m].new \union lost'
      /\ References(c) \subseteq 1 .. issued
      /\ cmd[m].new \subseteq keychain /\ cmd[m].todo = {}
      /\ Reach(cmd[m]) \subseteq 1 .. issued
      /\ stale \subseteq Reach(cmd[m])
  BY <1>1, <1>2, <1>3 DEF Own, Reach, c
<1>9. Made(s) = {} /\ Reach(s) = stale
  BY <1>6, <1>8, EmptyRefs DEF Made, Reach
<1>10. FileInv'
  BY <1>1, <1>2, <1>7, <1>8 DEF FileInv
<1>11. Own(s, References(c), keychain, issued, lost', m \in raced')
  BY <1>3, <1>4, <1>6, <1>8, <1>9 DEF Own
<1>12. ASSUME NEW n \in Commands \ {m}
       PROVE  Own(cmd[n], References(c), keychain, issued, lost', n \in raced')
  <2>1. /\ Own(cmd[n], R, keychain, issued, lost, n \in raced)
        /\ Apart(cmd[m], cmd[n]) /\ Apart(cmd[n], cmd[m])
    BY OfCommand
  <2>2. Made(cmd[n]) \intersect References(c) = {}
    BY <2>1 DEF Apart, Reach, c
  <2>3. /\ cmd[n].phase \in {"install", "read"} => n \in raced'
        /\ n \in raced => n \in raced'
    BY <1>2
  <2>4. cmd[n].gone \intersect cmd[m].new = {}
    BY <2>1 DEF Apart, Reach, Made
  <2>5. cmd[n].phase \in {"cleanup", "rollback"} =>
          Made(cmd[n]) = {} /\ cmd[n].gone \intersect References(c) \subseteq lost'
    BY <2>1, <2>4, <1>2, <1>8 DEF Own
  <2> QED BY <2>1, <2>2, <2>3, <2>5 DEF Own
<1>13. ASSUME NEW n \in Commands \ {m} PROVE Apart(s, cmd[n]) /\ Apart(cmd[n], s)
  <2>1. Apart(cmd[m], cmd[n]) /\ Apart(cmd[n], cmd[m])
    BY OfCommand
  <2> QED BY <2>1, <1>8, <1>9 DEF Apart
<1>14. cmd'[m] = s /\ \A n \in Commands \ {m} : cmd'[n] = cmd[n]
  BY <1>1, <1>2
<1>15. OwnInv'
  BY <1>2, <1>7, <1>11, <1>12, <1>14 DEF OwnInv
<1>16. ApartInv'
  BY <1>13, <1>14 DEF IInv, ApartInv
<1> QED BY <1>10, <1>15, <1>16 DEF IInv

\* What a command deletes is named by nobody any more, or was put back.
LEMMA DeleteKeeps ==
  ASSUME IInv, FileTypeOK', NEW m \in Commands, NEW r \in Refs, Delete(m, r)
  PROVE  IInv'
<1> DEFINE phase == IF cmd[m].gone = {r} THEN "over" ELSE cmd[m].phase
           s == [cmd[m] EXCEPT !.phase = phase, !.gone = @ \ {r}]
<1>1. /\ cmd[m] \in Command /\ cmd \in [Commands -> Command]
      /\ Own(cmd[m], References(file.c), keychain, issued, lost, m \in raced)
      /\ cmd[m].phase \in {"cleanup", "rollback"} /\ r \in cmd[m].gone
  BY OfCommand DEF IInv, FileTypeOK, Delete
<1>2. /\ cmd' = [cmd EXCEPT ![m] = s] /\ UNCHANGED <<file, issued, edits, history>>
      /\ keychain' \subseteq keychain /\ keychain \ keychain' \subseteq {r}
      /\ left' \subseteq left \union {r}
  BY DEF Delete
<1>3. phase \in {"over", "cleanup", "rollback"}
  BY <1>1
<1> HIDE DEF phase
<1>4. /\ s \in Command /\ s.phase = phase /\ s.c = cmd[m].c
      /\ s.todo = cmd[m].todo /\ s.new = cmd[m].new /\ s.gone = cmd[m].gone \ {r}
  BY <1>1, <1>3 DEF Command, Phases
<1> HIDE DEF s
<1>5. /\ Made(s) = Made(cmd[m]) /\ Made(s) = {} /\ s.new = {}
      /\ Reach(s) \subseteq Reach(cmd[m])
  BY <1>1, <1>4 DEF Made, Reach, Own
<1>6. Own(s, References(file.c), keychain', issued, lost, m \in raced)
  BY <1>1, <1>3, <1>4, <1>5 DEF Own
<1>7. \A n \in Commands \ {m} :
        Apart(s, cmd[n]) /\ Apart(cmd[n], s) /\ r \notin cmd[n].new
  <2> SUFFICES ASSUME NEW n \in Commands \ {m}
               PROVE  Apart(s, cmd[n]) /\ Apart(cmd[n], s) /\ r \notin cmd[n].new
    OBVIOUS
  <2>1. Apart(cmd[m], cmd[n]) /\ Apart(cmd[n], cmd[m])
    BY OfCommand
  <2>2. r \notin cmd[n].new
    BY <1>1, <2>1 DEF Apart, Reach, Made
  <2> QED BY <2>1, <2>2, <1>3, <1>4, <1>5, ApartShrinks
<1>8. r \notin References(file.c) \ lost
  BY <1>1 DEF Own
<1>9. issued <= issued'
  BY <1>2, CountsAssumption DEF IInv, FileTypeOK
<1>10. \A x \in keychain \ keychain' :
         /\ x \notin References(file.c) \ lost
         /\ \A n \in Commands \ {m} : x \notin cmd[n].new
  BY <1>2, <1>7, <1>8
<1>11. References(file'.c) = References(file.c) /\ Own(s, References(file.c), keychain', issued', lost, m \in raced)
  BY <1>2, <1>6
<1> QED BY <1>2, <1>4, <1>7, <1>9, <1>10, <1>11, OneMoves

LEMMA EditByHandKeeps ==
  ASSUME IInv, FileTypeOK', EditByHand
  PROVE  IInv'
<1>1. /\ file \in File /\ file.c \in Config
      /\ UNCHANGED <<keychain, issued, cmd, left, history>>
      /\ edits' = edits + 1 /\ edits < MaxEdits
  BY DEF IInv, FileTypeOK, EditByHand, File
<1>2. file' \in File /\ file'.c.keys = file.c.keys /\ file'.c.gateway = file.c.gateway
  <2>1. CASE file' = [file EXCEPT !.c.policy = ~@]
    BY <1>1, <2>1 DEF File, Config
  <2>2. CASE file' = [file EXCEPT !.c.settings = ~@]
    BY <1>1, <2>2 DEF File, Config
  <2>3. CASE file' = [file EXCEPT !.state = IF @ = "ok" THEN "broken" ELSE "ok"]
    BY <1>1, <2>3 DEF File
  <2> QED BY <2>1, <2>2, <2>3 DEF EditByHand
<1>3. References(file'.c) = References(file.c)
  BY <1>2, SameRefs
<1>4. edits' \in 0 .. MaxEdits
  BY <1>1, CountsAssumption DEF IInv, FileTypeOK
<1> QED BY <1>1, <1>3 DEF IInv, FileInv, OwnInv, ApartInv, history

-----------------------------------------------------------------------------
(* The theorems about the file.                                            *)

LEMMA FirstFileTyped ==
  ASSUME NEW n \in (0 .. MaxRefs) \ {1}, NEW q \in Providers
  PROVE  LET f == FirstFile(n, q)
         IN  /\ f \in File
             /\ f.c.gateway = n /\ n \in 0 .. MaxRefs
             /\ References(f.c) \subseteq 1 .. n
<1>1. n \in 0 .. MaxRefs /\ n # 1 /\ MaxRefs \in Nat
  BY CountsAssumption
<1>2. CASE n = 0
  <2>1. FirstFile(n, q) = NoFile
    BY <1>2 DEF FirstFile
  <2>2. NoFile \in File /\ NoFile.c = EmptyConfig /\ EmptyConfig.gateway = 0
    BY EmptyRefs DEF NoFile, File, EmptyConfig
  <2> QED BY <1>1, <1>2, <2>1, <2>2, EmptyRefs
<1>3. CASE n # 0
  <2> DEFINE K == [p \in Providers |-> IF p = q THEN 1 .. (n - 1) ELSE {1}]
             c == [EmptyConfig EXCEPT !.gateway = n, !.keys = K]
  <2>1. FirstFile(n, q) = Saved(c)
    BY <1>3 DEF FirstFile
  <2>2. \A p \in Providers : K[p] \subseteq 1 .. n /\ K[p] \subseteq Refs
    BY <1>1, <1>3 DEF Refs
  <2>3. K \in [Providers -> SUBSET Refs]
    BY <2>2
  <2> HIDE DEF K
  <2>4. c \in Config /\ c.keys = K /\ c.gateway = n
    BY <1>1, <2>3, EmptyRefs DEF Config
  <2> HIDE DEF c
  <2>5. References(c) \subseteq 1 .. n
    BY <1>1, <1>3, <2>2, <2>4 DEF References, ProviderKeys
  <2>6. Saved(c) \in File /\ Saved(c).c = c
    BY <2>4 DEF Saved, File
  <2> QED BY <1>1, <2>1, <2>4, <2>5, <2>6
<1> QED BY <1>2, <1>3

LEMMA InitInv == FileInit => IInv
<1> SUFFICES ASSUME FileInit PROVE IInv
  OBVIOUS
<1>0. PICK x \in Shapes : FileStart(x)
  BY DEF FileInit
<1> DEFINE S(phase) == [phase |-> phase, data |-> NoFile, c |-> EmptyConfig,
                        todo |-> {}, new |-> {}, gone |-> {}]
           s(m) == S(IF m \in x.commands THEN "start" ELSE "over")
<1>1. /\ file \in File /\ issued \in 0 .. MaxRefs
      /\ References(file.c) \subseteq 1 .. issued
      /\ keychain = References(file.c)
  <2>1. /\ x.refs \in (0 .. MaxRefs) \ {1} /\ x.refs \in Nat
        /\ x.issued \in x.refs .. MaxRefs
    BY ShapesAssumption, CountsAssumption
  <2>2. PICK q \in Providers : file = FirstFile(x.refs, q)
    BY <1>0 DEF FileStart
  <2>3. file \in File /\ References(file.c) \subseteq 1 .. x.refs
    BY <2>1, <2>2, FirstFileTyped
  <2>4. 1 .. x.refs \subseteq 1 .. x.issued /\ x.issued \in 0 .. MaxRefs
    BY <2>1, CountsAssumption
  <2> QED BY <1>0, <2>3, <2>4 DEF FileStart
<1>2. keychain \subseteq Refs
  BY <1>1, CountsAssumption DEF Refs
<1>3. NoFile \in File
  BY EmptyRefs DEF NoFile, File
<1>4. ASSUME NEW m \in Commands
      PROVE  /\ s(m) \in Command /\ s(m).phase \in {"start", "over"}
             /\ s(m).c = EmptyConfig
             /\ s(m).todo = {} /\ s(m).new = {} /\ s(m).gone = {}
  BY <1>3, EmptyRefs DEF Command, Phases
<1>5. cmd = [m \in Commands |-> s(m)]
  BY <1>0 DEF FileStart
<1> HIDE DEF s
<1>6. FileTypeOK
  <2>1. cmd \in [Commands -> Command]
    BY <1>4, <1>5
  <2>2. edits \in 0 .. MaxEdits
    BY <1>0, ShapesAssumption, CountsAssumption DEF FileStart
  <2>3. left = {} /\ raced = {} /\ lost = {}
    BY <1>0 DEF FileStart
  <2> QED BY <1>1, <1>2, <2>1, <2>2, <2>3 DEF FileTypeOK
<1>7. ASSUME NEW m \in Commands PROVE Made(cmd[m]) = {} /\ Reach(cmd[m]) = {}
  BY <1>4, <1>5, EmptyRefs DEF Made, Reach
<1>8. ASSUME NEW m \in Commands
      PROVE  Own(cmd[m], References(file.c), keychain, issued, lost, m \in raced)
  BY <1>4, <1>5, <1>7 DEF Own
<1>9. ApartInv
  BY <1>7 DEF ApartInv, Apart
<1> QED BY <1>1, <1>6, <1>8, <1>9 DEF IInv, FileInv, OwnInv

LEMMA StepInv ==
  ASSUME IInv, NEW m \in Commands, Step(m)
  PROVE  IInv'
<1> FileTypeOK'
  BY StepTyped DEF IInv
<1>0. /\ cmd[m] \in Command /\ keychain \subseteq Refs /\ left \subseteq Refs
      /\ cmd[m].new \subseteq Made(cmd[m])
  BY OfCommand DEF IInv, FileTypeOK, Made
<1>1. ASSUME Refuse(m) PROVE IInv'
  BY <1>0, <1>1, LeavingKeeps DEF Refuse
<1>2. ASSUME Change(m) PROVE IInv'
  BY <1>2, ChangePlans, PlannedKeeps, EditScheduleKeeps DEF IInv
<1>3. ASSUME WriteFails(m) PROVE IInv'
  BY <1>0, <1>3, RollingBackKeeps DEF WriteFails
<1>4. ASSUME NEW r \in Refs, StoreNewFails(m, r) PROVE IInv'
  <2>1. keychain \subseteq keychain' /\ keychain' \subseteq Refs /\ left' \subseteq Refs
    BY <1>0, <1>4 DEF StoreNewFails
  <2>2. /\ cmd' = [cmd EXCEPT ![m] = RolledBack(cmd[m])]
        /\ UNCHANGED <<file, issued, edits, history>>
    BY <1>4 DEF StoreNewFails
  <2> QED BY <1>0, <2>1, <2>2, RollingBackKeeps
<1>5. ASSUME NEW r \in Refs, ReadBackFails(m, r) PROVE IInv'
  <2> DEFINE t == [cmd[m] EXCEPT !.new = @ \union {r}]
  <2>1. t \in Command /\ t.new = cmd[m].new \union {r}
    BY <1>0 DEF Command
  <2>2. cmd' = [cmd EXCEPT ![m] = RolledBack(t)]
    BY <1>5 DEF ReadBackFails
  <2> HIDE DEF t
  <2>3. t.new \subseteq Made(cmd[m])
    BY <1>5, <2>1 DEF ReadBackFails, Upcoming, Made
  <2>4. /\ keychain \subseteq keychain' /\ keychain' \subseteq Refs /\ left' \subseteq Refs
        /\ UNCHANGED <<file, issued, edits, history>>
    BY <1>0, <1>5 DEF ReadBackFails
  <2> QED BY <2>1, <2>2, <2>3, <2>4, RollingBackKeeps
<1>6. ASSUME Kill(m) PROVE IInv'
  <2>1. keychain \subseteq keychain' /\ keychain' \subseteq Refs
    BY <1>0, <1>6 DEF Kill
  <2> QED BY <1>6, <2>1, LeavingKeeps DEF Kill
<1> QED
  BY <1>1, <1>2, <1>3, <1>4, <1>5, <1>6, ReadFileKeeps, LoadFileKeeps,
     LoadForReportKeeps, StoreNewKeeps, CompareFileKeeps, InstallKeeps, DeleteKeeps
  DEF Step

LEMMA NextInv == IInv /\ [FileNext]_fileVars => IInv'
<1> SUFFICES ASSUME IInv, [FileNext]_fileVars PROVE IInv'
  OBVIOUS
<1>1. CASE FileNext
  <2>1. FileTypeOK'
    BY <1>1, FileNextTyped DEF IInv
  <2> QED BY <1>1, <2>1, StepInv, EditByHandKeeps DEF FileNext
<1>2. CASE UNCHANGED fileVars
  BY <1>2 DEF fileVars, IInv, FileTypeOK, FileInv, OwnInv, ApartInv
<1> QED BY <1>1, <1>2

\* For any number of commands, interleaved in any way, killed anywhere and
\* with a Keychain that fails anywhere, a secret that the file names and that
\* is gone was put back by a command in one of whose windows (loadCommandConfig
\* to LoadConfig, comparison to rename) another command had renamed the file.
THEOREM NothingDangles == FileSpec => []NoDanglingReference
<1>1. IInv => NoDanglingReference
  BY DEF IInv, FileInv, NoDanglingReference
<1> QED BY InitInv, NextInv, <1>1, PTL DEF FileSpec

\* The file, the Keychain and the commands keep their types.
THEOREM FileTypeCorrect == FileSpec => []FileTypeOK
<1>1. FileInit => FileTypeOK
  BY InitInv DEF IInv
<1> QED BY <1>1, FileNextTyped, PTL DEF FileSpec

-----------------------------------------------------------------------------
(* No secret is left behind.  A running command owes the deletion of what  *)
(* it has stored, until the file names it; a command that deletes, or was  *)
(* killed, owes what it had set out to delete too.                         *)

Debt(s) ==
  CASE s.phase = "over" -> {}
    [] s.phase \in {"cleanup", "rollback", "dead"} -> Made(s) \union s.gone
    [] OTHER -> Made(s)

\* What is known of one command, given the configuration f in the file, the
\* Keychain K and whether (b) it was raced: it has not stored what it still
\* has to store, and unless it was raced, a reference that it takes out of
\* the file is deleted later or is the former gateway key.
Owes(s, f, K, b) ==
  /\ s.phase # "dead" => s.todo \intersect K = {}
  /\ s.phase = "read" /\ s.data # NoFile => b \/ s.data.c.gateway = f.gateway
  /\ s.phase = "loaded" =>
       \/ b
       \/ References(s.data.c) \subseteq References(s.c) /\ s.data.c.gateway = s.c.gateway
  /\ s.phase \in {"store", "write"} =>
       \/ b
       \/ References(s.data.c) \subseteq References(s.c) \union s.gone \union {s.data.c.gateway}
  /\ s.phase = "install" =>
       b \/ References(f) \subseteq References(s.c) \union s.gone \union {f.gateway}
  /\ s.phase \in {"store", "write", "install"} => Made(s) \subseteq References(s.c)

OwesInv == \A m \in Commands : Owes(cmd[m], file.c, keychain, m \in raced)

Accounted ==
  \A r \in keychain : \/ r \in References(file.c) \union left \union lost
                      \/ \E m \in Commands : r \in Debt(cmd[m])

AInv == keychain \subseteq 1 .. issued /\ OwesInv /\ Accounted

LEMMA OwedIsHeld ==
  ASSUME NEW s
  PROVE  /\ Debt(s) \subseteq Made(s) \union s.gone
         /\ s.phase = "over" => Debt(s) = {}
         /\ s.phase \in {"cleanup", "rollback", "dead"} => Debt(s) = Made(s) \union s.gone
         /\ s.phase \notin {"over", "cleanup", "rollback", "dead"} => Debt(s) = Made(s)
BY DEF Debt

\* A step of command m that keeps the configuration in the file.
LEMMA OneAccounted ==
  ASSUME IInv, AInv, FileTypeOK', NEW m \in Commands, NEW s \in Command,
         cmd' = [cmd EXCEPT ![m] = s],
         file'.c = file.c, issued <= issued', left \subseteq left',
         history' = history,
         keychain' \subseteq keychain \union Made(cmd[m]),
         keychain' \ keychain \subseteq Debt(s) \union left',
         Debt(cmd[m]) \intersect keychain' \subseteq Debt(s) \union left',
         Owes(s, file.c, keychain', m \in raced)
  PROVE  AInv'
<1>0. raced' = raced /\ lost' = lost
  BY DEF history
<1>1. /\ cmd \in [Commands -> Command] /\ issued \in Nat /\ issued' \in Nat
      /\ Reach(cmd[m]) \subseteq 1 .. issued /\ Made(cmd[m]) \subseteq Reach(cmd[m])
  BY OfCommand, CountsAssumption DEF IInv, FileTypeOK, Own, Reach
<1>2. cmd'[m] = s /\ \A n \in Commands \ {m} : cmd'[n] = cmd[n]
  BY <1>1
<1>3. (keychain \subseteq 1 .. issued)'
  <2>1. 1 .. issued \subseteq 1 .. issued'
    BY <1>1
  <2> QED BY <1>1, <2>1 DEF AInv
<1>4. OwesInv'
  <2> SUFFICES ASSUME NEW n \in Commands
               PROVE  Owes(cmd'[n], file.c, keychain', n \in raced)
    BY <1>0 DEF OwesInv
  <2>1. CASE n = m
    BY <1>2, <2>1
  <2>2. CASE n # m
    <3>1. Owes(cmd[n], file.c, keychain, n \in raced) /\ Apart(cmd[m], cmd[n])
      BY <2>2, OfCommand DEF AInv, OwesInv
    <3>2. cmd[n].todo \intersect Made(cmd[m]) = {}
      BY <3>1 DEF Apart, Reach, Made
    <3>3. Owes(cmd[n], file.c, keychain', n \in raced)
      BY <3>1, <3>2 DEF Owes
    <3> QED BY <1>2, <2>2, <3>3
  <2> QED BY <2>1, <2>2
<1>5. Accounted'
  <2> SUFFICES ASSUME NEW r \in keychain'
               PROVE  \/ r \in References(file.c) \union left' \union lost
                      \/ \E n \in Commands : r \in Debt(cmd'[n])
    BY <1>0 DEF Accounted
  <2>1. CASE r \notin keychain
    BY <1>2, <2>1
  <2>2. CASE r \in References(file.c) \union left \union lost
    BY <2>2
  <2>3. CASE r \in keychain /\ r \notin References(file.c) \union left \union lost
    <3>1. PICK n \in Commands : r \in Debt(cmd[n])
      BY <2>3 DEF AInv, Accounted
    <3> QED BY <1>2, <3>1
  <2> QED BY <2>1, <2>2, <2>3
<1> QED BY <1>3, <1>4, <1>5 DEF AInv

\* The same when nothing is added to the Keychain and none of the debt of
\* the command is dropped.
LEMMA DebtGrows ==
  ASSUME IInv, AInv, FileTypeOK', NEW m \in Commands, NEW s \in Command,
         cmd' = [cmd EXCEPT ![m] = s],
         UNCHANGED <<file, keychain, left, history>>, issued <= issued',
         Debt(cmd[m]) \intersect keychain \subseteq Debt(s),
         Owes(s, file.c, keychain, m \in raced)
  PROVE  AInv'
<1>1. /\ file'.c = file.c /\ left \subseteq left'
      /\ keychain' \subseteq keychain \union Made(cmd[m])
      /\ keychain' \ keychain \subseteq Debt(s) \union left'
      /\ Debt(cmd[m]) \intersect keychain' \subseteq Debt(s) \union left'
      /\ Owes(s, file.c, keychain', m \in raced)
  OBVIOUS
<1> QED BY <1>1, OneAccounted

\* What AInv says of command m, and that the number of references stays.
LEMMA OfDebtor ==
  ASSUME IInv, AInv, NEW m \in Commands
  PROVE  /\ cmd[m] \in Command /\ file \in File /\ file.c \in Config
         /\ Own(cmd[m], References(file.c), keychain, issued, lost, m \in raced)
         /\ Owes(cmd[m], file.c, keychain, m \in raced)
         /\ keychain \subseteq 1 .. issued
         /\ issued' = issued => issued <= issued'
<1>1. issued \in Nat
  BY CountsAssumption DEF IInv, FileTypeOK
<1> QED BY <1>1, OfCommand DEF AInv, OwesInv

LEMMA ReadFileAccounts ==
  ASSUME IInv, AInv, FileTypeOK', NEW m \in Commands, ReadFile(m)
  PROVE  AInv'
<1> DEFINE s == [cmd[m] EXCEPT !.phase = "read", !.data = file]
<1>1. cmd[m].phase = "start" /\ cmd' = [cmd EXCEPT ![m] = s]
      /\ UNCHANGED <<file, keychain, issued, left, edits, history>>
  BY DEF ReadFile
<1>2. /\ s \in Command /\ s.phase = "read" /\ s.data = file
      /\ s.todo = cmd[m].todo /\ s.new = cmd[m].new
  BY OfDebtor DEF Command, Phases
<1> HIDE DEF s
<1>3. Debt(cmd[m]) = {}
  BY <1>1, OfDebtor, OwedIsHeld DEF Own
<1>4. Owes(s, file.c, keychain, m \in raced)
  BY <1>1, <1>2, OfDebtor DEF Owes
<1>5. issued <= issued'
  BY <1>1, OfDebtor
<1> QED BY <1>1, <1>2, <1>3, <1>4, <1>5, DebtGrows

LEMMA LoadForReportAccounts ==
  ASSUME IInv, AInv, FileTypeOK', NEW m \in Commands, LoadForReport(m)
  PROVE  AInv'
<1> DEFINE s == [cmd[m] EXCEPT !.phase = "report"]
<1>1. cmd[m].phase = "start" /\ cmd' = [cmd EXCEPT ![m] = s]
      /\ UNCHANGED <<file, keychain, issued, left, edits, history>>
  BY DEF LoadForReport
<1>2. s \in Command /\ s.phase = "report" /\ s.todo = cmd[m].todo
  BY OfDebtor DEF Command, Phases
<1> HIDE DEF s
<1>3. Debt(cmd[m]) = {}
  BY <1>1, OfDebtor, OwedIsHeld DEF Own
<1>4. Owes(s, file.c, keychain, m \in raced)
  BY <1>1, <1>2, OfDebtor DEF Owes
<1>5. issued <= issued'
  BY <1>1, OfDebtor
<1> QED BY <1>1, <1>2, <1>3, <1>4, <1>5, DebtGrows

\* A command that gives up before it has planned anything owes nothing.
LEMMA GivingUpAccounts ==
  ASSUME IInv, AInv, FileTypeOK', NEW m \in Commands,
         cmd[m].phase \in {"read", "loaded", "report"},
         cmd' = [cmd EXCEPT ![m] = Leave(cmd[m], "over")],
         UNCHANGED <<file, keychain, issued, left, edits, history>>
  PROVE  AInv'
<1> DEFINE s == Leave(cmd[m], "over")
<1>1. s \in Command /\ s.phase = "over" /\ s.todo = cmd[m].todo
  <2>1. "over" \in Phases
    BY DEF Phases
  <2> QED BY <2>1, OfDebtor, LeaveFields
<1>2. cmd' = [cmd EXCEPT ![m] = s]
  OBVIOUS
<1> HIDE DEF s
<1>3. Debt(cmd[m]) = {}
  BY OfDebtor, OwedIsHeld DEF Own
<1>4. Owes(s, file.c, keychain, m \in raced)
  BY <1>1, OfDebtor DEF Owes
<1>5. issued <= issued'
  BY OfDebtor
<1> QED BY <1>1, <1>2, <1>3, <1>4, <1>5, DebtGrows

\* Without a race, what is loaded is what the first read saw, or there was
\* no file.
LEMMA LoadFileAccounts ==
  ASSUME IInv, AInv, FileTypeOK', NEW m \in Commands, LoadFile(m)
  PROVE  AInv'
<1>1. cmd[m].phase = "read" /\ UNCHANGED <<file, keychain, issued, left, edits, history>>
  BY DEF LoadFile
<1>2. Debt(cmd[m]) = {} /\ issued <= issued'
  BY <1>1, OfDebtor, OwedIsHeld DEF Own
<1>3. CASE cmd[m].data = NoFile
  <2> DEFINE s == [cmd[m] EXCEPT !.phase = "loaded"]
  <2>1. cmd' = [cmd EXCEPT ![m] = s]
    BY <1>3 DEF LoadFile
  <2>2. /\ s \in Command /\ s.phase = "loaded" /\ s.c = cmd[m].c /\ s.data = cmd[m].data
        /\ s.todo = cmd[m].todo
    BY OfDebtor DEF Command, Phases
  <2> HIDE DEF s
  <2>3. s.data.c = s.c
    BY <1>1, <1>3, <2>2, OfDebtor DEF Own, NoFile
  <2>4. Owes(s, file.c, keychain, m \in raced)
    BY <1>1, <2>2, <2>3, OfDebtor DEF Owes
  <2> QED BY <1>1, <1>2, <2>1, <2>2, <2>4, DebtGrows
<1>4. CASE cmd[m].data # NoFile /\ file.state = "ok"
  <2> DEFINE s == [cmd[m] EXCEPT !.phase = "loaded", !.c = file.c]
  <2>1. cmd' = [cmd EXCEPT ![m] = s]
    BY <1>4 DEF LoadFile
  <2>2. /\ s \in Command /\ s.phase = "loaded" /\ s.c = file.c /\ s.data = cmd[m].data
        /\ s.todo = cmd[m].todo
    BY OfDebtor DEF Command, Phases
  <2> HIDE DEF s
  <2>3. \/ m \in raced
        \/ References(s.data.c) = References(s.c) /\ s.data.c.gateway = s.c.gateway
    BY <1>1, <1>4, <2>2, OfDebtor DEF Own, Owes
  <2>4. Owes(s, file.c, keychain, m \in raced)
    BY <1>1, <2>2, <2>3, OfDebtor DEF Owes
  <2> QED BY <1>1, <1>2, <2>1, <2>2, <2>4, DebtGrows
<1>5. CASE cmd[m].data # NoFile /\ file.state # "ok"
  <2>1. cmd' = [cmd EXCEPT ![m] = Leave(cmd[m], "over")]
    BY <1>5 DEF LoadFile
  <2> QED BY <1>1, <2>1, GivingUpAccounts
<1> QED BY <1>3, <1>4, <1>5

\* What a plan takes out of the configuration it deletes, except a gateway
\* key; what it generates was never stored and is in the configuration.
LEMMA PlannedAccounts ==
  ASSUME IInv, AInv, FileTypeOK', NEW m \in Commands, Planned(m)
  PROVE  AInv'
<1>1. PICK c \in Config, k \in {0, 1, 2}, old \in SUBSET References(cmd[m].c) :
         /\ cmd[m].phase = "loaded"
         /\ CanIssue(k)
         /\ Plan(m, c, Fresh(k), old)
         /\ References(c) \subseteq References(cmd[m].c) \union Fresh(k)
         /\ Fresh(k) \subseteq References(c)
         /\ References(cmd[m].c) \subseteq References(c) \union old \union {cmd[m].c.gateway}
  BY DEF Planned
<1> DEFINE fresh == Fresh(k)
           phase == IF fresh = {} THEN "write" ELSE "store"
           s == [cmd[m] EXCEPT !.phase = phase, !.c = c, !.todo = fresh, !.gone = old]
<1>2. /\ fresh \subseteq Refs /\ fresh \intersect (1 .. issued) = {}
      /\ Cardinality(fresh) = k /\ issued <= issued + k
  BY <1>1, FreshRefs DEF IInv
<1>3. /\ cmd' = [cmd EXCEPT ![m] = s] /\ issued' = issued + Cardinality(fresh)
      /\ UNCHANGED <<file, keychain, left, edits, history>>
  BY <1>1 DEF Plan
<1>4. fresh \subseteq References(c)
  BY <1>1
<1> HIDE DEF fresh
<1>5. old \subseteq Refs
  BY OfDebtor, RefsTyped DEF Command
<1>6. phase \in {"write", "store"}
  OBVIOUS
<1> HIDE DEF phase
<1>7. /\ s \in Command /\ s.phase = phase /\ s.c = c /\ s.todo = fresh
      /\ s.gone = old /\ s.new = cmd[m].new /\ s.data = cmd[m].data
  BY <1>2, <1>5, <1>6, OfDebtor DEF Command, Phases
<1> HIDE DEF s
<1>8. Made(s) = fresh /\ Debt(cmd[m]) = {}
  BY <1>1, <1>7, OfDebtor, OwedIsHeld DEF Own, Made
<1>9. s.todo \intersect keychain = {}
  BY <1>2, <1>7, OfDebtor
<1>10. \/ m \in raced
       \/ References(s.data.c) \subseteq References(s.c) \union s.gone \union {s.data.c.gateway}
  BY <1>1, <1>7, OfDebtor DEF Owes
<1>11. Owes(s, file.c, keychain, m \in raced)
  BY <1>4, <1>6, <1>7, <1>8, <1>9, <1>10 DEF Owes
<1>12. issued <= issued'
  BY <1>2, <1>3
<1> QED BY <1>3, <1>7, <1>8, <1>11, <1>12, DebtGrows

LEMMA EditScheduleAccounts ==
  ASSUME IInv, AInv, FileTypeOK', NEW m \in Commands, EditSchedule(m)
  PROVE  AInv'
<1> DEFINE c == [file.c EXCEPT !.schedule = ~@]
           s == [cmd[m] EXCEPT !.phase = "install", !.c = c]
<1>1. /\ cmd' = [cmd EXCEPT ![m] = s] /\ UNCHANGED <<file, keychain, issued, left, edits, history>>
      /\ cmd[m].phase = "report"
  BY DEF EditSchedule
<1>2. c \in Config /\ References(c) = References(file.c)
  <2>1. c \in Config /\ c.keys = file.c.keys /\ c.gateway = file.c.gateway
    BY OfDebtor DEF Config
  <2> QED BY <2>1, SameRefs
<1> HIDE DEF c
<1>3. /\ s \in Command /\ s.phase = "install" /\ s.c = c
      /\ s.todo = cmd[m].todo /\ s.new = cmd[m].new
  BY <1>2, OfDebtor DEF Command, Phases
<1> HIDE DEF s
<1>4. Debt(cmd[m]) = {} /\ Made(s) = {}
  BY <1>1, <1>3, OfDebtor, OwedIsHeld DEF Own, Made
<1>5. Owes(s, file.c, keychain, m \in raced)
  BY <1>2, <1>3, <1>4 DEF Owes, Made
<1>6. issued <= issued'
  BY <1>1, OfDebtor
<1> QED BY <1>1, <1>3, <1>4, <1>5, <1>6, DebtGrows

LEMMA StoreNewAccounts ==
  ASSUME IInv, AInv, FileTypeOK', NEW m \in Commands, NEW r \in Refs, StoreNew(m, r)
  PROVE  AInv'
<1> DEFINE phase == IF cmd[m].todo = {r} THEN "write" ELSE "store"
           s == [cmd[m] EXCEPT !.phase = phase, !.todo = @ \ {r}, !.new = @ \union {r}]
<1>1. /\ cmd' = [cmd EXCEPT ![m] = s] /\ UNCHANGED <<file, issued, left, edits, history>>
      /\ keychain' = keychain \union {r} /\ cmd[m].phase = "store" /\ r \in cmd[m].todo
  BY DEF StoreNew, Upcoming
<1>2. phase \in {"write", "store"}
  OBVIOUS
<1> HIDE DEF phase
<1>3. /\ s \in Command /\ s.phase = phase /\ s.c = cmd[m].c /\ s.data = cmd[m].data
      /\ s.todo = cmd[m].todo \ {r} /\ s.new = cmd[m].new \union {r}
      /\ s.gone = cmd[m].gone
  BY <1>2, OfDebtor DEF Command, Phases
<1> HIDE DEF s
<1>4. Made(s) = Made(cmd[m]) /\ Debt(s) = Made(s) /\ Debt(cmd[m]) = Made(s) /\ r \in Made(s)
  BY <1>1, <1>2, <1>3, OwedIsHeld DEF Made
<1>5. Owes(s, file.c, keychain', m \in raced)
  BY <1>1, <1>2, <1>3, <1>4, OfDebtor DEF Owes
<1>6. issued <= issued' /\ file'.c = file.c
  BY <1>1, OfDebtor
<1> QED BY <1>1, <1>3, <1>4, <1>5, <1>6, OneAccounted

\* A command that starts to delete what it has stored: what it has not
\* stored yet has no item, and what it has just stored is deleted too or
\* reported.
LEMMA RollingBackAccounts ==
  ASSUME IInv, AInv, FileTypeOK', NEW m \in Commands, NEW t \in Command,
         cmd[m].phase \in {"store", "write", "install"},
         cmd[m].new \subseteq t.new,
         cmd' = [cmd EXCEPT ![m] = RolledBack(t)],
         keychain \subseteq keychain', keychain' \subseteq keychain \union cmd[m].todo,
         left \subseteq left', keychain' \ keychain \subseteq t.new \union left',
         UNCHANGED <<file, issued, edits, history>>
  PROVE  AInv'
<1> DEFINE s == RolledBack(t)
<1>1. /\ s \in Command /\ s.phase \in {"over", "rollback"} /\ s.todo = {} /\ s.new = {}
      /\ s.gone = t.new /\ (s.phase = "over" => t.new = {})
  BY RolledBackFields
<1>2. cmd' = [cmd EXCEPT ![m] = s]
  OBVIOUS
<1> HIDE DEF s
<1>3. Debt(s) = t.new
  <2>1. Made(s) = {}
    BY <1>1 DEF Made
  <2>2. CASE s.phase = "over"
    BY <1>1, <2>2, OwedIsHeld
  <2>3. CASE s.phase = "rollback"
    BY <1>1, <2>1, <2>3, OwedIsHeld
  <2> QED BY <1>1, <2>2, <2>3
<1>4. Debt(cmd[m]) = cmd[m].todo \union cmd[m].new /\ cmd[m].todo \intersect keychain = {}
  BY OfDebtor, OwedIsHeld DEF Owes, Made
<1>5. Debt(cmd[m]) \intersect keychain' \subseteq Debt(s) \union left'
  BY <1>3, <1>4
<1>6. Owes(s, file.c, keychain', m \in raced)
  BY <1>1 DEF Owes
<1>7. issued <= issued' /\ file'.c = file.c /\ keychain' \subseteq keychain \union Made(cmd[m])
  BY OfDebtor DEF Made
<1> QED BY <1>1, <1>2, <1>3, <1>5, <1>6, <1>7, OneAccounted

LEMMA CompareFileAccounts ==
  ASSUME IInv, AInv, FileTypeOK', NEW m \in Commands, CompareFile(m)
  PROVE  AInv'
<1> DEFINE s == [cmd[m] EXCEPT !.phase = "install"]
<1>1. /\ cmd' = [cmd EXCEPT ![m] = s] /\ UNCHANGED <<file, keychain, issued, left, edits, history>>
      /\ cmd[m].phase = "write" /\ file = cmd[m].data
  BY DEF CompareFile
<1>2. /\ s \in Command /\ s.phase = "install" /\ s.c = cmd[m].c
      /\ s.todo = cmd[m].todo /\ s.new = cmd[m].new /\ s.gone = cmd[m].gone
  BY OfDebtor DEF Command, Phases
<1> HIDE DEF s
<1>3. Made(s) = Made(cmd[m]) /\ Debt(s) = Debt(cmd[m])
  BY <1>1, <1>2, OwedIsHeld DEF Made
<1>4. Owes(s, file.c, keychain, m \in raced)
  BY <1>1, <1>2, <1>3, OfDebtor DEF Owes
<1>5. issued <= issued'
  BY <1>1, OfDebtor
<1> QED BY <1>1, <1>2, <1>3, <1>4, <1>5, DebtGrows

\* The rename takes references out of the file: they are deleted next, or
\* are the former gateway key, or the command was raced and they are lost.
LEMMA InstallAccounts ==
  ASSUME IInv, AInv, FileTypeOK', NEW m \in Commands, Install(m)
  PROVE  AInv'
<1> DEFINE c == cmd[m].c
           stale == Unreferenced(c, cmd[m].gone)
           phase == IF stale = {} THEN "over" ELSE "cleanup"
           t == Leave(cmd[m], phase)
           s == [t EXCEPT !.new = {}, !.gone = stale]
<1>1. /\ cmd[m].phase = "install" /\ cmd' = [cmd EXCEPT ![m] = s] /\ file' = Saved(c)
      /\ UNCHANGED <<keychain, issued, edits>>
      /\ left' = left \union ({file.c.gateway} \ {0, c.gateway})
      /\ \A n \in Commands \ {m} :
           /\ n \in raced => n \in raced'
           /\ cmd[n].phase \in {"read", "install"} => n \in raced'
      /\ lost \subseteq lost'
      /\ m \in raced => References(file.c) \ (References(c) \union cmd[m].gone) \subseteq lost'
  BY DEF Install, Windows, Dropped
<1>2. /\ cmd[m] \in Command /\ cmd \in [Commands -> Command] /\ c \in Config
      /\ Own(cmd[m], References(file.c), keychain, issued, lost, m \in raced)
      /\ Owes(cmd[m], file.c, keychain, m \in raced) /\ keychain \subseteq 1 .. issued
  BY OfDebtor DEF Command, IInv, FileTypeOK
<1>3. stale = cmd[m].gone \ References(c)
  BY DEF Unreferenced
<1> HIDE DEF stale
<1>4. phase \in {"over", "cleanup"} /\ phase \in Phases /\ (phase = "over" => stale = {})
  BY DEF Phases
<1> HIDE DEF phase
<1>5. t \in Command /\ t.phase = phase /\ t.todo = cmd[m].todo
  BY <1>2, <1>4, LeaveFields
<1> HIDE DEF t
<1>6. /\ s.phase = phase /\ s.todo = cmd[m].todo /\ s.new = {} /\ s.gone = stale
  <2>1. stale \subseteq Refs
    BY <1>2, <1>3 DEF Command
  <2> QED BY <1>5, <2>1 DEF Command
<1> HIDE DEF s
<1>7. file'.c = c
  BY <1>1 DEF Saved
<1>8. cmd'[m] = s /\ \A n \in Commands \ {m} : cmd'[n] = cmd[n]
  BY <1>1, <1>2
<1> HIDE DEF c
<1>9. cmd[m].todo = {} /\ Debt(s) = stale
  <2>1. cmd[m].todo = {}
    BY <1>1, <1>2 DEF Own
  <2>2. Made(s) = {}
    BY <1>6, <2>1 DEF Made
  <2>3. CASE phase = "over"
    BY <1>4, <1>6, <2>1, <2>3, OwedIsHeld
  <2>4. CASE phase = "cleanup"
    BY <1>6, <2>1, <2>2, <2>4, OwedIsHeld
  <2> QED BY <1>4, <2>1, <2>3, <2>4
<1>10. /\ References(file.c) \subseteq References(c) \union cmd[m].gone \union {file.c.gateway}
                                       \union lost'
       /\ Debt(cmd[m]) \subseteq References(c)
  BY <1>1, <1>2, OwedIsHeld DEF Owes, c
<1>11. \A r \in keychain : r \in References(file.c) \union Debt(cmd[m]) =>
         r \in References(c) \union left' \union lost' \union Debt(s)
  <2> SUFFICES ASSUME NEW r \in keychain, r \in References(file.c) \union Debt(cmd[m]),
                      r \notin References(c)
               PROVE  r \in left' \union lost' \union Debt(s)
    OBVIOUS
  <2>1. r # 0
    BY <1>2
  <2>2. r # c.gateway
    BY <2>1 DEF References
  <2> QED BY <1>1, <1>3, <1>9, <1>10, <2>1, <2>2
<1>12. OwesInv'
  <2> SUFFICES ASSUME NEW n \in Commands PROVE Owes(cmd'[n], c, keychain, n \in raced')
    BY <1>1, <1>7 DEF OwesInv
  <2>1. CASE n = m
    <3>1. Owes(s, c, keychain, m \in raced')
      BY <1>4, <1>6, <1>9 DEF Owes
    <3> QED BY <1>8, <2>1, <3>1
  <2>2. CASE n # m
    <3>1. Owes(cmd[n], file.c, keychain, n \in raced)
      BY DEF AInv, OwesInv
    <3>2. /\ cmd[n].phase \in {"read", "install"} => n \in raced'
          /\ n \in raced => n \in raced'
      BY <1>1, <2>2
    <3>3. Owes(cmd[n], c, keychain, n \in raced')
      BY <3>1, <3>2 DEF Owes
    <3> QED BY <1>8, <2>2, <3>3
  <2> QED BY <2>1, <2>2
<1>13. Accounted'
  <2> SUFFICES ASSUME NEW r \in keychain
               PROVE  \/ r \in References(c) \union left' \union lost'
                      \/ \E n \in Commands : r \in Debt(cmd'[n])
    BY <1>1, <1>7 DEF Accounted
  <2>1. \/ r \in References(file.c) \union left \union lost
        \/ \E n \in Commands : r \in Debt(cmd[n])
    BY DEF AInv, Accounted
  <2>2. CASE r \in left \union lost
    BY <1>1, <2>2
  <2>3. CASE r \in References(file.c) \union Debt(cmd[m])
    BY <1>8, <1>11, <2>3
  <2>4. CASE \E n \in Commands \ {m} : r \in Debt(cmd[n])
    BY <1>8, <2>4
  <2> QED BY <2>1, <2>2, <2>3, <2>4
<1>14. (keychain \subseteq 1 .. issued)'
  BY <1>1, <1>2
<1> QED BY <1>12, <1>13, <1>14 DEF AInv

LEMMA DeleteAccounts ==
  ASSUME IInv, AInv, FileTypeOK', NEW m \in Commands, NEW r \in Refs, Delete(m, r)
  PROVE  AInv'
<1> DEFINE phase == IF cmd[m].gone = {r} THEN "over" ELSE cmd[m].phase
           s == [cmd[m] EXCEPT !.phase = phase, !.gone = @ \ {r}]
<1>1. /\ cmd' = [cmd EXCEPT ![m] = s] /\ UNCHANGED <<file, issued, edits, history>>
      /\ keychain' \subseteq keychain /\ left \subseteq left'
      /\ r \in left' \/ r \notin keychain'
      /\ cmd[m].phase \in {"cleanup", "rollback"} /\ r \in cmd[m].gone
  BY DEF Delete
<1>2. /\ phase \in {"over", "cleanup", "rollback"}
      /\ phase = "over" => cmd[m].gone = {r}
  BY <1>1
<1> HIDE DEF phase
<1>3. /\ s \in Command /\ s.phase = phase
      /\ s.todo = cmd[m].todo /\ s.new = cmd[m].new /\ s.gone = cmd[m].gone \ {r}
  BY <1>2, OfDebtor DEF Command, Phases
<1> HIDE DEF s
<1>4. Made(cmd[m]) = {} /\ Made(s) = {} /\ s.todo = {}
  BY <1>1, <1>3, OfDebtor DEF Own, Made
<1>5. Debt(cmd[m]) = cmd[m].gone /\ Debt(s) = cmd[m].gone \ {r}
  BY <1>1, <1>2, <1>3, <1>4, OwedIsHeld
<1>6. Owes(s, file.c, keychain', m \in raced)
  BY <1>2, <1>3, <1>4 DEF Owes
<1>7. /\ issued <= issued' /\ file'.c = file.c
      /\ keychain' \subseteq keychain \union Made(cmd[m])
      /\ keychain' \ keychain \subseteq Debt(s) \union left'
      /\ Debt(cmd[m]) \intersect keychain' \subseteq Debt(s) \union left'
  BY <1>1, <1>5, OfDebtor
<1> QED BY <1>1, <1>3, <1>6, <1>7, OneAccounted

LEMMA KillAccounts ==
  ASSUME IInv, AInv, FileTypeOK', NEW m \in Commands, Kill(m)
  PROVE  AInv'
<1> DEFINE s == Leave(cmd[m], "dead")
<1>1. /\ cmd' = [cmd EXCEPT ![m] = s] /\ UNCHANGED <<file, issued, left, edits, history>>
      /\ keychain' \subseteq keychain \union cmd[m].todo
  BY DEF Kill, Upcoming
<1>2. /\ s \in Command /\ s.phase = "dead" /\ s.todo = cmd[m].todo
      /\ s.new = cmd[m].new /\ s.gone = cmd[m].gone
  <2>1. "dead" \in Phases
    BY DEF Phases
  <2> QED BY <2>1, OfDebtor, LeaveFields
<1> HIDE DEF s
<1>3. Debt(s) = Made(cmd[m]) \union cmd[m].gone
  BY <1>2, OwedIsHeld DEF Made
<1>4. Owes(s, file.c, keychain', m \in raced)
  BY <1>2 DEF Owes
<1>5. /\ issued <= issued' /\ file'.c = file.c /\ left \subseteq left'
      /\ keychain' \subseteq keychain \union Made(cmd[m])
      /\ keychain' \ keychain \subseteq Debt(s) \union left'
      /\ Debt(cmd[m]) \intersect keychain' \subseteq Debt(s) \union left'
  BY <1>1, <1>3, OfDebtor, OwedIsHeld DEF Made
<1> QED BY <1>1, <1>2, <1>4, <1>5, OneAccounted

LEMMA EditByHandAccounts ==
  ASSUME IInv, AInv, EditByHand
  PROVE  AInv'
<1>1. file \in File /\ UNCHANGED <<keychain, issued, cmd, left, history>>
  BY DEF IInv, FileTypeOK, EditByHand
<1>2. file'.c.keys = file.c.keys /\ file'.c.gateway = file.c.gateway
  <2>1. CASE file' = [file EXCEPT !.c.policy = ~@]
    BY <1>1, <2>1 DEF File, Config
  <2>2. CASE file' = [file EXCEPT !.c.settings = ~@]
    BY <1>1, <2>2 DEF File, Config
  <2>3. CASE file' = [file EXCEPT !.state = IF @ = "ok" THEN "broken" ELSE "ok"]
    BY <1>1, <2>3 DEF File
  <2> QED BY <2>1, <2>2, <2>3 DEF EditByHand
<1>3. References(file'.c) = References(file.c)
  BY <1>2, SameRefs
<1>4. OwesInv'
  BY <1>1, <1>2, <1>3 DEF AInv, OwesInv, Owes, history
<1>5. Accounted'
  BY <1>1, <1>3 DEF AInv, Accounted, history
<1> QED BY <1>1, <1>4, <1>5 DEF AInv

LEMMA StepAccounts ==
  ASSUME IInv, AInv, NEW m \in Commands, Step(m)
  PROVE  AInv'
<1> FileTypeOK'
  BY StepTyped DEF IInv
<1>1. ASSUME Refuse(m) PROVE AInv'
  BY <1>1, GivingUpAccounts DEF Refuse
<1>2. ASSUME Change(m) PROVE AInv'
  BY <1>2, ChangePlans, PlannedAccounts, EditScheduleAccounts DEF IInv
<1>3. ASSUME WriteFails(m) PROVE AInv'
  BY <1>3, RollingBackAccounts, OfDebtor DEF WriteFails
<1>4. ASSUME NEW r \in Refs, StoreNewFails(m, r) PROVE AInv'
  <2>1. /\ cmd' = [cmd EXCEPT ![m] = RolledBack(cmd[m])] /\ cmd[m].phase = "store"
        /\ UNCHANGED <<file, issued, edits, history>>
        /\ keychain \subseteq keychain' /\ keychain' \subseteq keychain \union cmd[m].todo
        /\ left \subseteq left' /\ keychain' \ keychain \subseteq left'
    BY <1>4 DEF StoreNewFails, Upcoming
  <2> QED BY <2>1, RollingBackAccounts, OfDebtor
<1>5. ASSUME NEW r \in Refs, ReadBackFails(m, r) PROVE AInv'
  <2> DEFINE t == [cmd[m] EXCEPT !.new = @ \union {r}]
  <2>1. t \in Command /\ t.new = cmd[m].new \union {r}
    BY OfDebtor DEF Command
  <2>2. /\ cmd' = [cmd EXCEPT ![m] = RolledBack(t)] /\ cmd[m].phase = "store"
        /\ UNCHANGED <<file, issued, left, edits, history>>
        /\ keychain' = keychain \union {r} /\ r \in cmd[m].todo
    BY <1>5 DEF ReadBackFails, Upcoming
  <2> HIDE DEF t
  <2> QED BY <2>1, <2>2, RollingBackAccounts
<1> QED
  BY <1>1, <1>2, <1>3, <1>4, <1>5, ReadFileAccounts, LoadFileAccounts,
     LoadForReportAccounts, StoreNewAccounts, CompareFileAccounts, InstallAccounts,
     DeleteAccounts, KillAccounts
  DEF Step

LEMMA InitAccounts == FileInit => AInv
<1> SUFFICES ASSUME FileInit PROVE AInv
  OBVIOUS
<1>1. IInv /\ keychain = References(file.c)
  BY InitInv DEF FileInit, FileStart
<1>2. \A m \in Commands : cmd[m].phase \in {"start", "over"} /\ cmd[m].todo = {}
  BY DEF FileInit, FileStart
<1>3. OwesInv
  BY <1>2 DEF OwesInv, Owes
<1> QED BY <1>1, <1>3 DEF IInv, FileInv, AInv, Accounted

LEMMA NextAccounts == IInv /\ AInv /\ [FileNext]_fileVars => AInv'
<1> SUFFICES ASSUME IInv, AInv, [FileNext]_fileVars PROVE AInv'
  OBVIOUS
<1>1. CASE UNCHANGED fileVars
  BY <1>1 DEF fileVars, AInv, OwesInv, Accounted
<1> QED BY <1>1, StepAccounts, EditByHandAccounts DEF FileNext

\* For any number of commands, interleaved in any way, killed anywhere and
\* with a Keychain that fails anywhere, no secret is left behind in silence:
\* an item the file does not name is a former gateway key, or one a Keychain
\* call reported, or in the hands of a command that still deletes or was
\* killed, or it was taken out of the file by a command in one of whose
\* windows another command had renamed the file.
THEOREM SecretsStayAccounted == FileSpec => []SecretsAccounted
<1>1. IInv /\ AInv /\ [FileNext]_fileVars => (IInv /\ AInv)'
  BY NextInv, NextAccounts
<1>2. AInv => SecretsAccounted
  <2> SUFFICES ASSUME AInv, NEW r \in keychain \ (References(file.c) \union left \union lost)
               PROVE  \E m \in Commands :
                        /\ cmd[m].phase # "over"
                        /\ r \in cmd[m].todo \union cmd[m].new \union cmd[m].gone
    BY DEF SecretsAccounted
  <2>1. PICK m \in Commands : r \in Debt(cmd[m])
    BY DEF AInv, Accounted
  <2> QED BY <2>1, OwedIsHeld DEF Made
<1>3. FileInit => IInv /\ AInv
  BY InitInv, InitAccounts
<1> QED BY <1>1, <1>2, <1>3, PTL DEF FileSpec

-----------------------------------------------------------------------------
(* The gateway's watcher.                                                  *)

Turn == [phase: WatchPhases, revision: File, candidate: Config,
         activeRaw: Config, view: View, code: Codes]

\* What a turn of the watcher knows: the candidate is what it read, and the
\* configuration it compares with is the one of the view that is served.
TurnInv ==
  /\ Up => watch.activeRaw = view.c
  /\ watch.phase \in {"read", "resolved", "prepared", "checked"} =>
       watch.candidate = watch.revision.c
  /\ watch.phase \in {"prepared", "checked"} => watch.view.c = watch.candidate

\* A connection of the next view is one that was published, or its number is
\* larger than every published one.
Newer(a) == /\ a.generation <= nextProviderGeneration
            /\ \A b \in published : b.generation < a.generation

NumbersInv ==
  /\ Connections(view) \subseteq published
  /\ \A a \in published : a.generation <= nextProviderGeneration
  /\ watch.phase \in {"prepared", "checked"} =>
       /\ \A a \in Connections(watch.view) : a \in published \/ Newer(a)
       /\ \A a, b \in Connections(watch.view) :
            a.generation = b.generation => a = b

WInv == TypeOK /\ TurnInv /\ AppliedIsServed /\ NumbersInv /\ GenerationsIdentify

LEMMA NoViewTyped ==
  /\ NoView \in View /\ Connections(NoView) = {}
  /\ NoFile \in File /\ NoTurn \in Turn /\ NoTurn.phase = "down"
<1>1. NoFile \in File
  BY EmptyRefs DEF NoFile, File
<1>2. NoView \in View /\ NoView.clients = {}
  BY EmptyRefs DEF NoView, View
<1>3. Connections(NoView) = {}
  BY <1>2 DEF Connections
<1>4. NoTurn \in Turn /\ NoTurn.phase = "down"
  BY <1>1, <1>2, EmptyRefs DEF NoTurn, Turn, WatchPhases, Codes
<1> QED BY <1>1, <1>2, <1>3, <1>4

LEMMA ConnectionsTyped ==
  ASSUME NEW v \in View
  PROVE  Connections(v) \subseteq [provider: Providers, generation: Nat,
                                   endpoint: BOOLEAN, keys: SUBSET Refs]
BY DEF Connections, View, Config

\* The numbers of new connections are new and distinct.
LEMMA NewNumbers ==
  ASSUME nextProviderGeneration \in Nat, NEW up \in SUBSET Providers,
         NEW g \in NewGenerations(up)
  PROVE  /\ Cardinality(up) \in Nat
         /\ g \in [up -> Nat]
         /\ \A p \in up : /\ nextProviderGeneration < g[p]
                          /\ g[p] <= nextProviderGeneration + Cardinality(up)
         /\ \A p, q \in up : p # q => g[p] # g[q]
<1>1. Cardinality(up) \in Nat
  BY ProvidersAssumption, FS_Subset, FS_CardinalityType
<1>2. /\ g \in [up -> (nextProviderGeneration + 1) ..
                        (nextProviderGeneration + Cardinality(up))]
      /\ \A p, q \in up : p # q => g[p] # g[q]
  BY DEF NewGenerations
<1> QED BY <1>1, <1>2

LEMMA GenerationsTyped ==
  ASSUME NEW old \in [Providers -> Nat], NEW up \in SUBSET Providers,
         NEW new \in [up -> Nat]
  PROVE  /\ Generations(old, new) \in [Providers -> Nat]
         /\ \A p \in up : Generations(old, new)[p] = new[p]
         /\ \A p \in Providers \ up : Generations(old, new)[p] = old[p]
BY DEF Generations

\* A turn that ends, with or without an error, leaves only activeRaw.
LEMMA IdleFields ==
  ASSUME watch \in Turn, NEW phase \in WatchPhases, NEW code \in Codes, NEW c \in Config
  PROVE  /\ [Idle EXCEPT !.phase = phase, !.code = code] \in Turn
         /\ [Idle EXCEPT !.phase = phase, !.code = code].phase = phase
         /\ [Idle EXCEPT !.phase = phase, !.code = code].activeRaw = watch.activeRaw
         /\ Idle \in Turn /\ Idle.phase = "idle" /\ Idle.activeRaw = watch.activeRaw
         /\ [Idle EXCEPT !.activeRaw = c] \in Turn
         /\ [Idle EXCEPT !.activeRaw = c].phase = "idle"
         /\ [Idle EXCEPT !.activeRaw = c].activeRaw = c
<1>1. /\ Idle \in Turn /\ Idle.phase = "idle" /\ Idle.activeRaw = watch.activeRaw
  <2>1. NoTurn \in Turn /\ watch.activeRaw \in Config /\ "idle" \in WatchPhases
    BY NoViewTyped DEF Turn, WatchPhases
  <2> HIDE DEF NoTurn
  <2> QED BY <2>1 DEF Idle, Turn
<1> QED BY <1>1 DEF Turn

LEMMA WInitInv == Init => WInv
<1> SUFFICES ASSUME Init PROVE WInv
  OBVIOUS
<1>1. FileTypeOK
  BY InitInv DEF Init, FileInit, IInv
<1>2. /\ watch = NoTurn /\ view = NoView /\ nextProviderGeneration = 0
      /\ published = {} /\ failures = 0
      /\ status = [appliedRevision |-> NoFile, errorCode |-> ""]
  BY DEF Init
<1>3. status \in [appliedRevision: File, errorCode: Codes]
  BY <1>2, NoViewTyped DEF Codes
<1>4. TypeOK
  <2>1. watch \in Turn /\ view \in View
    BY <1>2, NoViewTyped
  <2>2. /\ nextProviderGeneration \in Nat
        /\ starts \in 0 .. MaxStarts /\ failures \in 0 .. MaxFailures
    <3>1. nextProviderGeneration = 0 /\ failures = 0
      BY <1>2
    <3>2. starts \in 0 .. MaxStarts
      <4>1. PICK s \in Shapes : starts = MaxStarts - s.starts
        BY DEF Init
      <4>2. s.starts \in 0 .. MaxStarts /\ MaxStarts \in Nat
        BY ShapesAssumption, CountsAssumption
      <4> QED BY <4>1, <4>2
    <3> QED BY <3>1, <3>2, ReloadAssumption
  <2>3. published \subseteq [provider: Providers, generation: Nat,
                             endpoint: BOOLEAN, keys: SUBSET Refs]
    BY <1>2
  <2> QED BY <1>1, <1>3, <2>1, <2>2, <2>3 DEF TypeOK, Turn
<1>5. TurnInv /\ AppliedIsServed /\ NumbersInv /\ GenerationsIdentify
  BY <1>2, NoViewTyped DEF TurnInv, AppliedIsServed, NumbersInv, GenerationsIdentify, Up
<1> QED BY <1>4, <1>5 DEF WInv

\* Commands and editors do not touch the gateway.
LEMMA FileStepKeeps ==
  ASSUME WInv, FileTypeOK', UNCHANGED serverVars
  PROVE  WInv'
BY DEF WInv, TypeOK, TurnInv, AppliedIsServed, NumbersInv, GenerationsIdentify, Newer,
       Up, serverVars

\* A step of the watcher that prepares and publishes nothing.
LEMMA WaitingKeeps ==
  ASSUME WInv, UNCHANGED <<fileVars, view, published>>,
         status' \in [appliedRevision: File, errorCode: Codes],
         status'.appliedRevision = status.appliedRevision,
         NEW t \in Turn, watch' = t,
         t.phase \notin {"prepared", "checked"},
         t.phase \notin {"down", "starting"} => Up /\ t.activeRaw = watch.activeRaw,
         t.phase \in {"read", "resolved"} => t.candidate = t.revision.c,
         nextProviderGeneration' \in Nat,
         nextProviderGeneration <= nextProviderGeneration',
         starts' \in 0 .. MaxStarts, failures' \in 0 .. MaxFailures
  PROVE  WInv'
<1>1. FileTypeOK'
  BY DEF WInv, TypeOK, FileTypeOK, fileVars
<1>2. TypeOK'
  BY <1>1 DEF WInv, TypeOK, Turn
<1>3. TurnInv' /\ AppliedIsServed'
  BY DEF WInv, TurnInv, AppliedIsServed, Up
<1>4. NumbersInv'
  <2>1. \A a \in published : a.generation <= nextProviderGeneration /\ a.generation \in Nat
    BY DEF WInv, NumbersInv, TypeOK
  <2>2. nextProviderGeneration \in Nat
    BY DEF WInv, TypeOK
  <2>3. \A a \in published : a.generation <= nextProviderGeneration'
    BY <2>1, <2>2
  <2> QED BY <2>3 DEF WInv, NumbersInv
<1>5. GenerationsIdentify'
  BY DEF WInv, GenerationsIdentify
<1> QED BY <1>2, <1>3, <1>4, <1>5 DEF WInv

LEMMA FailedFields ==
  ASSUME watch \in Turn, NEW code \in Codes, Failed(code)
  PROVE  watch' \in Turn /\ watch'.phase = "failed" /\ watch'.activeRaw = watch.activeRaw
<1>1. "failed" \in WatchPhases
  BY DEF WatchPhases
<1>2. watch.activeRaw \in Config
  BY DEF Turn
<1> QED BY <1>1, <1>2, IdleFields DEF Failed

LEMMA CodesListed ==
  {"config_validation_failed", "config_credentials_unavailable",
   "config_requires_restart", "config_provider_probe_failed",
   "config_changed_during_load"} \subseteq Codes
BY DEF Codes

\* What WInv says of the variables of the gateway.
LEMMA Typed ==
  ASSUME WInv
  PROVE  /\ watch \in Turn /\ view \in View /\ file \in File /\ file.c \in Config
         /\ watch.candidate \in Config /\ watch.activeRaw \in Config
         /\ watch.view \in View /\ watch.revision \in File
         /\ status \in [appliedRevision: File, errorCode: Codes]
         /\ nextProviderGeneration \in Nat
         /\ starts \in 0 .. MaxStarts /\ failures \in 0 .. MaxFailures
         /\ FileTypeOK
<1>1. TypeOK
  BY DEF WInv
<1>2. watch \in Turn /\ file \in File /\ FileTypeOK
  BY <1>1 DEF TypeOK, Turn, FileTypeOK
<1> QED BY <1>1, <1>2 DEF TypeOK, Turn, File

LEMMA FailsTyped ==
  ASSUME failures \in 0 .. MaxFailures, Fails
  PROVE  failures' \in 0 .. MaxFailures
BY ReloadAssumption DEF Fails

LEMMA LoadKeeps ==
  ASSUME WInv, Load
  PROVE  WInv'
<1> DEFINE t == [watch EXCEPT !.phase = "starting", !.candidate = file.c]
<1>1. /\ watch' = t /\ starts' = starts + 1 /\ starts < MaxStarts
      /\ UNCHANGED <<fileVars, view, status, nextProviderGeneration, published, failures>>
  BY DEF Load
<1>2. t \in Turn /\ t.phase = "starting"
  BY Typed DEF Turn, WatchPhases
<1> HIDE DEF t
<1>3. starts' \in 0 .. MaxStarts /\ nextProviderGeneration <= nextProviderGeneration'
  BY <1>1, Typed, CountsAssumption
<1> QED BY <1>1, <1>2, <1>3, Typed, WaitingKeeps

LEMMA StartFailsKeeps ==
  ASSUME WInv, StartFails
  PROVE  WInv'
<1>1. /\ watch' = NoTurn /\ failures' \in 0 .. MaxFailures
      /\ UNCHANGED <<fileVars, view, status, nextProviderGeneration, published, starts>>
  BY Typed, FailsTyped DEF StartFails
<1>2. nextProviderGeneration <= nextProviderGeneration'
  BY <1>1, Typed
<1> QED BY <1>1, <1>2, Typed, NoViewTyped, WaitingKeeps

LEMMA StopKeeps ==
  ASSUME WInv, Stop
  PROVE  WInv'
<1>1. /\ watch' = NoTurn /\ view' = NoView /\ nextProviderGeneration' = 0
      /\ published' = {} /\ UNCHANGED <<fileVars, status, starts, failures>>
  BY DEF Stop
<1>2. FileTypeOK'
  BY <1>1, Typed DEF FileTypeOK, fileVars
<1>3. TypeOK'
  <2>1. watch' \in Turn /\ view' \in View /\ nextProviderGeneration' \in Nat
    BY <1>1, NoViewTyped
  <2> QED BY <1>1, <1>2, <2>1, Typed DEF TypeOK, Turn
<1>4. TurnInv' /\ AppliedIsServed' /\ NumbersInv' /\ GenerationsIdentify'
  BY <1>1, NoViewTyped DEF TurnInv, AppliedIsServed, NumbersInv, GenerationsIdentify, Up
<1> QED BY <1>3, <1>4 DEF WInv

LEMMA PollKeeps ==
  ASSUME WInv, Poll
  PROVE  WInv'
<1> DEFINE t == [watch EXCEPT !.phase = "read", !.revision = file, !.candidate = file.c]
<1>1. /\ watch.phase = "idle" /\ Up
      /\ UNCHANGED <<fileVars, view, status, nextProviderGeneration, published, starts, failures>>
      /\ nextProviderGeneration <= nextProviderGeneration
  BY Typed DEF Poll, Up
<1>2. /\ t \in Turn /\ t.phase = "read" /\ t.candidate = file.c /\ t.revision = file
      /\ t.activeRaw = watch.activeRaw
  BY Typed DEF Turn, WatchPhases
<1> HIDE DEF t
<1>3. CASE watch' = t
  BY <1>1, <1>2, <1>3, Typed, WaitingKeeps
<1>4. CASE Failed("config_validation_failed")
  <2>1. watch' \in Turn /\ watch'.phase = "failed" /\ watch'.activeRaw = watch.activeRaw
    BY <1>4, Typed, FailedFields, CodesListed
  <2> QED BY <1>1, <2>1, Typed, WaitingKeeps
<1> QED BY <1>3, <1>4 DEF Poll, t

LEMMA ResolveKeeps ==
  ASSUME WInv, ResolveCredentials
  PROVE  WInv'
<1> DEFINE t == [watch EXCEPT !.phase = "resolved"]
<1>1. /\ watch.phase = "read" /\ Up /\ failures' \in 0 .. MaxFailures
      /\ UNCHANGED <<fileVars, view, status, nextProviderGeneration, published, starts>>
      /\ nextProviderGeneration <= nextProviderGeneration
  BY Typed, FailsTyped DEF ResolveCredentials, Up
<1>2. /\ t \in Turn /\ t.phase = "resolved" /\ t.candidate = watch.candidate
      /\ t.revision = watch.revision /\ t.activeRaw = watch.activeRaw
  BY Typed DEF Turn, WatchPhases
<1> HIDE DEF t
<1>3. CASE watch' = t
  <2>1. t.candidate = t.revision.c
    BY <1>1, <1>2 DEF WInv, TurnInv
  <2> QED BY <1>1, <1>2, <1>3, <2>1, Typed, WaitingKeeps
<1>4. ASSUME NEW code \in Codes, Failed(code) PROVE WInv'
  <2>1. watch' \in Turn /\ watch'.phase = "failed" /\ watch'.activeRaw = watch.activeRaw
    BY <1>4, Typed, FailedFields
  <2> QED BY <1>1, <2>1, Typed, WaitingKeeps
<1> QED BY <1>3, <1>4, CodesListed DEF ResolveCredentials, t

LEMMA KeepViewKeeps ==
  ASSUME WInv, KeepView
  PROVE  WInv'
<1>1. /\ watch.phase = "failed" /\ Up /\ watch' = Idle
      /\ status' = [status EXCEPT !.errorCode = watch.code]
      /\ UNCHANGED <<fileVars, view, nextProviderGeneration, published, starts, failures>>
      /\ nextProviderGeneration <= nextProviderGeneration
  BY Typed DEF KeepView, Up
<1>2. watch.code \in Codes
  BY Typed DEF Turn
<1>3. /\ status' \in [appliedRevision: File, errorCode: Codes]
      /\ status'.appliedRevision = status.appliedRevision
  BY <1>1, <1>2, Typed
<1>4. Idle \in Turn /\ Idle.phase = "idle" /\ Idle.activeRaw = watch.activeRaw
  <2>1. "idle" \in WatchPhases
    BY DEF WatchPhases
  <2> QED BY <1>2, <2>1, Typed, IdleFields
<1> QED BY <1>1, <1>3, <1>4, Typed, WaitingKeeps

\* A connection of a view is made of what the view says of its provider.
LEMMA ConnectionOf ==
  ASSUME NEW v, NEW a
  PROVE  a \in Connections(v) <=>
           \E p \in v.clients :
             a = [provider |-> p, generation |-> v.generation[p],
                  endpoint |-> v.c.endpoint[p], keys |-> v.c.keys[p]]
BY DEF Connections

LEMMA OpenHandlerKeeps ==
  ASSUME WInv, OpenHandler
  PROVE  WInv'
<1> DEFINE c == watch.candidate
           t == [Idle EXCEPT !.activeRaw = c]
<1>1. PICK up \in SUBSET Configured(c) \ {{}} :
        /\ failures' \in 0 .. MaxFailures
        /\ \E g \in NewGenerations(up) :
             view' = [c |-> c, clients |-> up,
                      generation |-> Generations(NoView.generation, g)]
        /\ nextProviderGeneration' = nextProviderGeneration + Cardinality(up)
  BY Typed, FailsTyped DEF OpenHandler
<1>2. PICK g \in NewGenerations(up) :
        view' = [c |-> c, clients |-> up,
                 generation |-> Generations(NoView.generation, g)]
  BY <1>1
<1>3. /\ watch' = t /\ published' = Connections(view')
      /\ status' = [appliedRevision |-> NoFile, errorCode |-> ""]
      /\ UNCHANGED <<fileVars, starts>>
  BY DEF OpenHandler
<1>4. up \subseteq Providers /\ c \in Config
  BY <1>1, Typed DEF Configured
<1>5. /\ Cardinality(up) \in Nat /\ g \in [up -> Nat]
      /\ \A p \in up : g[p] <= nextProviderGeneration + Cardinality(up)
      /\ \A p, q \in up : p # q => g[p] # g[q]
  BY <1>2, <1>4, Typed, NewNumbers
<1>6. NoView.generation \in [Providers -> Nat]
  BY NoViewTyped DEF View
<1>7. /\ Generations(NoView.generation, g) \in [Providers -> Nat]
      /\ \A p \in up : Generations(NoView.generation, g)[p] = g[p]
  BY <1>4, <1>5, <1>6, GenerationsTyped
<1>8. /\ view' \in View /\ view'.c = c /\ view'.clients = up
      /\ \A p \in up : view'.generation[p] = g[p]
  BY <1>2, <1>4, <1>7 DEF View
<1>9. t \in Turn /\ t.phase = "idle" /\ t.activeRaw = c
  <2>1. "idle" \in WatchPhases /\ "" \in Codes
    BY DEF WatchPhases, Codes
  <2> QED BY <2>1, <1>4, Typed, IdleFields
<1> HIDE DEF t, c
<1>10. PICK v : v = view'
  OBVIOUS
<1>11. \A a \in Connections(v) :
         \E p \in up : a = [provider |-> p, generation |-> g[p],
                            endpoint |-> v.c.endpoint[p], keys |-> v.c.keys[p]]
  BY <1>8, <1>10, ConnectionOf
<1>12. TypeOK'
  <2>1. FileTypeOK'
    BY <1>3, Typed DEF FileTypeOK, fileVars
  <2>2. status' \in [appliedRevision: File, errorCode: Codes]
    BY <1>3, NoViewTyped DEF Codes
  <2>3. nextProviderGeneration' \in Nat
    BY <1>1, <1>5, Typed
  <2>4. published' \subseteq [provider: Providers, generation: Nat,
                              endpoint: BOOLEAN, keys: SUBSET Refs]
    BY <1>3, <1>8, <1>10, ConnectionsTyped
  <2>5. starts' \in 0 .. MaxStarts /\ watch' \in Turn
    BY <1>3, <1>9, Typed
  <2> QED BY <1>1, <1>8, <2>1, <2>2, <2>3, <2>4, <2>5 DEF TypeOK, Turn
<1>13. TurnInv' /\ AppliedIsServed'
  BY <1>3, <1>8, <1>9 DEF TurnInv, AppliedIsServed, Up
<1>14. \A a \in Connections(v) : a.generation <= nextProviderGeneration'
  BY <1>1, <1>5, <1>11
<1>15. \A a, b \in Connections(v) : a.generation = b.generation => a = b
  <2> SUFFICES ASSUME NEW a \in Connections(v), NEW b \in Connections(v),
                      a.generation = b.generation
               PROVE  a = b
    OBVIOUS
  <2>1. PICK p \in up : a = [provider |-> p, generation |-> g[p],
                             endpoint |-> v.c.endpoint[p], keys |-> v.c.keys[p]]
    BY <1>11
  <2>2. PICK q \in up : b = [provider |-> q, generation |-> g[q],
                             endpoint |-> v.c.endpoint[q], keys |-> v.c.keys[q]]
    BY <1>11
  <2>3. g[p] = g[q]
    BY <2>1, <2>2
  <2>4. p = q
    BY <2>3, <1>5
  <2> QED BY <2>1, <2>2, <2>4
<1>16. NumbersInv' /\ GenerationsIdentify'
  <2>1. published' = Connections(v) /\ Connections(view)' = Connections(v)
    BY <1>3, <1>10 DEF Connections
  <2>2. watch'.phase = "idle"
    BY <1>3, <1>9
  <2> QED BY <1>14, <1>15, <2>1, <2>2 DEF NumbersInv, GenerationsIdentify
<1> QED BY <1>12, <1>13, <1>16 DEF WInv

\* Connections that did not change keep their record; the others get a
\* number above all that were published.
LEMMA PreparedNumbers ==
  ASSUME WInv, watch.phase = "resolved",
         NEW c \in Config, NEW g \in NewGenerations(Changed(c)), NEW v, v = ViewOf(c, g)
  PROVE  /\ v \in View /\ v.c = c
         /\ Cardinality(Changed(c)) \in Nat
         /\ \A a \in Connections(v) :
              \/ a \in published
              \/ /\ a.generation <= nextProviderGeneration + Cardinality(Changed(c))
                 /\ \A b \in published : b.generation < a.generation
         /\ \A a, b \in Connections(v) : a.generation = b.generation => a = b
<1> DEFINE up == Changed(c)
<1>1. up \subseteq Configured(c) /\ Configured(c) \subseteq Providers
  BY DEF Changed, Configured
<1>2. /\ Cardinality(up) \in Nat /\ g \in [up -> Nat]
      /\ \A p \in up : /\ nextProviderGeneration < g[p]
                       /\ g[p] <= nextProviderGeneration + Cardinality(up)
      /\ \A p, q \in up : p # q => g[p] # g[q]
  BY <1>1, Typed, NewNumbers
<1>3. view.generation \in [Providers -> Nat]
  BY Typed DEF View
<1>4. /\ Generations(view.generation, g) \in [Providers -> Nat]
      /\ \A p \in up : Generations(view.generation, g)[p] = g[p]
      /\ \A p \in Providers \ up : Generations(view.generation, g)[p] = view.generation[p]
  BY <1>1, <1>2, <1>3, GenerationsTyped
<1>5. /\ v \in View /\ v.c = c /\ v.clients = Configured(c)
      /\ \A p \in up : v.generation[p] = g[p]
      /\ \A p \in Providers \ up : v.generation[p] = view.generation[p]
  BY <1>1, <1>4 DEF View, ViewOf
<1>6. watch.activeRaw = view.c
  BY DEF WInv, TurnInv, Up
<1>7. \A p \in Configured(c) \ up :
        p \in view.clients /\ c.keys[p] = view.c.keys[p] /\ c.endpoint[p] = view.c.endpoint[p]
  BY <1>6 DEF Changed
<1>8. \A a \in published : a.generation <= nextProviderGeneration /\ a.generation \in Nat
  BY DEF WInv, NumbersInv, TypeOK
<1> DEFINE record(p) == [provider |-> p, generation |-> v.generation[p],
                         endpoint |-> v.c.endpoint[p], keys |-> v.c.keys[p]]
<1>9. \A a \in Connections(v) : \E p \in Configured(c) : a = record(p)
  BY <1>5, ConnectionOf
<1>10. \A p \in Configured(c) \ up : record(p) \in published
  <2> SUFFICES ASSUME NEW p \in Configured(c) \ up PROVE record(p) \in published
    OBVIOUS
  <2>1. record(p) = [provider |-> p, generation |-> view.generation[p],
                     endpoint |-> view.c.endpoint[p], keys |-> view.c.keys[p]]
    BY <1>1, <1>5, <1>7
  <2> HIDE DEF record
  <2>2. record(p) \in Connections(view)
    BY <1>7, <2>1, ConnectionOf
  <2> QED BY <2>2 DEF WInv, NumbersInv
<1>11. \A p \in up : record(p).generation = g[p]
  BY <1>5
<1>12. \A p \in up : \A b \in published : b.generation < record(p).generation
  BY <1>2, <1>8, <1>11, Typed
<1> HIDE DEF record, up
<1>13. ASSUME NEW a \in Connections(v)
       PROVE  \/ a \in published
              \/ /\ a.generation <= nextProviderGeneration + Cardinality(up)
                 /\ \A b \in published : b.generation < a.generation
  <2>1. PICK p \in Configured(c) : a = record(p)
    BY <1>9
  <2>2. CASE p \in up
    BY <1>2, <1>11, <1>12, <2>1, <2>2
  <2>3. CASE p \notin up
    BY <1>10, <2>1, <2>3
  <2> QED BY <2>2, <2>3
<1>14. ASSUME NEW a \in Connections(v), NEW b \in Connections(v),
              a.generation = b.generation
       PROVE  a = b
  <2>1. PICK p \in Configured(c) : a = record(p)
    BY <1>9
  <2>2. PICK q \in Configured(c) : b = record(q)
    BY <1>9
  <2>3. CASE p \in up /\ q \in up
    <3>1. g[p] = g[q]
      BY <1>11, <1>14, <2>1, <2>2, <2>3
    <3> QED BY <1>2, <2>1, <2>2, <2>3, <3>1
  <2>4. CASE p \notin up /\ q \notin up
    <3>1. a \in published /\ b \in published
      BY <1>10, <2>1, <2>2, <2>4
    <3> QED BY <1>14, <3>1 DEF WInv, GenerationsIdentify
  <2>5. ASSUME p \in up, q \notin up PROVE FALSE
    <3>1. b \in published /\ b.generation < a.generation
      BY <1>10, <1>12, <2>1, <2>2, <2>5
    <3>2. b.generation \in Nat
      BY <3>1, <1>8
    <3> QED BY <1>14, <3>1, <3>2
  <2>6. ASSUME p \notin up, q \in up PROVE FALSE
    <3>1. a \in published /\ a.generation < b.generation
      BY <1>10, <1>12, <2>1, <2>2, <2>6
    <3>2. a.generation \in Nat
      BY <3>1, <1>8
    <3> QED BY <1>14, <3>1, <3>2
  <2> QED BY <2>3, <2>4, <2>5, <2>6
<1> QED BY <1>2, <1>5, <1>13, <1>14 DEF up

\* A step to "prepared" or "checked" with a view whose numbers are in order.
LEMMA PreparingKeeps ==
  ASSUME WInv, UNCHANGED <<fileVars, view, status, published, starts>>,
         NEW t \in Turn, watch' = t, t.phase \in {"prepared", "checked"}, Up,
         t.activeRaw = watch.activeRaw,
         t.candidate = t.revision.c, t.view.c = t.candidate,
         nextProviderGeneration' \in Nat,
         nextProviderGeneration <= nextProviderGeneration',
         failures' \in 0 .. MaxFailures,
         \A a \in Connections(t.view) :
            \/ a \in published
            \/ /\ a.generation <= nextProviderGeneration'
               /\ \A b \in published : b.generation < a.generation,
         \A a, b \in Connections(t.view) : a.generation = b.generation => a = b
  PROVE  WInv'
<1>1. FileTypeOK'
  BY Typed DEF FileTypeOK, fileVars
<1>2. TypeOK'
  BY <1>1 DEF WInv, TypeOK, Turn
<1>3. TurnInv' /\ AppliedIsServed' /\ GenerationsIdentify'
  BY DEF WInv, TurnInv, AppliedIsServed, GenerationsIdentify, Up
<1>4. \A a \in published : a.generation <= nextProviderGeneration'
  <2>1. \A a \in published : a.generation <= nextProviderGeneration /\ a.generation \in Nat
    BY DEF WInv, NumbersInv, TypeOK
  <2> QED BY <2>1, Typed
<1>5. Connections(watch.view)' = Connections(t.view) /\ Connections(view)' = Connections(view)
  BY DEF Connections
<1>6. NumbersInv'
  BY <1>4, <1>5 DEF WInv, NumbersInv, Newer
<1> QED BY <1>2, <1>3, <1>6 DEF WInv

LEMMA PrepareKeeps ==
  ASSUME WInv, PrepareConfigView
  PROVE  WInv'
<1> DEFINE c == watch.candidate
<1>1. /\ watch.phase = "resolved" /\ Up /\ c \in Config
      /\ c = watch.revision.c /\ watch.activeRaw = view.c
      /\ failures' \in 0 .. MaxFailures
      /\ UNCHANGED <<fileVars, view, status, published, starts>>
  BY Typed, FailsTyped DEF PrepareConfigView, WInv, TurnInv, Up
<1>2. CASE /\ c = watch.activeRaw
           /\ watch' = [watch EXCEPT !.phase = "prepared", !.view = view]
           /\ UNCHANGED nextProviderGeneration
  <2> DEFINE t == [watch EXCEPT !.phase = "prepared", !.view = view]
  <2>1. /\ t \in Turn /\ t.phase = "prepared" /\ t.view = view
        /\ t.candidate = watch.candidate /\ t.revision = watch.revision
        /\ t.activeRaw = watch.activeRaw
    BY Typed DEF Turn, WatchPhases
  <2> HIDE DEF t
  <2>2. /\ \A a \in Connections(t.view) : a \in published
        /\ \A a, b \in Connections(t.view) : a.generation = b.generation => a = b
    BY <2>1 DEF WInv, NumbersInv, GenerationsIdentify
  <2>3. /\ nextProviderGeneration' \in Nat
        /\ nextProviderGeneration <= nextProviderGeneration'
    BY <1>2, Typed
  <2>4. watch' = t /\ t.candidate = t.revision.c /\ t.view.c = t.candidate
    BY <1>1, <1>2, <2>1 DEF t
  <2> QED BY <1>1, <2>1, <2>2, <2>3, <2>4, PreparingKeeps
<1>3. ASSUME NEW g \in NewGenerations(Changed(c)),
             watch' = [watch EXCEPT !.phase = "prepared", !.view = ViewOf(c, g)],
             nextProviderGeneration' = nextProviderGeneration + Cardinality(Changed(c))
      PROVE  WInv'
  <2>1. PICK v : v = ViewOf(c, g)
    OBVIOUS
  <2>2. /\ v \in View /\ v.c = c
        /\ Cardinality(Changed(c)) \in Nat
        /\ \A a \in Connections(v) :
             \/ a \in published
             \/ /\ a.generation <= nextProviderGeneration + Cardinality(Changed(c))
                /\ \A b \in published : b.generation < a.generation
        /\ \A a, b \in Connections(v) : a.generation = b.generation => a = b
    BY <1>1, <2>1, PreparedNumbers
  <2> DEFINE t == [watch EXCEPT !.phase = "prepared", !.view = v]
  <2>3. watch' = t
    BY <1>3, <2>1
  <2>4. /\ t \in Turn /\ t.phase = "prepared" /\ t.view = v
        /\ t.candidate = watch.candidate /\ t.revision = watch.revision
        /\ t.activeRaw = watch.activeRaw
    BY <2>2, Typed DEF Turn, WatchPhases
  <2> HIDE DEF t
  <2>5. /\ nextProviderGeneration' \in Nat
        /\ nextProviderGeneration <= nextProviderGeneration'
    BY <1>3, <2>2, Typed
  <2>6. \A a \in Connections(t.view) :
          \/ a \in published
          \/ /\ a.generation <= nextProviderGeneration'
             /\ \A b \in published : b.generation < a.generation
    BY <1>3, <2>2, <2>4
  <2> QED BY <1>1, <2>2, <2>3, <2>4, <2>5, <2>6, PreparingKeeps
<1>4. ASSUME NEW done \in 0 .. Cardinality(Changed(c)),
             nextProviderGeneration' = nextProviderGeneration + done,
             Failed("config_provider_probe_failed")
      PROVE  WInv'
  <2>1. Cardinality(Changed(c)) \in Nat
    <3>1. Changed(c) \subseteq Providers
      BY DEF Changed, Configured
    <3> QED BY <3>1, ProvidersAssumption, FS_Subset, FS_CardinalityType
  <2>2. /\ nextProviderGeneration' \in Nat
        /\ nextProviderGeneration <= nextProviderGeneration'
    BY <1>4, <2>1, Typed
  <2>3. watch' \in Turn /\ watch'.phase = "failed" /\ watch'.activeRaw = watch.activeRaw
    BY <1>4, Typed, FailedFields, CodesListed
  <2> QED BY <1>1, <2>2, <2>3, Typed, WaitingKeeps
<1> QED BY <1>2, <1>3, <1>4 DEF PrepareConfigView

LEMMA CheckRevisionKeeps ==
  ASSUME WInv, CheckRevision
  PROVE  WInv'
<1> DEFINE t == [watch EXCEPT !.phase = "checked"]
<1>1. /\ watch.phase = "prepared" /\ Up /\ failures' \in 0 .. MaxFailures
      /\ UNCHANGED <<fileVars, view, status, nextProviderGeneration, published, starts>>
      /\ nextProviderGeneration <= nextProviderGeneration
  BY Typed, FailsTyped DEF CheckRevision, Up
<1>2. /\ t \in Turn /\ t.phase = "checked" /\ t.candidate = watch.candidate
      /\ t.revision = watch.revision /\ t.activeRaw = watch.activeRaw /\ t.view = watch.view
  BY Typed DEF Turn, WatchPhases
<1> HIDE DEF t
<1>3. CASE watch' = t
  <2>1. t.candidate = t.revision.c /\ t.view.c = t.candidate
    BY <1>1, <1>2 DEF WInv, TurnInv
  <2>2. /\ \A a \in Connections(t.view) :
             \/ a \in published
             \/ /\ a.generation <= nextProviderGeneration'
                /\ \A b \in published : b.generation < a.generation
        /\ \A a, b \in Connections(t.view) : a.generation = b.generation => a = b
    BY <1>1, <1>2 DEF WInv, NumbersInv, Newer
  <2> QED BY <1>1, <1>2, <1>3, <2>1, <2>2, Typed, PreparingKeeps
<1>4. CASE Failed("config_changed_during_load")
  <2>1. watch' \in Turn /\ watch'.phase = "failed" /\ watch'.activeRaw = watch.activeRaw
    BY <1>4, Typed, FailedFields, CodesListed
  <2> QED BY <1>1, <2>1, Typed, WaitingKeeps
<1> QED BY <1>3, <1>4 DEF CheckRevision, t

LEMMA PublishKeeps ==
  ASSUME WInv, Publish
  PROVE  WInv'
<1> DEFINE c == watch.candidate
           t == [Idle EXCEPT !.activeRaw = c]
<1>1. /\ watch.phase = "checked" /\ view' = watch.view
      /\ published' = published \union Connections(watch.view)
      /\ status' = [appliedRevision |-> watch.revision, errorCode |-> ""]
      /\ watch' = t
      /\ UNCHANGED <<fileVars, nextProviderGeneration, starts, failures>>
  BY DEF Publish
<1>2. watch.view.c = c /\ c = watch.revision.c /\ c \in Config
  BY <1>1, Typed DEF WInv, TurnInv
<1>3. t \in Turn /\ t.phase = "idle" /\ t.activeRaw = c
  <2>1. "idle" \in WatchPhases /\ "" \in Codes
    BY DEF WatchPhases, Codes
  <2> QED BY <2>1, <1>2, Typed, IdleFields
<1> HIDE DEF t, c
<1>4. TypeOK'
  <2>1. FileTypeOK'
    BY <1>1, Typed DEF FileTypeOK, fileVars
  <2>2. status' \in [appliedRevision: File, errorCode: Codes]
    BY <1>1, Typed DEF Codes
  <2>3. published' \subseteq [provider: Providers, generation: Nat,
                              endpoint: BOOLEAN, keys: SUBSET Refs]
    BY <1>1, Typed, ConnectionsTyped DEF WInv, TypeOK
  <2>4. /\ watch' \in Turn /\ view' \in View /\ nextProviderGeneration' \in Nat
        /\ starts' \in 0 .. MaxStarts /\ failures' \in 0 .. MaxFailures
    BY <1>1, <1>3, Typed
  <2> QED BY <2>1, <2>2, <2>3, <2>4 DEF TypeOK, Turn
<1>5. TurnInv' /\ AppliedIsServed'
  BY <1>1, <1>2, <1>3 DEF TurnInv, AppliedIsServed
<1>6. /\ \A a \in Connections(watch.view) : a \in published \/ Newer(a)
      /\ \A a, b \in Connections(watch.view) : a.generation = b.generation => a = b
      /\ \A a \in published : a.generation <= nextProviderGeneration /\ a.generation \in Nat
  BY <1>1 DEF WInv, NumbersInv, TypeOK
<1>7. \A a \in published' : a.generation <= nextProviderGeneration'
  BY <1>1, <1>6 DEF Newer
<1>8. GenerationsIdentify'
  <2> SUFFICES ASSUME NEW a \in published', NEW b \in published',
                      a.generation = b.generation
               PROVE  a = b
    BY DEF GenerationsIdentify
  <2>1. CASE a \in published /\ b \in published
    BY <2>1 DEF WInv, GenerationsIdentify
  <2>2. CASE a \in Connections(watch.view) /\ b \in Connections(watch.view)
    BY <2>2, <1>6
  <2>3. ASSUME a \in published, Newer(b) PROVE FALSE
    <3>1. a.generation < b.generation /\ a.generation \in Nat
      BY <2>3, <1>6 DEF Newer
    <3> QED BY <3>1
  <2>4. ASSUME b \in published, Newer(a) PROVE FALSE
    <3>1. b.generation < a.generation /\ b.generation \in Nat
      BY <2>4, <1>6 DEF Newer
    <3> QED BY <3>1
  <2> QED BY <1>1, <1>6, <2>1, <2>2, <2>3, <2>4
<1>9. NumbersInv'
  <2>1. Connections(view)' = Connections(watch.view)
    BY <1>1 DEF Connections
  <2>2. watch'.phase = "idle"
    BY <1>1, <1>3
  <2> QED BY <1>1, <1>7, <2>1, <2>2 DEF NumbersInv
<1> QED BY <1>4, <1>5, <1>8, <1>9 DEF WInv

LEMMA WNextInv == WInv /\ [Next]_vars => WInv'
<1> SUFFICES ASSUME WInv, [Next]_vars PROVE WInv'
  OBVIOUS
<1>1. CASE FileNext /\ UNCHANGED serverVars
  BY <1>1, Typed, FileNextTyped, FileStepKeeps
<1>2. CASE UNCHANGED vars
  <2>1. FileTypeOK' /\ UNCHANGED serverVars
    BY <1>2, Typed DEF vars, fileVars, FileTypeOK
  <2> QED BY <2>1, FileStepKeeps
<1> QED
  BY <1>1, <1>2, LoadKeeps, StopKeeps, OpenHandlerKeeps, StartFailsKeeps, PollKeeps,
     ResolveKeeps, PrepareKeeps, CheckRevisionKeeps, PublishKeeps, KeepViewKeeps
  DEF Next, Watcher

-----------------------------------------------------------------------------
(* The theorems about the gateway.                                         *)

\* File, Keychain, commands and watcher keep their types.
THEOREM TypeCorrect == Spec => []TypeOK
<1>1. WInv => TypeOK
  BY DEF WInv
<1> QED BY WInitInv, WNextInv, <1>1, PTL DEF Spec

\* applicationStatus never names a revision that is not the served one,
\* whatever commands, editors, failures and restarts there are.
THEOREM ReportsWhatItServes == Spec => []AppliedIsServed
<1>1. WInv => AppliedIsServed
  BY DEF WInv
<1> QED BY WInitInv, WNextInv, <1>1, PTL DEF Spec

\* A generation never comes to mean another connection, so nothing that is
\* kept under it is found by a request with another credential.
THEOREM NumbersAreUnique == Spec => []GenerationsIdentify
<1>1. WInv => GenerationsIdentify
  BY DEF WInv
<1> QED BY WInitInv, WNextInv, <1>1, PTL DEF Spec

\* What the gateway serves, what it reports and the numbers of its connections
\* agree at every step of the watcher, whatever happens to the file meanwhile.
THEOREM ViewsSound == Spec => []ViewsConsistent
<1>1. WInv => ViewsConsistent
  BY DEF WInv, ViewsConsistent
<1> QED BY WInitInv, WNextInv, <1>1, PTL DEF Spec

\* Beside a running gateway the file is changed by its commands and editors
\* only, so what is proved of them holds here: a gateway that starts or
\* reloads finds every secret that the file names, unless a raced command has
\* put it back.
THEOREM GatewayFindsSecrets == Spec => []NoDanglingReference
<1>1. Init => IInv
  BY InitInv DEF Init, FileInit
<1>2. IInv /\ [Next]_vars => IInv'
  <2>1. [Next]_vars => [FileNext]_fileVars
    BY DEF Next, Watcher, vars, Load, Stop, OpenHandler, StartFails, Poll,
           ResolveCredentials, PrepareConfigView, CheckRevision, Publish, KeepView
  <2> QED BY <2>1, NextInv
<1>3. IInv => NoDanglingReference
  BY DEF IInv, FileInv, NoDanglingReference
<1> QED BY <1>1, <1>2, <1>3, PTL DEF Spec
=============================================================================
