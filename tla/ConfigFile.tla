---------------------------- MODULE ConfigFile ----------------------------
(***************************************************************************)
(* The configuration file, the macOS Keychain and the commands that change *)
(* them: cmd/tidemux/config_mutation.go and its callers.  Each command is  *)
(* a process of its own; there is no lock.  A command reads the file,      *)
(* reads it again through LoadConfig, may wait at a prompt, stores new     *)
(* secrets under fresh references, compares the file with its first read,  *)
(* renames a new file over it, and deletes the secrets it stopped using.   *)
(* It may be killed between any two steps.                                 *)
(*                                                                         *)
(* A configuration is reduced to the references it holds, a flag for the   *)
(* endpoint of each provider, and one flag for each class of settings:     *)
(* policy (prices, scopes, routing, chains, budgets), settings (listener,  *)
(* concurrency, idle timeout) and schedule (daily reports).                *)
(***************************************************************************)
EXTENDS Naturals, FiniteSets

CONSTANTS
  Providers,    \* names of provider profiles
  Commands,     \* runs of the CLI, each made once
  MaxRefs,      \* bound: Keychain references 1..MaxRefs can be generated
  MaxEdits,     \* bound: saves of the file by an editor
  MaxStarts,    \* bound: starts of a gateway (ConfigReload)
  Shapes        \* first states to check: how many references the file holds
                \* (0 is no file), how many were generated to get there,
                \* the commands that run, and how many saves by an editor
                \* and starts of a gateway are still to come

ASSUME CountsAssumption ==
  /\ MaxRefs \in Nat
  /\ MaxEdits \in Nat
  /\ MaxStarts \in Nat

ASSUME ShapesAssumption ==
  \A s \in Shapes :
    /\ s.refs \in (0 .. MaxRefs) \ {1}
    /\ s.issued \in s.refs .. MaxRefs
    /\ s.edits \in 0 .. MaxEdits
    /\ s.starts \in 0 .. MaxStarts

ASSUME ProvidersAssumption == IsFiniteSet(Providers)

VARIABLES
  file,      \* what is at the path of the configuration
  keychain,  \* references that have an item
  issued,    \* references generated so far are 1..issued
  cmd,       \* the state of each command
  left,      \* items no command will delete: a Keychain call failed, or
             \* they are gateway keys, which are never deleted
  edits,     \* saves by an editor so far
  raced,     \* history: the commands that somebody's rename fell in a
             \* window of, see Windows
  lost       \* history: references that a rename of a raced command put
             \* back into the file or took out of it unawares

fileVars == <<file, keychain, issued, cmd, left, edits, raced, lost>>
history == <<raced, lost>>

-----------------------------------------------------------------------------
(* Data.  Reference 0 is the empty reference.                              *)

Refs == 1 .. MaxRefs

Config == [gateway: 0 .. MaxRefs, keys: [Providers -> SUBSET Refs],
           endpoint: [Providers -> BOOLEAN],
           policy: BOOLEAN, settings: BOOLEAN, schedule: BOOLEAN]

EmptyConfig == [gateway |-> 0, keys |-> [p \in Providers |-> {}],
                endpoint |-> [p \in Providers |-> FALSE],
                policy |-> FALSE, settings |-> FALSE, schedule |-> FALSE]

\* A broken file is a valid one with an error typed into it.
File == [state: {"absent", "ok", "broken"}, c: Config]

NoFile == [state |-> "absent", c |-> EmptyConfig]

Saved(c) == [state |-> "ok", c |-> c]

ProviderKeys(c) == UNION {c.keys[p] : p \in Providers}

References(c) == ProviderKeys(c) \union ({c.gateway} \ {0})

\* The part of Config.Validate that a command can run into: the gateway
\* credential is required.
Valid(c) == c.gateway # 0

Phases == {"start", "read", "loaded", "report", "store", "write", "install",
           "cleanup", "rollback", "over", "dead"}

Running(m) == cmd[m].phase \notin {"start", "over", "dead"}

\* todo are references to be stored, new the stored ones, gone the ones to
\* be deleted.
Command == [phase: Phases, data: File, c: Config,
            todo: SUBSET Refs, new: SUBSET Refs, gone: SUBSET Refs]

\* A command that will not write does not need what it read any more.
Leave(s, phase) ==
  [s EXCEPT !.phase = phase, !.data = NoFile, !.c = EmptyConfig]

\* The phases in which nothing tells a command that the file changes under
\* it: between its two reads, and between the comparison (of a report
\* command, the second read) and the rename.
Windows == {"read", "install"}

-----------------------------------------------------------------------------
(* Reading.  loadCommandConfig reads the bytes it will compare with, and   *)
(* then LoadConfig reads the file again.  A missing file is an empty       *)
(* configuration.  Commands that change the report schedule only load.     *)

ReadFile(m) ==
  /\ cmd[m].phase = "start"
  /\ cmd' = [cmd EXCEPT ![m].phase = "read", ![m].data = file]
  /\ UNCHANGED <<file, keychain, issued, left, edits, history>>

LoadFile(m) ==
  /\ cmd[m].phase = "read"
  /\ cmd' = [cmd EXCEPT ![m] =
       CASE @.data = NoFile -> [@ EXCEPT !.phase = "loaded"]
         [] @.data # NoFile /\ file.state = "ok" ->
              [@ EXCEPT !.phase = "loaded", !.c = file.c]
         [] OTHER -> Leave(@, "over")]
  /\ UNCHANGED <<file, keychain, issued, left, edits, history>>

LoadForReport(m) ==
  /\ cmd[m].phase = "start"
  /\ file.state = "ok"
  /\ cmd' = [cmd EXCEPT ![m].phase = "report"]
  /\ UNCHANGED <<file, keychain, issued, left, edits, history>>

\* Every early return: arguments, prompts, failed lookups and probes.
Refuse(m) ==
  /\ cmd[m].phase \in {"loaded", "report"}
  /\ cmd' = [cmd EXCEPT ![m] = Leave(@, "over")]
  /\ UNCHANGED <<file, keychain, issued, left, edits, history>>

-----------------------------------------------------------------------------
(* What each command makes of the configuration it loaded.                 *)

\* The command will write c, after storing fresh, and then delete old.
Plan(m, c, fresh, old) ==
  /\ cmd' = [cmd EXCEPT ![m].phase = IF fresh = {} THEN "write" ELSE "store",
                        ![m].c = c, ![m].todo = fresh, ![m].gone = old]
  /\ issued' = issued + Cardinality(fresh)
  /\ UNCHANGED <<file, keychain, left, edits, history>>

\* newKeychainReference: a random name that was never used before.
Fresh(n) == (issued + 1) .. (issued + n)
CanIssue(n) == issued + n <= MaxRefs

\* Commands that change neither references nor process-wide settings.
EditPolicy(m) ==
  /\ cmd[m].phase = "loaded"
  /\ Plan(m, [cmd[m].c EXCEPT !.policy = ~@], {}, {})

EditProvider(m, p) == cmd[m].c.keys[p] # {} /\ EditPolicy(m)

SetRouting(m) == EditPolicy(m)
SetAutoChain(m) == EditPolicy(m)
SetPrice(m, p) == EditProvider(m, p)
RemovePrice(m, p) == EditProvider(m, p)
SetBudget(m, p) == EditProvider(m, p)
SetErrorMap(m, p) == EditProvider(m, p)
SetModels(m, p) == EditProvider(m, p)
SelectModels(m, p) ==
  /\ cmd[m].c.keys[p] \intersect keychain # {}
  /\ EditProvider(m, p)

\* provider update without a new key: the endpoint is probed with the first
\* key of the provider.
UpdateEndpoint(m, p) ==
  LET c == cmd[m].c IN
  /\ cmd[m].phase = "loaded"
  /\ c.keys[p] \intersect keychain # {}
  /\ Plan(m, [c EXCEPT !.endpoint[p] = ~@], {}, {})

EditSettings(m) ==
  /\ cmd[m].phase = "loaded"
  /\ Plan(m, [cmd[m].c EXCEPT !.settings = ~@], {}, {})

AppendProviderKey(m, p) ==
  LET c == cmd[m].c IN
  /\ cmd[m].phase = "loaded"
  /\ c.keys[p] # {}
  /\ c.gateway \in keychain
  /\ c.keys[p] \subseteq keychain
  /\ CanIssue(1)
  /\ Plan(m, [c EXCEPT !.keys[p] = @ \union Fresh(1)], Fresh(1), {})

RemoveProviderKey(m, p, k) ==
  LET c == cmd[m].c IN
  /\ cmd[m].phase = "loaded"
  /\ k \in c.keys[p]
  /\ c.keys[p] # {k}
  /\ k \in keychain
  /\ Plan(m, [c EXCEPT !.keys[p] = @ \ {k}], {}, {k})

RotateProviderKey(m, p) ==
  LET c == cmd[m].c IN
  /\ cmd[m].phase = "loaded"
  /\ \E k \in Refs : c.keys[p] = {k}
  /\ c.gateway \in keychain
  /\ CanIssue(1)
  /\ Plan(m, [c EXCEPT !.keys[p] = Fresh(1)], Fresh(1), c.keys[p])

\* provider add: the new profile gets a name of its own.
NewProvider(c) == {p \in Providers : c.keys[p] = {}}

\* The first provider brings the gateway credential with it.
AddProvider(m, p) ==
  LET c == cmd[m].c IN
  /\ cmd[m].phase = "loaded"
  /\ p \in NewProvider(c)
  /\ \/ /\ c.gateway \in keychain
        /\ CanIssue(1)
        /\ Plan(m, [c EXCEPT !.keys[p] = Fresh(1)], Fresh(1), {})
     \/ /\ c.gateway = 0
        /\ CanIssue(2)
        /\ Plan(m, [c EXCEPT !.keys[p] = {issued + 1}, !.gateway = issued + 2],
                Fresh(2), {})

RemoveProvider(m, p) ==
  LET c == cmd[m].c IN
  /\ cmd[m].phase = "loaded"
  /\ c.keys[p] # {}
  /\ Plan(m, [c EXCEPT !.keys[p] = {}, !.endpoint[p] = FALSE], {}, c.keys[p])

RotateGatewayKey(m) ==
  LET c == cmd[m].c IN
  /\ cmd[m].phase = "loaded"
  /\ ProviderKeys(c) \subseteq keychain
  /\ CanIssue(1)
  /\ Plan(m, [c EXCEPT !.gateway = issued + 1], Fresh(1), {})

\* replaceReportScheduleConfig reads the file again and keeps every other
\* field; it renames without comparing.
EditSchedule(m) ==
  /\ cmd[m].phase = "report"
  /\ file.state = "ok"
  /\ cmd' = [cmd EXCEPT ![m].phase = "install",
                        ![m].c = [file.c EXCEPT !.schedule = ~@]]
  /\ UNCHANGED <<file, keychain, issued, left, edits, history>>

-----------------------------------------------------------------------------
(* Storing secrets.  StoreNew adds the item and looks it up; its callers   *)
(* look it up once more.                                                   *)

Upcoming(m, r) == r \in cmd[m].todo /\ \A s \in cmd[m].todo : r <= s

\* Wrong variant: nothing is deleted.
RolledBackNothing(s) ==
  [Leave(s, "over") EXCEPT !.todo = {}, !.new = {}]

\* Start deleting what this command has stored.
RolledBack(s) ==
  [Leave(s, IF s.new = {} THEN "over" ELSE "rollback")
     EXCEPT !.todo = {}, !.new = {}, !.gone = s.new]

StoreNew(m, r) ==
  /\ cmd[m].phase = "store"
  /\ Upcoming(m, r)
  /\ keychain' = keychain \union {r}
  /\ cmd' = [cmd EXCEPT
       ![m].phase = IF cmd[m].todo = {r} THEN "write" ELSE "store",
       ![m].todo = @ \ {r}, ![m].new = @ \union {r}]
  /\ UNCHANGED <<file, issued, left, edits, history>>

\* StoreNew returns an error.  If that is because its own lookup failed, the
\* item exists, and no caller deletes it.
StoreNewFails(m, r) ==
  /\ cmd[m].phase = "store"
  /\ Upcoming(m, r)
  /\ \/ UNCHANGED <<keychain, left>>
     \/ /\ keychain' = keychain \union {r}
        /\ left' = left \union {r}
  /\ cmd' = [cmd EXCEPT ![m] = RolledBack(@)]
  /\ UNCHANGED <<file, issued, edits, history>>

\* StoreNew succeeds and the caller's own lookup does not.
ReadBackFails(m, r) ==
  /\ cmd[m].phase = "store"
  /\ Upcoming(m, r)
  /\ keychain' = keychain \union {r}
  /\ cmd' = [cmd EXCEPT
       ![m] = RolledBack([cmd[m] EXCEPT !.new = @ \union {r}])]
  /\ UNCHANGED <<file, issued, left, edits, history>>

-----------------------------------------------------------------------------
(* Writing: writeCommandConfig.                                            *)

\* Wrong variant: the file is not compared with the first read.
CompareFileBlind(m) ==
  /\ cmd[m].phase = "write"
  /\ Valid(cmd[m].c)
  /\ cmd' = [cmd EXCEPT ![m].phase = "install"]
  /\ UNCHANGED <<file, keychain, issued, left, edits, history>>

CompareFile(m) ==
  /\ cmd[m].phase = "write"
  /\ Valid(cmd[m].c)
  /\ file = cmd[m].data
  /\ cmd' = [cmd EXCEPT ![m].phase = "install"]
  /\ UNCHANGED <<file, keychain, issued, left, edits, history>>

\* The configuration is invalid, the file has changed, or the disk fails.
WriteFails(m) ==
  /\ cmd[m].phase \in {"write", "install"}
  /\ cmd' = [cmd EXCEPT ![m] = RolledBack(@)]
  /\ UNCHANGED <<file, keychain, issued, left, edits, history>>

\* deleteUnreferencedProviderKeys looks for other uses of the references in
\* the configuration that was just written.
Unreferenced(c, references) == references \ References(c)

\* References that the rename of m brings into the file although it has not
\* made them, and those it takes out without meaning to.
PutBack(m) == References(cmd[m].c) \ (References(file.c) \union cmd[m].new)
Dropped(m) == References(file.c) \ (References(cmd[m].c) \union cmd[m].gone)

Install(m) ==
  LET c == cmd[m].c
      stale == Unreferenced(c, cmd[m].gone) IN
  /\ cmd[m].phase = "install"
  /\ file' = Saved(c)
  /\ cmd' = [cmd EXCEPT ![m] =
       [Leave(@, IF stale = {} THEN "over" ELSE "cleanup")
          EXCEPT !.new = {}, !.gone = stale]]
  /\ left' = left \union ({file.c.gateway} \ {0, c.gateway})
  /\ raced' = (raced \ {m}) \union
                {n \in Commands \ {m} : cmd[n].phase \in Windows}
  /\ lost' = IF m \in raced THEN lost \union PutBack(m) \union Dropped(m)
             ELSE lost
  /\ UNCHANGED <<keychain, issued, edits>>

\* One Delete of a cleanup or a rollback; an error does not stop the loop.
Delete(m, r) ==
  /\ cmd[m].phase \in {"cleanup", "rollback"}
  /\ r \in cmd[m].gone
  /\ \/ keychain' = keychain \ {r} /\ UNCHANGED left
     \/ left' = left \union {r} /\ UNCHANGED keychain
  /\ cmd' = [cmd EXCEPT ![m].phase = IF cmd[m].gone = {r} THEN "over" ELSE @,
                        ![m].gone = @ \ {r}]
  /\ UNCHANGED <<file, issued, edits, history>>

-----------------------------------------------------------------------------
(* The environment: a command is killed, or the operator saves the file    *)
(* from an editor, with or without an error in it.                         *)

Kill(m) ==
  /\ Running(m)
  /\ cmd' = [cmd EXCEPT ![m] = Leave(@, "dead")]
  /\ \/ UNCHANGED keychain
     \/ /\ cmd[m].phase = "store"       \* inside StoreNew
        /\ \E r \in Refs : Upcoming(m, r) /\ keychain' = keychain \union {r}
  /\ UNCHANGED <<file, issued, left, edits, history>>

EditByHand ==
  /\ edits < MaxEdits
  /\ file.state # "absent"
  /\ edits' = edits + 1
  /\ \/ file' = [file EXCEPT !.c.policy = ~@]
     \/ file' = [file EXCEPT !.c.settings = ~@]
     \/ file' = [file EXCEPT !.state = IF @ = "ok" THEN "broken" ELSE "ok"]
  /\ UNCHANGED <<keychain, issued, cmd, left, history>>

-----------------------------------------------------------------------------

\* The first file: none, or one made earlier with n references, in which
\* every provider has key 1 and one of them may have others.
FirstFile(n, q) ==
  IF n = 0 THEN NoFile
  ELSE Saved([EmptyConfig EXCEPT
                !.gateway = n,
                !.keys = [p \in Providers |->
                            IF p = q THEN 1 .. (n - 1) ELSE {1}]])

FileStart(s) ==
  /\ \E q \in Providers : file = FirstFile(s.refs, q)
  /\ keychain = References(file.c)
  /\ issued = s.issued
  /\ cmd = [m \in Commands |->
              [phase |-> IF m \in s.commands THEN "start" ELSE "over",
               data |-> NoFile, c |-> EmptyConfig,
               todo |-> {}, new |-> {}, gone |-> {}]]
  /\ left = {}
  /\ edits = MaxEdits - s.edits
  /\ raced = {}
  /\ lost = {}

FileInit == \E s \in Shapes : FileStart(s)

Change(m) ==
  \/ SetRouting(m)
  \/ SetAutoChain(m)
  \/ EditSettings(m)
  \/ RotateGatewayKey(m)
  \/ EditSchedule(m)
  \/ \E p \in Providers :
       \/ SetPrice(m, p) \/ RemovePrice(m, p) \/ SetBudget(m, p)
       \/ SetErrorMap(m, p) \/ SetModels(m, p) \/ SelectModels(m, p)
       \/ UpdateEndpoint(m, p)
       \/ AppendProviderKey(m, p)
       \/ RotateProviderKey(m, p)
       \/ AddProvider(m, p)
       \/ RemoveProvider(m, p)
       \/ \E k \in Refs : RemoveProviderKey(m, p, k)

Step(m) ==
  \/ ReadFile(m) \/ LoadFile(m) \/ LoadForReport(m) \/ Refuse(m)
  \/ Change(m)
  \/ CompareFile(m) \/ WriteFails(m) \/ Install(m)
  \/ \E r \in Refs : \/ StoreNew(m, r) \/ StoreNewFails(m, r)
                     \/ ReadBackFails(m, r) \/ Delete(m, r)
  \/ Kill(m)

FileNext == EditByHand \/ \E m \in Commands : Step(m)

FileSpec == FileInit /\ [][FileNext]_fileVars

-----------------------------------------------------------------------------
(* Properties.                                                             *)

FileTypeOK ==
  /\ file \in File
  /\ keychain \subseteq Refs
  /\ issued \in 0 .. MaxRefs
  /\ cmd \in [Commands -> Command]
  /\ left \subseteq Refs
  /\ edits \in 0 .. MaxEdits
  /\ raced \subseteq Commands
  /\ lost \subseteq Refs

\* Whatever commands run together and wherever they are killed, a reference
\* in the file has its Keychain item, so that a gateway can be started from
\* the file: secrets are stored before the file names them and deleted after
\* it has stopped naming them, and a command that works on outdated contents
\* is turned away by the comparison in writeCommandConfig.  The exceptions
\* are the references that a rename put back after another rename had fallen
\* between the two reads of its command, or between its comparison and
\* itself: loadCommandConfig and writeCommandConfig take no lock.
NoDanglingReference == References(file.c) \subseteq keychain \union lost

\* No secret is left behind in silence: every Keychain item is named by the
\* file, or some command still has to delete it or was killed before it
\* could, or a Keychain call has reported an error, or it is a former
\* gateway key, or such a rename has taken it out of the file unawares.
SecretsAccounted ==
  \A r \in keychain \ (References(file.c) \union left \union lost) :
    \E m \in Commands :
      /\ cmd[m].phase # "over"
      /\ r \in cmd[m].todo \union cmd[m].new \union cmd[m].gone
=============================================================================
