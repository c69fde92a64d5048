--------------------------- MODULE ConfigReload ---------------------------
(***************************************************************************)
(* The gateway process as a reader of the configuration: its start         *)
(* (serveCommand, NewHandlerWithLogger) and the watcher goroutine of       *)
(* internal/gateway/config_reload.go, beside the commands of ConfigFile.   *)
(*                                                                         *)
(* Once a second the watcher reads the file, resolves its credentials,     *)
(* rejects changes that need a restart, prepares a complete view, reads    *)
(* the file again and, if it is still the same, publishes the view.  Each  *)
(* of these takes time in which commands and editors go on.  A revision is *)
(* the hash of the file, so it is represented by the file itself.          *)
(***************************************************************************)
EXTENDS ConfigFile

CONSTANT
  MaxFailures   \* bound: failed probes, lookups and timeouts

ASSUME ReloadAssumption == MaxFailures \in Nat

VARIABLES
  watch,      \* the goroutine: its phase and its local variables
  view,       \* configReload.active and what it was prepared from
  status,     \* appliedRevision and errorCode
  nextProviderGeneration,
  published,  \* history: the connections of every view of this process
  starts, failures

serverVars ==
  <<watch, view, status, nextProviderGeneration, published, starts, failures>>

vars == <<fileVars, serverVars>>

-----------------------------------------------------------------------------
(* Data.                                                                   *)

WatchPhases == {"down", "starting", "idle", "read", "resolved", "prepared",
                "checked", "failed"}

Codes == {"", "config_validation_failed", "config_credentials_unavailable",
          "config_requires_restart", "config_provider_probe_failed",
          "config_changed_during_load"}

\* c is the configuration the view was built from; clients are the providers
\* that have a connection, generation their numbers.
View == [c: Config, clients: SUBSET Providers, generation: [Providers -> Nat]]

NoView == [c |-> EmptyConfig, clients |-> {},
           generation |-> [p \in Providers |-> 0]]

Configured(c) == {p \in Providers : c.keys[p] # {}}

\* runtimeSettings keeps what only a restart changes, which includes the
\* report schedule and the gateway credential.
RuntimeSettings(c) == <<c.gateway, c.settings, c.schedule>>

Connections(v) ==
  {[provider |-> p, generation |-> v.generation[p],
    endpoint |-> v.c.endpoint[p], keys |-> v.c.keys[p]] : p \in v.clients}

\* Every turn of the watcher's loop has its own local variables.
NoTurn == [phase |-> "down", revision |-> NoFile, candidate |-> EmptyConfig,
           activeRaw |-> EmptyConfig, view |-> NoView, code |-> ""]

Idle == [NoTurn EXCEPT !.phase = "idle", !.activeRaw = watch.activeRaw]

Fails == failures < MaxFailures /\ failures' = failures + 1

-----------------------------------------------------------------------------
(* Start and end of the process.                                           *)

Load ==
  /\ watch.phase = "down"
  /\ starts < MaxStarts
  /\ file.state = "ok"
  /\ starts' = starts + 1
  /\ watch' = [watch EXCEPT !.phase = "starting", !.candidate = file.c]
  /\ UNCHANGED <<fileVars, view, status, nextProviderGeneration, published,
                 failures>>

\* The new generations of a set of connections: the map is iterated in any
\* order and each gets the next number.
NewGenerations(changed) ==
  {g \in [changed -> (nextProviderGeneration + 1) ..
                       (nextProviderGeneration + Cardinality(changed))] :
     \A p, q \in changed : p # q => g[p] # g[q]}

\* Wrong variant: reused connections lose their number.
GenerationsNewOnly(old, new) == new

Generations(old, new) ==
  [p \in Providers |-> IF p \in DOMAIN new THEN new[p] ELSE old[p]]

\* A provider whose protocol cannot be resolved is left without a client;
\* one of them has to be resolved.
OpenHandler ==
  LET c == watch.candidate IN
  /\ watch.phase = "starting"
  /\ References(c) \subseteq keychain
  /\ \E up \in SUBSET Configured(c) \ {{}} :
       /\ IF up = Configured(c) THEN UNCHANGED failures ELSE Fails
       /\ \E g \in NewGenerations(up) :
            view' = [c |-> c, clients |-> up,
                     generation |-> Generations(NoView.generation, g)]
       /\ nextProviderGeneration' = nextProviderGeneration + Cardinality(up)
  /\ published' = Connections(view')
  /\ watch' = [Idle EXCEPT !.activeRaw = c]
  /\ status' = [appliedRevision |-> NoFile, errorCode |-> ""]
  /\ UNCHANGED <<fileVars, starts>>

StartFails ==
  /\ watch.phase = "starting"
  /\ \/ /\ \/ ~(References(watch.candidate) \subseteq keychain)
           \/ Configured(watch.candidate) = {}
        /\ UNCHANGED failures
     \/ Fails          \* the Keychain is locked or no provider answers
  /\ watch' = NoTurn
  /\ UNCHANGED <<fileVars, view, status, nextProviderGeneration, published,
                 starts>>

\* The process ends, orderly or not.
Stop ==
  /\ watch.phase # "down"
  /\ watch' = NoTurn
  /\ view' = NoView
  /\ nextProviderGeneration' = 0
  /\ published' = {}
  /\ UNCHANGED <<fileVars, status, starts, failures>>

-----------------------------------------------------------------------------
(* One turn of the watcher.                                                *)

\* Wrong variant: a failed candidate is remembered as the active one.
FailedAdopting(code) ==
  watch' = [Idle EXCEPT !.phase = "failed", !.code = code,
                        !.activeRaw = watch.candidate]

Failed(code) == watch' = [Idle EXCEPT !.phase = "failed", !.code = code]

Poll ==
  /\ watch.phase = "idle"
  /\ IF file.state = "ok"
     THEN watch' = [watch EXCEPT !.phase = "read", !.revision = file,
                                 !.candidate = file.c]
     ELSE Failed("config_validation_failed")
  /\ UNCHANGED <<fileVars, view, status, nextProviderGeneration, published,
                 starts, failures>>

ResolveCredentials ==
  /\ watch.phase = "read"
  /\ \/ /\ References(watch.candidate) \subseteq keychain
        /\ IF RuntimeSettings(watch.candidate) = RuntimeSettings(watch.activeRaw)
           THEN watch' = [watch EXCEPT !.phase = "resolved"]
           ELSE Failed("config_requires_restart")
        /\ UNCHANGED failures
     \/ /\ ~(References(watch.candidate) \subseteq keychain)
        /\ Failed("config_credentials_unavailable")
        /\ UNCHANGED failures
     \/ /\ Fails                          \* the Keychain is locked
        /\ Failed("config_credentials_unavailable")
  /\ UNCHANGED <<fileVars, view, status, nextProviderGeneration, published,
                 starts>>

\* Wrong variant: new keys at the same endpoint go unnoticed.
ChangedEndpoint(c) ==
  {p \in Configured(c) :
     \/ c.endpoint[p] # watch.activeRaw.endpoint[p]
     \/ p \notin view.clients}

\* Connections that differ from the last view, or that it does not have.
Changed(c) ==
  {p \in Configured(c) :
     \/ c.keys[p] # watch.activeRaw.keys[p]
     \/ c.endpoint[p] # watch.activeRaw.endpoint[p]
     \/ p \notin view.clients}

\* The new view: connections that stay keep their number.
ViewOf(c, new) == [c |-> c, clients |-> Configured(c),
                   generation |-> Generations(view.generation, new)]

PrepareConfigView ==
  LET c == watch.candidate
      changed == Changed(c)
      unchanged == c = watch.activeRaw IN
  /\ watch.phase = "resolved"
  /\ \/ /\ unchanged                      \* no view is needed
        /\ watch' = [watch EXCEPT !.phase = "prepared", !.view = view]
        /\ UNCHANGED <<nextProviderGeneration, failures>>
     \/ /\ ~unchanged
        /\ \E g \in NewGenerations(changed) :
             watch' = [watch EXCEPT !.phase = "prepared",
                                    !.view = ViewOf(c, g)]
        /\ nextProviderGeneration' =
             nextProviderGeneration + Cardinality(changed)
        /\ UNCHANGED failures
     \/ /\ ~unchanged                     \* after done probes, it fails
        /\ Fails
        /\ \E done \in 0 .. Cardinality(changed) :
             nextProviderGeneration' = nextProviderGeneration + done
        /\ Failed("config_provider_probe_failed")
  /\ UNCHANGED <<fileVars, view, status, published, starts>>

CheckRevision ==
  /\ watch.phase = "prepared"
  /\ \/ /\ file = watch.revision
        /\ watch' = [watch EXCEPT !.phase = "checked"]
        /\ UNCHANGED failures
     \/ /\ file # watch.revision
        /\ Failed("config_changed_during_load")
        /\ UNCHANGED failures
     \/ /\ Fails                          \* ten seconds have passed
        /\ Failed("config_changed_during_load")
  /\ UNCHANGED <<fileVars, view, status, nextProviderGeneration, published,
                 starts>>

\* Wrong variant: a turn that finds nothing new leaves the status alone.
PublishIfNew ==
  /\ watch.phase = "checked"
  /\ view' = watch.view
  /\ published' = published \union Connections(watch.view)
  /\ status' = IF watch.view = view THEN status
               ELSE [appliedRevision |-> watch.revision, errorCode |-> ""]
  /\ watch' = [Idle EXCEPT !.activeRaw = watch.candidate]
  /\ UNCHANGED <<fileVars, nextProviderGeneration, starts, failures>>

Publish ==
  /\ watch.phase = "checked"
  /\ view' = watch.view
  /\ published' = published \union Connections(watch.view)
  /\ status' = [appliedRevision |-> watch.revision, errorCode |-> ""]
  /\ watch' = [Idle EXCEPT !.activeRaw = watch.candidate]
  /\ UNCHANGED <<fileVars, nextProviderGeneration, starts, failures>>

KeepView ==
  /\ watch.phase = "failed"
  /\ status' = [status EXCEPT !.errorCode = watch.code]
  /\ watch' = Idle
  /\ UNCHANGED <<fileVars, view, nextProviderGeneration, published, starts,
                 failures>>

-----------------------------------------------------------------------------

Init ==
  /\ \E s \in Shapes : FileStart(s) /\ starts = MaxStarts - s.starts
  /\ watch = NoTurn
  /\ view = NoView
  /\ status = [appliedRevision |-> NoFile, errorCode |-> ""]
  /\ nextProviderGeneration = 0
  /\ published = {}
  /\ failures = 0

Watcher ==
  \/ OpenHandler \/ StartFails
  \/ Poll \/ ResolveCredentials \/ PrepareConfigView \/ CheckRevision
  \/ Publish \/ KeepView

Next ==
  \/ FileNext /\ UNCHANGED serverVars
  \/ Load \/ Stop
  \/ Watcher

Spec == Init /\ [][Next]_vars

\* The watcher's goroutine runs and its calls end: lookups and probes have
\* deadlines.  Nothing is assumed of commands, editors and restarts.
FairSpec == Spec /\ WF_vars(Watcher)

-----------------------------------------------------------------------------
(* Properties.                                                             *)

\* applicationStatus
Applied == status.appliedRevision = file /\ status.errorCode = ""

Up == watch.phase \notin {"down", "starting"}

TypeOK ==
  /\ FileTypeOK
  /\ watch \in [phase: WatchPhases, revision: File, candidate: Config,
                activeRaw: Config, view: View, code: Codes]
  /\ view \in View
  /\ status \in [appliedRevision: File, errorCode: Codes]
  /\ nextProviderGeneration \in Nat
  /\ published \subseteq [provider: Providers, generation: Nat,
                          endpoint: BOOLEAN, keys: SUBSET Refs]
  /\ starts \in 0 .. MaxStarts
  /\ failures \in 0 .. MaxFailures

\* The revision the gateway reports as applied is the one it serves: the
\* view handed to new requests was built from that file, whatever has
\* failed, changed or been reverted in between.
AppliedIsServed ==
  Up /\ status.appliedRevision # NoFile =>
    view.c = status.appliedRevision.c

\* A generation number stands for one connection of one provider in the life
\* of a process: availability entries, key pools and prompt caches that are
\* kept under it never meet another credential.
GenerationsIdentify ==
  \A a, b \in published :
    a.generation = b.generation => a = b

\* What the gateway serves, reports and numbers belongs together: the types,
\* and the two invariants above.
ViewsConsistent == TypeOK /\ AppliedIsServed /\ GenerationsIdentify

\* What can be applied without a restart.
Appliable ==
  /\ file.state = "ok"
  /\ References(file.c) \subseteq keychain
  /\ RuntimeSettings(file.c) = RuntimeSettings(view.c)

\* The reason the watcher has for not applying the file.
Refusal ==
  CASE file.state # "ok" -> "config_validation_failed"
    [] file.state = "ok" /\ ~(References(file.c) \subseteq keychain) ->
         "config_credentials_unavailable"
    [] OTHER -> "config_requires_restart"

\* When the file is left alone, the gateway comes to serve it and says so,
\* or it keeps reporting the reason why that file cannot be applied: no
\* sequence of edits, failed probes and reverted changes leaves it pending
\* for a reason that is over.
Converges ==
  <>[](Up => IF Appliable
             THEN Applied /\ view.c = file.c
             ELSE status.errorCode = Refusal)

\* What the documentation says: "A running gateway applies valid
\* provider/routing edits automatically", where only changes of listener,
\* ledger, concurrency and idle timeout require a restart.  With those
\* settings as they are served, the providers and the policy of a valid file
\* come to be served.  The code does not do this (run config_edits): a
\* report schedule or a gateway key that has changed holds every later edit
\* back.
ProviderEditsApplied ==
  <>[](/\ Up
       /\ file.state = "ok"
       /\ References(file.c) \subseteq keychain
       /\ file.c.settings = view.c.settings
       => /\ view.c.keys = file.c.keys
          /\ view.c.endpoint = file.c.endpoint
          /\ view.c.policy = file.c.policy)
=============================================================================
