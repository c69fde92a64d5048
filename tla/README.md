# A TLA+ development of TideMux

TideMux is a local gateway for LLM requests. It gives clients one endpoint,
chooses a provider and a credential for each request, sends it upstream at most
once, converts between two protocols, audits it in SQLite and enforces budgets,
session caps and cooldowns. Everything runs in one process with a goroutine per
request and a goroutine that watches the configuration file; the state the
requests share is guarded by mutexes, and the long waits (queues, upstream calls,
deliveries) happen outside them. Most of what can go wrong is an order of critical
sections that nobody wrote a test for, and that is what this project models.

Modules are read with the source next to them: `PROJECT.json` maps every
definition that models code to its lines.

## Inventory

| Part | State | Operations | Hard because | Correct if |
|---|---|---|---|---|
| Key pool, `gateway/provider_key_pool.go`, `provider_retry_after.go` | per key cooldown, failures, version; per pool streak, pause, claim; per endpoint server wait, claim | candidates, readiness check, outcome, claim, release | results arrive late and out of order; old credential generations share the server wait | one probe after a pause; a pause survives older successes; every claim is given back |
| Availability table, `gateway/availability.go` | bounded table of targets with failures, deadline, owner; epoch | begin, dispatch check, complete, activate, lookup | leases hold pointers into a table that is pruned, evicted and copied | no orphaned probe; one probe per target; old views only release |
| Session limiter, `limiter/sessions.go`, `gateway/provider_sessions.go` | limiter per provider, entry per session | acquire, touch, release, retain, expire, prune | providers come and go and caps change while leases are out | caps hold per session; no slot leaks; a retained session keeps its slot until idle |
| Accounting, `ledger/budget.go`, `audit.go`, `gateway.go`, `adapter/client.go` | charge rows, audit rows, audit latch, budget block | check, append, settle, release, recover, reset | crash or failed write between sending and settling | no spend is forgotten; unresolved spend blocks |
| Request gate, `limiter/concurrency.go` | a channel of tokens | acquire, release | many exits of a call | tokens equal holders |
| Lifecycle, `gateway/lifecycle.go`, `cmd/tidemux/main.go` | active calls, draining | begin, end, shut down | registration races with shutdown; shutdown may time out | every admitted call comes to rest |
| Commands, `cmd/tidemux/config_mutation.go`, `provider_*.go`, `gateway_command.go`, `routing_commands.go`, `auto_chain_commands.go`, `schedule.go`, `secret/keychain.go` | the configuration file, Keychain items | load, plan, store, compare, rename, clean up, roll back | separate processes without a lock, killed anywhere, with a Keychain that may fail | the file never names a secret that is gone; no secret is left behind in silence |
| Config reload, `gateway/config_reload.go` | active view, revision, error, generations | poll, resolve, prepare, check, publish | the file changes while it is loaded; candidates fail or are reverted | what is shown as applied is what is served; the gateway converges to the file; generations identify connections |
| Routing, `gateway/routing.go`, `auto_chain.go`, `shared_model_affinity.go`, `cooldown_switch.go`, `routing_reload.go` | per view a chain with position, failures and session places; bindings of sessions with generation and epoch | resolve, select, bind, wait or switch, fail, recover, expire, activate | every step of a resolution takes another lock; old views go on after a reload | no entry is lost; one answer per session; a binding is usable in the active view; one dispatch |
| Content log, `contentlog/content.go`, `gateway/response_writer.go` | captures, queue, active file, byte counter, directory | enqueue, write, rotate, seal, close, recover | full queue, failing disk, partial lines, crash, a collector in the same directory | complete means complete; the directory stays bounded; what was handed off is frozen |
| Usage and runtime logs, `observability/` | rotating files | write, rotate | failing disk | a failure stays local |
| Prompt cache, `adapter/prompt_cache.go` | LRU of prefixes | remember, estimate | bounds | bounds hold |
| Streaming and conversion, `adapter/stream.go`, `stream_timeout.go`, `translate.go`, `client.go` | reader, translator, held completion, idle timer | read, validate, translate, hold, audit, reply, time out | timer callbacks race with progress; a stream is cut off anywhere; two protocols order things differently | completion follows the audit; a stream says what the whole answer would say; a stalled call ends |
| Reconciliation, `ledger/reconcile.go`, `reconciliation_schema.go`, `gateway/reconciliation.go` | audits, statement lines, snapshots, materialized tables, import fingerprints | append, import, scan, record, report | rows arrive in any order; scans fail, crash and repeat while files are edited | the tables equal their definitions; a row is charged once; success is honest |
| Error classification, requests of the other protocol, reports, CLI | none shared | classify, convert, print | data only | left to the tests |

Interaction: `serveHTTP` registers a call (lifecycle), resolves routes (routing,
affinity), and per route takes the rate-recovery claim (key pool) and the
availability lease around `callRouteCandidate`, which takes a session slot,
reserves budget and calls the adapter. The adapter queues at the gate, asks the
readiness callbacks again (availability, then key pool), sends, reports the
outcome through callbacks, releases the gate and appends the audit; then the
budget is settled, and the claims are released on the way out. A reload prepares a
new view and publishes it in two steps: first the shared state moves to the new
epoch, then new requests get the view.

## Modules

| Module | Models | Kind |
|---|---|---|
| `KeyPool` | key pool and server waits | component |
| `KeyPoolProofs` | its theorems | proofs |
| `Availability` | availability table | component |
| `AvailabilityProofs` | its theorems | proofs |
| `SessionCapacity` | what session caps promise | abstract specification |
| `Sessions` | limiters and their map; implements `SessionCapacity` | component |
| `SessionsProofs` | its theorems, the refinement among them | proofs |
| `Accounting` | call registry, budget, audit, gate, shutdown and restarts | composition of the four along one request |
| `AccountingProofs` | its theorems | proofs |
| `ConfigFile` | the file, the Keychain and the commands that change them | component |
| `ConfigReload` | start of the gateway and its watcher, beside the commands (extends `ConfigFile`) | composition |
| `ConfigReloadProofs` | the theorems of `ConfigFile` and `ConfigReload` | proofs |
| `Routing` | chain, affinity, cooldown switch, attempt loop and their hand-over at a reload | composition |
| `RoutingProofs` | its theorems | proofs |
| `ContentLog` | captures, queue, writer, directory, crash and restart | component |
| `ContentLogProofs` | its theorems | proofs |
| `Absence` | the absent value `None`, shared by the next three | constant |
| `Translation` | conversion of whole and of streamed answers | pure operators |
| `Streaming` | one streamed call with its timer, audit and client (extends `Translation`) | composition |
| `Reconciliation` | ledger tables and triggers, import, sync goroutine | composition |
| `AuditProofs` | the theorems of `Reconciliation`, `Streaming` and `Translation`: what comes after the audit of a request and what comes before it | proofs |
| `MC*` | names and symmetry for TLC | instances |

Conventions. One action per critical section (or SQL transaction); a request's
position in the code is its `phase`. Variables and operators keep the source's
names. Comments say what is abstracted. An operator whose name extends another's
(`SilencedNone` for `Silenced`) is a wrong variant of it: replacing the original
by it must break the property that `PROJECT.json` pairs it with, or one of its parts.

Invariants that speak of the same state are checked as one conjunction, whose parts
keep their names:

| Invariant | Parts, besides `TypeOK` (`StreamTypeOK` in `Streaming`) |
|---|---|
| `PoolsConsistent` | `ClaimsOwned`, `PauseCoversKeys`, `OneProbePerPool` |
| `TableConsistent` | `ProbesOwned`, `OneProbePerTarget`, `TableBounded` |
| `LimitersConsistent` | `LeasesCounted`, `SlotsJustified` |
| `LedgerConsistent` | `SpendRecorded`, `OneAttemptOneAudit`, `SlotsConserved` |
| `ViewsConsistent` | `AppliedIsServed`, `GenerationsIdentify` |
| `ChainsConsistent` | `NoEntryLost`, `SingleDispatch` |
| `DirectoryConsistent` | `TornLineLast`, `DirectoryBounded` |
| `TablesConsistent` | `MaterializedIsSource`, `CompleteIsComparable` |
| `AnswersFaithful` | `TranslationsAgree`, `BlocksWellFormed` |
| `CompletionIsHonest` (no types) | `CompletionAfterAudit`, `SuccessIsWhole` |

Every part was seen to fail under some wrong variant.

### KeyPool

A request goes idle, `Begin` (the claim of `callRouteWithRecovery`), selected,
`Candidates` (the round robin), queued, then for each candidate the two critical
sections of `Ready` (`ReadyClaim`, `ReadyCheck`), flight, and an outcome:
`Succeed`, or `FailHold` then `FailRecord` when the upstream named a wait,
or `FailLocal`. `Finish` is the deferred release. `ReloadPolicy` keeps the pool,
`ReloadConnection` makes a new one that shares the server state if the endpoint
is the same, `Publish` hands it to new requests.

The upstream's waits (`waits` of a shape) include 0, since `errors.go:40-62` accepts a
`Retry-After` of 0 seconds; `Delays` are those of the local backoff, which are positive. A
wait of 0 begins and is over at once, and may do so between the two sections of `Ready`.
The history variable `overtaken` holds the requests this happens to, until they finish:
they were told that they need no claim, and then find no pause.

Time is discrete; 0 is Go's zero time. A unit does not pass between the two
sections of `Ready`, which follow each other at once. The 16-bit saturation of
streaks is not modelled (`StreakLimit` 10 is reached long before).
`callRouteWithLegacyRecovery`, used only without an availability state, is not
modelled.

### Availability

An entry carries the set of leases whose pointer it is (`holders`), which is what
the code's pointer comparisons tell apart; `activate` copies entries, which drops
all holders, and `prune` and `put` drop entries. `Begin` and `Ready` both run
`dispatch`; `Complete` runs the judging of the newest view or the bare release of
an older one.

### Sessions

Limiters are objects from a small pool, as in the code the map and a lease may
point at different ones. The times of the last input and output are abstracted to
whether the idle timeout has passed since. `caps` of `SessionCapacity` is the
view of each request, `active` the leases on the mapped limiter, `retained`
its retained entries; `ImplementsCapacity` is checked by TLC and proved. `acquireProvider` prunes
the limiters of providers that the view of the acquiring request does not have, so a
second provider is needed to see it.

### Accounting

Processes are numbered by their start. The tables survive a process; latch,
block, gate and registry do not. `CanWrite` says that the process still has its
database open: after a timed-out shutdown its requests go on without one. `Exit`
may happen at any point, and `OpenForGateway` of the next process needs the lock.
Costs are one unit and the window is one set: `Age` and `ResetProviderBudget`
take rows out of it at any time, which covers both rolling windows.

Three things the code does by design are visible here and are not called wrong.
Pending rows reserve nothing, so concurrent requests may together pass a hard
limit. `isBudgetBlocked` and `CheckBudget` are separate steps, so a settlement
that fails between them blocks the next request, not this one: `FailClosed` speaks
of attempts that were over when the check began. And a failed dial whose request
is then canceled, or whose audit fails, is charged as an attempt.

Not modelled: a panic with `http.ErrAbortHandler` inside the call passes by audit
and settlement and leaves a pending row for the next start; the writers of
net/http do not raise it by themselves.

### ConfigFile

Every command is a process that runs once: `ReadFile` (the bytes it will compare
with), `LoadFile` (`LoadConfig` reads again), a change (one operator per command,
each a `Plan`: the configuration to write, the references to store first, the
references to delete last), `StoreNew` per secret, `CompareFile`, `Install` (the
rename) and `Delete` per reference. Errors take `RolledBack`; `Kill` may come
between any two steps and inside `StoreNew`. Report scheduling loads, reads again
and renames without a comparison (`LoadForReport`, `EditSchedule`).

A configuration is the references it holds, an endpoint flag per provider and a flag
for each class of settings; commands that only touch prices, scopes, budgets, routing
or chains flip `policy`. An editor flips a flag or breaks and repairs the file in one
save; it does not invent references.

There is no file lock: between the two reads of one command, and between its comparison (of
`report schedule`, its second read) and its rename, another command may rename the file, and
the first one then works on, or overwrites, contents that it has not seen. The model has
these windows (`Windows`), no guard closes them, and TLC and the proofs go through them. What
happens there is a lost update, which may bring back references whose secrets were deleted
(`PutBack`) or drop references whose secrets nobody will delete (`Dropped`). Two history
variables keep it apart from everything else: `raced` has the commands in a window of which
a rename fell, and `lost` what the renames of such commands put back or dropped. The
properties say that this is all that can go wrong: without a rename in a window `lost` stays
empty, and once something is lost every other reference and secret is still accounted for,
whatever runs on the damaged file afterwards.

Not modelled: the migration of the old single-provider file, the webhook command, and
two references with the same secret (`AppendProviderKey` refuses it).

### ConfigReload

`Load` and `OpenHandler` start a process; a turn of the watcher is `Poll`,
`ResolveCredentials`, `PrepareConfigView`, `CheckRevision`, `Publish`, each a step
because commands and editors go on between them, and any of them may go to `failed` and
`KeepView`. The local variables of a turn are dropped at its end, except `activeRaw`.
A revision is a hash of the file and is represented by the file. `published` is a
history variable: all connections that were ever handed to requests.

### Routing

A request goes through `Look` (its session's place in the chain or its binding),
`Choose` (the health of that route: keep it, wait for it, or select anew) and one of
the selections, each under another lock, once on arrival and once before every call;
then `Dispatch`, or `Refuse` and `Again`, and `Succeed` with `Restore`, or `Fail`. Every
view owns a chain: `next` is the first entry not given up, `failed` what is remembered
of the others. Bindings are shared by all views. A reload is `Prepare`,
`ActivateHealth`, `ActivateChain`, `ActivateAffinity` and `Publish`, and requests move
between any two of them. `agreed` is a history variable: the provider that the requests
of a session have chosen so far.

There is one model and one protocol; aliases, qualified names, capabilities and prices
are the scope and the order a view has. The health of a provider is ready, paused (a
short known wait), long, or probing (unknown), and changes at any time: `Availability` and
`KeyPool` say how. A request without a session selects the same way and binds nothing.

### ContentLog

A capture numbers its events; `emit` puts one into the queue or leaves a gap, which
makes its `content_end` incomplete, even one that already is in the queue (`marked`).
The writer takes a packet, rotates, scans the directory when its counter says that it is
full, and writes; `ShortWrite` leaves a partial line, and its file is closed without being
sealed. `Close` closes the queue, which the writer drains. `Crash` is possible at any step
and tears the line that is being written; `Open` of the next process renames what was active.
`Collect` is the collector, which is not part of TideMux. The bytes of the directory are counted
as its line positions (`Positions`, `TornAt`), a whole line with `LineBytes` and a torn one with
one byte. File names are numbers in the order of creation; `Files` bounds them, and no line is
written when it would need a name beyond (`CanCreate`).

### Translation and Streaming

`Translation` has both directions twice: `TranslateResponse` for a whole answer, and
a translator per direction that takes one frame at a time. `Absorb` is the reader on
the other side: what a client puts together. `TranslationsAgree` compares the two.

In `Streaming` the provider sends any frame its protocol allows, in any order that the
reader does not reject, and may stop at any point. `Headers`, `Arrive` and `Break` are
its side; `ReadFrame`, `ReadTerminal` and `ReadFails` are `readStreamWithLimits` with
the callbacks of `client.go`; `Audit` and `Reply` follow. A timer that expires starts a
callback, which takes the lock when it can (`Callback`); meanwhile reads may return
(`Lag`). The non-streamed exchange and an explicit upstream timeout are left out.

What the code does and the properties say. Calls of an OpenAI answer that take turns (the
arguments of one go on after another began) become deltas and a stop for a block that was
stopped and is not started again: `BlocksWellFormed` allows exactly this (`stray`), only after
a call was `resumed`, and demands everything else of such a stream too; that the pieces reach their call in order is
part of `TranslationsAgree`. A stream is passed on as it comes
(`Passed`), while a whole answer may be refused (`translateOpenAIResponse` is `None`): for
being empty, and for a call whose arguments are not a JSON object (`Objects`), which a stream
cannot know before its end and does not check there. A whole answer also accepts content that
is an array of text parts, which `streamText` drops from a stream, and writes `{}` for an
Anthropic call that got no input, where a stream writes nothing. `Alike` names the
answers in which none of this occurs, and for them the stream must say what the whole answer
says; for all others it must say the parts that came. The documentation promises nothing for
the difference, so it is noted here and not reported as a finding.

Two more that are not called wrong. An Anthropic frame without an `event:` line is
accepted by the reader, which looks at the data, and dropped by the translator, which
looks at the event: the model assumes named events. A `message_delta` without a reason
becomes a finish with `stop`.

### Reconciliation

The connection is the only one, so a transaction with all its triggers is a step.
The materialized tables (`requests`, `statements`, `intervals`) change by the triggers'
increments, and `RequestRow`, `Status`, `IntervalRow` are the views that define them.
`Backfill` is the migration of an older ledger. A scan is `ScanStart`, a `Visit` and an
`Import` per file, `ScanEnd`, `Record`; each may meet a fault or a crash, and `Edit` changes
the directory between any two steps. The coverage of `ReconciliationStats` is
evaluated for all windows (`Complete`).

`AppendBalanceSnapshot` has no caller outside the tests yet; its trigger is modelled all
the same. Models and token counts are left out.

## Runs

Deadlock is checked except in `Accounting`, the configuration modules, `ContentLog`,
`Routing` and `Streaming`, where requests, commands and captures are made once and
processes stop for good.

| Run | Instance | Shows |
|---|---|---|
| `keypool` | 2 requests; 1 pool of 2 keys, 2 pools of one key and a reload between them, or 1 pool of one key whose upstream also asks for waits of 0; 2 time units, Day = 2, streak limit 1; fair | a pause covers all keys, one probe per pool, nothing is sent into a pause, older successes do not lift pauses, results of old views leave key health alone, every claim has a live owner and is given back |
| `keypool_shared_probe` | 3 requests, 2 pools on one server state | violated: see findings |
| `availability` | 2 requests, a provider target and a model target, a label without a target, a table of 1 entry, 2 generations, 1 reload; fair | no orphaned probe, one probe per target, only the probe judges, old views only release, active probes survive pruning and eviction, every probe is given back |
| `sessions` | 2 requests, 1 named session, 2 providers capped at 1, 1 reload | `Sessions` implements `SessionCapacity`, the map counts every lease, slots are justified, retention lasts until idle |
| `accounting_crash` | 2 requests, 2 processes, gate of 1, 1 reselection, hard limit 1 | no spend is forgotten, one attempt and one audit, slots are conserved, unresolved spend closes the budget, recovery spares live requests, the latch stops dispatches |
| `accounting_gate` | 2 requests, gate of 1, soft budget, fair | a shutdown drains |
| `configuration` | 2 providers, 4 references; 3 commands on a file with 2 references, 2 commands and an edit by hand without a file, or a gateway with 1 command, 1 edit and 1 failure beside a file with 3; fair | outside the windows the file never names a deleted secret and no secret is lost in silence, what is reported as applied is served, generations identify connections, the gateway applies the file or says why not |
| `config_edits` | the gateway of `configuration`, without failures; fair | violated: see findings |
| `routing` | 2 requests of 1 session, both for `auto` or both for the model, 2 providers, 3 configurations, 1 reload, 1 change of health | no chain entry is lost, one dispatch, bindings are usable and follow their route, a session agrees on a provider |
| `content_log` | 2 captures of 1 chunk, a queue of 1, files of 2 lines, a directory of 3, 1 fault, 1 crash, fair | complete means complete, partial lines come last, the directory is bounded, handed-off files are frozen, the writer drains |
| `streaming` | 3 pairs of protocols, 5 frames, 2 calls, 2 blocks, arguments of which one piece is an object and none or two are not, text in arrays, 1 read while a callback waits, fair | completion follows the audit, streams and whole answers translate alike, a timer hits only its wait, a stalled stream ends |
| `reconciliation` | 1 request, an export with 2 charges of it, an invalid file, 2 paths, 3 times, 1 fault, fair | tables equal their definitions, rows are charged once, success is honest, exports are imported |

Why the bounds are enough to be interesting: every property relates at most two
requests (three where a third must create the state the two meet), one reload
separates the old view from the new, two time units let a wait appear, expire and
be replaced, a table of one entry is always full, and two processes are a crash and
its recovery. A directory of three lines fills while a file of two is rotated, and five frames
are a whole answer with one block of an Anthropic provider, several parts of an OpenAI one, and
the beginning of an answer with two blocks, whose parts are compared as they come. The pair of two OpenAI ends is left
out: nothing is translated there, and the passing of frames is the same as between two
Anthropic ends. A table of one entry never holds the two targets of one request at once;
`TableConsistent` is proved for any limit. Three commands are enough for the
windows: one renames inside the window of another, and the third works on the file they
leave behind. One command and one edit change the file twice, which is enough to change it
during a turn and to revert it, and to hold a later edit back by a schedule or a gateway key. The proofs below do without bounds.

Fairness. Goroutines that can run do run (weak fairness of a request's own
steps). In `KeyPool` and `Availability` an upstream attempt ends, because the
transport, the idle timeout or the total timeout ends it. In `Accounting` that is
assumed only for canceled requests, since a stream that keeps delivering has no
total lifetime: `Drains` therefore rests on the cancellation reaching it. In
`ConfigReload` the watcher goroutine runs and its lookups and probes end, since each has
a deadline; it converges because edits and failures are bounded, that is, once they
stop. In `ContentLog` the writer goroutine runs, in `Reconciliation` the ticker fires again
and a scan has a deadline. In `Streaming` the handler and the timer run and a read of a
cancelled context returns; nothing is assumed of the provider or of the client. Nothing
is assumed of clients, commands, reloads or time anywhere.

## Findings

`keypool_shared_probe`: a request that claimed recovery of its pool before a server
wait appeared keeps a lease that does not cover the server state, and `Ready` does
not claim again when it holds any lease; after the wait it is sent beside the probe
of another credential generation. `docs/design.md:173-174` says that a shared wait
shares one probe.

It sends one more request than documented onto a recovering upstream and corrupts no
state.

The same line of the documentation does not hold for waits of zero. `Ready`
(`provider_dispatch.go:180-186`) first asks for a
claim and then, under another lock, looks at the pauses. A response with `Retry-After: 0`, which
`adapter/errors.go:40-62` accepts, may be recorded between the two looks. Its wait is over at
once, so the second look lets the request pass, without a claim; the next request claims the same
wait and both are in flight. `docs/design.md:171-174` says that only one request probes after
silence, and that the dispatch check also claims when a wait appeared and expired while the
request was queued. The run `keypool` contains this case, and `OneProbePerPool` says that it
is the only one: it speaks of all requests but the ones in `overtaken`. Without that exception TLC
violates it within `NoWait`.

`config_edits`: `runtimeSettings` (`config_reload.go:94`) clears
what may change at run time and compares the rest, which includes the report schedule,
the webhook, reconciliation and the gateway credential. After `tidemux report schedule`,
or after a new gateway key, every later provider or routing edit stays pending with
`config_requires_restart`. `docs/guide.md:83` says that a running gateway applies valid
provider and routing edits automatically, and `docs/design.md:25-26` names only the
listener, the ledger, the request concurrency and the session idle timeout as needing
a restart. `ProviderEditsApplied` states this and is violated. What holds is `Converges`: a file that
differs from the served one only in what `runtimeSettings` clears is applied (`Appliable`), and for
any other the status comes to rest at the one code that is its reason (`Refusal`).

An order that is not called wrong: `dispatch` lets a request of an older view pass
without looking at the table (`availability.go:218`), so it may be in flight on a failed
target beside the new view's probe. `OneProbePerTarget` speaks of the newest view.

## Proofs

`AvailabilityProofs` (for all requests, providers, models, bounds). `ProbesOwned`
is not inductive by itself: that the owner of a claim still finds its object
depends on who else may point at it. `IInv` adds that empty slots are empty
(`AbsentIsEmpty`), that pointers come only from live leases of the newest view and
from their own targets (`HoldersLive`), that a pointer at a failed object is its
probe's (`HolderOfFailedOwns`), that only due objects are probed (`ProbedIsDue`),
that a request in flight owns what it probes (`SentOwnsProbes`), and how views and
generations relate (`ViewsPublished`). `prune`, `put`, claiming and judging have a
lemma each that says what they may change; the table's part of the invariant
(`GoodTable`) is preserved by each, and `NextInv` puts the actions together.
`TypeCorrect`, `NoOrphanProbe` and `SingleProbe` follow. `TableStaysBounded` counts:
a table is `Small` when it is finite and within the limit, and `PruneSmall`, `PutSmall`,
`CompleteScopeSmall` show that pruning, eviction with replacement and a completion at
one scope keep it so, whatever the limit. `TableSound` puts the four together as
`TableConsistent`. The action properties follow from the same invariants. What a
completion, a dispatch and a prune may do to one entry is an effect lemma of its own, and the
properties only combine them: `NoEarlySend` (the second `dispatch` of a queued request looks at the
deadline again), `OldViewsFenced` (a completion of an older view is the bare release),
`ProbesRetained` (prune and eviction skip owned entries) and `ProbeJudges`, which also needs `Small`: in a
table with room nothing is evicted, so a failed entry that is still known is the same object.
Assumptions: the named bounds are natural numbers, `None` is neither a request nor a model.

`KeyPoolProofs` (for all requests, pools, keys, waits and limits). `ClaimsOwned` and
`PauseCoversKeys` need that a request between two calls holds nothing (`IdleHoldsNothing`), that
pools are made before they are used (`PoolsMade`) and that no silence is longer than a day, without a
streak there being none (`SilenceBounded`): this is why the day that a long streak imposes never
shortens an earlier pause. `ObservationsSound` ties the version numbers to time: as long as nothing
newer was recorded, the pause that a request in flight saw had elapsed when it was sent. `IInv`
is their conjunction, and from it follow `ClaimsAndPauses`, `SentOutsidePauses`,
`OlderSuccessesHarmless` and `OldViewsHarmless`, for every set of waits. `OneProbe` proves
`PoolsConsistent`, with `OneProbePerPool` in it, for every set of waits, zero included; it adds
`ProbesClaimed`, what a request between the two looks of
`Ready` may rely on unless a wait of zero has overtaken it. Assumptions: natural bounds, a day is positive, a first pool has a key.

`SessionsProofs` (for all finite sets of requests, sessions and providers, all caps). That the
map counts every lease is not inductive, since leases and map point at objects: `IInv` adds that the
map is injective (`MapInjective`), which lease a request has in which phase (`RequestsShaped`), what
an entry may look like (`EntriesShaped`), that a mapped limiter counts the leases pointing at it
(`MappedCounts`), that one outside the map is empty (`UnmappedEmpty`) and that a lease points at its own
provider's limiter until the gateway closes (`LeasesRouted`). `LimitersSound` and
`RetentionKept` follow. `CapacityRefined` is the refinement: `CapacityInit` maps the initial
states and `CapacityNext` has a step per action that shows the abstract step or the stutter, the
sweep, the prune and the release each with a lemma on what it does to `active` and `retained`.
Finiteness is assumed because holders are counted.

`RoutingProofs` (for all requests, sessions, providers, configurations and reloads). `IInv`
adds how epochs move through the steps of a reload (`EpochsInStep`), that views are what
configurations make (`ViewsShaped`), that a chain reached by the hand-over has a mark per entry and
sessions at its entries (`ChainsShaped`), that what a request carries from one lock to the next is a
route of its own view (`RequestsInStep`), and that what a session agreed on is its binding in the active
view, on a ready provider (`AgreedBound`). `ChainsSound`, `BindingsStayUsable`, `RoutesKept` and
`SessionsStayAgreed` follow. Assumption: `RoutingAssumptions`, what a valid configuration is: a chain without
repetition over its scope.

`ContentLogProofs` (for all captures, limits, faults and crashes). `CompleteIsWhole` looks at the
files only, and is decided long before the terminal line is written. `NothingLost` says for a capture
without a gap where its earlier events are (`Safe`): in a file, in the writer's hands or further
ahead in the queue. The queue keeps the order (`EventEmitted`, `EventTaken`), a lost packet
becomes a gap (`PacketDropped`), and `marked` reads the gap when the terminal event is taken, when
nothing is ahead of it any more: that is why it may trust it. `DirectoryBounded` needs `CurrentSound`:
while a file is open, the counter is no less than what is there, since only the writer adds and the
collector only takes (`LessTotal`); a new line is one more position (`GrownTotal`). A step is
`DirectoryMoves` (files are renamed), `DirectoryGrows` (a line is added) or leaves the directory alone.
That a next name exists is the least-number principle (`Least`), from the library's well-founded
minimum. Assumptions: natural bounds that fit into each other, names that are numbers from one.

`AccountingProofs` (for all requests, processes, gates, modes, limits). `IInv` adds
to the types: a running request belongs to a running process and process numbers
are never reused (`ProcInv`); a call past its reservation has a row, and a request
that reached the upstream carries a result that says so until it is settled
(`SpendInv`); what may be reselected was neither sent nor audited (`OnceInv`); a
pending row belongs to the owner of the ledger, and one that is over blocks that
owner (`UnresolvedInv`). Each part has a lemma with a step per action. The action
properties follow from it: a reservation can only be a `CheckBudget`, which sees
settled rows only. `LedgerSound` states
`LedgerConsistent`; all safety properties of the `Accounting` runs are proved.
Assumption: `AccountingBounds`; requests are finitely many because the gate counts
them.

`ConfigReloadProofs`, the commands (for all providers, commands and bounds). `NoDanglingReference`
says nothing about what commands are about to do. `IInv` adds for each command (`Own`)
what it has generated, stored, loaded and will delete: nothing it has made is in the
file yet, what it stored is in the Keychain, its configuration names only what it read
and what it made, a command past its comparison still agrees with the file, and one
that deletes has seen the file without those references. Each of these may fail for a command
that is in `raced`, and then only for references that will be in `lost`. For two commands (`Apart`)
neither reaches what the other has made. `ChangePlans` shows that every command's change names only what it
loaded or generates, so one lemma (`PlannedKeeps`) serves them all; `OneMoves` serves
every step that keeps the file's references, and `InstallKeeps` is the rename.
`SecretsStayAccounted` needs the other direction, what a command owes: `Debt` is what it made and,
once it cleans up, rolls back or is dead, what it has to delete; `Owes` says that a reference missing from the
configuration it is about to install is one it will delete or the former gateway key. `AInv` adds
that every item is in the file, reported, or somebody's debt, and `IInv` that debts of two commands
do not meet. No theorem
assumes that the windows are missed: `InstallKeeps` and `InstallAccounts` are the renames inside them. Assumptions: natural bounds.

`ConfigReloadProofs`, the watcher. `WInv` adds to
`AppliedIsServed` and `GenerationsIdentify` that the watcher compares with the served
view's configuration and that its candidate is what it read (`TurnInv`), and that a
prepared connection is a published one or has a number above all published ones
(`NumbersInv`); `ViewsSound` states `ViewsConsistent`. `GatewayFindsSecrets` carries `NoDanglingReference` over to the
composition. Assumption: providers are finitely many, since their connections are
counted.

`AuditProofs`, after the audit (`Reconciliation`; for all requests, files, contents, lists of rows and
times). The triggers change three tables by increments, and `MaterializedIsSource` says that the
tables are what the views would compute. What one line, one audit and one snapshot do to a status, a row
and an interval is a lemma each; an import applies its rows one after the other, and the lemma on it is an
induction over how many rows are done, through the library's least element of a set of numbers.
`CompleteIsComparable` follows from the types and the views. `ChargedOnce` counts, and counts are not
inductive over a list: `ChargedInv` says for every row that its lines in the ledger are as many as its rows
in the accepted contents, and an import adds a bijection's worth of both. `ScanInv` and `SteadyInv` carry
what a scan has still to visit, from which `SuccessesAreHonest` follows: as long as no step failed, a file
that nobody touched is to be visited, in the importer's hands, or imported. Assumptions:
`ReconciliationAssumptions`: finitely many requests, an export is a list of lines, and `None` is none of
the values it stands beside.

`AuditProofs`, before the audit (`Streaming` and `Translation`; for all pairs of protocols, answers of any
length, any number of calls and blocks, any lag of a callback).
`CompletionIsHonest` needs `EndsInv`: a reader that has finished has read a reason to stop that was sent,
an attempt that has not failed ends with its marker, and before the end the client has neither. The
last holds because no event that the gateway writes at once is an end: what `streamSignalsCompletion`
does not see leaves the end of a message alone (`AbsorbEnd` for one event, `SilentEvents` by induction for a list
of them), whichever translator wrote it. `TimerHitsItsWait` needs `TimerInv`: a callback with the
current generation belongs to the wait that goes on; both stop and start change the generation.

`AnswersFaithful` compares two readers, the client's and a history of what the provider sent.
`FaithInv` says where they stand in every phase. Between two frames, what the client has together with what is held
back agrees with what was sent (`Agrees`); when a frame was read and not yet handled, it agrees
with the message before that frame; after an attempt that did not fail, the held events and the rest
complete it (`Delivered`). Agreement is
not equality of contents, since a translator forgets and its state decides what the next frame becomes.
Towards Anthropic (`InAnthropic`) the client has as many blocks as the translator began, the map of tools
leads every call to its block and back, the active block is the client's open one and that of the call that
came last, unless calls took turns, and what was seen was sent; also then a block
that is open at the client is the active one, and an active text block is open (`BlocksKnown`), which is why only
pieces of arguments and stops can stray. Towards OpenAI (`InOpenAI`) the map of tools sends every
block of a tool to its call, the blocks of hosted tools are the ones it drops, and what was seen was sent. One lemma per part of
a frame shows that it keeps the agreement; a frame of a provider has at most two. `AbsorbConcat`,
by induction over a list, makes it irrelevant how events are cut into what was written, held and
left. `OpenAIEndAgrees` and `AnthropicEndAgrees` are the terminal frame: an answer with no meaning in the
other protocol is refused there, any other is complete. Assumptions:
`StreamingAssumptions`: natural bounds, at least one frame, and `None` is no reason to stop;
`ObjectsAssumption`: no arguments at all are not an object.

How the proofs get by without the library's induction theorems, which take an operator as a parameter: `Least`
(every non-empty set of numbers has a least one) gives induction for sets, over numbers (`InductionOnNat`) and
over lists (`InductionOnSeq`), and the set is that of the numbers or lists with the property. A recursive function
over a list, such as `AbsorbAll`, is shown to exist (`ReadsExist`) and then unfolded one step at a time (`ReadsStep`).

Only model-checked: all liveness (`ClaimsReleased`, `ProbesReleased`, `Drains`, `Converges`, `WriterDrains`,
`StalledStreamEnds`, `ExportsImported`), since fairness and ENABLED are outside the prover. Every invariant
and every action property of the passing runs is proved. `OneProbePerServer` and `ProviderEditsApplied`
are refuted, not proved.

## Not modelled, and the plan

The conversion of requests, the tables from errors to codes, SQL reports, protocol
detection and the interactive command line are data transformations without
interleavings; they are left to the repository's tests, and their results are the
outcome sets of the models. The usage and runtime logs write synchronously under a
mutex, the prompt cache is a bounded local estimate, and key
diagnostics are counters. The webhook command repeats the steps of `report schedule`
with one Keychain item more.

In this order:

1. `Dispatch`: key pool and availability composed along one request, with the release
   order of the two claims; the finding says that it matters.
2. The webhook command in `ConfigFile`, the non-streamed exchange beside `Streaming`, the usage
   log beside `ContentLog`.
3. Pure algorithms against reference definitions: backoff bounds, the two-window
   budget check, retry guidance.
