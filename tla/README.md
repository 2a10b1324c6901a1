# Verification of Geofence Journal

TLA+ models of the Home Assistant integration in
`custom_components/geofence_journal`, the TLC runs that check them and the
TLAPS proofs about them. Paths below are relative to that directory.

The integration records when a tracker enters or leaves a place. Each enabled
*rule* has one engine that turns position samples into events: a change of side
is *pending* for a confirmation time, is re-evaluated at its deadline, and is
then committed with the rule's runtime row, unless its direction is cooling
down. Around the engines stand a manager that pauses and rebuilds them, a
SQLite store behind one lock, administrative services, and CSV exports.

## The system

| part | state | operations | hard part | what makes it correct |
|---|---|---|---|---|
| rule engine (`runtime/engine.py`, `runtime/state.py`) | `_state`, `_scheduled`, `_accepting`, `_lock` | observe, deadline callback, recover, suspend, deactivate | memory is set before an awaited save; timers survive what armed them; crash between commit and notification; wall clock against monotonic clock | one event per pending episode, never early, cooldowns kept over restarts, no pending without a way out |
| tracker evaluation (`listener.py`, `location.py`, `geofence.py`, `ha_confirmation.py`) | none | evaluate one tracker state | evaluated before the lock is waited for, and again at the deadline | listener and deadline give a state the same meaning |
| manager (`manager.py`) | `_refresh_lock`, `_paused`, `_runtimes`, `_listener`, `_entity_state` | start, pause_and_drain, stop, rebuild | queue of calls, failing or cancelled holders at every await of a rebuild, the states its listener processes included; engines that work while others are suspended | pauses are quiet, observation resumes, one engine per rule, unloading is final |
| event store (`storage/events.py`, `storage/maintenance.py`, `management_events.py`) | events, revisions, resources, runtime rows | add, exclude, restore, confirm, save, purge, reset | instants of a wall clock read before the gate; references between tables and from engine memory; operations for rows that a reset erased; a process that dies with operations waiting | the audit trail explains every status, purges are complete, engines can always save, no event comes back |
| exports (`export.py`, `http.py`) | registry, files, scheduled discards | export, download, expire, reset, orphan cleanup | the registry's lock and the store's lock exclude nothing of each other | a reset leaves no erased row behind, URLs live until expiry, files do not live for ever |
| async store (`storage/async_adapter.py`, `storage/repository.py`) | connection, open transaction, gate, closing flag | open, one operation at a time in a worker thread, close | a cancelled caller frees engine and gate while its worker goes on; a commit may fail and stay open; the process dies between two statements | operations take effect whole, at one moment and in turn, answered writes last, closing is final |
| resources (`storage/resources.py`, `management_resources.py`) | trackers, places, journals, rules | upserts inside a pause | a rejected upsert looks like a database failure | - |
| config entry (`__init__.py`) | manager, services, platforms, process data | set-up, unload, reload | roll-back of a set-up that failed half-way, while calls already wait for the lock | nothing outlives its entry |
| schema (`storage/schema.py`) | version, foreign keys, unique index | bootstrap, version check | one transaction, any prefix of which a crash may leave | a file is empty or complete |
| services, entities, settings, config flow, release scripts | - | validation, dispatch, display | pure | unit tests |

Calls go service -> management backend -> `pause_and_drain` (only upserts,
purge, compact, reset) -> store. Samples go listener -> evaluation -> engine ->
store -> observer -> manager. Everything runs on one event loop; the store and
the registry run in worker threads.

## Modules

`RuleState` holds the runtime record and the pure functions of
`runtime/state.py`. `RuleEngine` is one engine with everything it runs against.
Its lock is free when `pc = "idle"`; otherwise `pc` names the call the holder
awaits, and code between two awaits is one action. So `Observe(o)` is
`async_observe` up to its save, `Saved` what follows the save, and so on.
Samples are first evaluated (`EvaluateSample`, against the state of that
moment) and then queue; timers fire (`Fire`) and then queue. `wall` is
`utc_now()`, `mono` the loop's clock. `NewEngine` replaces the engine as the
manager does; dropped callbacks of the old object are covered by
`SuspendedIsQuiet`.

A cancelled caller (`storage/async_adapter.py:53-71`) has two outcomes beside a
plain failure. `SaveUnanswered` and `CommitUnanswered` stand for a write that is
done although the engine never hears of it: the caller was cancelled after its
worker thread wrote, or another engine of the rule (the second process of
`test_runtime_engine.py:228`, or an orphan of a failed rebuild) did it.
`AbandonWorker` frees the engine's lock while the thread goes on: what it will
write is kept in `abandoned`, and `WorkerWrites` writes it at any later moment of
the process, after a suspension or over the writes of the rule's next engine too.

`TransitionJournal` is the abstract promise: an append-only journal whose
entries waited, have growing generations and keep the cooldown, each announced
once. `RuleEngineRefinement` instantiates it over `wall`, `journal` and
`published`; no other mapping is needed.

`Evaluation` is the whole path from a tracker state to a presence, as operators
without state. `Decided` are the records for which the four readings of
`RuleEngine` (two sides, the hysteresis band, unusable) are what the code
computes of every tracker state and place, so that the engine's model may
abstract coordinates to a reading. `EngineEvaluation` puts them beside the
engine: `ReadingDecides` says that the engine's record is one of them at every
moment. Distances are a constant function.

`EventStore` has the tables as variables and the gate as a queue of operations;
each operation is one transaction that foreign keys can refuse (`Admits`,
`Savable`, `Referred`). The table `event_revisions` is kept per event, in commit
order, since nothing in the code relates revisions of different events. Trackers,
places and journals are rows of `resources`, upserted one at a time; a rule's row
names its journal. An engine is reduced to the last event its row and its memory
name. `Die` is the death of the process: what waits for the gate is lost, the
tables are not, and `Resume` recovers the engines of the next process.

Three disturbances are counted in `disturbed`. `AdjustClock` sets the wall clock
back; `CancelCall` lets the caller in front go, whose worker is overtaken by
others that wait (and is no longer `attended`: a pause does not wait for it);
`ForgetEngine` is the rebuild of `Manager_orphan`, which leaves an engine that
confirms or saves once more (`ForgottenFires`), maybe inside a later pause and
after a reset erased its rule: then the foreign keys refuse it.

`AuditedEvents` is the abstract promise of those tables, with neither gate nor
engines: an identifier becomes an event at most once and in a journal that is
there, an event changes only its audit state, each change leaves a revision, and
only a purge or a reset ends it, for good. A change is dated no earlier than the
one before it as long as the promise is `orderly`, that is, until the clock is set
back or a worker is left behind. `EventStore` instantiates it over `events`,
`revisions`, the journals in `resources` and `Life`, which computes from the
tables, the queue and the identifiers used whether an event is still to come,
stored, or over.

`Store` is one SQLite file with everything between it and its callers: opening
and bootstrap statement by statement, the gate of `AsyncSQLiteStore`, the worker
threads under the lock of `SQLiteStore`, cancelled callers whose worker goes on,
transactions with their rollback, a commit that raises and leaves its
transaction open, closing, and the death of the process. An operation is read,
save, confirm, a lone upsert or close; a row is the call that wrote it.
`AtomicStore` is what the other modules assume of it: an operation takes effect
whole, at one moment between its call and its answer, and what was answered
outlives the process, except while a commit that failed is still open. `Store`
instantiates it over its own rows; the abstract calls are those of `ops`.

`Manager` has the config entry's set-up, roll-back and unloading, the lock with
its queue, the awaits of its holder, and engines reduced to a timer, an await
and a generation. Identities of engines are (rebuild, rule), so that two
generations can be told apart. The row of a rule is reduced to none, stable or
pending, and absent once a reset erased the rule. The entity state is reduced to
unloaded, healthy, error. `setup` is where `async_setup_entry` or
`async_unload_entry` is; Home Assistant may refuse a platform or an unload
(`refuse`).

A rebuild is `List`, `Recover` of each rule, `Adopt` (`_runtimes` is set and the
newest event is read), `Install` (the listener is registered) and `Synchronize`
of each rule: the listener processes the current tracker states one engine at a
time (`listener.py:156-159`). Each of these awaits can fail (`FailRebuild`,
`FailSync`) or be cancelled (`CancelRebuild`, `CancelStarting`). Where that leaves
engines that no later step suspends (`Strands`), it spends `strand` in place of
`fail` or `cancel`: after a rebuild has recovered an engine that is not yet in
`_runtimes`, and once the engines of a set-up are there, because `async_start`
then closes the store (`manager.py:115-120`) without stopping them. The worker of
a cancelled call commits at once, never, or later (`LateCommit`), after the rules
were read too.

`Exports` has the registry, the files, the calls and the scheduled discards.
Instants are kept as time left. CSV content is the number of resets before its
query, which is what tells erased rows from fresh ones. A reset is `raised`
when its clean-up met a path that an export thread had just renamed.

The modules share no variables, but `EngineEvaluation` extends two of them. They
meet at the promises: `RuleEngine` and `EventStore` take a storage call as one
action that happens or fails, which is `AtomicStore`. `EventStore` further serves
calls in the order in which they were made, but for the worker of a cancelled
caller, which is what `OperationsTakeTurns` says of `Store`. The engine of
`Manager` keeps of `RuleEngine` when it accepts, waits and holds a timer.

A definition called `Faulty...` is a plausible bug of the definition after it.
No behaviour uses it; it serves to show that a property can fail.

## Runs

| run | question | result |
|---|---|---|
| `RuleEngine_crash` | one crash and one failed storage call anywhere | cooldowns, row, memory, timers and notifications stay consistent; the engine implements `TransitionJournal` |
| `RuleEngine_disturbed` | any two kinds of disturbance: failed call, lost answer, clock correction, zone edit, crash, suspension, deactivation; a late worker with a suspension or a clock correction | no episode recorded twice, out of order or early; suspended engines start nothing; events need a definite live reading |
| `RuleEngine_live` | does every pending end? Do listener and deadline agree on a state, at every boundary, whatever record the engine has? | yes, if the tracker stays usable and the engine stays up; yes |
| `RuleEngine_duplicate` | does a duplicate confirmation end the episode? | no: see Divergences |
| `EventStore` | all operations interleaved and failing, the process dying anywhere, and one of a clock correction, a cancelled caller, a forgotten engine | audit trail, order, purge and references hold; the tables implement `AuditedEvents` |
| `Manager_pause` | two calls and an unload, one failure, one cancellation and one late worker, wherever they strand no engine | pauses are quiet, observation is whole or absent, unloading is final |
| `Manager_served` | failing storage, cancelled calls, stranded engines, set-up steps refused | calls are served and tear-down ends; a rebuild that completes restores observation; an entry that is gone leaves no service and no open store, and no listener or engine that was not stranded |
| `Manager_orphan` | is a pause quiet after a failed rebuild? | no: see Divergences |
| `Manager_strand` | does a set-up that fails leave no listener? | no: see Divergences |
| `Store` | calls of every kind against opening, closing, cancellation, a failed statement, a commit that stays open, a crash | the promise of `AtomicStore`, durability, operations in turn, final closing, atomic bootstrap; every call returns |
| `Exports_all` | two resets, reload, restart, failed write, cancelled call | erasure by a reset that answered, URLs and removal of registered files hold |
| `Exports_race` | is every export file removed? | no: see Divergences |

Properties of the form `Undisturbed({...}) => P` speak of behaviours in which
those disturbances have not happened. Each such premise is a limit of the code,
not of the model:

* `clock`, the wall clock was set back: two events can be closer than the
  cooldown, a callback early, and revisions dated out of order (`changed_at` is
  `utc_now()`, `management_events.py:77`).
* `lost`, `late` and, in `EventStore`, `cancel`, a caller was cancelled while its
  worker went on: an event can be recorded that the engine does not know, an older
  record can be written over a newer one, an episode can be recorded after the
  next one, a change can overtake an earlier one, and a purge can run beside
  engines that were rebuilt already.
* `fail`, a storage call failed: memory is ahead of the row until the next save.
* `deactivate`: the row is gone and generations start again at 1.
* `strand` in `Manager` (premise `Unstranded`): see Divergences.

### Bounds

`Budget` says how often each disturbance may happen, mostly once: with one
failure and one crash in every order each pair of them meets. `Together` says which kinds may
meet in one behaviour: in `RuleEngine_disturbed` any two of seven kinds, and a late
worker with a suspension or a clock correction (the theorems have no such bound);
`EventStore` lets one of its three meet failures and
process deaths, which are not counted. `MaxGeneration`
2 or 3 lets an episode be followed by one in the opposite direction and one in
the same direction, which is what cooldowns and stale timers need. `MaxTime` 3
or 4 exceeds confirmation time plus cooldown (1 + 2), so that exact boundaries
occur; in `RuleEngine_disturbed`, whose properties do not speak of cooldowns,
2 is enough for a pending to wait, confirm and be followed by another.
`MaxQueue` 1: an evaluated sample may wait while timers fire and the
tracker moves on; a second waiting sample adds only what a later one does. The
tracker falls silent once `MaxGeneration` is reached. Three timer handles are
enough for one scheduled, one overwritten and one fired; two, where episodes are at
most two. The evaluation takes
five points on a line, radii and accuracies 0 to 2 and margin 2, so distance is
below, at and above both thresholds. `EventStore`: two events, two journals, one
other resource and one rule; two waiting operations, so that a change meets another
one, a purge or a reset in the queue; two revisions in all, of one event or of both; clock
0 and 1, since the code compares instants with `<` and `<=` only and
two of them fall on both sides of a purge's limit and in both orders. `Store`: one key, so that two
confirmations are duplicates, and three calls, so that a worker whose caller was
cancelled can meet a later operation and a close. `Manager_pause`: two rules, so
that a rebuild can stop between them, and two calls, one queued behind the other,
with one body of each effect; one failure, one cancellation and one late worker, so
that all can hit one rebuild. `Manager_served`: two calls, one rule and one body of
each effect, since liveness is checked without symmetry; one failure, one
cancellation and one stranding; Home Assistant may refuse twice, so that
the roll-back meets a second refusal. `Exports`: two identifiers, one
of which may be in the way of the other, and two resets, so that the second
must make up for what the first left.

Deadlock checking is off in `Store`, `Exports` and `Manager`,
where identifiers and calls run out and the system
may stop; the others stutter on nothing but a state with work left. Symmetry
is used for interchangeable handles, and never in a run with liveness.

### Fairness

`RuleEngine_live`: time passes, due timers fire, storage answers, samples run,
the manager starts what it recovered (weak fairness: the event loop runs ready
tasks and worker threads end). Observations and deadline callbacks wait for an
`anyio.Lock`, which serves in arrival order, hence strong fairness. Nothing is
assumed about the tracker, a crash or a failure. `PendingResolves` has the premise
that the tracker eventually stays usable, because a deadline that meets an
unusable tracker leaves no timer and waits for the next sample. `Manager`: ready
steps and answers are weakly fair; suspension waits for an engine's lock and is
strongly fair. `Store`: opening, the gate, the delivery of answers and the
worker threads each go on (weak fairness); the gate serves in arrival order
(`Foremost`), the threads' lock in any order, and no caller is starved since
each thread finishes. `Exports`: time, the steps of started calls and scheduled discards.

## Divergences

* `RuleEngine_duplicate` / `DuplicateEndsEpisode`: a sample that refreshes a
  pending writes it over the row that another commit of the same episode has
  just written; the duplicate confirmation then reloads the pending it wrote.
  The engine stays pending, without a timer, and repeats the duplicate with
  each sample.
* `Manager_orphan` / `PauseIsQuiet`: a rebuild that fails after recovering an
  engine forgets that engine, which goes on accepting and keeps its timer.
* `Manager_strand` / `GoneEntriesDoNotListen`: a save that fails while the listener
  of a set-up processes the current tracker states (`listener.py:159`) leaves
  `async_start` by way of `manager.py:115-120`. The store is closed and the set-up
  fails, but the listener stays registered, `_runtimes` stays full and every engine
  accepts; `entry.runtime_data` was never set, so nobody calls `async_stop`.
  `StopSilencesEngines` fails in the same way, hence its premise in the proofs and
  the budget of `Manager_pause`.
* `Exports_race` / `ExportFilesAreRemoved`: an export allocated before a reset
  and written after it leaves a file that nothing removes before a restart.

More limits are visible in the models and need no run of their own:

* A worker whose caller was cancelled may write a row or an event after its engine
  was suspended, or over what the engine's successor wrote (`WorkerWrites`);
  `SuspendedIsQuiet` says that nothing else changes then. `async_suspend` needs no
  store, so it does not wait for that worker.
* `changed_at` and `created_at` are instants of the wall clock: a correction dates
  revisions out of order (`AdjustClock`).
* A failure in `listener.async_start` inside a pause leaves the call with an
  exception that the entity state does not show (`FailSync`): only
  `_async_handle_event` and the body's except clause record it.
* A call cancelled while it drains leaves observation stopped until the next
  pause (`CancelDraining`), as does a rebuild that fails or is cancelled;
  `RebuildRestores` shows that the next rebuild makes up for it.
* A call queued behind `async_stop` reports a database error for an unloaded
  entry (`RefuseBody`); a rule disabled by an upsert keeps its runtime row
  (`Commit`).
* A cancelled export call leaves its file unscheduled (`Cancel`), which breaks
  `ExportFilesAreRemoved` in the same way as the race.
* "Drain them before closing" (`async_adapter.py:24`) holds only when no caller
  was cancelled: the worker of a cancelled caller may overtake the next
  operation, or find the store closed, and is then refused (`CloseIsFinal`).
* A commit that raises can stay open: upserts and duplicates answered inside it
  are taken back by the close or a crash (`FailCommit`,
  `AcknowledgedWritesLast`).
* A reset whose clean-up raises (`export.py:208`) has erased the database and
  may leave a CSV with erased rows, until a later reset answers or the next
  process starts (`UnlinkOrphan`).

## Proofs

`RuleStateLemmas` says what each function of `RuleState` returns and keeps.
`RuleEngineProofs` proves, for all values of the constants under the named
assumptions of `RuleState` and `RuleEngine` and `TLAPS` facts only:

* `TypeCorrect`, `TypeOKAlways`. The invariant `TypeInv` adds to the types
  that a pending record has both its instants, with deadline = start +
  confirmation, and that an await that uses the record finds one. Without this
  `ScheduleDeadline` and `BuildTransition` would not be typed.
* `EventsWait` (`EventsWaitForDeadline`): the journal grows only in
  `RecordTransition`, from a transition that `CommitTransition` built at or
  after its deadline; the invariant carries that fact across the await.
* `EpisodesInOrder` (`EventsFollowGenerations`): the invariant `EpisodeInv` says
  that the row, and the record of an accepting engine, *cover* the journal: they
  are at least as young as every event, and if pending on an episode already
  recorded they carry the deadline of that event. So a commit is either of a
  generation no event has, or the unique index refuses it. The second half of
  the covering is what lost answers need: memory and row may both still be
  pending on an episode whose event exists. A worker that is late by a whole
  episode breaks the covering, hence the premise on `late`.

`RuleEngineRefinementProofs` proves the other safety properties of the engine
and its refinement. A critical section does one of three things with a pending
(`Outcome`): it keeps it, with a timer if its deadline lies ahead, ends it
without an event, or commits its transition. On this case split rest three
invariants:

* `PublishInv`: what was told is the journal in order, except for an event that
  is committed and not yet told; then the row already holds its confirmation.
  It gives `ObserverHearsOnce`.
* `CooldownInv`: the row, and the memory of an accepting engine, *remember* the
  journal: for each event the direction's cooldown reaches as far as that event
  demands or is over (`Reaches`), and every cooldown stems from an event
  (`Stems`), so that with the events apart it is that of the direction's last,
  which is what `RowRemembers` says. A transition in its commit is
  `Cooled` against all events. It gives `CooldownsSeparate` and `RowRemembers`,
  under the premise of those properties: the clock not set, no caller cancelled,
  the rule not deactivated.
* `EngineInv`: a pending differs from the presence, what a suspended or deleting
  engine may still hold (`Shut`), where memory is the row (`Persisted`), and
  that a pending ahead of its deadline has a timer that is early enough
  (`Timed`). It gives the four theorems on memory, timers, suspension and
  readings. `SuspendedStaysQuiet` has no premise: what an abandoned worker writes
  after the suspension is part of its statement.

`EngineIsJournal` maps a commit that creates its row to `Record` of
`TransitionJournal`, telling the observer to its announcement, and every other
step to a tick or a stutter; `CooldownInv`
and the coverings of `EpisodeInv` show that `Record` is enabled. Its premise is
that the budgets for clock settings, lost answers, late workers and deactivations
are zero, the disturbances after which the code does not keep that promise.

`EvaluationProofs` proves `ReadingIsDecisive` (`ReadingDecides`) as a theorem of
the engine's `Spec`, by one lemma for each stage of the evaluation: every record of
the right type is in `Decided`.

`StoreProofs` proves every safety property of `Store` and the refinement, for
any keys, number of calls and budget. Its invariant says what each stage of a
call knows of its worker, who may own the open transaction and what that
transaction has already written, and that the call whose write is in the row
has finished or was left by its caller. `StoreIsAtomic` maps the steps of a
worker that commits to `TakeEffect`, the others to stuttering.

`OperationsTakeTurns` (`TurnsAreTaken`) follows from the same invariant, in
which nobody has entered the gate behind a caller who waits or holds it.

`EventStoreProofs` proves every property of `EventStore` and its refinement, for
any events, journals, rules, bounds and number of disturbances. `Inv` is about
references: rows name events that exist and, while no caller was cancelled, the
memory of running engines does too, because maintenance waits for the gate only
inside the pause that asked for it. It gives `EnginesNeverStranded`. `AuditInv` and
`DateInv` are about the audit trail. None of their parts is inductive alone:

* `Fresh`: the event of a queued creation is in no table, has no revisions and is
  that of no other queued creation. Without it a creation could overwrite an event.
* `Dated`: the queue is ordered by the instants its operations carry, none of
  which is later than the clock or earlier than an audit state in the tables.
  This is why instants read before the gate are still in commit order; it holds
  while the clock is not set back and no cancelled caller's worker is overtaken.
* `TrailExplainsStatus` and the order of revisions themselves, with the types.

A step of `Next` does one of a few things to queue and tables (`StepKinds`): an
operation joins, goes back in the queue, is dropped, records, revises, deletes or
brings a resource back, the process dies, or nothing happens to events. `AuditInv`,
`DateInv` and the refinement are proved by that case split. `PurgesComplete` is an
action property: clearing revisions and rows first leaves no reference into what
the purge deletes. `EventsAreAudited` maps recording, revising and deleting to
`Record`, `Revise`, `Purge` and `Reset` of `AuditedEvents`, a creation that joins
the queue to `Request`, one that is refused, fails or dies with the process to
`Abandon`, an upserted journal to `Open`, a clock correction or an overtaken worker
to `Disorder`, and the rest to stuttering.

`ManagerProofs` has one invariant of `Spec`,
`Frame /\ (Unstranded => Contained) /\ (Calm => Steady)`. `Frame` holds whatever
happens: which task holds the lock at which step, what has been asked and set up,
what a rebuild has done so far, which rules are in the database. `Contained` says
where the engines are: none inside a pause or beside a closed store, those recovered
so far during a rebuild, those of the last rebuild under a listener, and otherwise
none that the next pause would not suspend. The steps that break it are those that
strand engines (`Strands`: a rebuild that stops after it recovered an engine, a
set-up that stops after that; see Divergences), hence the premise `Unstranded`, which
is part of the statements of `PausesAreQuiet`, `EnginesAreUnique`,
`ObservationIsWhole` and `StopsAreSilent` and of the last conjunct of
`EntryLeavesNothing`. All other failures, cancellations and late workers are within
it: a failing statement, a refused body, a cancelled drain, a rebuild that fails at
its first read, a call's save that fails while its listener synchronises, a set-up
rolled back. `Steady` (a listener, no engine of an erased rule, no unexplained error)
holds while storage has not failed and nobody was cancelled (`Calm`) and gives
`ErrorsJustified`. `GoneLeavesNothing` and the action property `RebuildsRestore` have
no further premise.

`ExportsProofs` proves `ResetsErase` and `UrlsResolve`. `Erasure` says what a
file with old rows still has ahead of it at each stage of a reset: it is
registered and will be discarded, or a path of it is listed for unlinking, or
the reset ends with an error. `Kept` relates an answered URL's expiry, its
registration and its file.

Only model-checked: liveness (`PendingResolves`, `CallsAreServed`, `TeardownEnds`,
`CallsReturn`, `AnsweredFilesAreRemoved`), since no prover here handles
fairness. Every other property of a passing run is a theorem.

## Not modelled

Request validation, dispatch, response formats, CSV text, entity display,
settings, the config flow, release scripts: pure or output only.
`compact_database` changes no row. Haversine arithmetic. PRAGMAs and SQLite's
own recovery: a committed transaction survives. A cancelled `async_start` or
`async_open` (`manager.py:115`): no except clause catches it, and a worker may
open the file behind a manager nobody stops. The instant a healthy entity shows. A second manager
beside one that a failed set-up left behind.
Schema versions other than the current one and an unknown one.

## Plan

1. Done: engine, evaluation, manager with the entry's set-up and unloading,
   event store, the store's life cycle, exports; abstract journal and abstract
   store with their refinements; proofs about all components.
2. Models to add: two engines of one rule over one row, in place of the
   unanswered writes of `RuleEngine`; a set-up task that is cancelled; the manager
   of a set-up that is tried again beside the one that was left listening.
3. Proofs to add: an abstract specification of what a pause promises, and that
   `Manager` implements it; the same for an export's life.
