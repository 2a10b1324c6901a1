----------------------------- MODULE RuleEngine -----------------------------
(***************************************************************************)
(* One RuleTransitionEngine (runtime/engine.py) with everything it runs    *)
(* against: tracker samples evaluated before they queue for the engine's   *)
(* lock, deadline timers, the storage calls the engine awaits while it     *)
(* holds the lock, the wall clock, crashes, and the manager that suspends  *)
(* the engine and builds a new one from the persisted row.                 *)
(*                                                                         *)
(* The engine's lock is free when pc = "idle"; otherwise pc names the call *)
(* the lock's holder awaits.  Code between two awaits is one action.       *)
(***************************************************************************)
EXTENDS RuleState, Sequences, FiniteSets

CONSTANTS
    TimerIds,      \* handles the scheduler can have in use at once
    NoTimer,       \* _scheduled is None
    NoTransition,  \* no transition is being committed
    Budget,        \* how often each environment disturbance may happen
    MaxQueue,      \* bound: samples delivered or waiting for the lock
    MaxGeneration, \* bound: pendings begun before the tracker falls silent
    MaxTime,       \* bound: last instant of either clock
    Together       \* bound: kinds of disturbance that one behaviour may have

Disturbances ==
    {"fail", "lost", "late", "clock", "zone", "crash", "suspend",
     "deactivate"}

ASSUME EngineAssumption ==
    /\ NoTimer \notin TimerIds
    /\ Budget \in [Disturbances -> Nat]
    /\ MaxTime \in Nat

VARIABLES
    wall,         \* clock.utc_now()
    mono,         \* the event loop's clock, which timers follow
    tracker,      \* the tracker's current Home Assistant state
    listening,    \* the tracker listener is registered
    samples,      \* delivered tracker states not evaluated yet
    observations, \* evaluated samples waiting for the engine's lock
    phase,        \* where the manager is with this engine object
    accepting,    \* _accepting
    state,        \* _state
    scheduled,    \* _scheduled
    timers,       \* timers armed in the event loop
    fired,        \* deadline callbacks waiting for the engine's lock
    pc,           \* the await of the lock's holder
    transition,   \* the ConfirmedTransition being committed
    row,          \* the rule's row of runtime_states
    journal,      \* the rule's rows of location_events, in commit order
    abandoned,    \* writes of worker threads whose callers were cancelled
    published,    \* transitions handed to the observer
    budget        \* disturbances left

clocks   == <<wall, mono>>
ha       == <<tracker, listening, samples>>
engine   == <<accepting, state, scheduled, timers>>
database == <<row, journal, abandoned>>
vars == <<clocks, ha, observations, phase, engine, fired, pc, transition,
          database, published, budget>>

Observed == [presence : Sides \cup {"unknown"}, at : Nat]
Timers   == [id : TimerIds, generation : Nat, due : Int]
Events   == [side : Sides, generation : Nat, deadline : Nat,
             occurred : Nat, confirmed : Nat]
Writes   == [worker : Nat, row : RuntimeStates \cup {NoState},
             event : Events \cup {NoTransition}]
Phases   == {"absent", "recovering", "recovered", "running", "suspended"}
Awaits   == {"idle", "saving", "savingLatest", "savingPending",
             "savingCancelled", "committing", "committed", "duplicate",
             "deleting"}

Init ==
    /\ wall = 0 /\ mono = 0
    /\ tracker = [reading |-> "none", at |-> 0]
    /\ listening = FALSE
    /\ samples = {} /\ observations = {}
    /\ phase = "absent" /\ accepting = FALSE
    /\ state = NoState /\ scheduled = NoTimer /\ timers = {} /\ fired = {}
    /\ pc = "idle" /\ transition = NoTransition
    /\ row = NoState /\ journal = <<>> /\ abandoned = {} /\ published = <<>>
    /\ budget = Budget

Spent == {d \in Disturbances : budget[d] < Budget[d]}

Spend(d) ==
    /\ budget[d] > 0 /\ Spent \cup {d} \in Together
    /\ budget' = [budget EXCEPT ![d] = @ - 1]

-----------------------------------------------------------------------------
(* The environment: time, the tracker, and its samples.                    *)

Tick ==
    /\ mono < MaxTime /\ wall < MaxTime
    /\ mono' = mono + 1 /\ wall' = wall + 1
    /\ UNCHANGED <<ha, observations, phase, engine, fired, pc, transition,
                   database, published, budget>>

(* The wall clock is corrected; timers do not notice.                      *)
AdjustClock ==
    /\ Spend("clock")
    /\ \E t \in 0 .. MaxTime : t # wall /\ wall' = t
    /\ UNCHANGED <<mono, ha, observations, phase, engine, fired, pc,
                   transition, database, published>>

(* "band" lies between radius and radius + margin; "none" is unusable, and *)
(* all the tracker reports once MaxGeneration is reached.                  *)
TrackerUpdates(r) ==
    /\ state # NoState /\ state.generation >= MaxGeneration => r = "none"
    /\ Cardinality(samples) + Cardinality(observations) < MaxQueue
    /\ tracker' = [reading |-> r, at |-> wall]
    /\ samples' = IF listening THEN samples \cup {tracker'} ELSE samples
    /\ UNCHANGED <<clocks, listening, observations, phase, engine, fired, pc,
                   transition, database, published, budget>>

(* The zone of the rule's place is edited: what the tracker and the samples *)
(* not evaluated yet mean changes, and nothing is delivered.               *)
ZoneChanges ==
    /\ Spend("zone")
    /\ \E r \in Readings : tracker' = [tracker EXCEPT !.reading = r]
    /\ \E r \in [samples -> Readings] :
         samples' = {[s EXCEPT !.reading = r[s]] : s \in samples}
    /\ UNCHANGED <<clocks, listening, observations, phase, engine, fired, pc,
                   transition, database, published>>

(* The listener classifies against the engine's state as it is now, and    *)
(* only then queues for the lock.                                          *)
EvaluateSample(sample) ==
    /\ sample \in samples
    /\ samples' = samples \ {sample}
    /\ observations' =
         IF Usable(sample, state)
         THEN observations \cup
                {[presence |-> PresenceOf(sample, state), at |-> sample.at]}
         ELSE observations
    /\ UNCHANGED <<clocks, tracker, listening, phase, engine, fired, pc,
                   transition, database, published, budget>>

Fire(t) ==
    /\ t \in timers
    /\ mono >= t.due
    /\ timers' = timers \ {t}
    /\ fired' = fired \cup {t}
    /\ UNCHANGED <<clocks, ha, observations, phase, accepting, state,
                   scheduled, pc, transition, database, published, budget>>

-----------------------------------------------------------------------------
(* Code that runs with the lock held, up to the next await.                *)

CancelScheduled ==
    /\ timers' = {t \in timers : t.id # scheduled}
    /\ scheduled' = NoTimer

Await(call) == pc' = call /\ UNCHANGED <<phase, transition>>

(* The critical section ends; an exception ends it too, and one that       *)
(* leaves async_recover makes the manager drop the engine.                 *)
Release ==
    /\ pc' = "idle" /\ transition' = NoTransition
    /\ phase' = IF phase = "recovering" THEN "recovered" ELSE phase
Raise ==
    /\ pc' = "idle" /\ transition' = NoTransition
    /\ phase' = IF phase = "recovering" THEN "absent" ELSE phase

FreeTimers == TimerIds \ ({t.id : t \in timers \cup fired} \cup {scheduled})

(* A handle still in _scheduled is overwritten, not cancelled.             *)
ScheduleDeadline ==
    /\ \E id \in FreeTimers :
         /\ scheduled' = id
         /\ timers' = timers \cup {[id         |-> id,
                                    generation |-> state.generation,
                                    due        |-> mono + state.deadline - wall]}
    /\ Release
    /\ UNCHANGED state

(* _confirm_locked once the deadline is due, by what Home Assistant says   *)
(* of the tracker now.                                                     *)
Unconfirmable ==
    /\ ~Usable(tracker, state)
    /\ scheduled' = NoTimer
    /\ Release
    /\ UNCHANGED <<state, timers>>

CancelPending ==
    /\ Usable(tracker, state) /\ PresenceOf(tracker, state) # state.pending
    /\ state' = ClearPending(state)
    /\ Await("savingCancelled")
    /\ UNCHANGED <<scheduled, timers>>

CoolingDown(s, now) ==
    s.cooldown[s.pending] # NoTime /\ now < s.cooldown[s.pending]

CorrectPresence ==
    /\ Usable(tracker, state) /\ PresenceOf(tracker, state) = state.pending
    /\ CoolingDown(state, wall)
    /\ state' = CorrectedState(state)
    /\ Await("saving")
    /\ UNCHANGED <<scheduled, timers>>

BuildTransition ==
    [side |-> state.pending, generation |-> state.generation,
     deadline |-> state.deadline, occurred |-> state.started,
     confirmed |-> wall]

\* A plausible bug of CommitTransition, used by a mutation run only.
FaultyCommitTransition ==
    /\ ~CoolingDown(state, wall)
    /\ transition' = BuildTransition
    /\ pc' = "committing"
    /\ UNCHANGED <<state, scheduled, timers, phase>>

CommitTransition ==
    /\ Usable(tracker, state) /\ PresenceOf(tracker, state) = state.pending
    /\ ~CoolingDown(state, wall)
    /\ transition' = BuildTransition
    /\ pc' = "committing"
    /\ UNCHANGED <<state, scheduled, timers, phase>>

\* A plausible bug of ConfirmLocked, used by a mutation run only.
FaultyConfirmLocked(generation) ==
    IF ~IsPending(state) \/ state.generation # generation
    THEN Release /\ UNCHANGED <<state, scheduled, timers>>
    ELSE Unconfirmable \/ CancelPending \/ CorrectPresence \/ CommitTransition

ConfirmLocked(generation) ==
    IF ~IsPending(state) \/ state.generation # generation
    THEN Release /\ UNCHANGED <<state, scheduled, timers>>
    ELSE IF wall < state.deadline
    THEN ScheduleDeadline
    ELSE Unconfirmable \/ CancelPending \/ CorrectPresence \/ CommitTransition

\* A plausible bug of RestorePending, used by a mutation run only.
FaultyRestorePending ==
    IF IsPending(state) /\ wall >= state.deadline
    THEN ConfirmLocked(state.generation)
    ELSE Release /\ UNCHANGED <<state, scheduled, timers>>

RestorePending ==
    IF IsPending(state) THEN ConfirmLocked(state.generation)
    ELSE Release /\ UNCHANGED <<state, scheduled, timers>>

-----------------------------------------------------------------------------
(* async_observe: what an observation does when it gets the lock.          *)
(* A definition named Faulty... is a plausible bug of the one after it; no *)
(* behaviour of this module uses it, the mutation runs do.                 *)

Outdated(obs) == state # NoState /\ obs.at < state.processed

TakeLock == pc = "idle" /\ UNCHANGED <<clocks, ha, accepting, database,
                                       published, budget>>

DropObservation(obs) ==
    /\ ~accepting \/ Outdated(obs) \/ obs.presence = "unknown"
    /\ UNCHANGED <<phase, state, scheduled, timers, pc, transition>>

\* A plausible bug of SetBaseline, used by a mutation run only.
FaultySetBaseline(obs) ==
    /\ accepting /\ state = NoState
    /\ state' = BaselineState(obs)
    /\ Await("saving")
    /\ UNCHANGED <<scheduled, timers>>

SetBaseline(obs) ==
    /\ accepting /\ state = NoState /\ obs.presence # "unknown"
    /\ state' = BaselineState(obs)
    /\ Await("saving")
    /\ UNCHANGED <<scheduled, timers>>

Classified(obs) ==
    accepting /\ state # NoState /\ ~Outdated(obs) /\ obs.presence # "unknown"

StayStable(obs) ==
    /\ Classified(obs)
    /\ obs.presence = state.presence
    /\ CancelScheduled
    /\ state' = StableState(state, obs)
    /\ Await("saving")

\* A plausible bug of RefreshPending, used by a mutation run only.
FaultyRefreshPending(obs) ==
    /\ Classified(obs)
    /\ obs.presence # state.presence /\ obs.presence = state.pending
    /\ state' = LatestState(state, obs)
    /\ Await("saving")
    /\ UNCHANGED <<scheduled, timers>>

RefreshPending(obs) ==
    /\ Classified(obs)
    /\ obs.presence # state.presence /\ obs.presence = state.pending
    /\ state' = LatestState(state, obs)
    /\ Await("savingLatest")
    /\ UNCHANGED <<scheduled, timers>>

BeginPending(obs) ==
    /\ Classified(obs)
    /\ obs.presence # state.presence /\ obs.presence # state.pending
    /\ CancelScheduled
    /\ state' = PendingState(state, obs, wall)
    /\ Await("savingPending")

Observe(obs) ==
    /\ TakeLock
    /\ obs \in observations
    /\ observations' = observations \ {obs}
    /\ \/ DropObservation(obs)
       \/ SetBaseline(obs)
       \/ StayStable(obs)
       \/ RefreshPending(obs)
       \/ BeginPending(obs)
    /\ UNCHANGED fired

\* A plausible bug of DeadlineCallback, used by a mutation run only.
FaultyDeadlineCallback(t) ==
    /\ TakeLock
    /\ t \in fired
    /\ fired' = fired \ {t}
    /\ ConfirmLocked(t.generation)
    /\ UNCHANGED observations

DeadlineCallback(t) ==
    /\ TakeLock
    /\ t \in fired
    /\ fired' = fired \ {t}
    /\ IF accepting
       THEN ConfirmLocked(t.generation)
       ELSE UNCHANGED <<phase, state, scheduled, timers, pc, transition>>
    /\ UNCHANGED observations

-----------------------------------------------------------------------------
(* Storage answers the lock's holder.                                      *)

Saves == {"saving", "savingLatest", "savingPending", "savingCancelled"}

Saved ==
    /\ pc \in Saves
    /\ row' = state
    /\ CASE pc = "saving" ->
              Release /\ UNCHANGED <<state, scheduled, timers>>
         [] pc = "savingCancelled" ->
              Release /\ scheduled' = NoTimer /\ UNCHANGED <<state, timers>>
         [] pc = "savingPending" -> RestorePending
         [] pc = "savingLatest" ->
              IF wall >= state.deadline
              THEN ConfirmLocked(state.generation)
              ELSE Release /\ UNCHANGED <<state, scheduled, timers>>
    /\ UNCHANGED <<clocks, ha, observations, accepting, fired, journal,
                   abandoned, published, budget>>

\* A plausible bug of Recorded, used by a mutation run only.
FaultyRecorded(e) == FALSE

(* The idempotency key of a transition is in the journal.                  *)
Recorded(e) ==
    \E i \in DOMAIN journal :
        /\ journal[i].generation = e.generation
        /\ journal[i].deadline = e.deadline

AlreadyRecorded == Recorded(transition)

\* A plausible bug of RecordTransition, used by a mutation run only.
FaultyRecordTransition ==
    /\ pc = "committing" /\ ~AlreadyRecorded
    /\ journal' = Append(journal, transition)
    /\ row' = CorrectedState(state)
    /\ UNCHANGED <<clocks, ha, observations, engine, fired, abandoned,
                   published>>

(* The event and the runtime row are written in one SQLite transaction.    *)
RecordTransition ==
    /\ pc = "committing" /\ ~AlreadyRecorded
    /\ journal' = Append(journal, transition)
    /\ row' = ConfirmedState(state, transition.confirmed)
    /\ UNCHANGED <<clocks, ha, observations, engine, fired, abandoned,
                   published>>

CommitCreated ==
    /\ RecordTransition
    /\ pc' = "committed"
    /\ UNCHANGED <<phase, transition, budget>>

CommitDuplicate ==
    /\ pc = "committing" /\ AlreadyRecorded
    /\ pc' = "duplicate"
    /\ UNCHANGED <<clocks, ha, observations, phase, engine, fired, transition,
                   database, published, budget>>

\* A plausible bug of PublishTransition, used by a mutation run only.
FaultyPublishTransition ==
    /\ pc = "committed"
    /\ state' = CorrectedState(state)
    /\ published' = IF scheduled = NoTimer THEN published
                    ELSE Append(published, transition)
    /\ scheduled' = NoTimer
    /\ Release
    /\ UNCHANGED <<clocks, ha, observations, accepting, timers, fired,
                   database, budget>>

PublishTransition ==
    /\ pc = "committed"
    /\ state' = ConfirmedState(state, transition.confirmed)
    /\ published' = Append(published, transition)
    /\ scheduled' = NoTimer
    /\ Release
    /\ UNCHANGED <<clocks, ha, observations, accepting, timers, fired,
                   database, budget>>

(* A duplicate's row is reloaded; without a row the engine raises.         *)
ReloadState ==
    /\ pc = "duplicate"
    /\ IF row = NoState
       THEN Raise /\ UNCHANGED <<state, scheduled>>
       ELSE Release /\ state' = row /\ scheduled' = NoTimer
    /\ UNCHANGED <<clocks, ha, observations, accepting, timers, fired,
                   database, published, budget>>

DeleteState ==
    /\ pc = "deleting"
    /\ row' = NoState
    /\ pc' = "idle"
    /\ UNCHANGED <<clocks, ha, observations, phase, engine, fired, transition,
                   journal, abandoned, published, budget>>

(* The call fails and its SQLite transaction is rolled back.               *)
StorageFails ==
    /\ pc \in Saves \cup {"committing", "duplicate", "deleting"}
    /\ Spend("fail")
    /\ Raise
    /\ UNCHANGED <<clocks, ha, observations, engine, fired, database,
                   published>>

(* The worker thread writes, and the caller is cancelled before it hears.  *)
SaveUnanswered ==
    /\ pc \in Saves
    /\ Spend("lost")
    /\ row' = state
    /\ Raise
    /\ UNCHANGED <<clocks, ha, observations, engine, fired, journal,
                   abandoned, published>>

CommitUnanswered ==
    /\ RecordTransition
    /\ Spend("lost")
    /\ Raise

(* The caller is cancelled before its worker thread has the connection: it *)
(* frees the engine's lock and the gate, and the thread goes on without.   *)
(* One that never starts is StorageFails.                                  *)
AbandonWorker ==
    /\ pc \in Saves \cup {"committing", "deleting"}
    /\ Spend("late")
    /\ abandoned' = abandoned \cup
         {IF pc = "committing"
          THEN [worker |-> budget["late"], event |-> transition,
                row |-> ConfirmedState(state, transition.confirmed)]
          ELSE [worker |-> budget["late"], event |-> NoTransition,
                row |-> state]}
    /\ Raise
    /\ UNCHANGED <<clocks, ha, observations, engine, fired, row, journal,
                   published>>

(* Whatever the engine, or its successor, has written since.               *)
WorkerWrites(w) ==
    /\ w \in abandoned
    /\ abandoned' = abandoned \ {w}
    /\ IF w.event = NoTransition
       THEN row' = w.row /\ UNCHANGED journal
       ELSE IF Recorded(w.event)
       THEN UNCHANGED <<row, journal>>
       ELSE row' = w.row /\ journal' = Append(journal, w.event)
    /\ UNCHANGED <<clocks, ha, observations, phase, engine, fired, pc,
                   transition, published, budget>>

-----------------------------------------------------------------------------
(* The manager: build, suspend, retire, and the death of the process.      *)

(* Callbacks of the replaced engine object are dropped: its _accepting     *)
(* stays FALSE, and SuspendedIsQuiet says what they can do.                *)
NewEngine ==
    /\ pc = "idle" /\ phase \in {"absent", "suspended"}
    /\ scheduled' = NoTimer /\ timers' = {} /\ fired' = {}
    /\ samples' = {} /\ observations' = {}
    /\ UNCHANGED <<clocks, tracker, listening, transition, database,
                   published>>

Recover ==
    /\ NewEngine
    /\ accepting' = TRUE
    /\ IF row = NoState
       THEN state' = NoState /\ pc' = "idle" /\ phase' = "recovered"
       ELSE /\ state' = RecoveredState(row, wall)
            /\ pc' = "savingPending" /\ phase' = "recovering"
    /\ UNCHANGED budget

(* async_recover of a disabled rule.                                       *)
RecoverDisabled ==
    /\ NewEngine
    /\ Spend("deactivate")
    /\ accepting' = FALSE /\ state' = NoState
    /\ pc' = "deleting" /\ phase' = "suspended"

(* The listener is registered, then synchronises with the current state.   *)
StartListener ==
    /\ phase = "recovered"
    /\ phase' = "running" /\ listening' = TRUE
    /\ samples' = samples \cup {tracker}
    /\ UNCHANGED <<clocks, tracker, observations, engine, fired, pc,
                   transition, database, published, budget>>

StopListener ==
    /\ phase = "running" /\ listening
    /\ Spend("suspend")
    /\ listening' = FALSE
    /\ UNCHANGED <<clocks, tracker, samples, observations, phase, engine,
                   fired, pc, transition, database, published>>

Suspend ==
    /\ pc = "idle" /\ phase = "running" /\ ~listening
    /\ accepting' = FALSE /\ phase' = "suspended"
    /\ CancelScheduled
    /\ UNCHANGED <<clocks, ha, observations, state, fired, pc, transition,
                   database, published, budget>>

Deactivate ==
    /\ pc = "idle" /\ phase = "suspended"
    /\ Spend("deactivate")
    /\ accepting' = FALSE
    /\ CancelScheduled
    /\ state' = NoState
    /\ pc' = "deleting"
    /\ UNCHANGED <<clocks, ha, observations, phase, fired, transition,
                   database, published>>

Crash ==
    /\ phase # "absent"
    /\ Spend("crash")
    /\ listening' = FALSE /\ samples' = {} /\ observations' = {}
    /\ phase' = "absent" /\ accepting' = FALSE
    /\ state' = NoState /\ scheduled' = NoTimer /\ timers' = {} /\ fired' = {}
    /\ pc' = "idle" /\ transition' = NoTransition
    /\ abandoned' = {}
    /\ UNCHANGED <<clocks, tracker, row, journal, published>>

-----------------------------------------------------------------------------
Next ==
    \/ Tick \/ AdjustClock
    \/ \E r \in Readings : TrackerUpdates(r)
    \/ ZoneChanges
    \/ \E s \in samples : EvaluateSample(s)
    \/ \E t \in timers : Fire(t)
    \/ \E o \in observations : Observe(o)
    \/ \E t \in fired : DeadlineCallback(t)
    \/ Saved \/ CommitCreated \/ CommitDuplicate
    \/ PublishTransition \/ ReloadState \/ DeleteState
    \/ StorageFails \/ SaveUnanswered \/ CommitUnanswered
    \/ AbandonWorker \/ \E w \in abandoned : WorkerWrites(w)
    \/ Recover \/ RecoverDisabled \/ StartListener
    \/ StopListener \/ Suspend \/ Deactivate \/ Crash

Spec == Init /\ [][Next]_vars

(* Time passes, armed timers fire, storage calls return, delivered samples *)
(* run, and the manager starts what it recovered.  The engine's lock is    *)
(* first come first served, hence strong fairness for those who queue.     *)
Fairness ==
    /\ WF_vars(Tick)
    /\ WF_vars(\E s \in samples : EvaluateSample(s))
    /\ WF_vars(\E t \in timers : Fire(t))
    /\ WF_vars(Saved \/ CommitCreated \/ CommitDuplicate \/ PublishTransition
                 \/ ReloadState \/ DeleteState)
    /\ WF_vars(Recover \/ StartListener)
    /\ SF_vars(\E o \in observations : Observe(o))
    /\ SF_vars(\E t \in fired : DeadlineCallback(t))

FairSpec == Spec /\ Fairness

-----------------------------------------------------------------------------
(* The types of the engine's fields, its rows and what waits around it.    *)
TypeOK ==
    /\ wall \in Nat /\ mono \in Nat
    /\ tracker \in Samples
    /\ listening \in BOOLEAN /\ accepting \in BOOLEAN
    /\ samples \subseteq Samples
    /\ observations \subseteq Observed
    /\ phase \in Phases
    /\ state \in RuntimeStates \cup {NoState}
    /\ scheduled \in TimerIds \cup {NoTimer}
    /\ timers \subseteq Timers /\ fired \subseteq Timers
    /\ pc \in Awaits
    /\ transition \in Events \cup {NoTransition}
    /\ row \in RuntimeStates \cup {NoState}
    /\ journal \in Seq(Events) /\ published \in Seq(Events)
    /\ abandoned \subseteq Writes
    /\ budget \in [Disturbances -> Nat]

Undisturbed(ds) == \A d \in ds : budget[d] = Budget[d]

(* Pending generations only grow with the rule's row, so no retry, stale   *)
(* timer, crash or reload ever records one pending episode twice, nor an   *)
(* older episode after a newer one (the idempotency key of transitions.py),*)
(* unless a cancelled caller's worker is late by a whole episode.          *)
EventsFollowGenerations ==
    Undisturbed({"deactivate", "late"}) =>
        \A i, j \in DOMAIN journal :
            i < j => journal[i].generation < journal[j].generation

(* A side is recorded only after it was pending for the rule's             *)
(* confirmation time, whatever the timers and the wall clock do.           *)
EventsWaitForDeadline ==
    \A i \in DOMAIN journal :
        LET e == journal[i]
        IN  /\ e.deadline = e.occurred + Confirmation[e.side]
            /\ e.confirmed >= e.deadline

(* Two events of one direction are at least the cooldown apart, across     *)
(* crashes, recoveries and failed saves, while clocks only go forward and  *)
(* every answered commit reaches the engine (README: cooldown).            *)
CooldownSeparatesEvents ==
    Undisturbed({"clock", "deactivate", "lost", "late"}) =>
        \A i, j \in DOMAIN journal :
            i < j /\ journal[i].side = journal[j].side =>
                journal[j].confirmed >= journal[i].confirmed + CooldownSeconds

(* The row never forgets an event: after any crash the cooldown it carries *)
(* is that of the direction's last event, or that cooldown is over.        *)
RowRemembersEvents ==
    Undisturbed({"clock", "deactivate", "lost", "late"}) =>
        \A i \in DOMAIN journal :
            LET e == journal[i]
                until == e.confirmed + CooldownSeconds
                last == \A j \in DOMAIN journal : j > i => journal[j].side # e.side
            IN  last => /\ row # NoState
                        /\ \/ row.cooldown[e.side] = until
                           \/ row.cooldown[e.side] = NoTime /\ until <= wall

(* With the lock free and storage sound, the engine's memory is its row:   *)
(* a crash at that moment loses nothing.                                   *)
MemoryIsPersisted ==
    /\ phase \in {"recovered", "running", "suspended"}
    /\ pc = "idle" /\ Undisturbed({"fail", "lost", "late"})
    => state = row

(* While a pending deadline lies ahead, some timer or queued callback will *)
(* bring the engine back to that very generation.                          *)
PendingIsTimed ==
    /\ accepting /\ pc = "idle"
    /\ Undisturbed({"fail", "lost", "late", "clock"})
    /\ IsPending(state) /\ wall < state.deadline
    => \E t \in timers \cup fired :
         t.generation = state.generation /\ t.due <= mono + state.deadline - wall

(* The observer hears of committed events only, once each and in order,    *)
(* and misses none unless the process or the caller died in between.       *)
PublishedOnce ==
    /\ \A i, j \in DOMAIN published : i # j => published[i] # published[j]
    /\ \A i \in DOMAIN published : \E j \in DOMAIN journal : published[i] = journal[j]
    /\ pc # "committed" /\ Undisturbed({"crash", "lost", "late"})
         => published = journal

(* Once suspended, an engine whose callbacks are still queued leaves the   *)
(* observer and the event loop's timers alone and starts no write: only a  *)
(* worker whose caller was cancelled before may still reach the database.  *)
SuspendedIsQuiet ==
    [][phase = "suspended" /\ phase' = "suspended" /\ pc # "deleting"
         => /\ UNCHANGED published /\ timers' \subseteq timers
            /\ abandoned' \subseteq abandoned
            /\ abandoned' = abandoned => UNCHANGED <<row, journal>>]_vars

(* No event is recorded from the hysteresis band or from the sample that   *)
(* began the pending: the live reading itself names the side.              *)
EventsNeedDefiniteReading ==
    [][pc # "committing" /\ pc' = "committing"
         => tracker.reading = transition'.side]_vars

(* A confirmation that loses to its own earlier commit reloads the         *)
(* committed row, so the episode is over (test_runtime_engine.py:261).     *)
DuplicateEndsEpisode ==
    [][pc = "duplicate" /\ pc' = "idle" /\ UNCHANGED budget
         => ~IsPending(state')]_vars

(* Once the tracker stays usable and the engine stays up, every pending    *)
(* whose deadline the clock reaches ends: confirmed, corrected or          *)
(* cancelled.  A deadline that met an unusable tracker leaves no timer, so *)
(* it takes the tracker's next sample to end it.                           *)
PendingResolves ==
    <>[](phase = "running" /\ state # NoState /\ Usable(tracker, state)) =>
        \A g \in 1 .. MaxGeneration :
            IsPending(state) /\ state.generation = g /\ state.deadline <= MaxTime
                ~> ~(IsPending(state) /\ state.generation = g)
=============================================================================
