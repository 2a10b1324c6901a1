------------------------------ MODULE Manager ------------------------------
(***************************************************************************)
(* GeofenceJournalManager (manager.py) with the service calls that pause   *)
(* it, the set-up, roll-back and unloading of its config entry             *)
(* (__init__.py), and the engines it builds and suspends.  Its             *)
(* _refresh_lock serves tasks in arrival order; step says what the holder  *)
(* awaits, and code between two awaits is one action.                      *)
(*                                                                         *)
(* An engine is reduced to what the manager's duties depend on: it exists  *)
(* while it accepts work, may have a timer armed and may await the store   *)
(* with its own lock held (RuleEngine has the rest).  A suspended engine   *)
(* does nothing any more and is dropped.                                   *)
(***************************************************************************)
EXTENDS Integers, Sequences

CONSTANTS
    Rules,       \* rule identifiers, recovered in increasing order
    Calls,       \* service calls that run inside pause_and_drain
    Start, Stop, \* the tasks of async_start and async_stop
    Nobody,      \* the lock is free
    Requests,    \* what calls may ask for
    Budget       \* how often each environment disturbance may happen

(* A storage call fails, a service call is cancelled, Home Assistant        *)
(* refuses a step; a failure or cancellation strands engines; the worker   *)
(* thread of a cancelled call lands late.                                  *)
Disturbances == {"fail", "cancel", "refuse", "strand", "late"}
Tasks == Calls \cup {Start, Stop}

Unmade == <<"unmade">>
(* "work" stands for purge, compact and each upsert that leaves the set of *)
(* enabled rules alone; SQLite refuses a "duplicate" (IntegrityError).     *)
Bodies == {<<"work">>, <<"duplicate">>, <<"reset">>}
          \cup {"enable", "disable"} \X Rules
(* What an abandoned worker thread may still commit.                       *)
Effects == Bodies \cup ({"save"} \X Rules \X {"stable", "pending"})

ASSUME ManagerAssumption ==
    /\ Rules \subseteq Nat
    /\ Requests \subseteq Bodies
    /\ Start # Stop /\ {Start, Stop} \cap Calls = {}
    /\ Nobody \notin Tasks
    /\ Budget \in [Disturbances -> Nat]

VARIABLES
    opened,    \* the store accepts operations
    setup,     \* where the entry's set-up, roll-back or unloading is
    services,  \* the service actions are registered
    platforms, \* the entry's sensors are set up
    queue,     \* tasks waiting for _refresh_lock, oldest first
    holder,    \* the task that holds it
    step,      \* what the holder awaits
    body,      \* what each call does inside its pause, or Unmade
    failed,    \* database_failed of the holder
    todo,      \* rules the holder has still to recover, or to synchronise
    building,  \* engines the holder recovered
    paused,    \* _paused
    listener,  \* a listener generation is registered
    runtimes,  \* _runtimes: identities of engines
    engines,   \* every engine object that accepts work
    builds,    \* engine generations begun
    enabled,   \* rules enabled in the database
    row,       \* runtime_states: "none", "stable" or "pending" for each rule,
               \* or "absent" when the rule itself is not in the database
    late,      \* commits of cancelled calls that have not landed
    entity,    \* _entity_state
    budget     \* disturbances left

entry == <<setup, services, platforms>>
lock == <<queue, holder, step>>
work == <<body, failed, todo, building>>
observation == <<paused, listener, runtimes>>
database == <<enabled, row, late>>
vars == <<opened, entry, lock, work, observation, engines, builds, database,
          entity, budget>>

Setups == {"starting", "registering", "forwarding", "loaded", "rollingBack",
           "unloading", "unregistering", "gone", "failedUnload"}
Steps == {"free", "draining", "working", "listing", "building", "latest",
          "starting"}
(* An engine saves for a sample of its own task or for the lock's holder,   *)
(* or it confirms.                                                         *)
Samples == {"pend", "settle"}
Syncs   == {"syncPend", "syncSettle"}
Awaits  == {"nothing", "confirm"} \cup Samples \cup Syncs
Rows    == {"absent", "none", "stable", "pending"}
Identities == [build : Nat, rule : Rules]
Engines == [id : Identities, timer : BOOLEAN, await : Awaits]

(* async_start has opened the store: resources are about to be read.       *)
Init ==
    /\ opened = TRUE
    /\ setup = "starting" /\ services = FALSE /\ platforms = FALSE
    /\ queue = <<>> /\ holder = Start /\ step = "listing"
    /\ body = [c \in Calls |-> Unmade] /\ failed = FALSE
    /\ todo = {} /\ building = {}
    /\ paused = FALSE /\ listener = FALSE /\ runtimes = {}
    /\ engines = {} /\ builds = 0
    /\ enabled \in SUBSET Rules
    /\ row \in [Rules -> {"none", "stable", "pending"}]
    /\ \A r \in Rules \ enabled : row[r] = "none"
    /\ late = {}
    /\ entity = "healthy"
    /\ budget = Budget

Spend(d) == budget[d] > 0 /\ budget' = [budget EXCEPT ![d] = @ - 1]

-----------------------------------------------------------------------------
(* Asking for the lock, and stopping observations once it is held.         *)

Call(c, b) ==
    /\ services /\ body[c] = Unmade
    /\ body' = [body EXCEPT ![c] = b]
    /\ queue' = Append(queue, c)
    /\ UNCHANGED <<opened, entry, holder, step, failed, todo, building,
                   observation, engines, builds, database, entity, budget>>

(* The listener is dropped at once; engines are suspended one by one.      *)
Acquire ==
    /\ holder = Nobody /\ queue # <<>>
    /\ holder' = Head(queue) /\ queue' = Tail(queue)
    /\ step' = "draining"
    /\ paused' = (paused \/ holder' # Stop)
    /\ listener' = FALSE
    /\ failed' = FALSE
    /\ UNCHANGED <<opened, entry, body, todo, building, runtimes, engines,
                   builds, database, entity, budget>>

\* A plausible bug of Suspend, used by a mutation run only.
FaultySuspend(e) ==
    /\ step = "draining" /\ e.id \in runtimes /\ e.await = "nothing"
    /\ engines' = (engines \ {e}) \cup {[e EXCEPT !.timer = FALSE]}
    /\ runtimes' = runtimes \ {e.id}
    /\ UNCHANGED <<opened, entry, lock, work, paused, listener, builds,
                   database, entity, budget>>

(* async_suspend waits for the engine's own lock.                          *)
Suspend(e) ==
    /\ step = "draining" /\ e.id \in runtimes /\ e.await = "nothing"
    /\ engines' = engines \ {e}
    /\ UNCHANGED <<opened, entry, lock, work, observation, builds, database,
                   entity, budget>>

\* A plausible bug of Drained, used by a mutation run only.
FaultyDrained ==
    \A e \in engines : e.id \in runtimes => e.await # "nothing"

Drained == \A e \in engines : e.id \notin runtimes

BeginWork ==
    /\ step = "draining" /\ holder # Stop /\ Drained
    /\ runtimes' = {}
    /\ step' = "working"
    /\ UNCHANGED <<opened, entry, queue, holder, work, paused, listener,
                   engines, builds, database, entity, budget>>

-----------------------------------------------------------------------------
(* Inside the pause, and the rebuild at its end.                           *)

\* A plausible bug of Resume, used by a mutation run only.
FaultyResume(error) ==
    /\ failed' = error
    /\ entity' = IF error THEN "error" ELSE entity
    /\ step' = IF error THEN "free" ELSE "listing"
    /\ holder' = IF error THEN Nobody ELSE holder
    /\ paused' = FALSE
    /\ UNCHANGED <<opened, entry, queue, body, todo, building, listener,
                   runtimes, engines, builds>>

\* A plausible bug of Resume, used by a mutation run only.
StuckResume(error) ==
    /\ failed' = error
    /\ entity' = IF error THEN "error" ELSE entity
    /\ step' = "listing"
    /\ paused' = error
    /\ UNCHANGED <<opened, entry, queue, holder, body, todo, building,
                   listener, runtimes, engines, builds>>

(* Whatever the body raises, the finally clause rebuilds.                  *)
Resume(error) ==
    /\ failed' = error
    /\ entity' = IF error THEN "error" ELSE entity
    /\ step' = "listing"
    /\ paused' = FALSE
    /\ UNCHANGED <<opened, entry, queue, holder, body, todo, building,
                   listener, runtimes, engines, builds>>

Request == body[holder]

Upserts(b) == b[1] \in {"enable", "disable"}

(* A row that names a rule which a reset erased is refused.                *)
Commit(b) ==
    /\ enabled' = CASE b[1] = "enable"  -> enabled \cup {b[2]}
                    [] b[1] = "disable" -> enabled \ {b[2]}
                    [] b[1] = "reset"   -> {}
                    [] OTHER            -> enabled
    /\ row' = [r \in Rules |->
         CASE b[1] = "reset" -> "absent"
           [] Upserts(b) /\ b[2] = r /\ row[r] = "absent" -> "none"
           [] b[1] = "save" /\ b[2] = r /\ row[r] # "absent" -> b[3]
           [] OTHER -> row[r]]

RunBody ==
    /\ step = "working" /\ opened /\ Request # <<"duplicate">>
    /\ Commit(Request)
    /\ Resume(FALSE)
    /\ UNCHANGED <<late, budget>>

(* sqlite3.Error (IntegrityError is one) or StorageClosedError.            *)
RefuseBody ==
    /\ step = "working" /\ (~opened \/ Request = <<"duplicate">>)
    /\ UNCHANGED <<database, budget>>
    /\ Resume(TRUE)

List ==
    /\ step = "listing" /\ opened
    /\ todo' = enabled /\ building' = {}
    /\ builds' = builds + 1
    /\ step' = "building"
    /\ UNCHANGED <<opened, entry, queue, holder, body, failed, observation,
                   engines, database, entity, budget>>

(* async_recover: accept work and, for a pending row, arm the timer.       *)
Recover(r) ==
    /\ step = "building" /\ r \in todo /\ \A q \in todo : r <= q
    /\ todo' = todo \ {r}
    /\ LET id == [build |-> builds, rule |-> r]
       IN  /\ building' = building \cup {id}
           /\ engines' = engines \cup
                {[id |-> id, timer |-> row[r] = "pending", await |-> "nothing"]}
    /\ UNCHANGED <<opened, entry, lock, body, failed, observation, builds,
                   database, entity, budget>>

(* The generation is known before the newest event has been read.          *)
Adopt ==
    /\ step = "building" /\ todo = {}
    /\ runtimes' = building
    /\ step' = "latest"
    /\ UNCHANGED <<opened, entry, queue, holder, work, paused, listener,
                   engines, builds, database, entity, budget>>

(* Healthy again, with a listener over these engines.                      *)
Install ==
    /\ step = "latest"
    /\ todo' = {id.rule : id \in building}
    /\ entity' = "healthy"
    /\ listener' = TRUE
    /\ step' = "starting"
    /\ UNCHANGED <<opened, entry, queue, holder, body, failed, building,
                   paused, runtimes, engines, builds, database, budget>>

Become(e, f) == engines' = (engines \ {e}) \cup {f}

Syncing(e) == e.await \in Syncs
Synchronizing == \E e \in engines : Syncing(e)

(* What a sample can make an engine write: a pending, or anything else.    *)
Outcomes(e) ==
    IF e.timer \/ row[e.id.rule] = "none" THEN {"settle"} ELSE Samples

(* The listener hands each engine the tracker's state of that moment and   *)
(* waits; the state may be missing, ignored or change nothing.             *)
Synchronize(r) ==
    /\ step = "starting" /\ r \in todo /\ ~Synchronizing
    /\ todo' = todo \ {r}
    /\ \/ UNCHANGED engines
       \/ \E e \in engines :
            /\ e.id \in runtimes /\ e.id.rule = r /\ e.await = "nothing"
            /\ \E a \in Outcomes(e) :
                 Become(e, [e EXCEPT !.await = IF a = "pend" THEN "syncPend"
                                               ELSE "syncSettle"])
    /\ UNCHANGED <<opened, entry, lock, body, failed, building, observation,
                   builds, database, entity, budget>>

\* A plausible bug of Release, used by a mutation run only.
FaultyRelease ==
    /\ step = "starting" /\ todo = {} /\ ~Synchronizing
    /\ holder' = Nobody /\ UNCHANGED step
    /\ entity' = IF failed THEN "error" ELSE entity
    /\ setup' = IF holder = Start THEN "registering" ELSE setup
    /\ UNCHANGED <<opened, services, platforms, queue, work, observation,
                   engines, builds, database, budget>>

(* The tracker states of that moment were processed.                       *)
Release ==
    /\ step = "starting" /\ todo = {} /\ ~Synchronizing
    /\ holder' = Nobody /\ step' = "free"
    /\ entity' = IF failed THEN "error" ELSE entity
    /\ setup' = IF holder = Start THEN "registering" ELSE setup
    /\ UNCHANGED <<opened, services, platforms, queue, work, observation,
                   engines, builds, database, budget>>

-----------------------------------------------------------------------------
(* Failures of the holder                                                  *)

\* A plausible bug of Abandon, used by a mutation run only.
FaultyAbandon ==
    /\ step' = "free"
    /\ opened' = (opened /\ holder # Start)
    /\ entity' = IF holder = Start THEN "error" ELSE entity
    /\ setup' = IF holder = Start THEN "gone" ELSE setup
    /\ UNCHANGED <<services, platforms, queue, holder, work, observation,
                   builds>>

(* What leaves the holder with an exception from where it stands: a call's *)
(* scope just ends; async_start closes the store and its set-up fails, but *)
(* nobody stops a listener or engines that it has already.                 *)
Abandon ==
    /\ holder' = Nobody /\ step' = "free"
    /\ opened' = (opened /\ holder # Start)
    /\ entity' = IF holder = Start THEN "error" ELSE entity
    /\ setup' = IF holder = Start THEN "gone" ELSE setup
    /\ UNCHANGED <<services, platforms, queue, work, observation, builds>>

(* To stop here leaves engines that no later step suspends: recovered but  *)
(* not yet in _runtimes, or behind the store that async_start closes.      *)
Strands ==
    \/ step = "building" /\ building # {}
    \/ step \in {"latest", "starting"} /\ holder = Start

Hit(d) == Spend(IF Strands THEN "strand" ELSE d)

(* SQLite fails the holder's operation.                                    *)
FailWork ==
    /\ step = "working" /\ opened /\ Spend("fail")
    /\ UNCHANGED database
    /\ Resume(TRUE)

FailRebuild ==
    /\ step \in {"listing", "building", "latest"} /\ opened
    /\ Hit("fail")
    /\ Abandon
    /\ UNCHANGED <<engines, database>>

(* The save for a sample that the holder synchronises fails; an exception  *)
(* in the finally clause is not reported.                                  *)
FailSync(e) ==
    /\ step = "starting" /\ Syncing(e)
    /\ IF row[e.id.rule] = "absent" THEN UNCHANGED budget ELSE Hit("fail")
    /\ Become(e, [e EXCEPT !.await = "nothing"])
    /\ Abandon
    /\ UNCHANGED database

(* The store was closed before a queued call came to run.                  *)
RefuseRebuild ==
    /\ step = "listing" /\ ~opened
    /\ Abandon
    /\ UNCHANGED <<engines, database, budget>>

(* The task of a service call is cancelled.                                *)
CancelWaiting(c) ==
    /\ Spend("cancel")
    /\ \E i \in DOMAIN queue :
         /\ queue[i] = c
         /\ queue' = SubSeq(queue, 1, i - 1) \o SubSeq(queue, i + 1, Len(queue))
    /\ UNCHANGED <<opened, entry, holder, step, work, observation, engines,
                   builds, database, entity>>

(* While it drains, the scope was not entered: nothing is rebuilt.         *)
CancelDraining ==
    /\ step = "draining" /\ holder \in Calls /\ Spend("cancel")
    /\ Abandon
    /\ UNCHANGED <<engines, database>>

(* What becomes of an operation whose caller is cancelled: its worker      *)
(* thread commits at once, never does, or only later.                      *)
LeaveToWorker(b) ==
    \/ Spend("cancel") /\ Commit(b) /\ UNCHANGED late
    \/ Spend("cancel") /\ UNCHANGED database
    \/ Spend("late") /\ late' = late \cup {b} /\ UNCHANGED <<enabled, row>>

(* After the body the finally clause rebuilds.                             *)
CancelWork ==
    /\ step = "working" /\ opened
    /\ LeaveToWorker(Request)
    /\ step' = "listing" /\ paused' = FALSE
    /\ UNCHANGED <<opened, entry, queue, holder, work, listener, runtimes,
                   engines, builds, entity>>

(* Inside that clause, nothing does.                                       *)
CancelRebuild ==
    /\ step \in {"listing", "building", "latest"} /\ holder \in Calls
    /\ Hit("cancel")
    /\ Abandon
    /\ UNCHANGED <<engines, database>>

(* The holder waits for an engine's lock, or for the save of an engine.    *)
CancelStarting ==
    /\ step = "starting" /\ holder \in Calls
    /\ \/ /\ todo # {} /\ ~Synchronizing /\ Spend("cancel")
          /\ UNCHANGED <<engines, database>>
       \/ \E e \in engines :
            /\ Syncing(e)
            /\ LeaveToWorker(<<"save", e.id.rule,
                               IF e.await = "syncPend" THEN "pending"
                               ELSE "stable">>)
            /\ Become(e, [e EXCEPT !.await = "nothing"])
    /\ Abandon

(* The worker thread of a cancelled call gets the connection.              *)
LateCommit(b) ==
    /\ b \in late /\ opened
    /\ Commit(b)
    /\ late' = late \ {b}
    /\ UNCHANGED <<opened, entry, lock, work, observation, engines, builds,
                   entity, budget>>

-----------------------------------------------------------------------------
(* The config entry: set-up after the manager started, its roll-back, and  *)
(* unloading.  Home Assistant may refuse each step it is asked for.        *)

QueueStop ==
    /\ queue' = Append(queue, Stop)
    /\ UNCHANGED <<opened, services, holder, step, work, observation, engines,
                   builds, database, entity>>

RegisterServices ==
    /\ setup = "registering"
    /\ setup' = "forwarding" /\ services' = TRUE
    /\ UNCHANGED <<opened, platforms, lock, work, observation, engines, builds,
                   database, entity, budget>>

ForwardPlatforms ==
    /\ setup = "forwarding"
    /\ setup' = "loaded" /\ platforms' = TRUE
    /\ UNCHANGED <<opened, services, lock, work, observation, engines, builds,
                   database, entity, budget>>

\* A plausible bug of FailSetup, used by a mutation run only.
FaultyFailSetup ==
    /\ setup \in {"registering", "forwarding"} /\ Spend("refuse")
    /\ setup' = "unregistering"
    /\ platforms' \in {FALSE, setup = "forwarding"}
    /\ UNCHANGED <<opened, services, lock, work, observation, engines, builds,
                   database, entity>>

(* The export registry, or one of the platforms, cannot be set up.         *)
FailSetup ==
    /\ setup \in {"registering", "forwarding"} /\ Spend("refuse")
    /\ setup' = "rollingBack"
    /\ platforms' \in {FALSE, setup = "forwarding"}
    /\ QueueStop

Unload ==
    /\ setup = "loaded"
    /\ setup' = "unloading"
    /\ QueueStop
    /\ UNCHANGED <<platforms, budget>>

\* A plausible bug of StopStore, used by a mutation run only.
FaultyStopStore ==
    /\ step = "draining" /\ holder = Stop
    /\ opened' = FALSE
    /\ runtimes' = {}
    /\ entity' = "unloaded"
    /\ holder' = Nobody /\ step' = "free"
    /\ UNCHANGED <<entry, queue, work, paused, listener, engines, builds,
                   database, budget>>

StopStore ==
    /\ step = "draining" /\ holder = Stop /\ Drained
    /\ opened' = FALSE
    /\ runtimes' = {}
    /\ entity' = "unloaded"
    /\ holder' = Nobody /\ step' = "free"
    /\ UNCHANGED <<entry, queue, work, paused, listener, engines, builds,
                   database, budget>>

UnloadPlatforms ==
    /\ setup \in {"rollingBack", "unloading"} /\ ~opened
    /\ platforms' = FALSE /\ setup' = "unregistering"
    /\ UNCHANGED <<opened, services, lock, work, observation, engines, builds,
                   database, entity, budget>>

(* A platform refuses to go: unloading ends there, a roll-back goes on.    *)
FailUnloadPlatforms ==
    /\ setup \in {"rollingBack", "unloading"} /\ ~opened /\ platforms
    /\ Spend("refuse")
    /\ setup' = IF setup = "unloading" THEN "failedUnload" ELSE "unregistering"
    /\ UNCHANGED <<opened, services, platforms, lock, work, observation,
                   engines, builds, database, entity>>

RemoveServices ==
    /\ setup = "unregistering"
    /\ services' = FALSE /\ setup' = "gone"
    /\ UNCHANGED <<opened, platforms, lock, work, observation, engines, builds,
                   database, entity, budget>>

-----------------------------------------------------------------------------
(* Engines                                                                 *)

(* A tracker sample reaches an engine of the listener's generation.        *)
Observe(e) ==
    /\ e.await = "nothing" /\ e.id \in runtimes
    /\ listener \/ step = "draining"
    /\ \E a \in Outcomes(e) : Become(e, [e EXCEPT !.await = a])
    /\ UNCHANGED <<opened, entry, lock, work, observation, builds, database,
                   entity, budget>>

Fire(e) ==
    /\ e.timer /\ e.await = "nothing"
    /\ Become(e, [e EXCEPT !.timer = FALSE, !.await = "confirm"])
    /\ UNCHANGED <<opened, entry, lock, work, observation, builds, database,
                   entity, budget>>

(* The engine's save or commit; a committed event makes the entity healthy. *)
Write(e) ==
    /\ e.await # "nothing" /\ opened /\ row[e.id.rule] # "absent"
    /\ LET pends == e.await \in {"pend", "syncPend"}
       IN  /\ row' = [row EXCEPT ![e.id.rule] =
                        IF pends THEN "pending" ELSE "stable"]
           /\ Become(e, [e EXCEPT !.await = "nothing", !.timer = pends])
    /\ entity' = IF e.await = "confirm" THEN "healthy" ELSE entity
    /\ UNCHANGED <<opened, entry, lock, work, observation, builds, enabled,
                   late, budget>>

(* Its write fails, for certain after the store was closed or the rule was *)
(* erased.  The listener reports that, a timer callback does not.          *)
FailWrite(e) ==
    /\ e.await \in Samples \cup {"confirm"}
    /\ IF opened /\ row[e.id.rule] # "absent" THEN Spend("fail")
       ELSE UNCHANGED budget
    /\ Become(e, [e EXCEPT !.await = "nothing"])
    /\ entity' = IF e.await = "confirm" THEN entity ELSE "error"
    /\ UNCHANGED <<opened, entry, lock, work, observation, builds, database>>

-----------------------------------------------------------------------------
Progress ==
    \/ Acquire \/ (\E e \in engines : Suspend(e)) \/ BeginWork
    \/ RunBody \/ RefuseBody
    \/ List \/ (\E r \in Rules : Recover(r)) \/ Adopt
    \/ Install \/ (\E r \in Rules : Synchronize(r)) \/ Release
    \/ RefuseRebuild
    \/ RegisterServices \/ ForwardPlatforms
    \/ StopStore \/ UnloadPlatforms \/ RemoveServices

EngineProgress == \E e \in engines : Write(e) \/ FailWrite(e) \/ FailSync(e)

Environment ==
    \/ FailSetup \/ Unload \/ FailUnloadPlatforms
    \/ \E c \in Calls : CancelWaiting(c) \/ \E b \in Requests : Call(c, b)
    \/ FailWork \/ FailRebuild
    \/ CancelDraining \/ CancelWork \/ CancelRebuild \/ CancelStarting
    \/ \E b \in late : LateCommit(b)
    \/ \E e \in engines : Observe(e) \/ Fire(e)

Next == Progress \/ EngineProgress \/ Environment

Spec == Init /\ [][Next]_vars

(* The event loop runs ready tasks, worker threads answer, and an engine's *)
(* lock, which serves in arrival order, comes round to the suspension.     *)
FairSpec ==
    /\ Spec
    /\ WF_vars(Progress) /\ WF_vars(EngineProgress)
    /\ \A r \in Rules : SF_vars(\E e \in engines : e.id.rule = r /\ Suspend(e))

-----------------------------------------------------------------------------
(* The types of the manager's fields, its lock and the engines; the lock    *)
(* has a holder exactly while that holder awaits something.                *)
TypeOK ==
    /\ opened \in BOOLEAN
    /\ setup \in Setups /\ services \in BOOLEAN /\ platforms \in BOOLEAN
    /\ queue \in Seq(Calls \cup {Stop}) /\ holder \in Tasks \cup {Nobody}
    /\ step \in Steps /\ (holder = Nobody <=> step = "free")
    /\ body \in [Calls -> Requests \cup {Unmade}] /\ failed \in BOOLEAN
    /\ todo \subseteq Rules /\ building \subseteq Identities
    /\ paused \in BOOLEAN /\ listener \in BOOLEAN
    /\ runtimes \subseteq Identities /\ engines \subseteq Engines
    /\ builds \in Nat /\ enabled \subseteq Rules
    /\ row \in [Rules -> Rows] /\ late \subseteq Effects
    /\ entity \in {"unloaded", "healthy", "error"}
    /\ budget \in [Disturbances -> Nat]

Undisturbed(ds) == \A d \in ds : budget[d] = Budget[d]

(* Storage has not failed yet, and no call was cancelled.                  *)
Calm == Undisturbed({"fail", "cancel", "strand", "late"})

(* No rebuild has left engines behind that nobody will suspend; no worker  *)
(* thread has kept its commit back.                                        *)
Unstranded == Undisturbed({"strand"})
Punctual == Undisturbed({"late"})

(* While the body of a pause runs, no engine accepts a sample, holds a     *)
(* timer or awaits the store.  A rebuild that fails after it has recovered *)
(* an engine (Manager_orphan) breaks that.                                 *)
PauseIsQuiet == step = "working" => engines = {}

(* No two engines ever act for one rule, however calls, failed bodies and  *)
(* writes, samples and timers interleave; a stranded engine breaks that.   *)
OneEnginePerRule ==
    \A e, f \in engines : e.id.rule = f.id.rule => e = f

(* Whenever the lock of an open store is free, observation is whole: every *)
(* enabled rule, and no other, has an engine, and the listener feeds just  *)
(* these.  It is lacking altogether only once storage failed or a call was *)
(* cancelled, never because a body was refused; and only a worker thread   *)
(* that commits after the rules were read lets rules and engines differ.   *)
ObservationResumes ==
    holder = Nobody /\ opened =>
        /\ Calm => listener
        /\ listener =>
             /\ ~paused
             /\ {e.id : e \in engines} = runtimes
             /\ Punctual => {e.id.rule : e \in engines} = enabled

(* "Stop observations and timers before draining and closing storage": no  *)
(* engine outlives its store, but one that a failed rebuild or set-up has  *)
(* left behind (Manager_orphan, Manager_strand).                           *)
StopSilencesEngines == ~opened => engines = {}

(* The entities report a database error only for a request that SQLite or  *)
(* the closed store refused: no engine ever meets a store closed under it. *)
ErrorsAreRefusals ==
    budget = Budget /\ entity = "error" =>
        \E c \in Calls :
            body[c] = <<"duplicate">> \/ (~opened /\ body[c] # Unmade)

(* Every service call that waits for the lock is served, whatever else     *)
(* goes on.                                                                *)
CallsAreServed ==
    \A c \in Calls : body[c] # Unmade ~>
        holder # c /\ \A i \in DOMAIN queue : queue[i] # c

(* A rebuild that gets as far as its listener makes up for whatever went   *)
(* wrong before it: a cancelled drain, a failed rebuild, a refused body.   *)
(* Every enabled rule is observed again, by the engines just recovered,    *)
(* unless a worker thread committed after the rules were read.             *)
RebuildRestores ==
    [][step = "starting" /\ step' = "free" =>
         /\ listener /\ ~paused /\ runtimes = building
         /\ Punctual => {id.rule : id \in runtimes} = enabled
         /\ runtimes \subseteq {e.id : e \in engines}]_vars

(* A set-up that failed, or an entry that was unloaded, leaves no service  *)
(* and no open store behind, whatever calls were running; nor a listener,  *)
(* a generation or an engine, unless a rebuild or the set-up failed where  *)
(* that strands engines.                                                   *)
EntryLeavesNothing ==
    setup = "gone" =>
        /\ ~services /\ ~opened
        /\ platforms => budget["refuse"] < Budget["refuse"] - 1
        /\ Unstranded => ~listener /\ runtimes = {} /\ engines = {}

(* "Own exactly one current HA listener generation" (listener.py:123):     *)
(* no listener outlives the set-up or the entry it was registered for.     *)
GoneEntriesDoNotListen == setup = "gone" => ~listener

(* Unloading and rolling back come to an end, though both wait for the     *)
(* lock behind every call that asked for it.                               *)
TeardownEnds ==
    setup \in {"rollingBack", "unloading"} ~> setup \in {"gone", "failedUnload"}
=============================================================================
