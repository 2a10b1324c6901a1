-------------------------- MODULE RuleEngineProofs --------------------------
(***************************************************************************)
(* Theorems of RuleEngine, for every rule, scheduler, clock bound and      *)
(* amount of environment disturbance.                                      *)
(***************************************************************************)
EXTENDS RuleEngine, RuleStateLemmas

-----------------------------------------------------------------------------
(* The inductive invariant behind type correctness: a pending is complete, *)
(* a lock holder has a record to write, and the transition being committed *)
(* is the one the engine's memory describes.                               *)

Committing == pc \in {"committing", "committed", "duplicate"}

HolderHasState ==
    pc \notin {"idle", "deleting"} => accepting /\ state \in RuntimeStates

TransitionMatches ==
    Committing =>
        /\ IsPending(state)
        /\ transition \in Events
        /\ transition.side = state.pending
        /\ transition.generation = state.generation
        /\ transition.deadline = state.deadline
        /\ transition.occurred = state.started
        /\ transition.confirmed >= transition.deadline

BudgetOnlySpent == \A d \in Disturbances : budget[d] <= Budget[d]

(* What a cancelled caller's worker is still to write is as sound as what  *)
(* is written at once, and there is none before a caller left one behind.  *)
Waited(e) ==
    /\ e.deadline = e.occurred + Confirmation[e.side]
    /\ e.confirmed >= e.deadline

SoundWrite(w) ==
    /\ PendingShape(w.row)
    /\ w.event # NoTransition => w.event \in Events /\ Waited(w.event)

AbandonInv ==
    /\ \A w \in abandoned : SoundWrite(w)
    /\ abandoned # {} => budget["late"] < Budget["late"]

TypeInv ==
    /\ TypeOK
    /\ PendingShape(state) /\ PendingShape(row)
    /\ HolderHasState
    /\ TransitionMatches
    /\ BudgetOnlySpent
    /\ AbandonInv

LEMMA SpendKeepsBudget ==
    ASSUME TypeInv, NEW d \in Disturbances, Spend(d)
    PROVE  /\ budget' \in [Disturbances -> Nat]
           /\ BudgetOnlySpent'
           /\ budget'[d] < Budget[d]
<1>1. /\ budget \in [Disturbances -> Nat] /\ Budget \in [Disturbances -> Nat]
      /\ \A x \in Disturbances : budget[x] <= Budget[x]
      /\ budget[d] > 0 /\ budget' = [budget EXCEPT ![d] = budget[d] - 1]
  BY EngineAssumption DEF TypeInv, TypeOK, BudgetOnlySpent, Spend
<1>2. /\ budget[d] - 1 \in Nat
      /\ budget'[d] = budget[d] - 1
      /\ \A x \in Disturbances : x # d => budget'[x] = budget[x]
  BY <1>1
<1>3. budget' \in [Disturbances -> Nat]
  BY <1>1, <1>2
<1>4. BudgetOnlySpent'
  BY <1>1, <1>2 DEF BudgetOnlySpent
<1> QED
  BY <1>1, <1>2, <1>3, <1>4

LEMMA PendingIsRecord ==
    ASSUME TypeInv, IsPending(state)
    PROVE  /\ state \in RuntimeStates
           /\ state.pending \in Sides
           /\ state.started \in Nat
           /\ state.deadline \in Nat
BY RuleAssumption DEF TypeInv, TypeOK, PendingShape, IsPending, RuntimeStates

(* What a critical section may leave behind when it confirms, cancels,     *)
(* corrects or re-arms a pending.                                          *)
Settled ==
    /\ scheduled' \in TimerIds \cup {NoTimer}
    /\ timers' \subseteq Timers
    /\ phase' \in Phases
    /\ pc' \in {"idle", "saving", "savingCancelled", "committing"}
    /\ \/ state' = state
       \/ /\ state' \in RuntimeStates
          /\ ~IsPending(state')
          /\ state \in RuntimeStates
          /\ state'.generation = state.generation
    /\ pc' # "idle" => state' \in RuntimeStates
    /\ pc' # "committing" => transition' \in {transition, NoTransition}
    /\ pc' = "committing" =>
         /\ IsPending(state) /\ state' = state
         /\ transition' = BuildTransition
         /\ wall >= state.deadline

LEMMA ReleaseSettles ==
    ASSUME TypeInv, Release, UNCHANGED <<state, scheduled, timers>>
    PROVE  Settled
BY DEF TypeInv, TypeOK, Release, Settled, Phases

LEMMA ScheduleSettles ==
    ASSUME TypeInv, IsPending(state), ScheduleDeadline
    PROVE  Settled
<1>1. PICK id \in FreeTimers :
        /\ scheduled' = id
        /\ timers' = timers \cup {[id |-> id, generation |-> state.generation,
                                   due |-> mono + state.deadline - wall]}
  BY DEF ScheduleDeadline
<1>2. id \in TimerIds
  BY DEF FreeTimers
<1>3. /\ state.generation \in Nat
      /\ mono + state.deadline - wall \in Int
  BY PendingIsRecord DEF TypeInv, TypeOK, RuntimeStates
<1>4. timers' \subseteq Timers
  BY <1>1, <1>2, <1>3 DEF TypeInv, TypeOK, Timers
<1> QED
  BY <1>1, <1>2, <1>4
  DEF ScheduleDeadline, Release, Settled, TypeInv, TypeOK, Phases

LEMMA ConfirmSettles ==
    ASSUME TypeInv, NEW generation, ConfirmLocked(generation)
    PROVE  Settled
<1>1. CASE ~IsPending(state) \/ state.generation # generation
  BY <1>1, ReleaseSettles DEF ConfirmLocked
<1>2. CASE /\ IsPending(state) /\ state.generation = generation
           /\ wall < state.deadline
  BY <1>2, ScheduleSettles DEF ConfirmLocked
<1>3. CASE /\ IsPending(state) /\ state.generation = generation
           /\ ~(wall < state.deadline)
  <2> USE PendingIsRecord
  <2>1. wall >= state.deadline
    BY <1>3 DEF TypeInv, TypeOK
  <2>2. Unconfirmable \/ CancelPending \/ CorrectPresence \/ CommitTransition
    BY <1>3 DEF ConfirmLocked
  <2>3. CASE Unconfirmable
    BY <2>3 DEF Unconfirmable, Release, Settled, TypeInv, TypeOK, Phases
  <2>4. CASE CancelPending
    BY <1>3, <2>4, ClearPendingKeeps
    DEF CancelPending, Await, Settled, TypeInv, TypeOK
  <2>5. CASE CorrectPresence
    BY <1>3, <2>5, CorrectedStateIs
    DEF CorrectPresence, Await, Settled, TypeInv, TypeOK
  <2>6. CASE CommitTransition
    BY <1>3, <2>1, <2>6 DEF CommitTransition, Settled, TypeInv, TypeOK
  <2> QED
    BY <2>2, <2>3, <2>4, <2>5, <2>6
<1> QED
  BY <1>1, <1>2, <1>3

LEMMA RestoreSettles ==
    ASSUME TypeInv, RestorePending
    PROVE  Settled
BY ConfirmSettles, ReleaseSettles DEF RestorePending

(* A settled critical section keeps the part of the invariant it touches.  *)
LEMMA SettledKeepsType ==
    ASSUME TypeInv, Settled, accepting' = accepting,
           pc # "idle" \/ accepting
    PROVE  /\ state' \in RuntimeStates \cup {NoState}
           /\ scheduled' \in TimerIds \cup {NoTimer}
           /\ timers' \subseteq Timers
           /\ phase' \in Phases
           /\ pc' \in Awaits
           /\ PendingShape(state')
           /\ transition' \in Events \cup {NoTransition}
           /\ TransitionMatches'
           /\ pc # "deleting" => HolderHasState'
<1>1. state' \in RuntimeStates \cup {NoState}
  BY DEF Settled, TypeInv, TypeOK
<1>2. PendingShape(state')
  BY DEF Settled, TypeInv, PendingShape
<1>3. CASE pc' = "committing"
  <2>1. /\ IsPending(state) /\ state' = state
        /\ transition' = BuildTransition
        /\ wall >= state.deadline
    BY <1>3 DEF Settled
  <2>2. /\ state \in RuntimeStates /\ state.pending \in Sides
        /\ state.started \in Nat /\ state.deadline \in Nat
        /\ state.generation \in Nat /\ wall \in Nat
    BY <2>1, PendingIsRecord DEF TypeInv, TypeOK, RuntimeStates
  <2>3. transition' \in Events
    BY <2>1, <2>2 DEF BuildTransition, Events
  <2>4. TransitionMatches'
    BY <2>1, <2>2, <2>3 DEF TransitionMatches, BuildTransition
  <2> QED
    BY <1>1, <1>2, <1>3, <2>1, <2>2, <2>3, <2>4
    DEF Settled, HolderHasState, Awaits, TypeInv
<1>4. CASE pc' # "committing"
  <2>1. transition' \in Events \cup {NoTransition}
    BY <1>4 DEF Settled, TypeInv, TypeOK
  <2>2. TransitionMatches'
    BY <1>4 DEF Settled, TransitionMatches, Committing
  <2> QED
    BY <1>1, <1>2, <1>4, <2>1, <2>2 DEF Settled, HolderHasState, Awaits, TypeInv
<1> QED
  BY <1>3, <1>4

-----------------------------------------------------------------------------
LEMMA TypeInvInit == Init => TypeInv
<1> SUFFICES ASSUME Init PROVE TypeInv
  OBVIOUS
<1>1. TypeOK
  <2>1. <<>> \in Seq(Events)
    OBVIOUS
  <2> QED
    BY <2>1, EngineAssumption
    DEF Init, TypeOK, Samples, Readings, Phases, Awaits
<1>2. BudgetOnlySpent
  BY EngineAssumption DEF Init, BudgetOnlySpent
<1> QED
  BY <1>1, <1>2
  DEF Init, TypeInv, PendingShape, IsPending, HolderHasState,
      TransitionMatches, Committing, AbandonInv

LEMMA BudgetFalls ==
    ASSUME TypeInv, [Next]_vars, NEW d \in Disturbances
    PROVE  budget'[d] <= budget[d] /\ budget'[d] \in Nat
<1>1. ASSUME NEW x \in Disturbances, Spend(x)
      PROVE  budget'[d] <= budget[d] /\ budget'[d] \in Nat
  BY <1>1 DEF Spend, TypeInv, TypeOK
<1>2. UNCHANGED budget \/ \E x \in Disturbances : Spend(x)
  BY DEF Next, vars, clocks, ha, engine, database, Disturbances, Tick,
         AdjustClock, TrackerUpdates, ZoneChanges, EvaluateSample, Fire,
         Observe, DeadlineCallback, TakeLock, Saved, CommitCreated,
         CommitDuplicate, PublishTransition, ReloadState, DeleteState,
         StorageFails, SaveUnanswered, CommitUnanswered, AbandonWorker,
         WorkerWrites, Recover, RecoverDisabled, NewEngine, StartListener,
         StopListener, Suspend, Deactivate, Crash
<1> QED
  BY <1>1, <1>2 DEF TypeInv, TypeOK

(* Workers are left behind by cancelled callers only, and each writes once.*)
LEMMA AbandonedFew ==
    ASSUME [Next]_vars
    PROVE  abandoned' \subseteq abandoned \/ AbandonWorker
BY DEF Next, vars, clocks, ha, engine, database, Tick, AdjustClock,
       TrackerUpdates, ZoneChanges, EvaluateSample, Fire, Observe,
       DeadlineCallback, TakeLock, Saved, CommitCreated, CommitDuplicate,
       RecordTransition, PublishTransition, ReloadState, DeleteState,
       StorageFails, SaveUnanswered, CommitUnanswered, WorkerWrites, Recover,
       RecoverDisabled, NewEngine, StartListener, StopListener, Suspend,
       Deactivate, Crash

LEMMA AbandonWorkerAdds ==
    ASSUME TypeInv, AbandonWorker
    PROVE  abandoned' \subseteq Writes /\ AbandonInv'
<1>1. PICK w :
        /\ abandoned' = abandoned \cup {w}
        /\ w = IF pc = "committing"
               THEN [worker |-> budget["late"], event |-> transition,
                     row |-> ConfirmedState(state, transition.confirmed)]
               ELSE [worker |-> budget["late"], event |-> NoTransition,
                     row |-> state]
  BY DEF AbandonWorker
<1>2. budget["late"] \in Nat /\ budget'["late"] < Budget["late"]
  BY SpendKeepsBudget DEF AbandonWorker, Disturbances, TypeInv, TypeOK
<1>3. CASE pc = "committing"
  <2>1. /\ IsPending(state) /\ transition \in Events
        /\ transition.confirmed \in Nat /\ Waited(transition)
    BY <1>3 DEF TypeInv, TransitionMatches, Committing, PendingShape, Events,
                Waited
  <2>2. /\ ConfirmedState(state, transition.confirmed) \in RuntimeStates
        /\ ~IsPending(ConfirmedState(state, transition.confirmed))
    BY <2>1, PendingIsRecord, ConfirmedStateIs
  <2>3. w \in Writes /\ SoundWrite(w)
    BY <1>1, <1>2, <1>3, <2>1, <2>2 DEF Writes, PendingShape, SoundWrite
  <2> QED
    BY <1>1, <1>2, <2>3 DEF AbandonInv, TypeInv, TypeOK
<1>4. CASE pc # "committing"
  <2>1. w \in Writes /\ SoundWrite(w)
    BY <1>1, <1>2, <1>4 DEF Writes, SoundWrite, TypeInv, TypeOK
  <2> QED
    BY <1>1, <1>2, <2>1 DEF AbandonInv, TypeInv, TypeOK
<1> QED
  BY <1>3, <1>4

LEMMA AbandonedKept ==
    ASSUME TypeInv, [Next]_vars
    PROVE  abandoned' \subseteq Writes /\ AbandonInv'
<1>1. CASE abandoned' \subseteq abandoned
  <2>1. /\ budget'["late"] <= budget["late"]
        /\ budget["late"] \in Nat /\ budget'["late"] \in Nat
        /\ Budget["late"] \in Nat
    BY BudgetFalls, EngineAssumption DEF Disturbances, TypeInv, TypeOK
  <2> QED
    BY <1>1, <2>1 DEF AbandonInv, TypeInv, TypeOK
<1> QED
  BY <1>1, AbandonedFew, AbandonWorkerAdds

(* Steps that leave the engine's own record and the database alone.        *)
LEMMA EnvironmentKeepsType ==
    ASSUME TypeInv,
           \/ Tick \/ AdjustClock
           \/ \E r \in Readings : TrackerUpdates(r)
           \/ ZoneChanges
           \/ \E s \in samples : EvaluateSample(s)
           \/ \E t \in timers : Fire(t)
           \/ StartListener \/ StopListener,
           abandoned' \subseteq Writes, AbandonInv'
    PROVE  TypeInv'
<1> USE DEF TypeInv, clocks, ha, engine, database
<1> DEFINE Frame == UNCHANGED <<state, row, pc, transition, accepting>>
<1>0. ASSUME Frame, TypeOK', BudgetOnlySpent'
      PROVE  TypeInv'
  BY <1>0 DEF PendingShape, IsPending, HolderHasState, TransitionMatches,
              Committing
<1>1. CASE Tick
  BY <1>0, <1>1 DEF Tick, TypeOK, BudgetOnlySpent
<1>2. CASE AdjustClock
  <2>1. wall' \in Nat
    BY <1>2, EngineAssumption DEF AdjustClock
  <2>2. budget' \in [Disturbances -> Nat] /\ BudgetOnlySpent'
    BY <1>2, SpendKeepsBudget DEF AdjustClock, Disturbances
  <2> QED
    BY <1>0, <1>2, <2>1, <2>2 DEF AdjustClock, TypeOK
<1>3. CASE \E r \in Readings : TrackerUpdates(r)
  <2> PICK r \in Readings : TrackerUpdates(r)
    BY <1>3
  <2>1. tracker' \in Samples
    BY DEF TrackerUpdates, TypeOK, Samples
  <2>2. samples' \subseteq Samples
    BY <2>1 DEF TrackerUpdates, TypeOK
  <2> QED
    BY <1>0, <2>1, <2>2 DEF TrackerUpdates, TypeOK, BudgetOnlySpent
<1>4. CASE \E s \in samples : EvaluateSample(s)
  <2> PICK s \in samples : EvaluateSample(s)
    BY <1>4
  <2>1. s \in Samples /\ samples' \subseteq Samples
    BY DEF EvaluateSample, TypeOK
  <2>2. PresenceOf(s, state) \in Sides \cup {"unknown"} \/ ~Usable(s, state)
    BY <2>1, StateIsSome
    DEF PresenceOf, Usable, TypeOK, Samples, Readings, RuntimeStates
  <2>3. observations' \subseteq Observed
    BY <2>1, <2>2 DEF EvaluateSample, TypeOK, Observed, Samples
  <2> QED
    BY <1>0, <2>1, <2>3 DEF EvaluateSample, TypeOK, BudgetOnlySpent
<1>5. CASE \E t \in timers : Fire(t)
  BY <1>0, <1>5 DEF Fire, TypeOK, BudgetOnlySpent
<1>6. CASE StartListener
  BY <1>0, <1>6 DEF StartListener, TypeOK, BudgetOnlySpent, Phases
<1>7. CASE StopListener
  <2>1. budget' \in [Disturbances -> Nat] /\ BudgetOnlySpent'
    BY <1>7, SpendKeepsBudget DEF StopListener, Disturbances
  <2> QED
    BY <1>0, <1>7, <2>1 DEF StopListener, TypeOK
<1>8. CASE ZoneChanges
  <2>1. budget' \in [Disturbances -> Nat] /\ BudgetOnlySpent'
    BY <1>8, SpendKeepsBudget DEF ZoneChanges, Disturbances
  <2>2. tracker' \in Samples
    BY <1>8 DEF ZoneChanges, TypeOK, Samples
  <2>3. PICK r \in [samples -> Readings] :
          samples' = {[s EXCEPT !.reading = r[s]] : s \in samples}
    BY <1>8 DEF ZoneChanges
  <2>4. samples' \subseteq Samples
    <3>1. samples \subseteq Samples
      BY DEF TypeOK
    <3>2. ASSUME NEW s \in samples
          PROVE  [s EXCEPT !.reading = r[s]] \in Samples
      BY <3>1 DEF Samples
    <3> QED
      BY <2>3, <3>2
  <2> QED
    BY <1>0, <1>8, <2>1, <2>2, <2>4 DEF ZoneChanges, TypeOK
<1> QED
  BY <1>1, <1>2, <1>3, <1>4, <1>5, <1>6, <1>7, <1>8

(* An observation that gets the lock.                                      *)
LEMMA ObserveKeepsType ==
    ASSUME TypeInv, NEW obs \in observations, Observe(obs),
           abandoned' \subseteq Writes, AbandonInv'
    PROVE  TypeInv'
<1> USE DEF TypeInv
<1>1. obs \in Observed /\ obs.at \in Nat
  BY DEF TypeOK, Observed
<1>2. /\ pc = "idle"
      /\ observations' \subseteq Observed
      /\ UNCHANGED <<wall, mono, tracker, listening, samples, accepting, row,
                     journal, published, budget, fired>>
  BY DEF Observe, TakeLock, clocks, ha, database, TypeOK
<1>3. /\ state' \in RuntimeStates \cup {NoState}
      /\ scheduled' \in TimerIds \cup {NoTimer} /\ timers' \subseteq Timers
      /\ phase' = phase /\ transition' = transition
      /\ pc' \in {"idle", "saving", "savingLatest", "savingPending"}
      /\ PendingShape(state')
      /\ pc' # "idle" => accepting /\ state' \in RuntimeStates
  <2>1. CASE DropObservation(obs)
    BY <1>2, <2>1 DEF DropObservation, TypeOK
  <2>2. CASE SetBaseline(obs)
    BY <1>1, <2>2, BaselineStateIs
    DEF SetBaseline, Await, TypeOK, Observed, PendingShape
  <2>3. CASE StayStable(obs)
    BY <1>1, <2>3, StableStateKeeps
    DEF StayStable, Classified, CancelScheduled, Await, TypeOK, PendingShape
  <2>4. CASE RefreshPending(obs)
    <3>1. state \in RuntimeStates
      BY <2>4 DEF RefreshPending, Classified, TypeOK
    <3>2. PendingShape(LatestState(state, obs))
      BY <1>1, <3>1, LatestStateKeeps, StateIsSome DEF PendingShape, IsPending
    <3> QED
      BY <1>1, <2>4, <3>1, <3>2, LatestStateKeeps
      DEF RefreshPending, Classified, Await, TypeOK
  <2>5. CASE BeginPending(obs)
    <3>1. state \in RuntimeStates /\ obs.presence \in Sides
      BY <1>1, <2>5 DEF BeginPending, Classified, TypeOK, Observed
    <3>2. state' = PendingState(state, obs, wall)
      BY <2>5 DEF BeginPending
    <3>3. state' \in RuntimeStates /\ PendingShape(state')
      BY <1>1, <3>1, <3>2, PendingStateIs DEF TypeOK
    <3> QED
      BY <2>5, <3>3
      DEF BeginPending, Classified, CancelScheduled, Await, TypeOK
  <2> QED
    BY <2>1, <2>2, <2>3, <2>4, <2>5 DEF Observe
<1>4. TypeOK'
  BY <1>2, <1>3 DEF TypeOK, Awaits
<1> QED
  BY <1>2, <1>3, <1>4
  DEF PendingShape, HolderHasState, TransitionMatches, Committing,
      BudgetOnlySpent

LEMMA DeadlineKeepsType ==
    ASSUME TypeInv, NEW t \in fired, DeadlineCallback(t),
           abandoned' \subseteq Writes, AbandonInv'
    PROVE  TypeInv'
<1>1. /\ pc = "idle"
      /\ fired' \subseteq Timers
      /\ UNCHANGED <<wall, mono, tracker, listening, samples, accepting, row,
                     journal, published, budget, observations>>
  BY DEF DeadlineCallback, TakeLock, clocks, ha, database, TypeInv, TypeOK
<1>2. CASE accepting
  <2>1. Settled
    BY <1>2, ConfirmSettles DEF DeadlineCallback
  <2>2. /\ state' \in RuntimeStates \cup {NoState}
        /\ scheduled' \in TimerIds \cup {NoTimer} /\ timers' \subseteq Timers
        /\ phase' \in Phases /\ pc' \in Awaits
        /\ transition' \in Events \cup {NoTransition}
        /\ PendingShape(state') /\ TransitionMatches' /\ HolderHasState'
    BY <1>1, <1>2, <2>1, SettledKeepsType
  <2>3. TypeOK'
    BY <1>1, <2>2 DEF TypeInv, TypeOK
  <2> QED
    BY <1>1, <2>2, <2>3 DEF TypeInv, PendingShape, BudgetOnlySpent
<1>3. CASE ~accepting
  <2>1. UNCHANGED <<phase, state, scheduled, timers, pc, transition>>
    BY <1>3 DEF DeadlineCallback
  <2> QED
    BY <1>1, <2>1
    DEF TypeInv, TypeOK, PendingShape, IsPending, HolderHasState,
        TransitionMatches, Committing, BudgetOnlySpent
<1> QED
  BY <1>2, <1>3

-----------------------------------------------------------------------------
(* Answers of the storage.                                                 *)

LEMMA SavedKeepsType ==
    ASSUME TypeInv, Saved,
           abandoned' \subseteq Writes, AbandonInv'
    PROVE  TypeInv'
<1>1. /\ pc \in Saves /\ accepting /\ state \in RuntimeStates
      /\ row' = state
      /\ UNCHANGED <<wall, mono, tracker, listening, samples, accepting, fired,
                     journal, published, budget, observations>>
  BY DEF Saved, Saves, clocks, ha, TypeInv, HolderHasState
<1>2. \/ Settled
      \/ Release /\ scheduled' = NoTimer /\ UNCHANGED <<state, timers>>
  <2>1. CASE pc = "saving"
    BY <2>1, ReleaseSettles DEF Saved
  <2>2. CASE pc = "savingCancelled"
    BY <2>2 DEF Saved
  <2>3. CASE pc = "savingPending"
    BY <2>3, RestoreSettles DEF Saved
  <2>4. CASE pc = "savingLatest"
    BY <2>4, ConfirmSettles, ReleaseSettles DEF Saved
  <2> QED
    BY <1>1, <2>1, <2>2, <2>3, <2>4 DEF Saves
<1>3. Settled
  BY <1>2 DEF Release, Settled, TypeInv, TypeOK, Phases
<1>4. /\ state' \in RuntimeStates \cup {NoState}
      /\ scheduled' \in TimerIds \cup {NoTimer} /\ timers' \subseteq Timers
      /\ phase' \in Phases /\ pc' \in Awaits
      /\ transition' \in Events \cup {NoTransition}
      /\ PendingShape(state') /\ TransitionMatches' /\ HolderHasState'
  BY <1>1, <1>3, SettledKeepsType DEF Saves
<1>5. TypeOK'
  BY <1>1, <1>4 DEF TypeInv, TypeOK
<1> QED
  BY <1>1, <1>4, <1>5 DEF TypeInv, PendingShape, IsPending, BudgetOnlySpent

(* What a commit writes.                                                   *)
LEMMA RecordedRow ==
    ASSUME TypeInv, RecordTransition
    PROVE  /\ row' \in RuntimeStates /\ ~IsPending(row')
           /\ row' = ConfirmedState(state, transition.confirmed)
           /\ row'.generation = state.generation
           /\ journal' = Append(journal, transition)
           /\ journal' \in Seq(Events)
<1>1. /\ IsPending(state) /\ transition \in Events
      /\ transition.confirmed \in Nat
  BY DEF RecordTransition, TypeInv, TransitionMatches, Committing, Events
<1>2. state \in RuntimeStates /\ state.pending \in Sides
  BY <1>1, PendingIsRecord
<1>3. /\ row' = ConfirmedState(state, transition.confirmed)
      /\ journal' = Append(journal, transition)
  BY DEF RecordTransition
<1>4. /\ row' \in RuntimeStates /\ ~IsPending(row')
      /\ row'.generation = state.generation
  BY <1>1, <1>2, <1>3, ConfirmedStateIs
<1>5. journal' \in Seq(Events)
  <2>1. journal \in Seq(Events)
    BY DEF TypeInv, TypeOK
  <2> QED
    BY <1>1, <1>3, <2>1
<1> QED
  BY <1>3, <1>4, <1>5

LEMMA CommitKeepsType ==
    ASSUME TypeInv,
           CommitCreated \/ CommitDuplicate \/ CommitUnanswered,
           abandoned' \subseteq Writes, AbandonInv'
    PROVE  TypeInv'
<1> USE DEF TypeInv, clocks, ha, engine, database
<1>1. CASE CommitCreated
  BY <1>1, RecordedRow
  DEF CommitCreated, RecordTransition, TypeOK, Awaits, PendingShape, IsPending,
      HolderHasState, TransitionMatches, Committing, BudgetOnlySpent
<1>2. CASE CommitDuplicate
  BY <1>2
  DEF CommitDuplicate, TypeOK, Awaits, PendingShape, IsPending,
      HolderHasState, TransitionMatches, Committing, BudgetOnlySpent
<1>3. CASE CommitUnanswered
  <2>1. budget' \in [Disturbances -> Nat] /\ BudgetOnlySpent'
    BY <1>3, SpendKeepsBudget DEF CommitUnanswered, Disturbances
  <2>2. pc' = "idle" /\ transition' = NoTransition /\ phase' \in Phases
    BY <1>3 DEF CommitUnanswered, Raise, TypeOK, Phases
  <2>3. /\ row' \in RuntimeStates /\ ~IsPending(row')
        /\ journal' \in Seq(Events)
        /\ UNCHANGED <<clocks, ha, observations, engine, fired, published>>
    BY <1>3, RecordedRow DEF CommitUnanswered, RecordTransition
  <2>4. TypeOK'
    BY <2>1, <2>2, <2>3 DEF TypeOK, Awaits
  <2> QED
    BY <2>1, <2>2, <2>3, <2>4
    DEF PendingShape, IsPending, HolderHasState, TransitionMatches, Committing
<1> QED
  BY <1>1, <1>2, <1>3

LEMMA AnswerKeepsType ==
    ASSUME TypeInv, PublishTransition \/ ReloadState \/ DeleteState,
           abandoned' \subseteq Writes, AbandonInv'
    PROVE  TypeInv'
<1> USE DEF TypeInv, clocks, ha, engine, database
<1>1. CASE PublishTransition
  <2>1. /\ IsPending(state) /\ transition \in Events
        /\ transition.confirmed \in Nat
    BY <1>1 DEF PublishTransition, TransitionMatches, Committing, Events
  <2>2. state' \in RuntimeStates /\ ~IsPending(state')
    BY <1>1, <2>1, PendingIsRecord, ConfirmedStateIs DEF PublishTransition
  <2>3. published' \in Seq(Events)
    BY <1>1, <2>1 DEF PublishTransition, TypeOK
  <2>4. pc' = "idle" /\ transition' = NoTransition /\ phase' \in Phases
    BY <1>1 DEF PublishTransition, Release, TypeOK, Phases
  <2>5. TypeOK'
    BY <1>1, <2>2, <2>3, <2>4 DEF PublishTransition, TypeOK, Awaits
  <2> QED
    BY <1>1, <2>2, <2>4, <2>5
    DEF PublishTransition, PendingShape, IsPending, HolderHasState,
        TransitionMatches, Committing, BudgetOnlySpent
<1>2. CASE ReloadState
  <2>1. /\ pc' = "idle" /\ transition' = NoTransition /\ phase' \in Phases
        /\ state' \in {state, row}
        /\ scheduled' \in TimerIds \cup {NoTimer}
    BY <1>2 DEF ReloadState, Raise, Release, TypeOK, Phases
  <2>2. TypeOK'
    BY <1>2, <2>1 DEF ReloadState, TypeOK, Awaits
  <2> QED
    BY <1>2, <2>1, <2>2
    DEF ReloadState, PendingShape, IsPending, HolderHasState,
        TransitionMatches, Committing, BudgetOnlySpent
<1>3. CASE DeleteState
  BY <1>3
  DEF DeleteState, TypeOK, Awaits, PendingShape, IsPending,
      HolderHasState, TransitionMatches, Committing, BudgetOnlySpent
<1> QED
  BY <1>1, <1>2, <1>3

LEMMA FailureKeepsType ==
    ASSUME TypeInv, StorageFails \/ SaveUnanswered,
           abandoned' \subseteq Writes, AbandonInv'
    PROVE  TypeInv'
<1> USE DEF TypeInv, clocks, ha, engine, database
<1>1. budget' \in [Disturbances -> Nat] /\ BudgetOnlySpent'
  BY SpendKeepsBudget DEF StorageFails, SaveUnanswered, Disturbances
<1>2. /\ pc' = "idle" /\ transition' = NoTransition /\ phase' \in Phases
      /\ row' \in {row, state}
      /\ UNCHANGED <<clocks, ha, observations, engine, fired, journal,
                     published>>
  BY DEF StorageFails, SaveUnanswered, Raise, TypeOK, Phases
<1>3. TypeOK'
  BY <1>1, <1>2 DEF TypeOK, Awaits
<1> QED
  BY <1>1, <1>2, <1>3
  DEF PendingShape, IsPending, HolderHasState, TransitionMatches, Committing

-----------------------------------------------------------------------------
(* The manager's steps.                                                    *)
LEMMA ManagerKeepsType ==
    ASSUME TypeInv,
           Recover \/ RecoverDisabled \/ Suspend \/ Deactivate \/ Crash,
           abandoned' \subseteq Writes, AbandonInv'
    PROVE  TypeInv'
<1> USE DEF TypeInv, clocks, ha, engine, database
<1>1. CASE Recover
  <2>1. CASE row = NoState
    BY <1>1, <2>1
    DEF Recover, NewEngine, TypeOK, Phases, Awaits, PendingShape, IsPending,
        HolderHasState, TransitionMatches, Committing, BudgetOnlySpent
  <2>2. CASE row # NoState
    <3>1. row \in RuntimeStates /\ state' = RecoveredState(row, wall)
      BY <1>1, <2>2 DEF Recover, TypeOK
    <3>2. state' \in RuntimeStates /\ PendingShape(state')
      BY <3>1, RecoveredStateKeeps, StateIsSome
      DEF PendingShape, IsPending, TypeOK
    <3>3. TypeOK'
      BY <1>1, <2>2, <3>2 DEF Recover, NewEngine, TypeOK, Phases, Awaits
    <3> QED
      BY <1>1, <2>2, <3>2, <3>3
      DEF Recover, NewEngine, PendingShape, IsPending, HolderHasState,
          TransitionMatches, Committing, BudgetOnlySpent
  <2> QED
    BY <2>1, <2>2
<1>2. CASE RecoverDisabled
  <2>1. budget' \in [Disturbances -> Nat] /\ BudgetOnlySpent'
    BY <1>2, SpendKeepsBudget DEF RecoverDisabled, Disturbances
  <2>2. TypeOK'
    BY <1>2, <2>1 DEF RecoverDisabled, NewEngine, TypeOK, Phases, Awaits
  <2> QED
    BY <1>2, <2>1, <2>2
    DEF RecoverDisabled, NewEngine, PendingShape, IsPending, HolderHasState,
        TransitionMatches, Committing
<1>3. CASE Suspend
  BY <1>3
  DEF Suspend, CancelScheduled, TypeOK, Phases, PendingShape, IsPending,
      HolderHasState, TransitionMatches, Committing, BudgetOnlySpent
<1>4. CASE Deactivate
  <2>1. budget' \in [Disturbances -> Nat] /\ BudgetOnlySpent'
    BY <1>4, SpendKeepsBudget DEF Deactivate, Disturbances
  <2>2. TypeOK'
    BY <1>4, <2>1 DEF Deactivate, CancelScheduled, TypeOK, Awaits
  <2> QED
    BY <1>4, <2>1, <2>2
    DEF Deactivate, PendingShape, IsPending, HolderHasState,
        TransitionMatches, Committing
<1>5. CASE Crash
  <2>1. budget' \in [Disturbances -> Nat] /\ BudgetOnlySpent'
    BY <1>5, SpendKeepsBudget DEF Crash, Disturbances
  <2>2. TypeOK'
    BY <1>5, <2>1 DEF Crash, TypeOK, Phases, Awaits
  <2> QED
    BY <1>5, <2>1, <2>2
    DEF Crash, PendingShape, IsPending, HolderHasState,
        TransitionMatches, Committing
<1> QED
  BY <1>1, <1>2, <1>3, <1>4, <1>5

(* A caller leaves its worker behind, and a worker left behind writes.     *)
LEMMA LateKeepsType ==
    ASSUME TypeInv, AbandonWorker \/ \E w \in abandoned : WorkerWrites(w),
           abandoned' \subseteq Writes, AbandonInv'
    PROVE  TypeInv'
<1> USE DEF TypeInv, clocks, ha, engine, database
<1>1. CASE AbandonWorker
  <2>1. budget' \in [Disturbances -> Nat] /\ BudgetOnlySpent'
    BY <1>1, SpendKeepsBudget DEF AbandonWorker, Disturbances
  <2>2. /\ pc' = "idle" /\ transition' = NoTransition /\ phase' \in Phases
        /\ UNCHANGED <<clocks, ha, observations, engine, fired, row, journal,
                       published>>
    BY <1>1 DEF AbandonWorker, Raise, TypeOK, Phases
  <2>3. TypeOK'
    BY <2>1, <2>2 DEF TypeOK, Awaits
  <2> QED
    BY <2>1, <2>2, <2>3
    DEF PendingShape, IsPending, HolderHasState, TransitionMatches, Committing
<1>2. ASSUME NEW w \in abandoned, WorkerWrites(w)
      PROVE  TypeInv'
  <2>1. /\ w \in Writes /\ PendingShape(w.row)
        /\ w.event # NoTransition => w.event \in Events
    BY DEF AbandonInv, SoundWrite, TypeOK
  <2>2. w.row \in RuntimeStates \cup {NoState}
    BY <2>1 DEF Writes
  <2>3. /\ row' \in RuntimeStates \cup {NoState} /\ PendingShape(row')
        /\ UNCHANGED <<clocks, ha, observations, phase, engine, fired, pc,
                       transition, published, budget>>
    BY <1>2, <2>1, <2>2 DEF WorkerWrites, TypeOK
  <2>4. journal' \in Seq(Events)
    <3>1. journal \in Seq(Events)
      BY DEF TypeOK
    <3>2. CASE w.event # NoTransition /\ ~Recorded(w.event)
      BY <1>2, <2>1, <3>1, <3>2 DEF WorkerWrites
    <3>3. CASE w.event = NoTransition \/ Recorded(w.event)
      BY <1>2, <3>1, <3>3 DEF WorkerWrites
    <3> QED
      BY <3>2, <3>3
  <2>5. TypeOK'
    BY <2>3, <2>4 DEF TypeOK
  <2> QED
    BY <2>3, <2>5
    DEF PendingShape, IsPending, HolderHasState, TransitionMatches,
        Committing, BudgetOnlySpent
<1> QED
  BY <1>1, <1>2

LEMMA StutterKeepsType ==
    ASSUME TypeInv, UNCHANGED vars, abandoned' \subseteq Writes, AbandonInv'
    PROVE  TypeInv'
BY DEF TypeInv, vars, clocks, ha, engine, database, TypeOK, PendingShape,
       IsPending, HolderHasState, TransitionMatches, Committing,
       BudgetOnlySpent

LEMMA NextKeepsType == ASSUME TypeInv, [Next]_vars PROVE TypeInv'
BY EnvironmentKeepsType, ObserveKeepsType, DeadlineKeepsType, SavedKeepsType,
   CommitKeepsType, AnswerKeepsType, FailureKeepsType, ManagerKeepsType,
   LateKeepsType, StutterKeepsType, AbandonedKept
DEF Next

(* Every variable keeps its type, pending records stay complete, and what  *)
(* is being committed is what the engine's memory says.                    *)
THEOREM TypeCorrect == Spec => []TypeInv
<1>1. Init => TypeInv
  BY TypeInvInit
<1>2. TypeInv /\ [Next]_vars => TypeInv'
  BY NextKeepsType
<1> QED
  BY <1>1, <1>2, PTL DEF Spec

(* The type invariant the runs check.                                      *)
THEOREM TypeOKAlways == Spec => []TypeOK
<1>1. TypeInv => TypeOK
  BY DEF TypeInv
<1> QED
  BY <1>1, TypeCorrect, PTL

-----------------------------------------------------------------------------
(* No event before its deadline.  TransitionMatches carries the whole      *)
(* argument: what is committed is the pending in memory, PendingShape puts *)
(* its deadline after its start, and the engine looked at the clock.       *)

LEMMA RecordKeepsDeadlines ==
    ASSUME TypeInv, EventsWaitForDeadline, RecordTransition
    PROVE  EventsWaitForDeadline'
<1>1. /\ journal \in Seq(Events) /\ transition \in Events
      /\ journal' = Append(journal, transition)
      /\ PendingShape(state) /\ IsPending(state)
      /\ Waited(transition)
  BY DEF RecordTransition, TypeInv, TypeOK, TransitionMatches, Committing,
         PendingShape, Waited
<1>2. \A i \in DOMAIN journal : Waited(journal[i])
  BY DEF EventsWaitForDeadline, Waited
<1>3. \A i \in DOMAIN journal' : Waited(journal'[i])
  BY <1>1, <1>2
<1> QED
  BY <1>3 DEF EventsWaitForDeadline, Waited

LEMMA LateWriteKeepsDeadlines ==
    ASSUME TypeInv, EventsWaitForDeadline, NEW w \in abandoned, WorkerWrites(w)
    PROVE  EventsWaitForDeadline'
<1>1. journal \in Seq(Events)
  BY DEF TypeInv, TypeOK
<1>2. \/ journal' = journal
      \/ /\ journal' = Append(journal, w.event)
         /\ w.event \in Events /\ Waited(w.event)
  BY DEF WorkerWrites, TypeInv, AbandonInv, SoundWrite
<1>3. \A i \in DOMAIN journal : Waited(journal[i])
  BY DEF EventsWaitForDeadline, Waited
<1>4. \A i \in DOMAIN journal' : Waited(journal'[i])
  BY <1>1, <1>2, <1>3
<1> QED
  BY <1>4 DEF EventsWaitForDeadline, Waited

(* Only a commit writes the journal, the caller's or one left behind.      *)
LEMMA JournalWriters ==
    ASSUME [Next]_vars
    PROVE  \/ RecordTransition \/ UNCHANGED journal
           \/ \E w \in abandoned : WorkerWrites(w)
BY DEF Next, vars, clocks, ha, engine, database, Tick, AdjustClock,
       TrackerUpdates, ZoneChanges, EvaluateSample, Fire, Observe,
       DeadlineCallback,
       TakeLock, Saved, CommitCreated, CommitDuplicate, PublishTransition,
       ReloadState, DeleteState, StorageFails, SaveUnanswered,
       CommitUnanswered, AbandonWorker, Recover, RecoverDisabled, NewEngine,
       StartListener, StopListener, Suspend, Deactivate, Crash

(* Every recorded side had been pending for its confirmation time.         *)
THEOREM EventsWait == Spec => []EventsWaitForDeadline
<1>1. Init => EventsWaitForDeadline
  BY DEF Init, EventsWaitForDeadline
<1>2. TypeInv /\ EventsWaitForDeadline /\ [Next]_vars => EventsWaitForDeadline'
  BY RecordKeepsDeadlines, LateWriteKeepsDeadlines, JournalWriters
  DEF EventsWaitForDeadline
<1> QED
  BY <1>1, <1>2, TypeCorrect, PTL DEF Spec

-----------------------------------------------------------------------------
(* One event per pending episode.                                          *)

(* A record covers the journal: it is at least as young as every event,    *)
(* and if it is pending on an episode already recorded, it carries the     *)
(* very deadline of that event, so the idempotency key catches it.         *)
Covers(s) ==
    \A i \in DOMAIN journal :
        /\ s # NoState
        /\ journal[i].generation <= s.generation
        /\ IsPending(s) /\ journal[i].generation = s.generation
             => journal[i].deadline = s.deadline

GenerationsGrow ==
    \A i, j \in DOMAIN journal :
        i < j => journal[i].generation < journal[j].generation

EpisodesOrdered ==
    /\ pc # "deleting"
    /\ GenerationsGrow
    /\ Covers(row)
    /\ accepting => Covers(state)

EpisodeInv == Undisturbed({"deactivate", "late"}) => EpisodesOrdered

(* As long as no caller leaves a worker behind, none is there to write.    *)
LEMMA NobodyIsLate ==
    ASSUME TypeInv, budget["late"] = Budget["late"]
    PROVE  abandoned = {}
BY EngineAssumption DEF TypeInv, AbandonInv, Disturbances

(* A record that is younger, or whose pending is the same or over.         *)
LEMMA CoversYounger ==
    ASSUME TypeInv, NEW s \in RuntimeStates, NEW r \in RuntimeStates, Covers(s),
           \/ r.generation = s.generation + 1
           \/ r.generation = s.generation /\ ~IsPending(r)
           \/ /\ r.generation = s.generation
              /\ r.pending = s.pending /\ r.deadline = s.deadline
    PROVE  Covers(r)
<1>1. r # NoState /\ r.generation \in Nat /\ s.generation \in Nat
  BY StateIsSome DEF RuntimeStates
<1>2. \A i \in DOMAIN journal : journal[i].generation \in Nat
  <2>1. \A e \in Events : e.generation \in Nat
    BY DEF Events
  <2>2. journal \in Seq(Events)
    BY DEF TypeInv, TypeOK
  <2>3. \A i \in DOMAIN journal : journal[i] \in Events
    BY <2>2
  <2> QED
    BY <2>1, <2>3
<1> QED
  BY <1>1, <1>2, StateIsSome DEF Covers, IsPending

(* A critical section that confirms, corrects, cancels or re-arms.         *)
LEMMA SettledCovers ==
    ASSUME TypeInv, Settled, Covers(state), UNCHANGED journal
    PROVE  Covers(state)'
<1>1. CASE state' = state
  BY <1>1 DEF Covers
<1>2. CASE state' # state
  <2>1. /\ state \in RuntimeStates /\ state' \in RuntimeStates
        /\ ~IsPending(state') /\ state'.generation = state.generation
    BY <1>2 DEF Settled
  <2>2. Covers(state')
    BY <2>1, CoversYounger
  <2> QED
    BY <2>2 DEF Covers
<1> QED
  BY <1>1, <1>2

LEMMA ObserveCovers ==
    ASSUME TypeInv, EpisodesOrdered, NEW obs \in observations, Observe(obs)
    PROVE  EpisodesOrdered'
<1>1. /\ obs.at \in Nat /\ obs.presence \in Sides \cup {"unknown"}
      /\ UNCHANGED <<accepting, row, journal>>
      /\ pc' # "deleting"
  BY DEF TypeInv, TypeOK, Observed, Observe, TakeLock, database,
         DropObservation, SetBaseline, StayStable, RefreshPending,
         BeginPending, Await, EpisodesOrdered
<1>2. ASSUME accepting
      PROVE  Covers(state')
  <2>1. Covers(state) /\ (state # NoState => state \in RuntimeStates)
    BY <1>2 DEF EpisodesOrdered, TypeInv, TypeOK
  <2>2. CASE DropObservation(obs)
    BY <2>1, <2>2 DEF DropObservation
  <2>3. CASE SetBaseline(obs)
    BY <2>1, <2>3 DEF SetBaseline, Covers
  <2>4. CASE StayStable(obs)
    <3>1. state \in RuntimeStates /\ state' = StableState(state, obs)
      BY <2>1, <2>4 DEF StayStable, Classified
    <3> QED
      BY <1>1, <2>1, <3>1, StableStateKeeps, CoversYounger
  <2>5. CASE RefreshPending(obs)
    <3>1. state \in RuntimeStates /\ state' = LatestState(state, obs)
      BY <2>1, <2>5 DEF RefreshPending, Classified
    <3> QED
      BY <1>1, <2>1, <3>1, LatestStateKeeps, CoversYounger
  <2>6. CASE BeginPending(obs)
    <3>1. /\ state \in RuntimeStates /\ obs.presence \in Sides /\ wall \in Nat
          /\ state' = PendingState(state, obs, wall)
      BY <1>1, <2>1, <2>6
      DEF BeginPending, Classified, TypeInv, TypeOK
    <3> QED
      BY <1>1, <2>1, <3>1, PendingStateIs, CoversYounger
  <2> QED
    BY <2>2, <2>3, <2>4, <2>5, <2>6 DEF Observe
<1> QED
  BY <1>1, <1>2 DEF EpisodesOrdered, Covers, GenerationsGrow

LEMMA DeadlineCovers ==
    ASSUME TypeInv, EpisodesOrdered, NEW t \in fired, DeadlineCallback(t)
    PROVE  EpisodesOrdered'
<1>1. UNCHANGED <<accepting, row, journal>> /\ pc = "idle"
  BY DEF DeadlineCallback, TakeLock, database
<1>2. CASE accepting
  <2>1. Settled /\ Covers(state)
    BY <1>2, ConfirmSettles DEF DeadlineCallback, EpisodesOrdered
  <2>2. Covers(state)' /\ pc' # "deleting"
    BY <1>1, <2>1, SettledCovers DEF Settled
  <2> QED
    BY <1>1, <2>2 DEF EpisodesOrdered, Covers, GenerationsGrow
<1>3. CASE ~accepting
  BY <1>1, <1>3
  DEF DeadlineCallback, EpisodesOrdered, Covers, GenerationsGrow
<1> QED
  BY <1>2, <1>3

LEMMA SavedCovers ==
    ASSUME TypeInv, EpisodesOrdered, Saved
    PROVE  EpisodesOrdered'
<1>1. /\ pc \in Saves /\ accepting /\ Covers(state)
      /\ row' = state /\ UNCHANGED <<accepting, journal>>
  BY DEF Saved, Saves, TypeInv, HolderHasState, EpisodesOrdered
<1>2. Settled \/ (UNCHANGED state /\ pc' = "idle")
  BY ConfirmSettles, RestoreSettles, ReleaseSettles DEF Saved, Release, Saves
<1>3. Covers(state)' /\ pc' # "deleting"
  BY <1>1, <1>2, SettledCovers DEF Settled, Covers
<1> QED
  BY <1>1, <1>3 DEF EpisodesOrdered, Covers, GenerationsGrow

(* The heart of it: the episode being recorded is younger than all others, *)
(* for one of its own generation would carry its deadline and be a         *)
(* duplicate.                                                              *)
LEMMA RecordCovers ==
    ASSUME TypeInv, EpisodesOrdered, RecordTransition
    PROVE  GenerationsGrow' /\ Covers(row)' /\ Covers(state)'
<1>1. /\ accepting /\ state \in RuntimeStates /\ IsPending(state)
      /\ Covers(state) /\ state' = state
      /\ transition \in Events
      /\ transition.generation = state.generation
      /\ transition.deadline = state.deadline
      /\ journal \in Seq(Events) /\ journal' = Append(journal, transition)
  BY DEF RecordTransition, TypeInv, TypeOK, TransitionMatches, Committing,
         HolderHasState, EpisodesOrdered, engine
<1>2. \A e \in Events : e.generation \in Nat
  BY DEF Events
<1>3. \A i \in DOMAIN journal : journal[i].generation < transition.generation
  <2> SUFFICES ASSUME NEW i \in DOMAIN journal
               PROVE  journal[i].generation < transition.generation
    OBVIOUS
  <2>1. journal[i] \in Events
    BY <1>1
  <2>2. ~(/\ journal[i].generation = transition.generation
          /\ journal[i].deadline = transition.deadline)
    BY DEF RecordTransition, AlreadyRecorded, Recorded
  <2>3. journal[i].generation <= transition.generation
    BY <1>1 DEF Covers
  <2>4. journal[i].generation # transition.generation
    BY <1>1, <2>2 DEF Covers
  <2> QED
    BY <1>1, <1>2, <2>1, <2>3, <2>4
<1>4. /\ DOMAIN journal' = DOMAIN journal \cup {Len(journal) + 1}
      /\ journal'[Len(journal) + 1] = transition
      /\ \A i \in DOMAIN journal : journal'[i] = journal[i]
      /\ \A i \in DOMAIN journal : i < Len(journal) + 1 /\ i \in Nat
      /\ Len(journal) \in Nat
  BY <1>1
<1>5. GenerationsGrow'
  BY <1>3, <1>4 DEF GenerationsGrow, EpisodesOrdered
<1>6. \A i \in DOMAIN journal' :
        /\ journal'[i].generation <= state.generation
        /\ journal'[i].generation = state.generation
             => journal'[i].deadline = state.deadline
  BY <1>1, <1>2, <1>3, <1>4 DEF Covers
<1>7. /\ row' \in RuntimeStates /\ ~IsPending(row')
      /\ row'.generation = state.generation
  BY RecordedRow
<1> QED
  BY <1>1, <1>5, <1>6, <1>7, StateIsSome DEF Covers

LEMMA CommitCovers ==
    ASSUME TypeInv, EpisodesOrdered,
           \/ CommitCreated \/ CommitDuplicate \/ CommitUnanswered
           \/ PublishTransition \/ ReloadState \/ DeleteState
    PROVE  EpisodesOrdered'
<1>1. CASE CommitCreated \/ CommitUnanswered
  BY <1>1, RecordCovers
  DEF CommitCreated, CommitUnanswered, Raise, EpisodesOrdered
<1>2. CASE CommitDuplicate
  BY <1>2
  DEF CommitDuplicate, engine, database, EpisodesOrdered, Covers,
      GenerationsGrow
<1>3. CASE PublishTransition
  <2>1. /\ IsPending(state) /\ transition.confirmed \in Nat
        /\ accepting /\ Covers(state)
    BY <1>3 DEF PublishTransition, TypeInv, TransitionMatches, Committing,
                Events, HolderHasState, EpisodesOrdered
  <2>2. /\ state' \in RuntimeStates /\ ~IsPending(state')
        /\ state'.generation = state.generation
        /\ state \in RuntimeStates
    BY <1>3, <2>1, PendingIsRecord, ConfirmedStateIs DEF PublishTransition
  <2>3. Covers(state')
    BY <2>1, <2>2, CoversYounger
  <2> QED
    BY <1>3, <2>3
    DEF PublishTransition, Release, database, EpisodesOrdered, Covers,
        GenerationsGrow
<1>4. CASE ReloadState
  BY <1>4
  DEF ReloadState, Release, Raise, database, EpisodesOrdered, Covers,
      GenerationsGrow
<1>5. CASE DeleteState
  BY <1>5 DEF DeleteState, EpisodesOrdered
<1> QED
  BY <1>1, <1>2, <1>3, <1>4, <1>5

(* Steps that move neither the record nor the database, or recover the     *)
(* record from its row.                                                    *)
LEMMA OtherStepsCover ==
    ASSUME TypeInv, EpisodesOrdered,
           \/ Tick \/ AdjustClock
           \/ \E r \in Readings : TrackerUpdates(r)
           \/ ZoneChanges
           \/ \E s \in samples : EvaluateSample(s)
           \/ \E t \in timers : Fire(t)
           \/ StartListener \/ StopListener \/ Suspend \/ Crash
           \/ StorageFails \/ UNCHANGED vars
    PROVE  EpisodesOrdered'
BY DEF Tick, AdjustClock, TrackerUpdates, ZoneChanges, EvaluateSample, Fire,
       StartListener, StopListener, Suspend, Crash, StorageFails, Raise, vars,
       engine, database, EpisodesOrdered, Covers, GenerationsGrow

LEMMA SaveUnansweredCovers ==
    ASSUME TypeInv, EpisodesOrdered, SaveUnanswered
    PROVE  EpisodesOrdered'
BY DEF SaveUnanswered, Saves, Raise, engine, database, TypeInv,
       HolderHasState, EpisodesOrdered, Covers, GenerationsGrow

LEMMA RecoverCovers ==
    ASSUME TypeInv, EpisodesOrdered, Recover
    PROVE  EpisodesOrdered'
<1>1. /\ UNCHANGED <<row, journal>> /\ pc' # "deleting" /\ Covers(row)
  BY DEF Recover, NewEngine, database, EpisodesOrdered
<1>2. CASE row = NoState
  BY <1>1, <1>2 DEF Recover, EpisodesOrdered, Covers, GenerationsGrow
<1>3. CASE row # NoState
  <2>1. row \in RuntimeStates /\ state' = RecoveredState(row, wall)
        /\ wall \in Nat
    BY <1>3 DEF Recover, TypeInv, TypeOK
  <2>2. Covers(state')
    BY <1>1, <2>1, RecoveredStateKeeps, CoversYounger
  <2> QED
    BY <1>1, <2>2 DEF EpisodesOrdered, Covers, GenerationsGrow
<1> QED
  BY <1>2, <1>3

LEMMA NextKeepsEpisodes ==
    ASSUME TypeInv, EpisodeInv, [Next]_vars
    PROVE  EpisodeInv'
<1> SUFFICES ASSUME Undisturbed({"deactivate", "late"})'
             PROVE  EpisodesOrdered'
  BY DEF EpisodeInv
<1>1. ASSUME NEW d \in {"deactivate", "late"}
      PROVE  /\ budget'[d] = Budget[d] /\ budget[d] = Budget[d]
             /\ Budget[d] \in Nat
  <2>1. d \in Disturbances /\ budget'[d] = Budget[d]
    BY DEF Disturbances, Undisturbed
  <2>2. /\ budget'[d] <= budget[d] /\ budget[d] <= Budget[d]
        /\ budget[d] \in Nat /\ Budget[d] \in Nat
    BY <2>1, BudgetFalls, EngineAssumption
    DEF TypeInv, TypeOK, BudgetOnlySpent
  <2> QED
    BY <2>1, <2>2
<1>2. EpisodesOrdered
  BY <1>1 DEF EpisodeInv, Undisturbed
<1>3. ~RecoverDisabled /\ ~Deactivate /\ ~AbandonWorker
  BY <1>1, SpendKeepsBudget
  DEF RecoverDisabled, Deactivate, AbandonWorker, Disturbances
<1>4. abandoned = {}
  BY <1>1, NobodyIsLate
<1> QED
  BY <1>2, <1>3, <1>4, ObserveCovers, DeadlineCovers, SavedCovers, CommitCovers,
     OtherStepsCover, SaveUnansweredCovers, RecoverCovers
  DEF Next

(* Whatever is retried, lost, delayed or replayed by a crash, the journal  *)
(* of a rule holds each pending episode at most once, in the order the     *)
(* episodes began, until the rule is deactivated or a cancelled caller     *)
(* leaves a worker behind that may be late by a whole episode.             *)
THEOREM EpisodesInOrder == Spec => []EventsFollowGenerations
<1>1. Init => EpisodeInv
  BY DEF Init, EpisodeInv, EpisodesOrdered, Covers, GenerationsGrow
<1>2. TypeInv /\ EpisodeInv /\ [Next]_vars => EpisodeInv'
  BY NextKeepsEpisodes
<1>3. EpisodeInv => EventsFollowGenerations
  BY DEF EpisodeInv, EpisodesOrdered, GenerationsGrow, EventsFollowGenerations
<1> QED
  BY <1>1, <1>2, <1>3, TypeCorrect, PTL DEF Spec
=============================================================================
