--------------------- MODULE RuleEngineRefinementProofs ---------------------
(***************************************************************************)
(* The engine implements TransitionJournal, and the theorems about memory, *)
(* rows, timers and the observer that this rests on or that go with it.    *)
(***************************************************************************)
EXTENDS RuleEngineRefinement, RuleEngineProofs

-----------------------------------------------------------------------------
(* What is told to the observer is the journal, in order; an event that is *)
(* committed and not yet told is in the journal, and its last one as long  *)
(* as no cancelled caller's worker writes in between.                      *)

CommittedRecorded ==
    pc = "committed" => \E j \in DOMAIN journal : journal[j] = transition

CommittedLast ==
    pc = "committed" /\ Undisturbed({"late"}) =>
        /\ Len(journal) > 0 /\ journal[Len(journal)] = transition
        /\ row = ConfirmedState(state, transition.confirmed)

JournalDistinct ==
    \A i, j \in DOMAIN journal : i # j => journal[i] # journal[j]

PublishedDistinct ==
    \A i, j \in DOMAIN published : i # j => published[i] # published[j]

PublishedRecorded ==
    \A i \in DOMAIN published : \E j \in DOMAIN journal :
        /\ published[i] = journal[j]
        /\ pc = "committed" => journal[j] # transition

PublishedWhole ==
    Undisturbed({"crash", "lost", "late"}) =>
        journal = IF pc = "committed" THEN Append(published, transition)
                  ELSE published

PublishInv ==
    /\ CommittedRecorded /\ CommittedLast
    /\ JournalDistinct /\ PublishedDistinct
    /\ PublishedRecorded /\ PublishedWhole

(* A record remembers the events: every direction's cooldown reaches as    *)
(* far as that of any event, unless it is over, and stems from one.        *)
Until(e) == e.confirmed + CooldownSeconds

Reaches(s) ==
    \A i \in DOMAIN journal :
        /\ s # NoState
        /\ \/ s.cooldown[journal[i].side] >= Until(journal[i])
           \/ /\ s.cooldown[journal[i].side] = NoTime
              /\ Until(journal[i]) <= wall

Stems(s) ==
    s # NoState =>
        \A d \in Sides : s.cooldown[d] # NoTime =>
            \E i \in DOMAIN journal :
                journal[i].side = d /\ s.cooldown[d] = Until(journal[i])

Remembers(s) == Reaches(s) /\ Stems(s)

Separated ==
    \A i, j \in DOMAIN journal :
        i < j /\ journal[i].side = journal[j].side =>
            journal[j].confirmed >= Until(journal[i])

Cooled ==
    \A i \in DOMAIN journal :
        journal[i].side = transition.side =>
            transition.confirmed >= Until(journal[i])

CooldownKept ==
    /\ Separated
    /\ Remembers(row)
    /\ accepting /\ pc # "committed" => Remembers(state)
    /\ pc = "committing" => transition.confirmed <= wall /\ Cooled

Regular == Undisturbed({"clock", "deactivate", "lost", "late"})

CooldownInv == Regular => CooldownKept

(* The rest of the engine: who may act, what a pending is, and where the   *)
(* memory and its row agree.                                               *)
PendingDiffers(s) == IsPending(s) => s.pending # s.presence

Shut ==
    /\ phase = "suspended" => ~accepting
    /\ pc = "deleting" => ~accepting /\ state = NoState
    /\ pc \in {"saving", "savingCancelled"} => ~IsPending(state)

Persisted ==
    Undisturbed({"fail", "lost", "late"}) =>
        /\ phase = "absent" => ~accepting
        /\ phase # "absent" /\ pc \in {"idle", "committing", "duplicate"} =>
             state = row

(* Some timer or queued callback brings the engine back to its pending.    *)
BackInTime ==
    \E t \in timers \cup fired :
        /\ t.generation = state.generation
        /\ t.due <= mono + state.deadline - wall

StillWaits == IsPending(state) /\ wall < state.deadline
AwaitsDeadline == accepting /\ pc \in {"idle", "savingLatest"} /\ StillWaits

CommitsInPast == Committing => transition.confirmed <= wall

Timed ==
    Undisturbed({"fail", "lost", "late", "clock"}) =>
        (AwaitsDeadline => BackInTime) /\ CommitsInPast

EngineInv ==
    /\ PendingDiffers(state) /\ PendingDiffers(row)
    /\ \A w \in abandoned : PendingDiffers(w.row)
    /\ Shut /\ Persisted /\ Timed

-----------------------------------------------------------------------------
(* A disturbance not met so far had not been met before.                   *)
LEMMA UndisturbedBefore ==
    ASSUME TypeInv, [Next]_vars, NEW ds \in SUBSET Disturbances,
           Undisturbed(ds)'
    PROVE  Undisturbed(ds)
<1> SUFFICES ASSUME NEW d \in ds
             PROVE  budget[d] = Budget[d]
  BY DEF Undisturbed
<1>1. d \in Disturbances
  OBVIOUS
<1>2. budget'[d] = Budget[d]
  BY DEF Undisturbed
<1>3. budget'[d] <= budget[d] /\ budget[d] <= Budget[d]
  BY <1>1, BudgetFalls DEF TypeInv, BudgetOnlySpent
<1>4. budget[d] \in Nat /\ Budget[d] \in Nat
  BY <1>1, EngineAssumption DEF TypeInv, TypeOK
<1> QED
  BY <1>2, <1>3, <1>4

(* A step that spends one ends that.                                       *)
LEMMA SpentIsDisturbed ==
    ASSUME TypeInv, NEW ds \in SUBSET Disturbances, NEW d \in ds, Spend(d)
    PROVE  ~Undisturbed(ds)'
<1>1. d \in Disturbances /\ budget'[d] < Budget[d]
  BY SpendKeepsBudget
<1>2. budget'[d] \in Nat /\ Budget[d] \in Nat
  BY <1>1, SpendKeepsBudget, EngineAssumption
<1> QED
  BY <1>1, <1>2 DEF Undisturbed

-----------------------------------------------------------------------------
(* What a critical section does with a pending: it stays and is timed, it  *)
(* ends without an event, or its transition is committed.                  *)

Released == phase' = IF phase = "recovering" THEN "recovered" ELSE phase

PendingKept(generation) ==
    /\ pc' = "idle" /\ state' = state /\ Released
    /\ timers \subseteq timers'
    /\ IsPending(state) /\ state.generation = generation
       /\ wall < state.deadline
       => \E t \in timers' : /\ t.generation = state.generation
                             /\ t.due = mono + state.deadline - wall

PendingEnded ==
    /\ pc' \in {"saving", "savingCancelled"} /\ phase' = phase
    /\ state \in RuntimeStates /\ state' \in RuntimeStates
    /\ state'.cooldown = state.cooldown
    /\ ~IsPending(state')

Outcome(generation) ==
    \/ PendingKept(generation)
    \/ PendingEnded
    \/ CommitTransition /\ IsPending(state) /\ wall >= state.deadline

LEMMA ConfirmOutcome ==
    ASSUME TypeInv, NEW generation, ConfirmLocked(generation)
    PROVE  Outcome(generation)
<1>1. CASE ~IsPending(state) \/ state.generation # generation
  BY <1>1 DEF ConfirmLocked, Release, Outcome, PendingKept, Released
<1>2. CASE /\ IsPending(state) /\ state.generation = generation
           /\ wall < state.deadline
  <2>1. ScheduleDeadline
    BY <1>2 DEF ConfirmLocked
  <2>2. PICK id \in FreeTimers :
          timers' = timers \cup {[id |-> id, generation |-> state.generation,
                                  due |-> mono + state.deadline - wall]}
    BY <2>1 DEF ScheduleDeadline
  <2> DEFINE t == [id |-> id, generation |-> state.generation,
                   due |-> mono + state.deadline - wall]
  <2>3. /\ t \in timers' /\ timers \subseteq timers'
        /\ t.generation = state.generation
        /\ t.due = mono + state.deadline - wall
    BY <2>2
  <2>4. pc' = "idle" /\ state' = state /\ Released
    BY <2>1 DEF ScheduleDeadline, Release, Released
  <2> HIDE DEF t
  <2> QED
    BY <2>3, <2>4 DEF Outcome, PendingKept
<1>3. CASE /\ IsPending(state) /\ state.generation = generation
           /\ ~(wall < state.deadline)
  <2>1. /\ state \in RuntimeStates /\ state.pending \in Sides
        /\ wall >= state.deadline
    BY <1>3, PendingIsRecord DEF TypeInv, TypeOK
  <2>2. Unconfirmable \/ CancelPending \/ CorrectPresence \/ CommitTransition
    BY <1>3 DEF ConfirmLocked
  <2>3. CASE Unconfirmable
    BY <1>3, <2>3
    DEF Unconfirmable, Release, Outcome, PendingKept, Released
  <2>4. CASE CancelPending
    BY <2>1, <2>4, ClearPendingKeeps
    DEF CancelPending, Await, Outcome, PendingEnded
  <2>5. CASE CorrectPresence
    BY <2>1, <2>5, CorrectedStateIs
    DEF CorrectPresence, Await, Outcome, PendingEnded
  <2> QED
    BY <1>3, <2>1, <2>2, <2>3, <2>4, <2>5 DEF Outcome
<1> QED
  BY <1>1, <1>2, <1>3

LEMMA RestoreOutcome ==
    ASSUME TypeInv, RestorePending
    PROVE  Outcome(state.generation)
BY ConfirmOutcome
DEF RestorePending, Release, Outcome, PendingKept, Released

(* A save is answered.                                                     *)
LEMMA SavedOutcome ==
    ASSUME TypeInv, Saved
    PROVE  /\ pc \in Saves /\ accepting /\ state \in RuntimeStates
           /\ row' = state
           /\ UNCHANGED <<wall, mono, tracker, accepting, fired, journal,
                          published, budget>>
           /\ \/ /\ pc # "savingPending" /\ pc' = "idle" /\ Released
                 /\ pc = "savingLatest" => wall < state.deadline
                 /\ UNCHANGED <<state, timers>>
              \/ pc \in {"savingPending", "savingLatest"}
                 /\ Outcome(state.generation)
<1>1. /\ pc \in Saves /\ accepting /\ state \in RuntimeStates
      /\ row' = state
      /\ UNCHANGED <<wall, mono, tracker, accepting, fired, journal,
                     published, budget>>
  BY DEF Saved, Saves, clocks, ha, TypeInv, HolderHasState
<1>2. CASE pc \in {"saving", "savingCancelled"}
  BY <1>1, <1>2 DEF Saved, Release, Released
<1>3. CASE pc = "savingPending"
  BY <1>1, <1>3, RestoreOutcome DEF Saved
<1>4. CASE pc = "savingLatest"
  <2>1. wall \in Int /\ state.deadline \in Int
    BY <1>1 DEF TypeInv, TypeOK, RuntimeStates, OptionalTime, NoTime
  <2>2. IF wall >= state.deadline
        THEN ConfirmLocked(state.generation)
        ELSE Release /\ UNCHANGED <<state, scheduled, timers>>
    BY <1>4 DEF Saved
  <2>3. CASE wall >= state.deadline
    BY <1>1, <1>4, <2>2, <2>3, ConfirmOutcome
  <2>4. CASE ~(wall >= state.deadline)
    BY <1>1, <1>4, <2>1, <2>2, <2>4 DEF Release, Released
  <2> QED
    BY <2>3, <2>4
<1> QED
  BY <1>1, <1>2, <1>3, <1>4 DEF Saves

(* A deadline callback gets the lock.                                      *)
LEMMA DeadlineOutcome ==
    ASSUME TypeInv, NEW t \in fired, DeadlineCallback(t)
    PROVE  /\ pc = "idle" /\ fired' = fired \ {t}
           /\ UNCHANGED <<wall, mono, tracker, accepting, row, journal,
                          published, budget>>
           /\ \/ ~accepting /\ UNCHANGED <<phase, state, timers, pc>>
              \/ accepting /\ Outcome(t.generation)
BY ConfirmOutcome
DEF DeadlineCallback, TakeLock, clocks, ha, database

(* An observation gets the lock.                                           *)
Accepted ==
    /\ accepting /\ state' \in RuntimeStates
    /\ \/ /\ state = NoState /\ pc' = "saving" /\ ~IsPending(state')
          /\ \A d \in Sides : state'.cooldown[d] = NoTime
       \/ /\ state \in RuntimeStates /\ state'.cooldown = state.cooldown
          /\ \/ pc' = "saving" /\ ~IsPending(state')
             \/ pc' = "savingPending" /\ PendingDiffers(state')
             \/ /\ pc' = "savingLatest" /\ timers' = timers
                /\ state'.pending = state.pending
                /\ state'.presence = state.presence
                /\ state'.generation = state.generation
                /\ state'.deadline = state.deadline

LEMMA ObserveOutcome ==
    ASSUME TypeInv, NEW obs \in observations, Observe(obs)
    PROVE  /\ pc = "idle"
           /\ UNCHANGED <<wall, mono, tracker, accepting, fired, row, journal,
                          published, budget, phase, transition>>
           /\ \/ UNCHANGED <<state, timers, pc>>
              \/ Accepted
<1>1. /\ pc = "idle"
      /\ obs.at \in Nat /\ obs.presence \in Sides \cup {"unknown"}
      /\ UNCHANGED <<wall, mono, tracker, accepting, fired, row, journal,
                     published, budget>>
  BY DEF TypeInv, TypeOK, Observed, Observe, TakeLock, clocks, ha, database
<1>2. state \in RuntimeStates \cup {NoState} /\ wall \in Nat
  BY DEF TypeInv, TypeOK
<1>3. CASE DropObservation(obs)
  BY <1>1, <1>3 DEF DropObservation
<1>4. CASE SetBaseline(obs)
  <2>1. \A d \in Sides : BaselineState(obs).cooldown[d] = NoTime
    BY DEF BaselineState
  <2> QED
    BY <1>1, <1>4, <2>1, BaselineStateIs DEF SetBaseline, Await, Accepted
<1>5. CASE StayStable(obs)
  BY <1>1, <1>2, <1>5, StableStateKeeps
  DEF StayStable, Classified, Await, Accepted
<1>6. CASE RefreshPending(obs)
  BY <1>1, <1>2, <1>6, LatestStateKeeps
  DEF RefreshPending, Classified, Await, Accepted
<1>7. CASE BeginPending(obs)
  <2>1. state \in RuntimeStates /\ obs.presence \in Sides
        /\ obs.presence # state.presence /\ accepting
        /\ state' = PendingState(state, obs, wall)
        /\ pc' = "savingPending" /\ UNCHANGED <<phase, transition>>
    BY <1>1, <1>2, <1>7 DEF BeginPending, Classified, Await
  <2>2. /\ PendingState(state, obs, wall).pending = obs.presence
        /\ PendingState(state, obs, wall).presence = state.presence
        /\ PendingState(state, obs, wall).cooldown = state.cooldown
    BY <2>1 DEF PendingState, RuntimeStates
  <2>3. state' \in RuntimeStates
    BY <1>1, <1>2, <2>1, PendingStateIs
  <2> QED
    BY <1>1, <2>1, <2>2, <2>3 DEF Accepted, PendingDiffers
<1> QED
  BY <1>3, <1>4, <1>5, <1>6, <1>7 DEF Observe

(* Steps of the environment and of the listener leave the engine alone.    *)
LEMMA EnvironmentFrame ==
    ASSUME \/ Tick \/ AdjustClock
           \/ \E r \in Readings : TrackerUpdates(r)
           \/ ZoneChanges
           \/ \E s \in samples : EvaluateSample(s)
           \/ \E t \in timers : Fire(t)
           \/ StartListener \/ StopListener
    PROVE  UNCHANGED <<accepting, state, scheduled, pc, transition, row,
                       journal, published>>
BY DEF Tick, AdjustClock, TrackerUpdates, ZoneChanges, EvaluateSample, Fire,
       StartListener, StopListener, engine, database

-----------------------------------------------------------------------------
(* The observer and the journal.                                           *)

LEMMA JournalIndexes ==
    ASSUME TypeInv
    PROVE  /\ journal \in Seq(Events) /\ Len(journal) \in Nat
           /\ DOMAIN journal = 1 .. Len(journal)
           /\ \A i \in DOMAIN journal : journal[i] \in Events
           /\ published \in Seq(Events) /\ Len(published) \in Nat
           /\ DOMAIN published = 1 .. Len(published)
<1>1. journal \in Seq(Events) /\ published \in Seq(Events)
  BY DEF TypeInv, TypeOK
<1> QED
  BY <1>1

LEMMA JournalGrows ==
    ASSUME TypeInv, RecordTransition
    PROVE  /\ transition \in Events
           /\ journal' \in Seq(Events)
           /\ Len(journal') = Len(journal) + 1
           /\ DOMAIN journal' = DOMAIN journal \cup {Len(journal) + 1}
           /\ journal'[Len(journal) + 1] = transition
           /\ \A i \in DOMAIN journal : journal'[i] = journal[i]
           /\ \A i \in DOMAIN journal : i \in Nat /\ i <= Len(journal)
<1>1. transition \in Events /\ journal' = Append(journal, transition)
  BY DEF RecordTransition, TypeInv, TransitionMatches, Committing
<1>2. journal \in Seq(Events)
  BY DEF TypeInv, TypeOK
<1> QED
  BY <1>1, <1>2

(* What a step can do to the journal and to the observer.                  *)
Silent ==
    /\ pc # "committed" /\ pc' # "committed"
    /\ UNCHANGED <<journal, published>>
Waiting ==
    UNCHANGED <<pc, transition, state, row, journal, published>>

LEMMA JournalSteps ==
    ASSUME TypeInv, [Next]_vars
    PROVE  \/ CommitCreated \/ CommitUnanswered
           \/ PublishTransition \/ Crash
           \/ \E w \in abandoned : WorkerWrites(w)
           \/ Silent \/ Waiting
<1>1. ASSUME NEW obs \in observations, Observe(obs)
      PROVE  Silent
  BY <1>1, ObserveOutcome DEF Accepted, Silent
<1>2. ASSUME NEW t \in fired, DeadlineCallback(t)
      PROVE  Silent
  BY <1>2, DeadlineOutcome
  DEF Outcome, PendingKept, PendingEnded, CommitTransition, Silent
<1>3. CASE Saved
  BY <1>3, SavedOutcome
  DEF Outcome, PendingKept, PendingEnded, CommitTransition, Silent, Saves
<1>4. CASE CommitDuplicate \/ ReloadState \/ DeleteState \/ StorageFails
           \/ SaveUnanswered \/ AbandonWorker
  BY <1>4
  DEF CommitDuplicate, ReloadState, DeleteState, StorageFails,
      SaveUnanswered, AbandonWorker, Saves, Raise, Release, database, Silent
<1>5. CASE Recover \/ RecoverDisabled \/ Suspend \/ Deactivate
  BY <1>5
  DEF Recover, RecoverDisabled, NewEngine, Suspend, Deactivate, database,
      Silent
<1>6. CASE UNCHANGED vars
  BY <1>6 DEF vars, engine, database, Waiting
<1> QED
  BY <1>1, <1>2, <1>3, <1>4, <1>5, <1>6, EnvironmentFrame DEF Next, Waiting

LEMMA RecordPublishes ==
    ASSUME TypeInv, PublishInv, CommitCreated
    PROVE  PublishInv'
<1> USE JournalGrows, JournalIndexes DEF PublishInv
<1>1. /\ RecordTransition /\ pc = "committing" /\ pc' = "committed"
      /\ UNCHANGED <<transition, state, published, budget>>
      /\ row' = ConfirmedState(state, transition.confirmed)
      /\ ~AlreadyRecorded
      /\ journal' = Append(journal, transition)
  BY DEF CommitCreated, RecordTransition, engine
<1>2. CommittedLast' /\ CommittedRecorded'
  BY <1>1 DEF CommittedLast, CommittedRecorded
<1>3. \A i \in DOMAIN journal : journal[i] # transition
  BY <1>1 DEF AlreadyRecorded, Recorded
<1>4. JournalDistinct'
  BY <1>1, <1>3 DEF JournalDistinct
<1>5. PublishedDistinct'
  BY <1>1 DEF PublishedDistinct
<1>6. PublishedRecorded'
  <2> SUFFICES ASSUME NEW i \in DOMAIN published
               PROVE  \E j \in DOMAIN journal' :
                        published[i] = journal'[j] /\ journal'[j] # transition
    BY <1>1 DEF PublishedRecorded
  <2>1. PICK j \in DOMAIN journal : published[i] = journal[j]
    BY DEF PublishedRecorded
  <2> QED
    BY <1>1, <1>3, <2>1
<1>7. PublishedWhole'
  BY <1>1 DEF PublishedWhole, Undisturbed
<1> QED
  BY <1>2, <1>4, <1>5, <1>6, <1>7

LEMMA LostRecordPublishes ==
    ASSUME TypeInv, PublishInv, CommitUnanswered
    PROVE  PublishInv'
<1> USE JournalGrows, JournalIndexes DEF PublishInv
<1>1. /\ RecordTransition /\ pc = "committing" /\ pc' = "idle"
      /\ UNCHANGED published /\ ~AlreadyRecorded
  BY DEF CommitUnanswered, RecordTransition, Raise
<1>2. CommittedLast' /\ CommittedRecorded' /\ PublishedDistinct'
  BY <1>1 DEF CommittedLast, CommittedRecorded, PublishedDistinct
<1>3. \A i \in DOMAIN journal : journal[i] # transition
  BY <1>1 DEF AlreadyRecorded, Recorded
<1>4. JournalDistinct'
  BY <1>1, <1>3 DEF JournalDistinct
<1>5. PublishedRecorded'
  BY <1>1 DEF PublishedRecorded
<1>6. PublishedWhole'
  <2>1. Spend("lost")
    BY DEF CommitUnanswered
  <2> QED
    BY <2>1, SpentIsDisturbed DEF PublishedWhole, Disturbances
<1> QED
  BY <1>2, <1>4, <1>5, <1>6

LEMMA LateRecordPublishes ==
    ASSUME TypeInv, PublishInv, NEW w \in abandoned, WorkerWrites(w)
    PROVE  PublishInv'
<1> USE JournalIndexes DEF PublishInv
<1>1. /\ UNCHANGED <<pc, transition, published, budget>>
      /\ \/ journal' = journal
         \/ /\ journal' = Append(journal, w.event) /\ ~Recorded(w.event)
  BY DEF WorkerWrites
<1>2. ~Undisturbed({"late"}) /\ ~Undisturbed({"crash", "lost", "late"})
  BY NobodyIsLate DEF Undisturbed
<1>3. CommittedLast' /\ PublishedDistinct' /\ PublishedWhole'
  BY <1>1, <1>2
  DEF CommittedLast, PublishedDistinct, PublishedWhole, Undisturbed
<1>4. CASE journal' = journal
  BY <1>1, <1>3, <1>4
  DEF CommittedRecorded, JournalDistinct, PublishedRecorded
<1>5. CASE journal' = Append(journal, w.event) /\ ~Recorded(w.event)
  <2>1. /\ DOMAIN journal' = DOMAIN journal \cup {Len(journal) + 1}
        /\ journal'[Len(journal) + 1] = w.event
        /\ \A i \in DOMAIN journal : journal'[i] = journal[i]
    BY <1>5
  <2>2. \A i \in DOMAIN journal : journal[i] # w.event
    BY <1>5 DEF Recorded
  <2>3. JournalDistinct'
    BY <2>1, <2>2 DEF JournalDistinct
  <2>4. CommittedRecorded'
    BY <1>1, <2>1 DEF CommittedRecorded
  <2>5. PublishedRecorded'
    BY <1>1, <2>1 DEF PublishedRecorded
  <2> QED
    BY <1>3, <2>3, <2>4, <2>5
<1> QED
  BY <1>1, <1>4, <1>5

LEMMA TellingPublishes ==
    ASSUME TypeInv, PublishInv, PublishTransition
    PROVE  PublishInv'
<1> USE JournalIndexes DEF PublishInv
<1>1. /\ pc = "committed" /\ pc' = "idle"
      /\ UNCHANGED <<journal, budget>>
      /\ published' = Append(published, transition)
      /\ transition \in Events
  BY DEF PublishTransition, Release, database, TypeInv, TransitionMatches,
         Committing
<1>2. /\ DOMAIN published' = DOMAIN published \cup {Len(published) + 1}
      /\ published'[Len(published) + 1] = transition
      /\ \A i \in DOMAIN published : published'[i] = published[i]
  BY <1>1
<1>3. \E j \in DOMAIN journal : journal[j] = transition
  BY <1>1 DEF CommittedRecorded
<1>4. ASSUME NEW i \in DOMAIN published
      PROVE  published[i] # transition
  BY <1>1 DEF PublishedRecorded
<1>5. PublishedDistinct'
  BY <1>2, <1>4 DEF PublishedDistinct
<1>6. PublishedRecorded'
  BY <1>1, <1>2, <1>3 DEF PublishedRecorded
<1>7. /\ CommittedLast' /\ CommittedRecorded' /\ JournalDistinct'
      /\ PublishedWhole'
  BY <1>1 DEF CommittedLast, CommittedRecorded, JournalDistinct,
              PublishedWhole, Undisturbed
<1> QED
  BY <1>5, <1>6, <1>7

LEMMA NextPublishes ==
    ASSUME TypeInv, PublishInv, [Next]_vars
    PROVE  PublishInv'
<1> USE DEF PublishInv
<1>0. /\ Undisturbed({"crash", "lost", "late"})'
           => Undisturbed({"crash", "lost", "late"})
      /\ Undisturbed({"late"})' => Undisturbed({"late"})
  BY UndisturbedBefore DEF Disturbances
<1>1. CASE Silent
  BY <1>0, <1>1
  DEF Silent, CommittedRecorded, CommittedLast, JournalDistinct,
      PublishedDistinct, PublishedRecorded, PublishedWhole
<1>2. CASE Waiting
  BY <1>0, <1>2
  DEF Waiting, CommittedRecorded, CommittedLast, JournalDistinct,
      PublishedDistinct, PublishedRecorded, PublishedWhole
<1>3. CASE Crash
  <2>1. ~Undisturbed({"crash", "lost", "late"})'
    BY <1>3, SpentIsDisturbed DEF Crash, Disturbances
  <2>2. pc' = "idle" /\ UNCHANGED <<journal, published>>
    BY <1>3 DEF Crash
  <2> QED
    BY <2>1, <2>2
    DEF CommittedRecorded, CommittedLast, JournalDistinct,
        PublishedDistinct, PublishedRecorded, PublishedWhole
<1> QED
  BY <1>1, <1>2, <1>3, JournalSteps, RecordPublishes, LostRecordPublishes,
     LateRecordPublishes, TellingPublishes

(* The relation of journal, row and observer, however the process dies.    *)
THEOREM PublishInvAlways == Spec => []PublishInv
<1>1. Init => PublishInv
  BY DEF Init, PublishInv, CommittedRecorded, CommittedLast, JournalDistinct,
         PublishedDistinct, PublishedRecorded, PublishedWhole
<1>2. TypeInv /\ PublishInv /\ [Next]_vars => PublishInv'
  BY NextPublishes
<1> QED
  BY <1>1, <1>2, TypeCorrect, PTL DEF Spec

(* The observer hears of each event at most once, of recorded ones only,   *)
(* and of all of them unless the process or a caller died in between.      *)
THEOREM ObserverHearsOnce == Spec => []PublishedOnce
<1>1. PublishInv => PublishedOnce
  BY DEF PublishInv, PublishedDistinct, PublishedRecorded, PublishedWhole,
         PublishedOnce
<1> QED
  BY <1>1, PublishInvAlways, PTL

-----------------------------------------------------------------------------
(* Cooldowns.                                                              *)

LEMMA EventInstants ==
    ASSUME NEW e \in Events
    PROVE  e.side \in Sides /\ e.confirmed \in Nat /\ Until(e) \in Nat
BY RuleAssumption DEF Events, Until

LEMMA CooldownInstants ==
    ASSUME NEW s \in RuntimeStates, NEW d \in Sides
    PROVE  s.cooldown[d] \in Int
BY DEF RuntimeStates, OptionalTime, NoTime

(* Only Tick and a correction move the wall clock.                        *)
LEMMA ClockMoves ==
    ASSUME [Next]_vars, ~AdjustClock
    PROVE  Tick \/ UNCHANGED wall
BY DEF Next, vars, clocks, TrackerUpdates, ZoneChanges, EvaluateSample, Fire,
       Observe, DeadlineCallback, TakeLock, Saved, CommitCreated,
       CommitDuplicate, CommitUnanswered, RecordTransition,
       PublishTransition, ReloadState, DeleteState, StorageFails,
       SaveUnanswered, AbandonWorker, WorkerWrites, Recover, RecoverDisabled,
       NewEngine, StartListener, StopListener, Suspend, Deactivate, Crash

LEMMA ClockAdvances ==
    ASSUME TypeInv, [Next]_vars, Regular'
    PROVE  wall' >= wall /\ wall \in Nat /\ wall' \in Nat
<1>1. wall \in Nat
  BY DEF TypeInv, TypeOK
<1>2. ~AdjustClock
  BY SpentIsDisturbed DEF AdjustClock, Regular, Disturbances
<1> QED
  BY <1>1, <1>2, ClockMoves DEF Tick

(* Time passes over a record, or its other fields change.                  *)
LEMMA RemembersLater ==
    ASSUME TypeInv, NEW s \in RuntimeStates \cup {NoState},
           NEW r \in RuntimeStates \cup {NoState}, Remembers(s),
           \/ r = s
           \/ s # NoState /\ r # NoState /\ r.cooldown = s.cooldown,
           UNCHANGED journal, wall \in Nat, wall' \in Nat, wall' >= wall
    PROVE  Remembers(r)'
<1>1. \A i \in DOMAIN journal : journal[i] \in Events
  BY JournalIndexes
<1>2. \A i \in DOMAIN journal : Until(journal[i]) \in Nat
  BY <1>1, EventInstants
<1>3. r = s \/ r.cooldown = s.cooldown
  OBVIOUS
<1>4. r # NoState <=> s # NoState
  OBVIOUS
<1>5. ASSUME NEW i \in DOMAIN journal
      PROVE  /\ r # NoState
             /\ \/ r.cooldown[journal[i].side] >= Until(journal[i])
                \/ /\ r.cooldown[journal[i].side] = NoTime
                   /\ Until(journal[i]) <= wall'
  BY <1>2, <1>3, <1>4 DEF Remembers, Reaches
<1>6. Reaches(r)'
  BY <1>5 DEF Reaches, Until
<1>7. Stems(r)'
  BY <1>3, <1>4 DEF Remembers, Stems, Until
<1> QED
  BY <1>6, <1>7 DEF Remembers

(* A recovered record has dropped only cooldowns that are over.            *)
LEMMA RemembersRecovered ==
    ASSUME TypeInv, row \in RuntimeStates, Remembers(row)
    PROVE  Remembers(RecoveredState(row, wall))
<1> DEFINE r == RecoveredState(row, wall)
<1>1. /\ r \in RuntimeStates /\ wall \in Nat
      /\ \A d \in Sides : r.cooldown[d] = ActiveDeadline(row.cooldown[d], wall)
  BY RecoveredStateKeeps DEF TypeInv, TypeOK
<1>2. r # NoState /\ row # NoState
  BY <1>1, StateIsSome
<1> HIDE DEF r
<1>3. Reaches(r)
  <2> SUFFICES ASSUME NEW i \in DOMAIN journal
               PROVE  \/ r.cooldown[journal[i].side] >= Until(journal[i])
                      \/ /\ r.cooldown[journal[i].side] = NoTime
                         /\ Until(journal[i]) <= wall
    BY <1>2 DEF Reaches
  <2>1. journal[i] \in Events
    BY JournalIndexes
  <2>2. journal[i].side \in Sides /\ Until(journal[i]) \in Nat
    BY <2>1, EventInstants
  <2>3. row.cooldown[journal[i].side] \in Int
    BY <2>2, CooldownInstants
  <2>4. \/ row.cooldown[journal[i].side] >= Until(journal[i])
        \/ /\ row.cooldown[journal[i].side] = NoTime
           /\ Until(journal[i]) <= wall
    BY DEF Remembers, Reaches
  <2>5. r.cooldown[journal[i].side]
          = IF row.cooldown[journal[i].side] > wall
            THEN row.cooldown[journal[i].side] ELSE NoTime
    BY <1>1, <2>2 DEF ActiveDeadline
  <2> QED
    BY <1>1, <2>2, <2>3, <2>4, <2>5
<1>4. Stems(r)
  BY <1>1, <1>2 DEF Remembers, Stems, ActiveDeadline
<1> QED
  BY <1>3, <1>4 DEF Remembers, r

(* The event being recorded is cooled down, and its row remembers it.      *)
LEMMA RecordRemembers ==
    ASSUME TypeInv, CooldownKept, RecordTransition, UNCHANGED wall
    PROVE  Separated' /\ Remembers(row)'
<1> USE JournalGrows, JournalIndexes
<1>1. /\ state \in RuntimeStates /\ state.pending \in Sides
      /\ transition \in Events /\ transition.side = state.pending
      /\ transition.confirmed \in Nat
      /\ Until(transition) \in Nat
      /\ Cooled /\ Remembers(state)
  BY PendingIsRecord, EventInstants
  DEF RecordTransition, CooldownKept, TypeInv, TransitionMatches,
      Committing, HolderHasState
<1>2. /\ row' \in RuntimeStates /\ row' # NoState
      /\ row'.cooldown
           = [state.cooldown EXCEPT ![state.pending] = Until(transition)]
  BY <1>1, RecordedRow, ConfirmedStateIs, StateIsSome DEF Until
<1>3. state.cooldown \in [Sides -> OptionalTime]
  BY <1>1 DEF RuntimeStates
<1>4. /\ row'.cooldown[transition.side] = Until(transition)
      /\ \A d \in Sides : d # transition.side =>
           row'.cooldown[d] = state.cooldown[d]
  BY <1>1, <1>2, <1>3
<1>5. \A i \in DOMAIN journal :
        /\ journal[i].side \in Sides /\ journal[i].confirmed \in Nat
        /\ Until(journal[i]) \in Nat
  BY EventInstants
<1>6. Separated'
  <2>1. \A i, j \in DOMAIN journal :
          i < j /\ journal[i].side = journal[j].side =>
            journal[j].confirmed >= Until(journal[i])
    BY DEF CooldownKept, Separated
  <2>2. \A i \in DOMAIN journal :
          journal[i].side = transition.side =>
            transition.confirmed >= Until(journal[i])
    BY <1>1 DEF Cooled
  <2>3. \A i, j \in DOMAIN journal' :
          i < j /\ journal'[i].side = journal'[j].side =>
            journal'[j].confirmed >= Until(journal'[i])
    BY <2>1, <2>2
  <2> QED
    BY <2>3 DEF Separated, Until
<1>7. Reaches(row)'
  <2>1. ASSUME NEW i \in DOMAIN journal
        PROVE  \/ row'.cooldown[journal[i].side] >= Until(journal[i])
               \/ /\ row'.cooldown[journal[i].side] = NoTime
                  /\ Until(journal[i]) <= wall
    <3>1. CASE journal[i].side = transition.side
      <4>1. transition.confirmed >= Until(journal[i])
        BY <1>1, <3>1 DEF Cooled
      <4>2. Until(transition) >= transition.confirmed
        BY <1>1, RuleAssumption DEF Until
      <4> QED
        BY <1>1, <1>4, <1>5, <3>1, <4>1, <4>2
    <3>2. CASE journal[i].side # transition.side
      BY <1>1, <1>4, <1>5, <3>2 DEF Remembers, Reaches
    <3> QED
      BY <3>1, <3>2
  <2>2. row'.cooldown[transition.side] >= Until(transition)
    BY <1>1, <1>4
  <2>3. \A i \in DOMAIN journal' :
          \/ row'.cooldown[journal'[i].side] >= Until(journal'[i])
          \/ /\ row'.cooldown[journal'[i].side] = NoTime
             /\ Until(journal'[i]) <= wall
    BY <2>1, <2>2
  <2> QED
    BY <1>2, <2>3 DEF Reaches, Until
<1>8. Stems(row)'
  <2> SUFFICES ASSUME NEW d \in Sides, row'.cooldown[d] # NoTime
               PROVE  \E i \in DOMAIN journal' :
                        /\ journal'[i].side = d
                        /\ row'.cooldown[d] = Until(journal'[i])
    BY DEF Stems, Until
  <2>1. CASE d = transition.side
    BY <1>4, <2>1
  <2>2. CASE d # transition.side
    <3>1. state.cooldown[d] # NoTime /\ state # NoState
      BY <1>1, <1>4, <2>2, StateIsSome
    <3>2. PICK i \in DOMAIN journal :
            journal[i].side = d /\ state.cooldown[d] = Until(journal[i])
      BY <1>1, <3>1 DEF Remembers, Stems
    <3>3. journal'[i] = journal[i] /\ i \in DOMAIN journal'
      OBVIOUS
    <3> QED
      BY <1>4, <2>2, <3>2, <3>3
  <2> QED
    BY <2>1, <2>2
<1> QED
  BY <1>6, <1>7, <1>8 DEF Remembers

(* The engine commits only what its record says is cooled down.            *)
LEMMA CommitIsCooled ==
    ASSUME TypeInv, Remembers(state), IsPending(state), CommitTransition,
           UNCHANGED journal
    PROVE  Cooled' /\ transition'.confirmed = wall
<1>1. /\ state \in RuntimeStates /\ state.pending \in Sides /\ wall \in Nat
      /\ ~CoolingDown(state, wall)
      /\ transition'.side = state.pending /\ transition'.confirmed = wall
  BY PendingIsRecord DEF CommitTransition, BuildTransition, TypeInv, TypeOK
<1>2. ASSUME NEW i \in DOMAIN journal, journal[i].side = state.pending
      PROVE  wall >= Until(journal[i])
  <2>1. Until(journal[i]) \in Nat
    BY JournalIndexes, EventInstants
  <2>2. state.cooldown[state.pending] \in Int
    BY <1>1, CooldownInstants
  <2>3. \/ state.cooldown[state.pending] >= Until(journal[i])
        \/ Until(journal[i]) <= wall
    BY <1>2 DEF Remembers, Reaches
  <2>4. \/ state.cooldown[state.pending] = NoTime
        \/ wall >= state.cooldown[state.pending]
    BY <1>1, <2>2 DEF CoolingDown
  <2> QED
    BY <1>1, <2>1, <2>2, <2>3, <2>4 DEF NoTime
<1> QED
  BY <1>1, <1>2 DEF Cooled, Until

(* A critical section leaves a record that remembers.                      *)
LEMMA OutcomeRemembers ==
    ASSUME TypeInv, Remembers(state), NEW generation, Outcome(generation),
           UNCHANGED <<journal, wall>>
    PROVE  /\ Remembers(state)'
           /\ pc' \notin {"committed", "deleting"}
           /\ pc' = "committing" => transition'.confirmed <= wall /\ Cooled'
<1>1. state \in RuntimeStates \cup {NoState} /\ wall \in Nat /\ wall' \in Nat
  BY DEF TypeInv, TypeOK
<1>2. CASE PendingKept(generation)
  BY <1>1, <1>2, RemembersLater DEF PendingKept
<1>3. CASE PendingEnded
  BY <1>1, <1>3, RemembersLater, StateIsSome DEF PendingEnded
<1>4. CASE CommitTransition /\ IsPending(state)
  BY <1>1, <1>4, RemembersLater, CommitIsCooled DEF CommitTransition
<1> QED
  BY <1>2, <1>3, <1>4 DEF Outcome

LEMMA NextKeepsCooldowns ==
    ASSUME TypeInv, EpisodeInv, PublishInv, CooldownInv, [Next]_vars
    PROVE  CooldownInv'
<1> SUFFICES ASSUME Regular' PROVE CooldownKept'
  BY DEF CooldownInv
<1>1. CooldownKept
  BY UndisturbedBefore DEF Regular, CooldownInv, Disturbances
<1>2. wall' >= wall /\ wall \in Nat /\ wall' \in Nat
  BY ClockAdvances
<1>3. ~AdjustClock /\ ~SaveUnanswered /\ ~CommitUnanswered
      /\ ~RecoverDisabled /\ ~Deactivate /\ ~AbandonWorker
  BY SpentIsDisturbed
  DEF AdjustClock, SaveUnanswered, CommitUnanswered, RecoverDisabled,
      Deactivate, AbandonWorker, Regular, Disturbances
<1>0. abandoned = {} /\ Undisturbed({"deactivate", "late"})
      /\ Undisturbed({"late"})
  <2>1. Regular
    BY UndisturbedBefore DEF Regular, Disturbances
  <2> QED
    BY <2>1, NobodyIsLate DEF Regular, Undisturbed
<1>4. {state, row} \subseteq RuntimeStates \cup {NoState}
  BY DEF TypeInv, TypeOK
<1>5. ASSUME UNCHANGED journal
      PROVE  Separated' /\ (UNCHANGED row => Remembers(row)')
                        /\ (UNCHANGED state /\ Remembers(state)
                              => Remembers(state)')
  BY <1>1, <1>2, <1>4, <1>5, RemembersLater DEF CooldownKept, Separated, Until
<1>6. ASSUME NEW obs \in observations, Observe(obs)
      PROVE  CooldownKept'
  <2>1. /\ pc = "idle" /\ UNCHANGED <<wall, accepting, row, journal>>
        /\ UNCHANGED <<state, timers, pc>> \/ Accepted
    BY <1>6, ObserveOutcome
  <2>2. ASSUME accepting
        PROVE  Remembers(state)'
    <3>1. Remembers(state)
      BY <1>1, <2>1, <2>2 DEF CooldownKept
    <3>2. CASE UNCHANGED <<state, timers, pc>>
      BY <1>5, <2>1, <3>1, <3>2
    <3>3. CASE Accepted /\ state \in RuntimeStates
      BY <1>2, <2>1, <3>1, <3>3, RemembersLater, StateIsSome DEF Accepted
    <3>4. CASE Accepted /\ state = NoState
      <4>1. DOMAIN journal = {}
        BY <3>1, <3>4 DEF Remembers, Reaches
      <4>2. \A d \in Sides : state'.cooldown[d] = NoTime
        BY <3>4, StateAssumption DEF Accepted
      <4> QED
        BY <2>1, <4>1, <4>2 DEF Remembers, Reaches, Stems
    <3> QED
      BY <2>1, <3>2, <3>3, <3>4 DEF Accepted
  <2> QED
    BY <1>5, <2>1, <2>2 DEF CooldownKept, Accepted
<1>7. ASSUME NEW t \in fired, DeadlineCallback(t)
      PROVE  CooldownKept'
  <2>1. /\ pc = "idle" /\ UNCHANGED <<wall, accepting, row, journal>>
        /\ \/ ~accepting /\ UNCHANGED <<phase, state, timers, pc>>
           \/ accepting /\ Outcome(t.generation)
    BY <1>7, DeadlineOutcome
  <2>2. accepting => Remembers(state)
    BY <1>1, <2>1 DEF CooldownKept
  <2> QED
    BY <1>2, <1>5, <2>1, <2>2, OutcomeRemembers DEF CooldownKept
<1>8. CASE Saved
  <2>1. /\ pc \in Saves /\ accepting /\ row' = state
        /\ UNCHANGED <<wall, accepting, journal>>
        /\ \/ pc' = "idle" /\ UNCHANGED state
           \/ Outcome(state.generation)
    BY <1>8, SavedOutcome
  <2>2. Remembers(state)
    BY <1>1, <2>1 DEF CooldownKept, Saves
  <2>3. Remembers(row)'
    BY <1>2, <1>4, <2>1, <2>2, RemembersLater DEF Remembers, Reaches, Stems
  <2> QED
    BY <1>2, <1>5, <2>1, <2>2, <2>3, OutcomeRemembers DEF CooldownKept
<1>9. CASE CommitCreated
  BY <1>1, <1>9, RecordRemembers
  DEF CommitCreated, RecordTransition, clocks, CooldownKept
<1>10. CASE PublishTransition
  <2>1. /\ pc = "committed" /\ pc' = "idle"
        /\ row = ConfirmedState(state, transition.confirmed)
        /\ state' = row /\ UNCHANGED <<row, journal, wall>>
    BY <1>0, <1>10 DEF PublishTransition, Release, database, clocks,
                       PublishInv, CommittedLast
  <2>2. Remembers(row)'
    BY <1>5, <2>1
  <2>3. Remembers(state)'
    BY <2>1, <2>2 DEF Remembers, Reaches, Stems
  <2> QED
    BY <1>5, <2>1, <2>2, <2>3 DEF CooldownKept
<1>11. CASE ReloadState
  <2>1. /\ pc' = "idle" /\ UNCHANGED <<row, journal, wall, accepting>>
        /\ state' = row \/ state' = state
        /\ pc = "duplicate"
    BY <1>11 DEF ReloadState, Raise, Release, database, clocks
  <2>2. Remembers(row)' /\ (accepting => Remembers(state))
    BY <1>1, <1>5, <2>1 DEF CooldownKept
  <2>3. accepting => Remembers(state)'
    BY <1>5, <2>1, <2>2 DEF Remembers, Reaches, Stems
  <2> QED
    BY <1>5, <2>1, <2>2, <2>3 DEF CooldownKept
<1>12. CASE Recover
  <2>1. /\ UNCHANGED <<row, journal, wall>>
        /\ pc' \in {"idle", "savingPending"}
        /\ IF row = NoState THEN state' = NoState
           ELSE state' = RecoveredState(row, wall)
    BY <1>12 DEF Recover, NewEngine, database, clocks
  <2>2. Remembers(row) /\ Remembers(row)'
    BY <1>1, <1>5, <2>1 DEF CooldownKept
  <2>3. Remembers(state)'
    <3>1. CASE row = NoState
      BY <2>1, <2>2, <3>1 DEF Remembers, Reaches, Stems
    <3>2. CASE row # NoState
      <4>1. row \in RuntimeStates
        BY <1>4, <3>2
      <4>2. Remembers(RecoveredState(row, wall))
        BY <2>2, <4>1, RemembersRecovered
      <4> QED
        BY <2>1, <3>2, <4>2 DEF Remembers, Reaches, Stems
    <3> QED
      BY <3>1, <3>2
  <2> QED
    BY <1>5, <2>1, <2>2, <2>3 DEF CooldownKept
<1>13. CASE CommitDuplicate
  <2>1. /\ pc = "committing" /\ pc' = "duplicate"
        /\ UNCHANGED <<row, journal, state, accepting>>
    BY <1>13 DEF CommitDuplicate, database, engine
  <2> QED
    BY <1>1, <1>5, <2>1 DEF CooldownKept
<1>14. CASE StorageFails
  <2>1. /\ pc # "committed" /\ pc' = "idle"
        /\ UNCHANGED <<row, journal, state, accepting>>
    BY <1>14 DEF StorageFails, Saves, Raise, database, engine
  <2> QED
    BY <1>1, <1>5, <2>1 DEF CooldownKept
<1>15. CASE Suspend \/ Crash
  <2>1. ~accepting' /\ pc' = "idle" /\ UNCHANGED <<row, journal>>
    BY <1>15 DEF Suspend, Crash, database
  <2> QED
    BY <1>5, <2>1 DEF CooldownKept
<1>16. CASE DeleteState
  BY <1>0, <1>16 DEF EpisodeInv, EpisodesOrdered, DeleteState
<1>17. CASE UNCHANGED <<accepting, state, pc, transition, row, journal>>
  <2>1. pc = "committing" => transition.confirmed \in Nat
    BY DEF TypeInv, TransitionMatches, Committing, Events
  <2>2. pc' = "committing" => transition'.confirmed <= wall' /\ Cooled'
    BY <1>1, <1>2, <1>17, <2>1 DEF CooldownKept, Cooled, Until
  <2> QED
    BY <1>1, <1>5, <1>17, <2>2 DEF CooldownKept
<1>18. CASE UNCHANGED vars
  BY <1>17, <1>18 DEF vars, engine, database
<1> QED
  BY <1>0, <1>3, <1>6, <1>7, <1>8, <1>9, <1>10, <1>11, <1>12, <1>13, <1>14,
     <1>15, <1>16, <1>17, <1>18, EnvironmentFrame DEF Next

(* Cooldowns are kept wherever the engine, the row and the journal are.    *)
THEOREM CooldownInvAlways == Spec => [](EpisodeInv /\ CooldownInv)
<1>1. Init => EpisodeInv /\ CooldownInv
  BY DEF Init, EpisodeInv, EpisodesOrdered, Covers, GenerationsGrow,
         CooldownInv, CooldownKept, Separated, Remembers, Reaches, Stems
<1>2. /\ TypeInv /\ PublishInv /\ EpisodeInv /\ CooldownInv
      /\ [Next]_vars
      => EpisodeInv' /\ CooldownInv'
  BY NextKeepsEpisodes, NextKeepsCooldowns
<1> QED
  BY <1>1, <1>2, TypeCorrect, PublishInvAlways, PTL DEF Spec

(* While the clock goes forward, callers are answered and the rule is not  *)
(* deactivated, events of one direction are a cooldown apart: no crash,    *)
(* failed save or recovery shortens it.                                    *)
THEOREM CooldownsSeparate == Spec => []CooldownSeparatesEvents
<1>1. CooldownInv => CooldownSeparatesEvents
  BY DEF CooldownInv, CooldownKept, Regular, Separated, Until,
         CooldownSeparatesEvents
<1> QED
  BY <1>1, CooldownInvAlways, PTL

LEMMA LastIsRemembered ==
    ASSUME TypeInv, CooldownKept, NEW i \in DOMAIN journal,
           \A j \in DOMAIN journal : j > i => journal[j].side # journal[i].side
    PROVE  /\ row # NoState
           /\ \/ row.cooldown[journal[i].side] = Until(journal[i])
              \/ /\ row.cooldown[journal[i].side] = NoTime
                 /\ Until(journal[i]) <= wall
<1> DEFINE side == journal[i].side
<1>1. /\ \A j \in DOMAIN journal :
           journal[j].confirmed \in Nat /\ Until(journal[j]) \in Nat
                                       /\ j \in Nat
      /\ side \in Sides
  BY JournalIndexes, EventInstants
<1>2. Reaches(row) /\ Stems(row) /\ Separated
  BY DEF CooldownKept, Remembers
<1>3. row # NoState /\ row.cooldown[side] \in Int
  BY <1>1, <1>2, CooldownInstants DEF Reaches, TypeInv, TypeOK
<1>4. CASE row.cooldown[side] = NoTime
  BY <1>1, <1>2, <1>3, <1>4 DEF Reaches, NoTime
<1>5. CASE row.cooldown[side] # NoTime
  <2>1. PICK j \in DOMAIN journal :
          journal[j].side = side /\ row.cooldown[side] = Until(journal[j])
    BY <1>1, <1>2, <1>3, <1>5 DEF Stems
  <2>2. j = i \/ j < i
    BY <1>1, <2>1
  <2>3. j < i => Until(journal[j]) <= Until(journal[i])
    <3>1. j < i => journal[i].confirmed >= Until(journal[j])
      BY <1>2, <2>1 DEF Separated
    <3> QED
      BY <1>1, <3>1, RuleAssumption DEF Until
  <2>4. row.cooldown[side] >= Until(journal[i])
    BY <1>2, <1>5 DEF Reaches
  <2> QED
    BY <1>1, <1>3, <2>1, <2>2, <2>3, <2>4
<1> QED
  BY <1>4, <1>5

(* Under the same premise the row alone tells every cooldown that is not   *)
(* over, so a process that dies at any moment forgets none.                *)
THEOREM RowRemembers == Spec => []RowRemembersEvents
<1>1. ASSUME TypeInv, CooldownInv
      PROVE  RowRemembersEvents
  BY <1>1, LastIsRemembered
  DEF RowRemembersEvents, CooldownInv, Regular, Until
<1> QED
  BY <1>1, CooldownInvAlways, TypeCorrect, PTL

-----------------------------------------------------------------------------
(* The refinement.                                                         *)

(* An event that is recorded is one the abstract journal may record.       *)
LEMMA RecordIsRecord ==
    ASSUME TypeInv, EpisodesOrdered, CooldownKept, CommitCreated
    PROVE  Journal!Record(transition) /\ Len(journal') \in DOMAIN journal'
           /\ journal'[Len(journal')] = transition
<1> USE JournalGrows, JournalIndexes
<1>1. /\ RecordTransition /\ pc = "committing"
      /\ journal' = Append(journal, transition)
      /\ UNCHANGED <<wall, published>>
  BY DEF CommitCreated, RecordTransition, clocks
<1>2. /\ transition.deadline
           = transition.occurred + Confirmation[transition.side]
      /\ transition.confirmed >= transition.deadline
  BY <1>1 DEF TypeInv, TransitionMatches, Committing, PendingShape
<1>3. transition.confirmed <= wall /\ Cooled
  BY <1>1 DEF CooldownKept
<1>4. \A i \in DOMAIN journal : journal[i].generation < transition.generation
  <2>1. GenerationsGrow'
    BY <1>1, RecordCovers
  <2> QED
    BY <1>1, <2>1 DEF GenerationsGrow
<1>5. transition.deadline \in Nat /\ transition.confirmed \in Nat
  BY <1>1 DEF Events
<1>6. transition.occurred + Confirmation[transition.side]
        <= transition.confirmed
  BY <1>2, <1>5
<1>7. Journal!Newer(transition, journal)
  BY <1>4 DEF Journal!Newer
<1>8. Journal!CooledDown(transition)
  BY <1>3 DEF Cooled, Until, Journal!CooledDown
<1> QED
  BY <1>1, <1>3, <1>6, <1>7, <1>8 DEF Journal!Record

(* What the observer is told is newer than all it was told before.         *)
LEMMA TellIsAnnounce ==
    ASSUME TypeInv, EpisodesOrdered, PublishInv, PublishTransition,
           Undisturbed({"late"})
    PROVE  /\ Len(journal) \in DOMAIN journal
           /\ Journal!Announce(journal[Len(journal)])
<1> USE JournalIndexes
<1>1. /\ pc = "committed" /\ UNCHANGED <<wall, journal>>
      /\ published' = Append(published, transition)
  BY DEF PublishTransition, clocks, database
<1>2. Len(journal) \in DOMAIN journal /\ journal[Len(journal)] = transition
  BY <1>1 DEF PublishInv, CommittedLast
<1>3. ASSUME NEW i \in DOMAIN published
      PROVE  published[i].generation < transition.generation
  <2>1. PICK j \in DOMAIN journal :
          published[i] = journal[j] /\ journal[j] # transition
    BY <1>1 DEF PublishInv, PublishedRecorded
  <2> QED
    BY <1>2, <2>1 DEF EpisodesOrdered, GenerationsGrow
<1> QED
  BY <1>1, <1>2, <1>3 DEF Journal!Announce, Journal!Newer

(* A step of the engine is a step of the abstract journal or a stutter.    *)
LEMMA StepIsJournalStep ==
    ASSUME TypeInv, PublishInv, EpisodeInv, CooldownInv, [Next]_vars,
           Regular, Regular'
    PROVE  [Journal!Next]_(Journal!journalVars)
<1>1. EpisodesOrdered /\ CooldownKept /\ Undisturbed({"late"})
  BY DEF EpisodeInv, CooldownInv, Regular, Undisturbed
<1>2. wall' >= wall /\ wall \in Nat /\ wall' \in Nat
  BY ClockAdvances
<1>3. CASE CommitCreated
  BY <1>1, <1>3, RecordIsRecord DEF Journal!Next
<1>4. CASE PublishTransition
  BY <1>1, <1>4, TellIsAnnounce DEF Journal!Next
<1>5. CASE UNCHANGED <<journal, published>>
  BY <1>2, <1>5 DEF Journal!Next, Journal!Elapse, Journal!journalVars
<1>6. ~CommitUnanswered
  BY SpentIsDisturbed DEF CommitUnanswered, Regular, Disturbances
<1>7. Crash => UNCHANGED <<journal, published>>
  BY DEF Crash
<1>8. abandoned = {}
  BY <1>1, NobodyIsLate DEF Undisturbed
<1> QED
  BY <1>3, <1>4, <1>5, <1>6, <1>7, <1>8, JournalSteps DEF Silent, Waiting

(* For every rule, scheduler and bound, and any number of crashes, failed  *)
(* calls, zone edits and suspensions: the engine with its lock, timers,    *)
(* retries, rows and recoveries implements the abstract journal, as long   *)
(* as the clock is not set, no caller is cancelled and the rule not        *)
(* deactivated.                                                            *)
THEOREM EngineIsJournal ==
    ASSUME Budget["clock"] = 0, Budget["lost"] = 0, Budget["late"] = 0,
           Budget["deactivate"] = 0
    PROVE  Spec => KeepsJournalPromise
<1>1. Init => Journal!Init
  BY DEF Init, Journal!Init
<1>2. TypeInv => Regular
  <2>1. ASSUME TypeInv, NEW d \in {"clock", "deactivate", "lost", "late"}
        PROVE  budget[d] = Budget[d]
    <3>1. d \in Disturbances /\ Budget[d] = 0
      BY DEF Disturbances
    <3>2. budget[d] \in Nat /\ budget[d] <= 0
      BY <2>1, <3>1 DEF TypeInv, TypeOK, BudgetOnlySpent
    <3> QED
      BY <3>1, <3>2
  <2> QED
    BY <2>1 DEF Regular, Undisturbed
<1>3. TypeInv /\ TypeInv' /\ PublishInv /\ EpisodeInv /\ CooldownInv
      /\ [Next]_vars
      => [Journal!Next]_(Journal!journalVars)
  <2>1. TypeInv' => Regular'
    <3>1. ASSUME TypeInv', NEW d \in {"clock", "deactivate", "lost", "late"}
          PROVE  budget'[d] = Budget[d]
      <4>1. d \in Disturbances /\ Budget[d] = 0
        BY DEF Disturbances
      <4>2. budget'[d] \in Nat /\ budget'[d] <= 0
        BY <3>1, <4>1 DEF TypeInv, TypeOK, BudgetOnlySpent
      <4> QED
        BY <4>1, <4>2
    <3> QED
      BY <3>1 DEF Regular, Undisturbed
  <2> QED
    BY <1>2, <2>1, StepIsJournalStep
<1> QED
  BY <1>1, <1>3, TypeCorrect, PublishInvAlways, CooldownInvAlways, PTL
  DEF Spec, KeepsJournalPromise, Journal!Spec

-----------------------------------------------------------------------------
(* Memory, row and timers.                                                 *)

LEMMA ShutKept ==
    ASSUME TypeInv, Shut, [Next]_vars
    PROVE  Shut'
<1>1. ASSUME NEW obs \in observations, Observe(obs)
      PROVE  Shut'
  BY <1>1, ObserveOutcome DEF Accepted, Shut
<1>2. ASSUME NEW t \in fired, DeadlineCallback(t)
      PROVE  Shut'
  BY <1>2, DeadlineOutcome
  DEF Outcome, PendingKept, PendingEnded, Released, CommitTransition, Shut
<1>3. CASE Saved
  BY <1>3, SavedOutcome
  DEF Outcome, PendingKept, PendingEnded, Released, CommitTransition, Shut
<1>4. CASE CommitCreated \/ CommitDuplicate \/ CommitUnanswered
           \/ StorageFails \/ SaveUnanswered \/ AbandonWorker
  BY <1>4
  DEF CommitCreated, CommitDuplicate, CommitUnanswered, RecordTransition,
      StorageFails, SaveUnanswered, AbandonWorker, Raise, engine, Shut
<1>5. CASE PublishTransition \/ ReloadState \/ DeleteState
  BY <1>5
  DEF PublishTransition, ReloadState, DeleteState, Raise, Release, engine, Shut
<1>6. CASE Recover \/ RecoverDisabled \/ Suspend \/ Deactivate \/ Crash
  BY <1>6
  DEF Recover, RecoverDisabled, NewEngine, Suspend, Deactivate, Crash, Shut
<1>7. CASE UNCHANGED vars
  BY <1>7 DEF vars, engine, Shut
<1>8. CASE StartListener
  BY <1>8 DEF StartListener, engine, Shut
<1>9. CASE \/ Tick \/ AdjustClock
           \/ \E r \in Readings : TrackerUpdates(r)
           \/ ZoneChanges
           \/ \E s \in samples : EvaluateSample(s)
           \/ \E t \in timers : Fire(t)
           \/ StopListener
           \/ \E w \in abandoned : WorkerWrites(w)
  <2>1. UNCHANGED <<phase, accepting, pc, state>>
    BY <1>9
    DEF Tick, AdjustClock, TrackerUpdates, ZoneChanges, EvaluateSample,
        Fire, StopListener, WorkerWrites, engine
  <2> QED
    BY <2>1 DEF Shut
<1> QED
  BY <1>1, <1>2, <1>3, <1>4, <1>5, <1>6, <1>7, <1>8, <1>9 DEF Next

LEMMA OutcomeDiffers ==
    ASSUME TypeInv, PendingDiffers(state), NEW generation,
           Outcome(generation)
    PROVE  PendingDiffers(state)'
BY DEF Outcome, PendingKept, PendingEnded, CommitTransition, PendingDiffers,
       IsPending

LEMMA DiffersKept ==
    ASSUME TypeInv, PendingDiffers(state), PendingDiffers(row), [Next]_vars,
           \A w \in abandoned : PendingDiffers(w.row)
    PROVE  PendingDiffers(state)' /\ PendingDiffers(row)'
<1>0. ASSUME state' \in {state, row, NoState}, row' \in {state, row, NoState}
      PROVE  PendingDiffers(state)' /\ PendingDiffers(row)'
  BY <1>0 DEF PendingDiffers, IsPending
<1>1. ASSUME NEW obs \in observations, Observe(obs)
      PROVE  PendingDiffers(state)' /\ PendingDiffers(row)'
  <2>1. row' = row /\ (UNCHANGED state \/ Accepted)
    BY <1>1, ObserveOutcome
  <2>2. Accepted => PendingDiffers(state)'
    BY StateIsSome DEF Accepted, PendingDiffers, IsPending
  <2> QED
    BY <1>0, <2>1, <2>2 DEF PendingDiffers, IsPending
<1>2. ASSUME NEW t \in fired, DeadlineCallback(t)
      PROVE  PendingDiffers(state)' /\ PendingDiffers(row)'
  BY <1>0, <1>2, DeadlineOutcome, OutcomeDiffers DEF PendingDiffers, IsPending
<1>3. CASE Saved
  BY <1>0, <1>3, SavedOutcome, OutcomeDiffers DEF PendingDiffers, IsPending
<1>4. CASE RecordTransition
  <2>1. ~IsPending(row') /\ state' = state
    BY <1>4, RecordedRow DEF RecordTransition, engine
  <2> QED
    BY <2>1 DEF PendingDiffers, IsPending
<1>5. CASE PublishTransition
  <2>1. /\ IsPending(state) /\ transition.confirmed \in Nat
        /\ row' = row /\ state' = ConfirmedState(state, transition.confirmed)
    BY <1>5 DEF PublishTransition, database, TypeInv, TransitionMatches,
                Committing, Events
  <2>2. ~IsPending(state')
    BY <2>1, PendingIsRecord, ConfirmedStateIs
  <2> QED
    BY <2>1, <2>2 DEF PendingDiffers, IsPending
<1>6. CASE Recover
  <2>1. CASE row = NoState
    BY <1>0, <1>6, <2>1 DEF Recover, NewEngine, database
  <2>2. CASE row # NoState
    <3>1. /\ row \in RuntimeStates /\ row' = row
          /\ state' = RecoveredState(row, wall)
      BY <1>6, <2>2 DEF Recover, NewEngine, database, TypeInv, TypeOK
    <3>2. state'.pending = row.pending /\ state'.presence = row.presence
      BY <3>1 DEF RecoveredState, RuntimeStates
    <3> QED
      BY <2>2, <3>1, <3>2 DEF PendingDiffers, IsPending
  <2> QED
    BY <2>1, <2>2
<1>7. CASE \/ CommitDuplicate \/ ReloadState \/ DeleteState \/ StorageFails
           \/ SaveUnanswered \/ AbandonWorker \/ RecoverDisabled \/ Suspend
           \/ Deactivate \/ Crash \/ UNCHANGED vars
  BY <1>0, <1>7
  DEF CommitDuplicate, ReloadState, DeleteState, StorageFails,
      SaveUnanswered, AbandonWorker, RecoverDisabled, NewEngine, Suspend,
      Deactivate, Crash, Raise, Release, engine, database, vars
<1>8. ASSUME NEW w \in abandoned, WorkerWrites(w)
      PROVE  PendingDiffers(state)' /\ PendingDiffers(row)'
  <2>1. state' = state /\ row' \in {row, w.row}
    BY <1>8 DEF WorkerWrites, engine
  <2> QED
    BY <2>1 DEF PendingDiffers, IsPending
<1> QED
  BY <1>0, <1>1, <1>2, <1>3, <1>4, <1>5, <1>6, <1>7, <1>8, EnvironmentFrame
  DEF Next, CommitCreated, CommitUnanswered

(* A worker left behind carries the memory of its caller, or the row of    *)
(* its event, which is not pending.                                        *)
LEMMA LateDiffersKept ==
    ASSUME TypeInv, PendingDiffers(state), [Next]_vars,
           \A w \in abandoned : PendingDiffers(w.row)
    PROVE  \A w \in abandoned' : PendingDiffers(w.row)
<1>1. CASE abandoned' \subseteq abandoned
  BY <1>1
<1>2. CASE AbandonWorker
  <2>1. PICK w :
          /\ abandoned' = abandoned \cup {w}
          /\ w = IF pc = "committing"
                 THEN [worker |-> budget["late"], event |-> transition,
                       row |-> ConfirmedState(state, transition.confirmed)]
                 ELSE [worker |-> budget["late"], event |-> NoTransition,
                       row |-> state]
    BY <1>2 DEF AbandonWorker
  <2>2. CASE pc = "committing"
    <3>1. IsPending(state) /\ transition.confirmed \in Nat
      BY <2>2 DEF TypeInv, TransitionMatches, Committing, Events
    <3>2. ~IsPending(ConfirmedState(state, transition.confirmed))
      BY <3>1, PendingIsRecord, ConfirmedStateIs
    <3> QED
      BY <2>1, <2>2, <3>2 DEF PendingDiffers
  <2>3. CASE pc # "committing"
    BY <2>1, <2>3
  <2> QED
    BY <2>2, <2>3
<1> QED
  BY <1>1, <1>2, AbandonedFew

(* Where the holder of the lock found the memory persisted, it leaves it   *)
(* so, or is about to save it.                                             *)
LEMMA PersistedKept ==
    ASSUME TypeInv, PublishInv, Shut, Persisted, [Next]_vars
    PROVE  Persisted'
<1> DEFINE Sound == /\ phase = "absent" => ~accepting
                    /\ phase # "absent"
                       /\ pc \in {"idle", "committing", "duplicate"} =>
                         state = row
<1> SUFFICES ASSUME Undisturbed({"fail", "lost", "late"})' PROVE Sound'
  BY DEF Persisted
<1>1. Undisturbed({"fail", "lost", "late"}) /\ Undisturbed({"late"})
  BY UndisturbedBefore DEF Disturbances, Undisturbed
<1>2. /\ ~StorageFails /\ ~SaveUnanswered /\ ~CommitUnanswered
      /\ ~AbandonWorker
  BY SpentIsDisturbed
  DEF StorageFails, SaveUnanswered, CommitUnanswered, AbandonWorker,
      Disturbances
<1>0. abandoned = {}
  BY <1>1, NobodyIsLate DEF Undisturbed
<1>3. Sound
  BY <1>1 DEF Persisted
<1>4. ASSUME NEW obs \in observations, Observe(obs)
      PROVE  Sound'
  BY <1>3, <1>4, ObserveOutcome DEF Accepted
<1>5. ASSUME NEW t \in fired, DeadlineCallback(t)
      PROVE  Sound'
  BY <1>3, <1>5, DeadlineOutcome
  DEF Outcome, PendingKept, PendingEnded, Released, CommitTransition
<1>6. CASE Saved
  BY <1>3, <1>6, SavedOutcome
  DEF Outcome, PendingKept, PendingEnded, Released, CommitTransition
<1>7. CASE PublishTransition
  BY <1>1, <1>3, <1>7
  DEF PublishTransition, Release, database, PublishInv, CommittedLast
<1>8. CASE CommitCreated \/ CommitDuplicate
  BY <1>3, <1>8
  DEF CommitCreated, RecordTransition, CommitDuplicate, database, engine
<1>9. CASE ReloadState
  <2>1. pc = "duplicate" /\ state # NoState /\ row' = row
    BY <1>9, StateIsSome DEF ReloadState, database, TypeInv, HolderHasState
  <2>2. phase # "absent" /\ row # NoState
    BY <1>3, <2>1, <1>9 DEF ReloadState, TypeInv, HolderHasState
  <2> QED
    BY <1>9, <2>1, <2>2 DEF ReloadState, Release
<1>10. CASE DeleteState
  BY <1>3, <1>10 DEF DeleteState, engine, Shut
<1>11. CASE Recover \/ RecoverDisabled
  BY <1>11 DEF Recover, RecoverDisabled, NewEngine, database
<1>12. CASE Suspend \/ Deactivate \/ Crash
  BY <1>3, <1>12 DEF Suspend, Deactivate, Crash, database
<1>13. CASE UNCHANGED vars
  BY <1>3, <1>13 DEF vars, engine, database
<1>14. CASE StartListener
  BY <1>3, <1>14 DEF StartListener, engine, database
<1>15. CASE \/ Tick \/ AdjustClock
            \/ \E r \in Readings : TrackerUpdates(r)
            \/ ZoneChanges
            \/ \E s \in samples : EvaluateSample(s)
            \/ \E t \in timers : Fire(t)
            \/ StopListener
  <2>1. UNCHANGED <<phase, accepting, pc, state, row>>
    BY <1>15
    DEF Tick, AdjustClock, TrackerUpdates, ZoneChanges, EvaluateSample,
        Fire, StopListener, engine, database
  <2> QED
    BY <1>3, <2>1
<1> QED
  BY <1>0, <1>2, <1>4, <1>5, <1>6, <1>7, <1>8, <1>9, <1>10, <1>11, <1>12,
     <1>13, <1>14, <1>15 DEF Next

LEMMA TimerInstants ==
    ASSUME TypeInv
    PROVE  /\ wall \in Nat /\ mono \in Nat
           /\ \A t \in timers \cup fired : t.due \in Int
           /\ IsPending(state) => state.deadline \in Nat
BY PendingIsRecord DEF TypeInv, TypeOK, Timers

(* A pending that stays and waits has its timer after a critical section   *)
(* for its generation, and still has it after one for another.             *)
LEMMA OutcomeTimed ==
    ASSUME TypeInv, NEW generation, Outcome(generation),
           UNCHANGED <<wall, mono>>, pc' \in {"idle", "savingLatest"},
           StillWaits',
           \/ state.generation = generation
           \/ \E t \in timers \cup (fired \cap fired') :
                /\ t.generation = state.generation
                /\ t.due <= mono + state.deadline - wall
    PROVE  BackInTime'
<1>1. PendingKept(generation)
  BY DEF Outcome, PendingEnded, CommitTransition
<1>2. state' = state /\ timers \subseteq timers' /\ StillWaits
  BY <1>1 DEF PendingKept, StillWaits, IsPending
<1>3. CASE state.generation = generation
  <2>1. PICK t \in timers' : /\ t.generation = state.generation
                             /\ t.due = mono + state.deadline - wall
    BY <1>1, <1>2, <1>3 DEF PendingKept, StillWaits
  <2>2. mono + state.deadline - wall \in Int
    BY <1>2, TimerInstants DEF StillWaits
  <2> QED
    BY <1>2, <2>1, <2>2 DEF BackInTime
<1>4. CASE state.generation # generation
  BY <1>2, <1>4 DEF BackInTime
<1> QED
  BY <1>3, <1>4

LEMMA CommitsInPastKept ==
    ASSUME TypeInv, CommitsInPast, [Next]_vars, wall' >= wall
    PROVE  CommitsInPast'
<1>0. /\ wall \in Nat /\ (Committing => transition.confirmed \in Nat)
      /\ wall' \in Nat \/ UNCHANGED wall
  BY NextKeepsType DEF TypeInv, TypeOK, TransitionMatches, Committing, Events
<1>1. ASSUME UNCHANGED transition, Committing' => Committing
      PROVE  CommitsInPast'
  BY <1>0, <1>1 DEF CommitsInPast
<1>2. ASSUME NEW generation, Outcome(generation), UNCHANGED wall
      PROVE  CommitsInPast'
  BY <1>0, <1>2
  DEF Outcome, PendingKept, PendingEnded, CommitTransition, BuildTransition,
      CommitsInPast, Committing
<1>3. ASSUME NEW obs \in observations, Observe(obs)
      PROVE  CommitsInPast'
  BY <1>3, ObserveOutcome DEF Accepted, CommitsInPast, Committing
<1>4. ASSUME NEW t \in fired, DeadlineCallback(t)
      PROVE  CommitsInPast'
  BY <1>2, <1>4, DeadlineOutcome DEF CommitsInPast, Committing
<1>5. CASE Saved
  BY <1>2, <1>5, SavedOutcome DEF CommitsInPast, Committing
<1>6. CASE CommitCreated \/ CommitDuplicate
  BY <1>1, <1>6
  DEF CommitCreated, CommitDuplicate, RecordTransition, Committing
<1>7. CASE \/ PublishTransition \/ ReloadState \/ DeleteState \/ StorageFails
           \/ SaveUnanswered \/ CommitUnanswered \/ AbandonWorker
           \/ Recover \/ RecoverDisabled \/ Suspend \/ Deactivate \/ Crash
  BY <1>7
  DEF PublishTransition, ReloadState, DeleteState, StorageFails,
      SaveUnanswered, CommitUnanswered, AbandonWorker, Recover,
      RecoverDisabled, NewEngine, Suspend, Deactivate, Crash, Raise, Release,
      CommitsInPast, Committing
<1>8. CASE UNCHANGED vars \/ \E w \in abandoned : WorkerWrites(w)
  BY <1>1, <1>8 DEF vars, WorkerWrites, Committing
<1> QED
  BY <1>1, <1>3, <1>4, <1>5, <1>6, <1>7, <1>8, EnvironmentFrame
  DEF Next, Committing

LEMMA TimedKept ==
    ASSUME TypeInv, TypeInv', Shut, Persisted, CommitsInPast,
           AwaitsDeadline => BackInTime, [Next]_vars,
           Undisturbed({"fail", "lost", "late"})', ~AdjustClock
    PROVE  AwaitsDeadline' => BackInTime'
<1> SUFFICES ASSUME accepting', pc' \in {"idle", "savingLatest"}, StillWaits'
             PROVE  BackInTime'
  BY DEF AwaitsDeadline
<1> USE TimerInstants
<1>1. Undisturbed({"fail", "lost", "late"})
  BY UndisturbedBefore DEF Disturbances
<1>2. /\ ~StorageFails /\ ~SaveUnanswered /\ ~CommitUnanswered
      /\ ~AbandonWorker
  BY SpentIsDisturbed
  DEF StorageFails, SaveUnanswered, CommitUnanswered, AbandonWorker,
      Disturbances
<1>0. abandoned = {}
  BY <1>1, NobodyIsLate DEF Undisturbed
<1>3. ASSUME UNCHANGED <<accepting, pc, state, wall, mono>>,
             timers \cup fired \subseteq timers' \cup fired'
      PROVE  BackInTime'
  BY <1>3 DEF AwaitsDeadline, BackInTime, StillWaits, IsPending
<1>4. CASE Tick
  <2>1. wall' = wall + 1 /\ mono' = mono + 1
        /\ UNCHANGED <<accepting, pc, state, timers, fired>>
    BY <1>4 DEF Tick, engine
  <2>2. IsPending(state) /\ wall < state.deadline
    BY <2>1 DEF StillWaits, IsPending
  <2>3. PICK t \in timers \cup fired :
          /\ t.generation = state.generation
          /\ t.due <= mono + state.deadline - wall
    BY <2>1, <2>2 DEF AwaitsDeadline, BackInTime, StillWaits
  <2>4. mono' + state'.deadline - wall' = mono + state.deadline - wall
    BY <2>1, <2>2
  <2> QED
    BY <2>1, <2>3, <2>4 DEF BackInTime
<1>5. ASSUME NEW obs \in observations, Observe(obs)
      PROVE  BackInTime'
  <2>1. /\ pc = "idle" /\ UNCHANGED <<wall, mono, accepting, fired>>
        /\ UNCHANGED <<state, timers, pc>> \/ Accepted
    BY <1>5, ObserveOutcome
  <2>2. CASE UNCHANGED <<state, timers, pc>>
    BY <1>3, <2>1, <2>2
  <2>3. CASE Accepted
    <3>1. /\ pc' = "savingLatest" /\ timers' = timers
          /\ state \in RuntimeStates
          /\ state'.pending = state.pending
          /\ state'.generation = state.generation
          /\ state'.deadline = state.deadline
      BY <2>3 DEF Accepted
    <3>2. AwaitsDeadline
      BY <2>1, <3>1, StateIsSome DEF AwaitsDeadline, StillWaits, IsPending
    <3> QED
      BY <2>1, <3>1, <3>2 DEF BackInTime
  <2> QED
    BY <2>1, <2>2, <2>3
<1>6. ASSUME NEW t \in fired, DeadlineCallback(t)
      PROVE  BackInTime'
  <2>1. /\ pc = "idle" /\ UNCHANGED <<wall, mono, accepting>>
        /\ fired' = fired \ {t}
        /\ Outcome(t.generation)
    BY <1>6, DeadlineOutcome
  <2>2. PendingKept(t.generation)
    BY <2>1 DEF Outcome, PendingEnded, CommitTransition
  <2>3. AwaitsDeadline
    BY <2>1, <2>2 DEF PendingKept, AwaitsDeadline, StillWaits, IsPending
  <2>4. PICK u \in timers \cup fired :
          /\ u.generation = state.generation
          /\ u.due <= mono + state.deadline - wall
    BY <2>3 DEF BackInTime
  <2>5. CASE state.generation = t.generation
    BY <2>1, <2>5, OutcomeTimed
  <2>6. CASE state.generation # t.generation
    <3>1. u \in timers \cup (fired \cap fired')
      BY <2>1, <2>4, <2>6
    <3> QED
      BY <2>1, <2>4, <3>1, OutcomeTimed
  <2> QED
    BY <2>5, <2>6
<1>7. CASE Saved
  <2>1. /\ pc \in Saves /\ accepting
        /\ UNCHANGED <<wall, mono, accepting, fired>>
        /\ \/ /\ pc # "savingPending" /\ pc' = "idle"
              /\ UNCHANGED <<state, timers>>
           \/ Outcome(state.generation)
    BY <1>7, SavedOutcome
  <2>2. CASE Outcome(state.generation)
    BY <2>1, <2>2, OutcomeTimed
  <2>3. CASE pc # "savingPending" /\ UNCHANGED <<state, timers>>
    <3>1. IsPending(state)
      BY <2>3 DEF StillWaits, IsPending
    <3>2. pc = "savingLatest"
      BY <2>1, <2>3, <3>1 DEF Saves, Shut
    <3> QED
      BY <2>1, <2>3, <3>2 DEF AwaitsDeadline, BackInTime, StillWaits, IsPending
  <2> QED
    BY <2>1, <2>2, <2>3
<1>8. CASE PublishTransition
  <2>1. /\ IsPending(state) /\ transition.confirmed \in Nat
        /\ state' = ConfirmedState(state, transition.confirmed)
    BY <1>8 DEF PublishTransition, TypeInv, TransitionMatches, Committing,
                Events
  <2>2. ~IsPending(state')
    BY <2>1, PendingIsRecord, ConfirmedStateIs
  <2> QED
    BY <2>2 DEF StillWaits, IsPending
<1>9. CASE ReloadState
  <2>1. /\ pc = "duplicate" /\ UNCHANGED <<wall, row>> /\ accepting
        /\ state \in RuntimeStates
        /\ \/ row = NoState /\ state' = state /\ phase' \in {phase, "absent"}
           \/ row # NoState /\ state' = row
    BY <1>9 DEF ReloadState, Raise, Release, clocks, database, TypeInv,
                HolderHasState
  <2>2. transition.confirmed <= wall /\ transition.confirmed >= state.deadline
        /\ transition.confirmed \in Nat /\ IsPending(state)
    BY <2>1 DEF CommitsInPast, TypeInv, TransitionMatches, Committing, Events
  <2>3. state.deadline <= wall
    BY <2>2
  <2>4. state' = state
    BY <1>1, <2>1, StateIsSome DEF Persisted
  <2> QED
    BY <2>1, <2>2, <2>3, <2>4 DEF StillWaits, IsPending
<1>10. CASE DeleteState
  BY <1>10 DEF DeleteState, engine, Shut
<1>11. CASE Recover
  BY <1>11 DEF Recover, NewEngine, StillWaits, IsPending
<1>12. CASE RecoverDisabled \/ Suspend \/ Deactivate \/ Crash
  BY <1>12 DEF RecoverDisabled, Suspend, Deactivate, Crash
<1>13. CASE CommitCreated \/ CommitDuplicate
  BY <1>13 DEF CommitCreated, CommitDuplicate
<1>14. CASE UNCHANGED vars
  BY <1>3, <1>14 DEF vars, engine, clocks
<1>15. CASE \/ \E r \in Readings : TrackerUpdates(r)
            \/ ZoneChanges
            \/ \E s \in samples : EvaluateSample(s)
            \/ \E t \in timers : Fire(t)
            \/ StartListener \/ StopListener
  <2>1. /\ UNCHANGED <<accepting, pc, state, wall, mono>>
        /\ timers' \cup fired' = timers \cup fired
    BY <1>15
    DEF TrackerUpdates, ZoneChanges, EvaluateSample, Fire, StartListener,
        StopListener, engine, clocks
  <2> QED
    BY <1>3, <2>1
<1> QED
  BY <1>0, <1>2, <1>4, <1>5, <1>6, <1>7, <1>8, <1>9, <1>10, <1>11, <1>12,
     <1>13, <1>14, <1>15 DEF Next

LEMMA NextKeepsEngine ==
    ASSUME TypeInv, PublishInv, EngineInv, [Next]_vars
    PROVE  EngineInv'
<1>1. /\ PendingDiffers(state)' /\ PendingDiffers(row)'
      /\ (\A w \in abandoned : PendingDiffers(w.row))'
  BY DiffersKept, LateDiffersKept DEF EngineInv, PendingDiffers, IsPending
<1>2. Shut' /\ Persisted'
  BY ShutKept, PersistedKept DEF EngineInv
<1>3. ASSUME Undisturbed({"fail", "lost", "late", "clock"})'
      PROVE  (AwaitsDeadline => BackInTime)' /\ CommitsInPast'
  <2>1. Undisturbed({"fail", "lost", "late", "clock"})
    BY <1>3, UndisturbedBefore DEF Disturbances
  <2>2. (AwaitsDeadline => BackInTime) /\ CommitsInPast
    BY <2>1 DEF EngineInv, Timed
  <2>3. ~AdjustClock
    BY <1>3, SpentIsDisturbed DEF AdjustClock, Disturbances
  <2>4. wall' >= wall
    <3>1. Tick \/ UNCHANGED wall
      BY <2>3, ClockMoves
    <3> QED
      BY <3>1 DEF Tick, TypeInv, TypeOK
  <2>5. Undisturbed({"fail", "lost", "late"})'
    BY <1>3 DEF Undisturbed
  <2> QED
    BY <2>2, <2>3, <2>4, <2>5, NextKeepsType, TimedKept, CommitsInPastKept
    DEF EngineInv
<1> QED
  BY <1>1, <1>2, <1>3 DEF EngineInv, Timed

(* Memory, row and timers agree, whatever is interleaved.                  *)
THEOREM EngineInvAlways == Spec => []EngineInv
<1>1. Init => EngineInv
  BY DEF Init, EngineInv, PendingDiffers, IsPending, Shut, Persisted, Timed,
         AwaitsDeadline, CommitsInPast, Committing
<1>2. TypeInv /\ PublishInv /\ EngineInv /\ [Next]_vars => EngineInv'
  BY NextKeepsEngine
<1> QED
  BY <1>1, <1>2, TypeCorrect, PublishInvAlways, PTL DEF Spec

(* While no storage call fails and no caller is cancelled, a process that  *)
(* dies with the lock free loses nothing: memory is the row.               *)
THEOREM MemoryPersists == Spec => []MemoryIsPersisted
<1>1. EngineInv => MemoryIsPersisted
  BY DEF EngineInv, Persisted, MemoryIsPersisted
<1> QED
  BY <1>1, EngineInvAlways, PTL

(* If the clock is not set either, a pending whose deadline lies ahead has *)
(* its timer, whatever older timers were armed, dropped or fired.          *)
THEOREM PendingsAreTimed == Spec => []PendingIsTimed
<1>1. EngineInv => PendingIsTimed
  BY DEF EngineInv, Timed, AwaitsDeadline, StillWaits, BackInTime,
         PendingIsTimed
<1> QED
  BY <1>1, EngineInvAlways, PTL

(* A suspended engine starts no write, tells nothing and arms no timer,    *)
(* whichever of its callbacks and observations still get the lock: what    *)
(* reaches the database then is a worker whose caller was cancelled before *)
(* the suspension, and it takes nothing else along.                        *)
THEOREM SuspendedStaysQuiet == Spec => SuspendedIsQuiet
<1> DEFINE Quiet == /\ UNCHANGED published /\ timers' \subseteq timers
                    /\ abandoned' \subseteq abandoned
                    /\ abandoned' = abandoned => UNCHANGED <<row, journal>>
<1>1. ASSUME TypeInv, EngineInv, [Next]_vars,
             phase = "suspended", phase' = "suspended", pc # "deleting"
      PROVE  Quiet
  <2> USE <1>1 DEF database
  <2>1. ~accepting /\ pc = "idle"
    BY DEF EngineInv, Shut, TypeInv, HolderHasState
  <2>2. ASSUME NEW obs \in observations, Observe(obs)
        PROVE  Quiet
    <3>1. UNCHANGED <<row, journal, published, timers>>
      BY <2>1, <2>2, ObserveOutcome DEF Accepted
    <3> QED
      BY <2>2, <3>1 DEF Observe, TakeLock
  <2>3. ASSUME NEW t \in fired, DeadlineCallback(t)
        PROVE  Quiet
    <3>1. UNCHANGED <<row, journal, published, timers>>
      BY <2>1, <2>3, DeadlineOutcome
    <3> QED
      BY <2>3, <3>1 DEF DeadlineCallback, TakeLock
  <2>4. ~(\/ Saved \/ CommitCreated \/ CommitDuplicate \/ PublishTransition
          \/ ReloadState \/ DeleteState \/ StorageFails \/ SaveUnanswered
          \/ CommitUnanswered \/ AbandonWorker \/ Recover \/ Suspend
          \/ StartListener \/ Crash)
    BY <2>1
    DEF Saved, Saves, CommitCreated, CommitDuplicate, RecordTransition,
        PublishTransition, ReloadState, DeleteState, StorageFails,
        SaveUnanswered, CommitUnanswered, AbandonWorker, Recover, Suspend,
        StartListener, Crash
  <2>5. CASE RecoverDisabled \/ Deactivate
    BY <2>5 DEF RecoverDisabled, NewEngine, Deactivate, CancelScheduled
  <2>6. CASE \/ Tick \/ AdjustClock
             \/ \E r \in Readings : TrackerUpdates(r)
             \/ ZoneChanges
             \/ \E s \in samples : EvaluateSample(s)
             \/ \E t \in timers : Fire(t)
             \/ StopListener \/ UNCHANGED vars
    BY <2>6
    DEF Tick, AdjustClock, TrackerUpdates, ZoneChanges, EvaluateSample, Fire,
        StopListener, vars, engine
  <2>7. ASSUME NEW w \in abandoned, WorkerWrites(w)
        PROVE  Quiet
    BY <2>7 DEF WorkerWrites, engine
  <2> QED
    BY <2>2, <2>3, <2>4, <2>5, <2>6, <2>7 DEF Next
<1> QED
  BY <1>1, TypeCorrect, EngineInvAlways, PTL DEF Spec, SuspendedIsQuiet

(* An event is built only from a live reading that names its side: the     *)
(* hysteresis band repeats the presence, which a pending never is.         *)
THEOREM ReadingsAreDefinite == Spec => EventsNeedDefiniteReading
<1>1. ASSUME TypeInv, EngineInv, CommitTransition, IsPending(state)
      PROVE  tracker.reading = transition'.side
  <2>1. /\ transition'.side = state.pending /\ state # NoState
        /\ PresenceOf(tracker, state) = state.pending
        /\ state.pending # state.presence
    BY <1>1
    DEF CommitTransition, BuildTransition, EngineInv, PendingDiffers,
        IsPending
  <2> QED
    BY <2>1 DEF PresenceOf
<1>2. ASSUME TypeInv, EngineInv, [Next]_vars,
             pc # "committing", pc' = "committing"
      PROVE  tracker.reading = transition'.side
  <2> USE <1>2
  <2>1. ASSUME NEW obs \in observations, Observe(obs)
        PROVE  FALSE
    BY <2>1, ObserveOutcome DEF Accepted
  <2>2. ASSUME NEW t \in fired, DeadlineCallback(t)
        PROVE  tracker.reading = transition'.side
    BY <1>1, <2>2, DeadlineOutcome DEF Outcome, PendingKept, PendingEnded
  <2>3. CASE Saved
    BY <1>1, <2>3, SavedOutcome DEF Outcome, PendingKept, PendingEnded
  <2>4. CASE \/ CommitCreated \/ CommitDuplicate \/ PublishTransition
             \/ ReloadState \/ DeleteState \/ StorageFails \/ SaveUnanswered
             \/ CommitUnanswered \/ AbandonWorker \/ Recover
             \/ RecoverDisabled \/ Suspend \/ Deactivate \/ Crash
             \/ UNCHANGED vars \/ \E w \in abandoned : WorkerWrites(w)
    BY <2>4
    DEF CommitCreated, CommitDuplicate, PublishTransition, ReloadState,
        DeleteState, StorageFails, SaveUnanswered, CommitUnanswered,
        AbandonWorker, WorkerWrites, Raise, Release, Recover,
        RecoverDisabled, NewEngine, Suspend, Deactivate, Crash, vars
  <2> QED
    BY <2>1, <2>2, <2>3, <2>4, EnvironmentFrame DEF Next
<1> QED
  BY <1>2, TypeCorrect, EngineInvAlways, PTL
  DEF Spec, EventsNeedDefiniteReading

=============================================================================
