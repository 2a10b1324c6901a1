-------------------------- MODULE RuleStateLemmas ---------------------------
(* What the constructors of a rule's runtime record preserve.              *)
EXTENDS RuleState, TLAPS

(* A pending side comes with its start and the deadline that follows.      *)
PendingShape(s) ==
    IsPending(s) =>
        /\ s.started \in Nat
        /\ s.deadline = s.started + Confirmation[s.pending]

LEMMA NoSideIsNoSide == NoSide \notin Sides
BY DEF NoSide, Sides

LEMMA StateIsSome ==
    ASSUME NEW s \in RuntimeStates
    PROVE  s # NoState
BY StateAssumption

(* A cleared pending keeps the generation and the cooldowns.               *)
LEMMA ClearPendingKeeps ==
    ASSUME NEW s \in RuntimeStates
    PROVE  /\ ClearPending(s) \in RuntimeStates
           /\ ~IsPending(ClearPending(s))
           /\ ClearPending(s).generation = s.generation
           /\ ClearPending(s).cooldown = s.cooldown
           /\ ClearPending(s).presence = s.presence
BY DEF ClearPending, RuntimeStates, IsPending, OptionalTime

(* An accepted sample moves only the time of the last sample.              *)
LEMMA LatestStateKeeps ==
    ASSUME NEW s \in RuntimeStates, NEW obs, obs.at \in Nat
    PROVE  /\ LatestState(s, obs) \in RuntimeStates
           /\ LatestState(s, obs).generation = s.generation
           /\ LatestState(s, obs).pending = s.pending
           /\ LatestState(s, obs).started = s.started
           /\ LatestState(s, obs).deadline = s.deadline
           /\ LatestState(s, obs).cooldown = s.cooldown
           /\ LatestState(s, obs).presence = s.presence
BY DEF LatestState, RuntimeStates

LEMMA StableStateKeeps ==
    ASSUME NEW s \in RuntimeStates, NEW obs, obs.at \in Nat
    PROVE  /\ StableState(s, obs) \in RuntimeStates
           /\ ~IsPending(StableState(s, obs))
           /\ StableState(s, obs).generation = s.generation
           /\ StableState(s, obs).cooldown = s.cooldown
BY LatestStateKeeps, ClearPendingKeeps DEF StableState

(* A baseline is generation zero, with nothing pending.                    *)
LEMMA BaselineStateIs ==
    ASSUME NEW obs, obs.at \in Nat, obs.presence \in Sides
    PROVE  /\ BaselineState(obs) \in RuntimeStates
           /\ ~IsPending(BaselineState(obs))
           /\ BaselineState(obs).generation = 0
BY DEF BaselineState, RuntimeStates, IsPending, OptionalTime

(* A new pending opens the next generation.                                *)
LEMMA PendingStateIs ==
    ASSUME NEW s \in RuntimeStates, NEW obs, obs.at \in Nat,
           obs.presence \in Sides, NEW now \in Nat
    PROVE  /\ PendingState(s, obs, now) \in RuntimeStates
           /\ PendingShape(PendingState(s, obs, now))
           /\ PendingState(s, obs, now).generation = s.generation + 1
<1>1. Confirmation[obs.presence] \in Nat
  BY RuleAssumption
<1>2. /\ now \in OptionalTime
      /\ now + Confirmation[obs.presence] \in OptionalTime
      /\ s.generation + 1 \in Nat
  BY <1>1 DEF OptionalTime, RuntimeStates
<1>3. PendingState(s, obs, now) \in RuntimeStates
  BY <1>2 DEF PendingState, RuntimeStates
<1>4. /\ PendingState(s, obs, now).generation = s.generation + 1
      /\ PendingState(s, obs, now).started = now
      /\ PendingState(s, obs, now).pending = obs.presence
      /\ PendingState(s, obs, now).deadline = now + Confirmation[obs.presence]
  BY DEF PendingState, RuntimeStates
<1> QED
  BY <1>3, <1>4 DEF PendingShape

(* Correcting or confirming ends the pending within its generation.        *)
LEMMA CorrectedStateIs ==
    ASSUME NEW s \in RuntimeStates, s.pending \in Sides
    PROVE  /\ CorrectedState(s) \in RuntimeStates
           /\ ~IsPending(CorrectedState(s))
           /\ CorrectedState(s).generation = s.generation
           /\ CorrectedState(s).cooldown = s.cooldown
<1>1. ClearPending(s) \in RuntimeStates
  BY ClearPendingKeeps
<1>2. /\ CorrectedState(s) \in RuntimeStates
      /\ CorrectedState(s).pending = ClearPending(s).pending
      /\ CorrectedState(s).generation = ClearPending(s).generation
      /\ CorrectedState(s).cooldown = ClearPending(s).cooldown
  BY <1>1 DEF CorrectedState, RuntimeStates
<1> QED
  BY <1>1, <1>2, ClearPendingKeeps, StateIsSome DEF IsPending

LEMMA ConfirmedStateIs ==
    ASSUME NEW s \in RuntimeStates, s.pending \in Sides, NEW now \in Nat
    PROVE  /\ ConfirmedState(s, now) \in RuntimeStates
           /\ ~IsPending(ConfirmedState(s, now))
           /\ ConfirmedState(s, now).generation = s.generation
           /\ ConfirmedState(s, now).cooldown
                = [s.cooldown EXCEPT ![s.pending] = now + CooldownSeconds]
<1>1. now + CooldownSeconds \in OptionalTime
  BY RuleAssumption DEF OptionalTime
<1>2. CorrectedState(s) \in RuntimeStates
  BY CorrectedStateIs
<1>3. /\ ConfirmedState(s, now) \in RuntimeStates
      /\ ConfirmedState(s, now).pending = CorrectedState(s).pending
      /\ ConfirmedState(s, now).generation = CorrectedState(s).generation
      /\ ConfirmedState(s, now).cooldown
           = [CorrectedState(s).cooldown EXCEPT ![s.pending] = now + CooldownSeconds]
  BY <1>1, <1>2 DEF ConfirmedState, RuntimeStates
<1> QED
  BY <1>2, <1>3, CorrectedStateIs, StateIsSome DEF IsPending

(* Recovery only forgets cooldowns that are over.                          *)
LEMMA RecoveredStateKeeps ==
    ASSUME NEW s \in RuntimeStates, NEW now \in Nat
    PROVE  /\ RecoveredState(s, now) \in RuntimeStates
           /\ RecoveredState(s, now).generation = s.generation
           /\ RecoveredState(s, now).pending = s.pending
           /\ RecoveredState(s, now).started = s.started
           /\ RecoveredState(s, now).deadline = s.deadline
           /\ \A d \in Sides : RecoveredState(s, now).cooldown[d]
                                 = ActiveDeadline(s.cooldown[d], now)
<1>1. \A d \in Sides : ActiveDeadline(s.cooldown[d], now) \in OptionalTime
  BY DEF ActiveDeadline, RuntimeStates, OptionalTime
<1> QED
  BY <1>1 DEF RecoveredState, RuntimeStates
=============================================================================
