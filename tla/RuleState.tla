----------------------------- MODULE RuleState -----------------------------
(***************************************************************************)
(* The runtime record of one recording rule and the pure functions that    *)
(* build its next value (runtime/state.py).  Identifiers, coordinates and  *)
(* accuracy are left out: no decision of the engine reads them.            *)
(***************************************************************************)
EXTENDS Integers

CONSTANTS
    Confirmation,     \* seconds a side must persist: [Sides -> Nat]
    CooldownSeconds,  \* seconds between two events of one direction
    NoState           \* the absence of a record (None, or no row)

Sides == {"inside", "outside"}

ASSUME RuleAssumption ==
    /\ Confirmation \in [Sides -> Nat]
    /\ CooldownSeconds \in Nat

NoSide == "no side"   \* pending_transition is None
NoTime == -1          \* an optional instant that is None
OptionalTime == Nat \cup {NoTime}

RuntimeStates ==
    [presence   : Sides,                    \* presence_state
     cooldown   : [Sides -> OptionalTime],  \* enter_/exit_cooldown_until
     pending    : Sides \cup {NoSide},      \* pending_transition
     started    : OptionalTime,             \* pending_started_at
     deadline   : OptionalTime,             \* pending_deadline
     generation : Nat,                      \* pending_generation
     processed  : Nat]                      \* last_processed_at

ASSUME StateAssumption == NoState \notin RuntimeStates

IsPending(s) == s # NoState /\ s.pending # NoSide

(* What a tracker state means to a rule: a side, "band" between radius and *)
(* radius + margin, or "none" when it is unusable.                         *)
Readings == Sides \cup {"band", "none"}
Samples  == [reading : Readings, at : Nat]

(* A sample is used when its reading is usable and not older than the last *)
(* one processed; in the band it repeats the presence already confirmed.   *)
Usable(sample, s) ==
    /\ sample.reading # "none"
    /\ s # NoState => sample.at >= s.processed

PresenceOf(sample, s) ==
    IF sample.reading # "band" THEN sample.reading
    ELSE IF s = NoState THEN "unknown" ELSE s.presence

(* The first classifiable sample of a rule fixes its presence, no event.   *)
BaselineState(obs) ==
    [presence   |-> obs.presence,
     cooldown   |-> [d \in Sides |-> NoTime],
     pending    |-> NoSide,
     started    |-> NoTime,
     deadline   |-> NoTime,
     generation |-> 0,
     processed  |-> obs.at]

ClearPending(s) ==
    [s EXCEPT !.pending = NoSide, !.started = NoTime, !.deadline = NoTime]

(* accepted_state_update with clear_pending FALSE and TRUE.                *)
LatestState(s, obs) == [s EXCEPT !.processed = obs.at]
StableState(s, obs) == ClearPending(LatestState(s, obs))

PendingState(s, obs, now) ==
    [s EXCEPT !.pending    = obs.presence,
              !.started    = now,
              !.deadline   = now + Confirmation[obs.presence],
              !.generation = @ + 1,
              !.processed  = obs.at]

(* Presence corrected without an event, while the direction cools down.    *)
CorrectedState(s) == [ClearPending(s) EXCEPT !.presence = s.pending]

(* Presence changed by an event: only its own direction starts to cool.    *)
ConfirmedState(s, now) ==
    [CorrectedState(s) EXCEPT !.cooldown[s.pending] = now + CooldownSeconds]

\* A plausible bug of ActiveDeadline, used by a mutation run only.
FaultyActiveDeadline(until, now) == NoTime

(* A cooldown is over at its exact boundary.                               *)
ActiveDeadline(until, now) == IF until > now THEN until ELSE NoTime

RecoveredState(s, now) ==
    [s EXCEPT !.cooldown = [d \in Sides |-> ActiveDeadline(@[d], now)]]
=============================================================================
