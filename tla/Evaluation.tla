----------------------------- MODULE Evaluation -----------------------------
(***************************************************************************)
(* How one tracker state becomes a presence (listener.py, location.py,     *)
(* geofence.py): parse the sample, resolve the place's geometry as it is   *)
(* now, measure, classify with hysteresis.  The listener evaluates every   *)
(* sample this way, and the deadline re-evaluates the live state with the  *)
(* same function, so one decision is reached at two instants against two   *)
(* runtime records.  Nothing is kept between two evaluations: the module   *)
(* is a function, and its property speaks of every argument at once.       *)
(*                                                                         *)
(* A coordinate is a model value of Points, or says why it is none; the    *)
(* haversine distance is the constant Metres, whole metres are enough for  *)
(* its comparisons.                                                        *)
(***************************************************************************)
EXTENDS RuleState

CONSTANTS
    Points,        \* coordinates in range
    Metres,        \* meters_between: [Points \X Points -> Nat]
    ExitMargin,    \* exit_margin_meters of the rule's place
    MaxAccuracy,   \* max_gps_accuracy_meters of the rule
    Missing,       \* an attribute that is absent or not a number or text
    Malformed,     \* an attribute that does not parse, or is out of range
    Instants,      \* bound: instants of the samples checked
    Lengths        \* bound: radii and accuracies checked

ASSUME EvaluationAssumption ==
    /\ Metres \in [Points \X Points -> Nat]
    /\ ExitMargin \in Nat /\ MaxAccuracy \in Nat
    /\ Missing # Malformed
    /\ {Missing, Malformed} \cap (Points \cup Nat) = {}
    /\ Instants \subseteq Nat /\ Lengths \subseteq Nat

Length == Lengths \cup {Missing, Malformed}

(* A Home Assistant tracker state: "text" is its state string, "domain"    *)
(* whether it is of the configured tracker kind.                           *)
Raws == [domain : BOOLEAN, text : {"known", "unknown"}, aware : BOOLEAN,
         at : Instants, point : Points \cup {Missing, Malformed},
         accuracy : Length]

(* A place with its own coordinates, or a zone read from Home Assistant.   *)
Places == [kind : {"coordinates", "ha_zone"}, exists : BOOLEAN,
           centre : Points \cup {Missing, Malformed}, radius : Length]

Runtimes ==
    {[presence |-> side, processed |-> at] : side \in Sides, at \in Instants}
        \cup {NoState}

Ignored(reason) == [accepted |-> FALSE, reason |-> reason]
Accepted(presence) == [accepted |-> TRUE, presence |-> presence]

TimestampError(r, s) ==
    IF ~r.aware THEN "invalid_timestamp"
    ELSE IF s # NoState /\ r.at < s.processed THEN "stale_timestamp"
    ELSE "none"

NormalizeError(r, s) ==
    IF ~r.domain THEN "invalid_state"
    ELSE IF TimestampError(r, s) # "none" THEN TimestampError(r, s)
    ELSE IF r.text = "unknown" THEN "invalid_state"
    ELSE IF r.point = Missing THEN "missing_coordinates"
    ELSE IF r.point = Malformed THEN "invalid_coordinates"
    ELSE IF r.accuracy = Malformed THEN "invalid_accuracy"
    ELSE "none"

ResolveError(p) ==
    IF p.kind = "ha_zone" /\ ~p.exists THEN "missing_zone"
    ELSE IF \/ {p.centre, p.radius} \cap {Missing, Malformed} # {}
            \/ p.radius = 0
    THEN "invalid_zone"
    ELSE "none"

\* A plausible bug of Classify, used by a mutation run only.
FaultyClassify(r, p, confirmed) ==
    LET measured == Metres[r.point, p.centre]
    IN  IF measured < p.radius THEN "inside"
        ELSE IF measured > p.radius + ExitMargin THEN "outside"
        ELSE confirmed

Classify(r, p, confirmed) ==
    LET measured == Metres[r.point, p.centre]
    IN  IF measured <= p.radius THEN "inside"
        ELSE IF measured >= p.radius + ExitMargin THEN "outside"
        ELSE confirmed

EvaluateTracker(r, p, s) ==
    IF NormalizeError(r, s) # "none" THEN Ignored(NormalizeError(r, s))
    ELSE IF ResolveError(p) # "none" THEN Ignored(ResolveError(p))
    ELSE IF r.accuracy # Missing /\ r.accuracy > MaxAccuracy
    THEN Ignored("excessive_accuracy")
    ELSE Accepted(Classify(r, p, IF s = NoState THEN "unknown" ELSE s.presence))

-----------------------------------------------------------------------------
(* What a sample means whatever the engine remembers: the four readings    *)
(* that RuleEngine's tracker can have.                                     *)
Legible(r) ==
    /\ r.domain /\ r.aware /\ r.text = "known"
    /\ r.point \in Points
    /\ r.accuracy \in Nat => r.accuracy <= MaxAccuracy
    /\ r.accuracy # Malformed

Located(p) ==
    /\ p.kind = "ha_zone" => p.exists
    /\ p.centre \in Points
    /\ p.radius \in Nat \ {0}

Reading(r, p) ==
    IF ~Legible(r) \/ ~Located(p) THEN "none"
    ELSE LET d == Metres[r.point, p.centre]
         IN  CASE d \in 0 .. p.radius -> "inside"
               [] d >= p.radius + ExitMargin /\ d > p.radius -> "outside"
               [] OTHER -> "band"

Decides(r, p, s) ==
    LET outcome == EvaluateTracker(r, p, s)
        sample == [reading |-> Reading(r, p), at |-> r.at]
    IN  /\ outcome.accepted <=> Usable(sample, s)
        /\ outcome.accepted => outcome.presence = PresenceOf(sample, s)

(* The records against which every tracker state and place has the outcome *)
(* of its reading.                                                         *)
Decided == {s \in Runtimes : \A r \in Raws, p \in Places : Decides(r, p, s)}
=============================================================================
