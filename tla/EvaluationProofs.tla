-------------------------- MODULE EvaluationProofs --------------------------
(* For every metric, margin and accuracy limit, a tracker state means one  *)
(* of four readings to a rule.                                             *)
EXTENDS EngineEvaluation, TLAPS

(* A length is a number, missing or malformed, and only one of them.       *)
LEMMA Distinct ==
    /\ Missing # Malformed
    /\ Missing \notin Nat /\ Malformed \notin Nat
    /\ Missing \notin Points /\ Malformed \notin Points
    /\ Lengths \subseteq Nat
BY EvaluationAssumption

(* The guards of normalize_tracker_observation, in one formula.            *)
LEMMA NormalizeAccepts ==
    ASSUME NEW r \in Raws, NEW s
    PROVE  NormalizeError(r, s) = "none" <=>
             /\ r.domain /\ r.aware /\ r.text = "known"
             /\ r.point \in Points /\ r.accuracy # Malformed
             /\ ~(s # NoState /\ r.at < s.processed)
<1>1. /\ r.text \in {"known", "unknown"}
      /\ r.domain \in BOOLEAN /\ r.aware \in BOOLEAN
      /\ r.point \in Points \cup {Missing, Malformed}
  BY DEF Raws
<1>2. TimestampError(r, s) = "none" <=>
        r.aware /\ ~(s # NoState /\ r.at < s.processed)
  BY DEF TimestampError
<1> QED
  BY <1>1, <1>2, Distinct DEF NormalizeError

LEMMA ResolveAccepts ==
    ASSUME NEW p \in Places
    PROVE  ResolveError(p) = "none" <=> Located(p)
<1>1. /\ p.kind \in {"coordinates", "ha_zone"}
      /\ p.centre \in Points \cup {Missing, Malformed}
      /\ p.radius \in Lengths \cup {Missing, Malformed}
  BY DEF Places, Length
<1> QED
  BY <1>1, Distinct DEF ResolveError, Located

(* Radius and margin split the line in three, without gap or overlap.      *)
LEMMA ClassifyAgrees ==
    ASSUME NEW r \in Raws, NEW p \in Places, Legible(r), Located(p),
           NEW confirmed
    PROVE  Classify(r, p, confirmed) =
             IF Reading(r, p) = "band" THEN confirmed ELSE Reading(r, p)
<1>1. PICK d : d = Metres[r.point, p.centre]
  OBVIOUS
<1>2. PICK radius : radius = p.radius
  OBVIOUS
<1>3. r.point \in Points /\ p.centre \in Points /\ radius \in Nat
  BY <1>2 DEF Legible, Located
<1>4. d \in Nat /\ ExitMargin \in Nat
  BY <1>1, <1>3, EvaluationAssumption
<1>5. Classify(r, p, confirmed) =
        IF d <= radius THEN "inside"
        ELSE IF d >= radius + ExitMargin THEN "outside" ELSE confirmed
  BY <1>1, <1>2 DEF Classify
<1>6. Reading(r, p) = CASE d \in 0 .. radius -> "inside"
                        [] d >= radius + ExitMargin /\ d > radius -> "outside"
                        [] OTHER -> "band"
  BY <1>1, <1>2 DEF Reading
<1>7. CASE d <= radius
  <2>1. d \in 0 .. radius /\ ~(d > radius)
    BY <1>3, <1>4, <1>7
  <2> QED
    BY <1>5, <1>6, <1>7, <2>1
<1>8. CASE ~(d <= radius)
  <2>1. d \notin 0 .. radius /\ d > radius
    BY <1>3, <1>4, <1>8
  <2> QED
    BY <1>5, <1>6, <1>8, <2>1
<1> QED
  BY <1>7, <1>8

LEMMA EvaluationDecides ==
    ASSUME NEW r \in Raws, NEW p \in Places, NEW s \in Runtimes
    PROVE  Decides(r, p, s)
<1> DEFINE sample == [reading |-> Reading(r, p), at |-> r.at]
           confirmed == IF s = NoState THEN "unknown" ELSE s.presence
           fresh == ~(s # NoState /\ r.at < s.processed)
           precise == ~(r.accuracy # Missing /\ r.accuracy > MaxAccuracy)
<1>1. Reading(r, p) \in {"inside", "outside", "band", "none"}
  BY DEF Reading
<1>2. Reading(r, p) = "none" <=> ~Legible(r) \/ ~Located(p)
  BY DEF Reading
<1>3. s # NoState => (r.at >= s.processed <=> ~(r.at < s.processed))
  <2>1. r.at \in Nat
    BY EvaluationAssumption DEF Raws
  <2>2. ASSUME s # NoState PROVE s.processed \in Nat
    <3>1. PICK side \in Sides, at \in Instants :
            s = [presence |-> side, processed |-> at]
      BY <2>2 DEF Runtimes
    <3> QED
      BY <3>1, EvaluationAssumption
  <2> QED
    BY <2>1, <2>2
<1>4. Usable(sample, s) <=> Legible(r) /\ Located(p) /\ fresh
  BY <1>2, <1>3 DEF Usable
<1>5. Legible(r) <=>
        /\ r.domain /\ r.aware /\ r.text = "known" /\ r.point \in Points
        /\ r.accuracy # Malformed /\ precise
  <2>1. r.accuracy \in Nat \cup {Missing, Malformed} /\ MaxAccuracy \in Nat
    BY EvaluationAssumption DEF Raws, Length
  <2>2. r.accuracy # Malformed =>
          (precise <=> (r.accuracy \in Nat => r.accuracy <= MaxAccuracy))
    BY <2>1, Distinct
  <2> QED
    BY <2>2 DEF Legible
<1>6. CASE NormalizeError(r, s) # "none"
  <2>1. ~Usable(sample, s)
    BY <1>4, <1>5, <1>6, NormalizeAccepts
  <2>2. EvaluateTracker(r, p, s) = Ignored(NormalizeError(r, s))
    BY <1>6 DEF EvaluateTracker
  <2> QED
    BY <2>1, <2>2 DEF Decides, Ignored
<1>7. CASE NormalizeError(r, s) = "none" /\ ResolveError(p) # "none"
  <2>1. ~Usable(sample, s)
    BY <1>4, <1>7, ResolveAccepts
  <2>2. EvaluateTracker(r, p, s) = Ignored(ResolveError(p))
    BY <1>7 DEF EvaluateTracker
  <2> QED
    BY <2>1, <2>2 DEF Decides, Ignored
<1>8. CASE /\ NormalizeError(r, s) = "none" /\ ResolveError(p) = "none"
           /\ ~precise
  <2>1. ~Usable(sample, s)
    BY <1>4, <1>5, <1>8
  <2>2. EvaluateTracker(r, p, s) = Ignored("excessive_accuracy")
    BY <1>8 DEF EvaluateTracker
  <2> QED
    BY <2>1, <2>2 DEF Decides, Ignored
<1>9. CASE /\ NormalizeError(r, s) = "none" /\ ResolveError(p) = "none"
           /\ precise
  <2>1. Legible(r) /\ Located(p) /\ fresh
    BY <1>5, <1>9, NormalizeAccepts, ResolveAccepts
  <2>2. Usable(sample, s)
    BY <1>4, <2>1
  <2>3. EvaluateTracker(r, p, s) = Accepted(Classify(r, p, confirmed))
    BY <1>9 DEF EvaluateTracker
  <2>4. PresenceOf(sample, s) =
          IF Reading(r, p) = "band" THEN confirmed ELSE Reading(r, p)
    BY <1>1 DEF PresenceOf
  <2>5. Classify(r, p, confirmed) = PresenceOf(sample, s)
    BY <2>1, <2>4, ClassifyAgrees
  <2> QED
    BY <2>2, <2>3, <2>5 DEF Decides, Accepted
<1> QED
  BY <1>6, <1>7, <1>8, <1>9

(* Whatever the engine did before, a tracker state that reaches it by a    *)
(* sample or at a deadline has the outcome of its reading.                 *)
THEOREM ReadingIsDecisive == Spec => []ReadingDecides
<1>1. ReadingDecides
  BY EvaluationDecides DEF ReadingDecides, Decided
<1> QED
  BY <1>1, PTL
=============================================================================
