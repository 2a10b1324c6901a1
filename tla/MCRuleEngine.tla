---------------------------- MODULE MCRuleEngine ----------------------------
(* TLC instances of RuleEngine.                                            *)
EXTENDS RuleEngineRefinement, TLC

SlowEnter == [inside |-> 1, outside |-> 0]

Allow(ds) == [d \in Disturbances |-> IF d \in ds THEN 1 ELSE 0]
Calm       == Allow({"crash"})
Crashes    == Allow({"crash", "fail"})
Everything == Allow(Disturbances)
Cancelled  == Allow({"lost", "clock", "crash"})

Anything == SUBSET Disturbances

(* Any two kinds, but a late worker with a suspension or the clock only.   *)
Pairs ==
    {ds \in SUBSET Disturbances :
       /\ Cardinality(ds) <= 2
       /\ "late" \in ds => ds \subseteq {"late", "suspend", "clock"}}

TimerSymmetry == Permutations(TimerIds)
=============================================================================
