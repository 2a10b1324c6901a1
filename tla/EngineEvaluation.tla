-------------------------- MODULE EngineEvaluation --------------------------
(* The engine with the evaluation that its listener and its deadlines call *)
(* with the engine's record of that moment.                                *)
EXTENDS RuleEngine, Evaluation

Record ==
    IF state = NoState THEN NoState
    ELSE [presence |-> state.presence, processed |-> state.processed]

(* Listener and deadline differ only in the record they look at: whether a *)
(* sample is used depends on that record's last_processed_at alone, and    *)
(* its presence matters between radius and radius + margin alone.  So at   *)
(* every moment of the engine, any tracker state and place mean to it what *)
(* RuleEngine's readings say.                                              *)
ReadingDecides == Record \in Runtimes => Record \in Decided
=============================================================================
