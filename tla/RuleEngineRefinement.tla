----------------------- MODULE RuleEngineRefinement ------------------------
(* The engine keeps the promises of TransitionJournal.                     *)
EXTENDS RuleEngine

Journal == INSTANCE TransitionJournal WITH now <- wall

(* Every step of the engine, its retries, timers, crashes and recoveries   *)
(* is a step of the abstract journal or leaves it alone, while the clock   *)
(* goes forward and no caller is cancelled during a commit.                *)
KeepsJournalPromise == Journal!Spec
=============================================================================
