---------------------------- MODULE MCEvaluation ----------------------------
(* The evaluation beside the engine that relies on it, for TLC: a line of  *)
(* points one metre apart.                                                 *)
EXTENDS MCRuleEngine, EngineEvaluation

CONSTANTS p0, p1, p2, p3, p4

Line == <<p0, p1, p2, p3, p4>>
At(p) == CHOOSE i \in DOMAIN Line : Line[i] = p
Apart == [pair \in Points \X Points |->
            LET d == At(pair[1]) - At(pair[2]) IN IF d < 0 THEN -d ELSE d]
=============================================================================
