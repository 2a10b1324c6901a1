----------------------------- MODULE MCManager -----------------------------
(* TLC instances of Manager.                                               *)
EXTENDS Manager, TLC

Allow(ds) == [d \in Disturbances |-> IF d \in ds THEN 1 ELSE 0]
Refused(b, n) == [b EXCEPT !["refuse"] = n]
Unsteady  == Allow({"fail", "cancel", "late"})
Stranding == Allow({"strand"})
Troubled  == Refused(Allow({"fail", "cancel", "strand"}), 2)

(* One call of each effect: a rule that may be enabled already (then it is *)
(* the work that changes nothing), all rules erased, a refusal.            *)
SomeBodies == {<<"duplicate">>, <<"reset">>, <<"enable", 1>>}

CallSymmetry == Permutations(Calls)
=============================================================================
