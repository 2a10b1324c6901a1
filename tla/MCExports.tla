----------------------------- MODULE MCExports -----------------------------
(* TLC instances of Exports.                                               *)
EXTENDS Exports, TLC

Allow(ds) == [d \in Disturbances |-> IF d \in ds THEN 1 ELSE 0]
Erased     == Allow({"reset"})
Everything == [Allow(Disturbances) EXCEPT !["reset"] = 2]
=============================================================================
