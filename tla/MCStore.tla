------------------------------ MODULE MCStore ------------------------------
(* TLC instances of Store.                                                 *)
EXTENDS Store

Allow(ds) == [d \in Disturbances |-> IF d \in ds THEN 1 ELSE 0]
Everything == Allow(Disturbances)
=============================================================================
