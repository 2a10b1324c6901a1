---------------------------- MODULE MCEventStore ----------------------------
(* TLC instances of EventStore.                                            *)
EXTENDS EventStore, TLC

RowSymmetry == Permutations(EventIds) \cup Permutations(Journals)
=============================================================================
