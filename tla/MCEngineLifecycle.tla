------------------------- MODULE MCEngineLifecycle -------------------------
(***************************************************************************)
(* Instances of EngineLifecycle for TLC.                                   *)
(***************************************************************************)
EXTENDS EngineLifecycle, TLC

\* The threads of one kind are interchangeable (safety only).
Symmetry == Permutations(Caller) \cup Permutations(Querier)
=============================================================================
