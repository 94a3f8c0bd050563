--------------------------- MODULE MCLiftedCache ---------------------------
(***************************************************************************)
(* Instances of LiftedCache for TLC.  A reader waits for its answer, so    *)
(* the intake never holds more requests than there are readers.            *)
(***************************************************************************)
EXTENDS LiftedCache, TLC

\* Readers are interchangeable.
Symmetry == Permutations(Reader)
=============================================================================
