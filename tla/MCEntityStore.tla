----------------------------- MODULE MCEntityStore -----------------------------
(* Instances of EntityStore. *)
EXTENDS EntityStore, TLC

MCSpan == {Key}
MCReaderSymmetry == Permutations(Reader)
================================================================================
