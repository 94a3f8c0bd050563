----------------------------- MODULE MCWorkQueue -----------------------------
(* Instances of WorkQueue for TLC. *)
EXTENDS WorkQueue, TLC

OneAnalyser   == {0}
TwoAnalysers  == {0, 1}
Identity1     == [a \in {0} |-> a]
Swapped2      == [a \in {0, 1} |-> 1 - a]
Decode1       == [a \in {0} |-> 1]
SamePhase2    == [a \in {0, 1} |-> 1]
OneSpace      == {0}
TwoSpaces     == {0, 1}

\* Regions in one space: project-wide, single addresses, a run and a split run.
Block(s, lo, hi) == {s} \X (lo..hi)
RegionsOne == {{}, Block(0, 0, 0), Block(0, 2, 2), Block(0, 0, 3), Block(0, 1, 2),
               Block(0, 0, 0) \cup Block(0, 2, 3)}

\* Regions across two spaces.
RegionsTwo == {Block(0, 0, 1), Block(0, 1, 1) \cup Block(1, 1, 1)}

TriggerSymmetry == Permutations(Trigger)
=============================================================================
