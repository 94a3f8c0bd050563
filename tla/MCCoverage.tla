----------------------------- MODULE MCCoverage -----------------------------
(* Instances of Coverage for TLC. *)
EXTENDS Coverage, TLC

\* Two analysers that share a phase; one each in two phases; and one in the
\* phase without coverage, the other in one that retraction does not cancel.
Apart(phases) == { new \in [Name -> phases] : \A a, b \in Name : a # b => new[a] # new[b] }
Changing == [Name -> {"Decode"}] \cup Apart({"Decode", "Partition"})
              \cup Apart({"Retract", "Derive"})

\* Places differ in nothing, as all of them are hints, nor do analysers.
Alike == { f @@ g : f \in Permutations(Place), g \in Permutations(Name) }
=============================================================================
