---------------------------- MODULE MCReanalysis ----------------------------
(***************************************************************************)
(* Instances of Reanalysis for TLC.  "decoder" is triggered by bytes,      *)
(* which retract, and records problems; "checker" is triggered by          *)
(* problems, whose records have a range or none, and by new address        *)
(* spaces, whose records have none.                                        *)
(***************************************************************************)
EXTENDS Reanalysis, TLC

Produced == ("decoder" :> {"problems"}) @@ ("checker" :> {})
Triggered == ("decoder" :> {"bytes"}) @@ ("checker" :> {"problems", "spaces"})

Bytes == <<"bytes", 1>>
Problem(p) == <<"problems", p>>
Space == <<"spaces", Whole>>

\* Regional and project-wide records, alone and beside each other.
MixedCommits ==
  { <<{Bytes, Space}, FALSE>>, <<{Problem(Whole), Problem(2)}, FALSE>>,
    <<{Bytes, Problem(2)}, TRUE>> }
MixedReads == { {}, {Bytes, Problem(Whole)} }
ByteRequests == { <<"bytes", {1}>> }

\* The checker's work over regions and over the whole project, scheduled by
\* separate commits.
BothCommits == { <<{Problem(Whole)}, FALSE>>, <<{Problem(1)}, FALSE>> }
BothReads == { {Problem(Whole)} }

\* Commits past the limit of records.
CollapsedCommits == { <<{Problem(1)}, TRUE>> }
=============================================================================
