--------------------------- MODULE MCChangeIndex ---------------------------
(* Instances of ChangeIndex for TLC. *)
EXTENDS ChangeIndex, TLC

CONSTANTS bytes, functionAdded, functionChanged, problem, lifted, resync,
          Bytes, Functions, Problems

Homes == bytes :> Bytes @@ functionAdded :> Functions @@ functionChanged :> Functions
         @@ problem :> Problems @@ lifted :> lifted @@ resync :> resync

At(s, lo, hi)  == {s} \X (lo..hi)
Rec(k, ranges) == [kind |-> k, ranges |-> ranges]

Collapsed  == Rec(problem, {})
ResyncHere == Rec(resync, {})

\* Records of two groups and a watermark, in two spaces.
Mixed == {Rec(bytes, {At(0, 0, 1)}), Rec(bytes, {At(0, 1, 1)}),
          Rec(functionAdded, {At(0, 0, 0), At(1, 0, 0)}),
          Rec(functionChanged, {At(1, 0, 0)}), Rec(lifted, {})}

\* Writes that split each other's runs.
Splitting == {Rec(bytes, {At(0, 0, 4)}), Rec(bytes, {At(0, 1, 1)}), Rec(bytes, {At(0, 3, 3)})}
=============================================================================
