---------------------------- MODULE MCQueryTerm ----------------------------
(* Instances of QueryTerm for TLC. *)
EXTENDS QueryTerm, TLC

CONSTANTS bytes, problem, mapping, resync, Bytes, Problems, a1

Homes == bytes :> Bytes @@ problem :> Problems @@ mapping :> mapping @@ resync :> resync

At(lo, hi)     == {0} \X (lo..hi)
Rec(k, ranges) == [kind |-> k, ranges |-> ranges]
On(ks, region) == [kinds |-> ks, region |-> region]
Reads(k, xs)   == [kind |-> k, cells |-> xs]

Collapsed  == Rec(problem, {})
ResyncHere == Rec(resync, {})
Changes    == {Rec(bytes, {At(0, 0)}), Rec(bytes, {At(1, 1)}), Rec(mapping, {At(1, 1)})}

\* A term about bytes in a region, and problems and mappings anywhere.
OneDependency == a1 :> <<On({bytes}, At(0, 0)), On({problem, mapping}, {})>>

\* The last one reads bytes that the dependency does not declare.
Readings == {{Reads(bytes, At(0, 0))}, {Reads(bytes, At(0, 0)), Reads(mapping, {})},
             {Reads(bytes, At(0, 1)), Reads(mapping, {})}}
=============================================================================
