--------------------------- MODULE MCSubscription ---------------------------
(* Instances of Subscription for TLC. *)
EXTENDS Subscription, TLC

CONSTANTS k1, k2, a, b, s1, s2, lo, hi, edit, pass

\* A thing of one kind at an address, and one of another kind without address.
KindsHere == a :> k1 @@ b :> k2
WhereHere == a :> {lo} @@ b :> {}

\* A subscription to everything and one with a region, a kind and a source
\* filter; the first holds two change sets, the second, which asks for none, one.
AllKinds  == s1 :> {k1, k2, ResyncKind} @@ s2 :> {k2, ResyncKind}
Regions   == s1 :> None @@ s2 :> {hi}
Sources   == s1 :> {} @@ s2 :> {edit}
Tight     == s1 :> 2 @@ s2 :> 0

\* One subscription, to everything or to one kind.
EveryKind == s1 :> {k1, k2, ResyncKind}
OneKind   == s1 :> {k1}
NoRegion  == s1 :> None
AnySource == s1 :> {}
OneRoom   == s1 :> 2
=============================================================================
