--------------------------- MODULE WorkQueueProofs ---------------------------
(***************************************************************************)
(* Theorems about WorkQueue, for every set of analysers, spaces, triggers  *)
(* and every value of the limits.                                          *)
(***************************************************************************)
EXTENDS WorkQueue, WellFoundedInduction, FiniteSetTheorems, TLAPS

\* Both maps are well-typed and name the same work.
QueueOK(its, idx) == MapsTyped(its, idx) /\ Agrees(its, idx)

-----------------------------------------------------------------------------
(* A work item's key and location are well-formed. *)
LEMMA KeyType ==
    ASSUME NEW i \in WorkItem
    PROVE  KeyOf(i) \in WorkKey /\ Location(i) \in Locations
<1>1. /\ i.analyser \in Analyser /\ i.kind \in {Region, Continuation}
      /\ i.priority \in Priority /\ i.range \in AddressRange \cup {None}
  BY DEF WorkItem
<1>2. PhaseOf[i.analyser] \in Nat /\ OrderOf[i.analyser] \in Nat /\ 0 \in Offset
  BY <1>1, QueueAssumption DEF Offset
<1>3. CASE i.range = None
  BY <1>1, <1>2, <1>3 DEF KeyOf, WorkKey, Location, Locations
<1>4. CASE i.range \in AddressRange
  <2>1. i.range.space \in Space /\ i.range.start \in Offset /\ i.range.end \in Offset
    BY <1>4 DEF AddressRange
  <2> QED BY <1>1, <1>2, <1>4, <2>1, QueueAssumption DEF KeyOf, WorkKey, Location, Locations, Address
<1> QED BY <1>1, <1>3, <1>4

(* The key of a work item determines its analyser and its location: keys   *)
(* never clash, because ranks of analysers are distinct.                    *)
LEMMA KeyInjective ==
    ASSUME NEW i \in WorkItem, NEW j \in WorkItem, KeyOf(i) = KeyOf(j)
    PROVE  i.analyser = j.analyser /\ Location(i) = Location(j)
<1>1. /\ i.analyser \in Analyser /\ i.range \in AddressRange \cup {None}
      /\ j.analyser \in Analyser /\ j.range \in AddressRange \cup {None}
  BY DEF WorkItem
<1>2. KeyOf(i).order = KeyOf(j).order /\ KeyOf(i).kind = KeyOf(j).kind
      /\ KeyOf(i).address = KeyOf(j).address /\ KeyOf(i).end = KeyOf(j).end
  OBVIOUS
<1>3. OrderOf[i.analyser] = OrderOf[j.analyser] /\ i.kind = j.kind
  BY <1>2 DEF KeyOf
<1>4. i.analyser = j.analyser
  BY <1>1, <1>3, QueueAssumption
<1>5. CASE i.range = None \/ j.range = None
  <2>1. \A r \in AddressRange : <<r.space, r.start>> # None
    BY QueueAssumption DEF AddressRange, Address
  <2> QED BY <1>1, <1>2, <1>3, <1>4, <1>5, <2>1 DEF KeyOf, Location
<1>6. CASE i.range \in AddressRange /\ j.range \in AddressRange
  <2>1. <<i.range.space, i.range.start>> = <<j.range.space, j.range.start>>
        /\ i.range.end = j.range.end
    BY <1>2, <1>6, QueueAssumption DEF KeyOf
  <2>2. i.range = j.range
    BY <1>6, <2>1 DEF AddressRange
  <2> QED BY <1>3, <1>4, <2>2 DEF Location
<1> QED BY <1>1, <1>5, <1>6

(* Taking an item out of both maps keeps them in step (pop, cancel). *)
LEMMA RemoveOK ==
    ASSUME NEW its, NEW idx, QueueOK(its, idx), NEW k \in DOMAIN its
    PROVE  LET i == its[k]
           IN  QueueOK(Drop(its, {k}),
                       [idx EXCEPT ![i.analyser] = Drop(@, {Location(i)})])
<1> DEFINE i == its[k]
           a == i.analyser
           its2 == Drop(its, {k})
           idx2 == [idx EXCEPT ![a] = Drop(@, {Location(i)})]
<1>1. /\ DOMAIN its2 = DOMAIN its \ {k}
      /\ \A x \in DOMAIN its2 : its2[x] = its[x]
  BY DEF Drop
<1>2. i \in WorkItem /\ a \in Analyser
  BY DEF QueueOK, MapsTyped, IsMap, WorkItem
<1>3. /\ DOMAIN idx = Analyser
      /\ idx2 = [b \in Analyser |-> idx2[b]]
      /\ idx2[a] = Drop(idx[a], {Location(i)})
      /\ \A b \in Analyser \ {a} : idx2[b] = idx[b]
  <2>1. idx = [b \in Analyser |-> idx[b]]
    BY DEF QueueOK, MapsTyped
  <2> QED BY <1>2, <2>1
<1>4. /\ DOMAIN idx2[a] = DOMAIN idx[a] \ {Location(i)}
      /\ \A l \in DOMAIN idx2[a] : idx2[a][l] = idx[a][l]
      /\ idx2[a] = [l \in DOMAIN idx2[a] |-> idx2[a][l]]
  BY <1>3 DEF Drop
<1>5. MapsTyped(its2, idx2)
  <2>1. IsMap(its2, WorkKey, WorkItem)
    BY <1>1 DEF QueueOK, MapsTyped, IsMap, Drop
  <2>2. \A b \in Analyser : IsMap(idx2[b], Locations, WorkKey)
    <3>1. \A b \in Analyser : IsMap(idx[b], Locations, WorkKey)
      BY DEF QueueOK, MapsTyped
    <3>2. IsMap(idx2[a], Locations, WorkKey)
      BY <1>2, <1>4, <3>1 DEF IsMap
    <3> QED BY <1>3, <3>1, <3>2
  <2> QED BY <1>3, <2>1, <2>2 DEF MapsTyped
<1>6. Agrees(its2, idx2)
  <2>1. ASSUME NEW x \in DOMAIN its2
        PROVE  /\ KeyOf(its2[x]) = x
               /\ Location(its2[x]) \in DOMAIN idx2[its2[x].analyser]
               /\ idx2[its2[x].analyser][Location(its2[x])] = x
    <3>1. /\ x \in DOMAIN its /\ x # k /\ its2[x] = its[x]
          /\ its[x] \in WorkItem /\ its[x].analyser \in Analyser
      BY <1>1 DEF QueueOK, MapsTyped, IsMap, WorkItem
    <3>2. /\ KeyOf(its[x]) = x
          /\ Location(its[x]) \in DOMAIN idx[its[x].analyser]
          /\ idx[its[x].analyser][Location(its[x])] = x
      BY <3>1 DEF QueueOK, Agrees
    <3>3. idx[a][Location(i)] = k
      BY DEF QueueOK, Agrees
    <3> QED BY <1>3, <1>4, <3>1, <3>2, <3>3
  <2>2. ASSUME NEW b \in Analyser, NEW l \in DOMAIN idx2[b]
        PROVE  /\ idx2[b][l] \in DOMAIN its2
               /\ its2[idx2[b][l]].analyser = b
               /\ Location(its2[idx2[b][l]]) = l
    <3>1. /\ l \in DOMAIN idx[b] /\ idx2[b][l] = idx[b][l]
          /\ b = a => l # Location(i)
      BY <1>3, <1>4
    <3>2. /\ idx[b][l] \in DOMAIN its
          /\ its[idx[b][l]].analyser = b
          /\ Location(its[idx[b][l]]) = l
      BY <3>1 DEF QueueOK, Agrees
    <3> QED BY <1>1, <3>1, <3>2
  <2> QED BY <2>1, <2>2 DEF Agrees
<1> QED BY <1>5, <1>6 DEF QueueOK

(* insert_distinct at a free location keeps the maps in step and passes    *)
(* its assertion.                                                          *)
LEMMA PlaceOK ==
    ASSUME NEW its, NEW idx, QueueOK(its, idx), NEW i \in WorkItem,
           Location(i) \notin DOMAIN idx[i.analyser]
    PROVE  QueueOK(Placed(its, i), Indexed(idx, i)) /\ ~Clashes(its, idx, i)
<1> DEFINE a == i.analyser
           its2 == Placed(its, i)
           idx2 == Indexed(idx, i)
<1>0. a \in Analyser
  BY DEF WorkItem
<1>1. KeyOf(i) \notin DOMAIN its
  <2> SUFFICES ASSUME KeyOf(i) \in DOMAIN its PROVE FALSE
    OBVIOUS
  <2>1. its[KeyOf(i)] \in WorkItem
    BY DEF QueueOK, MapsTyped, IsMap
  <2>2. /\ KeyOf(its[KeyOf(i)]) = KeyOf(i)
        /\ Location(its[KeyOf(i)]) \in DOMAIN idx[its[KeyOf(i)].analyser]
    BY DEF QueueOK, Agrees
  <2> QED BY <2>1, <2>2, KeyInjective
<1>2. /\ DOMAIN its2 = DOMAIN its \cup {KeyOf(i)}
      /\ its2[KeyOf(i)] = i
      /\ \A x \in DOMAIN its : its2[x] = its[x]
  BY <1>1 DEF Placed, Put
<1>3. /\ idx2 = [b \in Analyser |-> idx2[b]]
      /\ idx2[a] = Put(idx[a], Location(i), KeyOf(i))
      /\ \A b \in Analyser \ {a} : idx2[b] = idx[b]
  <2>1. idx = [b \in Analyser |-> idx[b]]
    BY DEF QueueOK, MapsTyped
  <2> QED BY <1>0, <2>1 DEF Indexed
<1>4. /\ DOMAIN idx2[a] = DOMAIN idx[a] \cup {Location(i)}
      /\ idx2[a][Location(i)] = KeyOf(i)
      /\ \A l \in DOMAIN idx[a] : idx2[a][l] = idx[a][l]
      /\ idx2[a] = [l \in DOMAIN idx2[a] |-> idx2[a][l]]
  BY <1>3 DEF Put
<1>5. MapsTyped(its2, idx2)
  <2>1. IsMap(its2, WorkKey, WorkItem)
    <3>1. IsMap(its, WorkKey, WorkItem)
      BY DEF QueueOK, MapsTyped
    <3>2. its2 = [x \in DOMAIN its2 |-> its2[x]]
      BY DEF Placed, Put
    <3> QED BY <1>2, <3>1, <3>2, KeyType DEF IsMap
  <2>2. \A b \in Analyser : IsMap(idx2[b], Locations, WorkKey)
    <3>1. \A b \in Analyser : IsMap(idx[b], Locations, WorkKey)
      BY DEF QueueOK, MapsTyped
    <3>2. IsMap(idx2[a], Locations, WorkKey)
      BY <1>0, <1>4, <3>1, KeyType, ZenonT(30) DEF IsMap
    <3> QED BY <1>3, <3>1, <3>2
  <2> QED BY <1>3, <2>1, <2>2 DEF MapsTyped
<1>6. Agrees(its2, idx2)
  <2>1. ASSUME NEW x \in DOMAIN its2
        PROVE  /\ KeyOf(its2[x]) = x
               /\ Location(its2[x]) \in DOMAIN idx2[its2[x].analyser]
               /\ idx2[its2[x].analyser][Location(its2[x])] = x
    <3>1. CASE x = KeyOf(i)
      BY <1>2, <1>4, <3>1
    <3>2. CASE x \in DOMAIN its
      <4>1. /\ KeyOf(its[x]) = x
            /\ Location(its[x]) \in DOMAIN idx[its[x].analyser]
            /\ idx[its[x].analyser][Location(its[x])] = x
        BY <3>2 DEF QueueOK, Agrees
      <4>2. its[x].analyser \in Analyser
        BY <3>2 DEF QueueOK, MapsTyped, IsMap, WorkItem
      <4> QED BY <1>2, <1>3, <1>4, <3>2, <4>1, <4>2
    <3> QED BY <1>2, <3>1, <3>2
  <2>2. ASSUME NEW b \in Analyser, NEW l \in DOMAIN idx2[b]
        PROVE  /\ idx2[b][l] \in DOMAIN its2
               /\ its2[idx2[b][l]].analyser = b
               /\ Location(its2[idx2[b][l]]) = l
    <3>1. CASE b = a /\ l = Location(i)
      BY <1>2, <1>4, <3>1
    <3>2. CASE ~(b = a /\ l = Location(i))
      <4>1. l \in DOMAIN idx[b] /\ idx2[b][l] = idx[b][l]
        BY <1>3, <1>4, <3>2
      <4>2. /\ idx[b][l] \in DOMAIN its
            /\ its[idx[b][l]].analyser = b
            /\ Location(its[idx[b][l]]) = l
        BY <4>1 DEF QueueOK, Agrees
      <4> QED BY <1>2, <4>1, <4>2
    <3> QED BY <3>1, <3>2
  <2> QED BY <2>1, <2>2 DEF Agrees
<1> QED BY <1>1, <1>5, <1>6 DEF QueueOK, Clashes

-----------------------------------------------------------------------------
(* Least and greatest elements. *)
LEMMA LeastExists ==
    ASSUME NEW S, S \subseteq Nat, S # {}
    PROVE  \E m \in S : \A x \in S : m <= x
<1>1. \E m \in S : \A x \in S : ~(<<x, m>> \in OpToRel(<, Nat))
  BY NatLessThanWellFounded, WFMin
<1>2. PICK m \in S : \A x \in S : ~(<<x, m>> \in OpToRel(<, Nat))
  BY <1>1
<1>3. ASSUME NEW x \in S PROVE m <= x
  <2>1. x \in Nat /\ m \in Nat
    OBVIOUS
  <2>2. ~(x < m)
    BY <1>2, <2>1 DEF OpToRel
  <2> QED BY <2>1, <2>2
<1> QED BY <1>3

\* A non-empty set of bounded naturals has a greatest element.
LEMMA GreatestExists ==
    ASSUME NEW n \in Nat, NEW S, S \subseteq 0..n, S # {}
    PROVE  \E m \in S : \A x \in S : x <= m
<1> DEFINE T == {n - x : x \in S}
<1>1. T \subseteq Nat /\ T # {}
  OBVIOUS
<1>2. PICK t \in T : \A y \in T : t <= y
  BY <1>1, LeastExists
<1>3. PICK m \in S : t = n - m
  OBVIOUS
<1>4. ASSUME NEW x \in S PROVE x <= m
  <2>1. t <= n - x /\ x \in Int /\ m \in Int
    BY <1>2
  <2> QED BY <1>3, <2>1
<1> QED BY <1>4

-----------------------------------------------------------------------------
(* Absorbing causes keeps them causes and loses no trigger. *)
LEMMA AbsorbedOK ==
    ASSUME NEW held \in SUBSET Cause, NEW new \in SUBSET Cause,
           NEW c \in Absorbed(held, new)
    PROVE  c \in SUBSET Cause /\ UNION c = (UNION held) \cup (UNION new)
<1>1. CASE ~Overflows(held, new)
  BY <1>1 DEF Absorbed
<1>2. CASE Overflows(held, new)
  <2>1. PICK p \in Placements(held, new) :
            c = (p[1] \ {p[2]}) \cup {p[2] \cup UNION ((held \cup new) \ p[1])}
    BY <1>2 DEF Absorbed
  <2>2. p[1] \subseteq held \cup new /\ p[2] \in p[1]
    BY <2>1 DEF Placements
  <2>3. UNION c = UNION (held \cup new)
    <3>1. ASSUME NEW x \in UNION c PROVE x \in UNION (held \cup new)
      BY <2>1, <2>2
    <3>2. ASSUME NEW x \in UNION (held \cup new) PROVE x \in UNION c
      <4>1. PICK y \in held \cup new : x \in y
        OBVIOUS
      <4>2. CASE y \in p[1] \ {p[2]}
        BY <2>1, <4>1, <4>2
      <4>3. CASE y = p[2] \/ y \notin p[1]
        <5> DEFINE z == p[2] \cup UNION ((held \cup new) \ p[1])
        <5>1. z \in c
          BY <2>1
        <5>2. x \in z
          BY <4>1, <4>3
        <5> QED BY <5>1, <5>2
      <4> QED BY <4>2, <4>3
    <3> QED BY <3>1, <3>2
  <2>4. c \subseteq Cause
    <3>1. ASSUME NEW y \in c PROVE y \subseteq Trigger
      BY <2>1, <2>2 DEF Cause
    <3> QED BY <3>1 DEF Cause
  <2> QED BY <2>3, <2>4
<1> QED BY <1>1, <1>2

-----------------------------------------------------------------------------
(* Re-keying an item in place keeps the maps in step (insert's merge). *)
LEMMA RekeyOK ==
    ASSUME NEW its, NEW idx, QueueOK(its, idx), NEW k \in DOMAIN its,
           NEW new \in WorkItem,
           new.analyser = its[k].analyser, Location(new) = Location(its[k])
    PROVE  /\ KeyOf(new) \notin DOMAIN Drop(its, {k})
           /\ QueueOK(Put(Drop(its, {k}), KeyOf(new), new),
                      [idx EXCEPT ![new.analyser] = Put(@, Location(new), KeyOf(new))])
<1> DEFINE a == new.analyser
           l == Location(new)
           its2 == Drop(its, {k})
           idx2 == [idx EXCEPT ![a] = Drop(@, {l})]
<1>1. QueueOK(its2, idx2)
  BY RemoveOK
<1>2. a \in Analyser
  BY DEF WorkItem
<1>3. idx = [b \in Analyser |-> idx[b]]
  BY DEF QueueOK, MapsTyped
<1>4. l \in DOMAIN idx[a]
  BY DEF QueueOK, Agrees
<1>5. idx2[a] = Drop(idx[a], {l})
  BY <1>2, <1>3
<1>6. l \notin DOMAIN idx2[a]
  BY <1>5 DEF Drop
<1>7. QueueOK(Placed(its2, new), Indexed(idx2, new)) /\ ~Clashes(its2, idx2, new)
  BY <1>1, <1>6, PlaceOK
<1>8. Indexed(idx2, new) = [idx EXCEPT ![a] = Put(@, l, KeyOf(new))]
  <2>1. Put(Drop(idx[a], {l}), l, KeyOf(new)) = Put(idx[a], l, KeyOf(new))
    BY <1>4 DEF Put, Drop
  <2> QED BY <1>2, <1>3, <1>5, <2>1 DEF Indexed
<1> QED BY <1>7, <1>8 DEF Placed, Clashes

(* Replacing all of an analyser's items by new ones at distinct locations  *)
(* keeps the maps in step (collapse).                                      *)
LEMMA ReplaceOK ==
    ASSUME NEW its, NEW idx, QueueOK(its, idx), NEW a \in Analyser,
           NEW new \in SUBSET WorkItem, \A i \in new : i.analyser = a,
           \A i, j \in new : Location(i) = Location(j) => i = j
    PROVE  LET keys == {idx[a][l] : l \in DOMAIN idx[a]}
           IN  /\ keys \subseteq DOMAIN its
               /\ \A i \in new : KeyOf(i) \notin DOMAIN its \ keys
               /\ \A i, j \in new : KeyOf(i) = KeyOf(j) => i = j
               /\ QueueOK(Replaced(its, keys, new), [idx EXCEPT ![a] = Reindexed(new)])
<1> DEFINE keys == {idx[a][l] : l \in DOMAIN idx[a]}
           its2 == Replaced(its, keys, new)
           idx2 == [idx EXCEPT ![a] = Reindexed(new)]
<1>1. keys \subseteq DOMAIN its
  BY DEF QueueOK, Agrees
<1>2. ASSUME NEW x \in DOMAIN its \ keys PROVE its[x].analyser # a
  BY DEF QueueOK, Agrees
<1>3. \A x \in DOMAIN its : /\ its[x] \in WorkItem /\ x \in WorkKey
                            /\ KeyOf(its[x]) = x
  BY DEF QueueOK, MapsTyped, IsMap, Agrees
<1>4. \A i \in new : KeyOf(i) \notin DOMAIN its \ keys
  BY <1>2, <1>3, KeyInjective
<1>5. \A i, j \in new : KeyOf(i) = KeyOf(j) => i = j
  BY KeyInjective
<1>6. /\ DOMAIN its2 = (DOMAIN its \ keys) \cup {KeyOf(i) : i \in new}
      /\ \A x \in DOMAIN its \ keys : its2[x] = its[x]
      /\ \A i \in new : its2[KeyOf(i)] = i
      /\ its2 = [x \in DOMAIN its2 |-> its2[x]]
  <2>1. \A i \in new : (CHOOSE j \in new : KeyOf(j) = KeyOf(i)) = i
    BY <1>5
  <2> QED BY <1>4, <2>1 DEF Replaced
<1>7. /\ idx2 = [b \in Analyser |-> idx2[b]]
      /\ idx2[a] = Reindexed(new)
      /\ \A b \in Analyser \ {a} : idx2[b] = idx[b]
  <2>1. idx = [b \in Analyser |-> idx[b]]
    BY DEF QueueOK, MapsTyped
  <2> QED BY <2>1
<1>8. /\ DOMAIN idx2[a] = {Location(i) : i \in new}
      /\ \A i \in new : idx2[a][Location(i)] = KeyOf(i)
      /\ idx2[a] = [l \in DOMAIN idx2[a] |-> idx2[a][l]]
  <2>1. \A i \in new : (CHOOSE j \in new : Location(j) = Location(i)) = i
    OBVIOUS
  <2> QED BY <1>7, <2>1 DEF Reindexed
<1>9. MapsTyped(its2, idx2)
  <2>1. IsMap(its2, WorkKey, WorkItem)
    <3>1. ASSUME NEW x \in DOMAIN its2 PROVE x \in WorkKey /\ its2[x] \in WorkItem
      <4>1. CASE x \in DOMAIN its \ keys
        BY <1>3, <1>6, <4>1
      <4>2. CASE x \in {KeyOf(i) : i \in new}
        BY <1>6, <4>2, KeyType
      <4> QED BY <1>6, <4>1, <4>2
    <3> QED BY <1>6, <3>1 DEF IsMap
  <2>2. \A b \in Analyser : IsMap(idx2[b], Locations, WorkKey)
    <3>1. \A b \in Analyser : IsMap(idx[b], Locations, WorkKey)
      BY DEF QueueOK, MapsTyped
    <3>2. IsMap(idx2[a], Locations, WorkKey)
      BY <1>8, KeyType DEF IsMap
    <3> QED BY <1>7, <3>1, <3>2
  <2> QED BY <1>7, <2>1, <2>2 DEF MapsTyped
<1>10. Agrees(its2, idx2)
  <2>1. ASSUME NEW x \in DOMAIN its2
        PROVE  /\ KeyOf(its2[x]) = x
               /\ Location(its2[x]) \in DOMAIN idx2[its2[x].analyser]
               /\ idx2[its2[x].analyser][Location(its2[x])] = x
    <3>1. CASE x \in DOMAIN its \ keys
      <4>1. /\ its[x].analyser # a /\ its[x].analyser \in Analyser /\ its2[x] = its[x]
        BY <1>2, <1>3, <1>6, <3>1 DEF WorkItem
      <4>2. /\ KeyOf(its[x]) = x
            /\ Location(its[x]) \in DOMAIN idx[its[x].analyser]
            /\ idx[its[x].analyser][Location(its[x])] = x
        BY <3>1 DEF QueueOK, Agrees
      <4> QED BY <1>7, <4>1, <4>2
    <3>2. CASE x \in {KeyOf(i) : i \in new}
      BY <1>6, <1>8, <3>2
    <3> QED BY <1>6, <3>1, <3>2
  <2>2. ASSUME NEW b \in Analyser, NEW l \in DOMAIN idx2[b]
        PROVE  /\ idx2[b][l] \in DOMAIN its2
               /\ its2[idx2[b][l]].analyser = b
               /\ Location(its2[idx2[b][l]]) = l
    <3>1. CASE b = a
      <4>1. PICK i \in new : l = Location(i)
        BY <1>8, <3>1
      <4>2. idx2[b][l] = KeyOf(i)
        BY <1>8, <3>1, <4>1
      <4>3. KeyOf(i) \in DOMAIN its2 /\ its2[KeyOf(i)] = i
        BY <1>6
      <4> QED BY <3>1, <4>1, <4>2, <4>3
    <3>2. CASE b # a
      <4>1. /\ idx2[b] = idx[b]
            /\ idx[b][l] \in DOMAIN its
            /\ its[idx[b][l]].analyser = b
            /\ Location(its[idx[b][l]]) = l
        BY <1>7, <3>2 DEF QueueOK, Agrees
      <4>2. idx[b][l] \notin keys
        BY <3>2, <4>1 DEF QueueOK, Agrees
      <4> QED BY <1>6, <4>1, <4>2
    <3> QED BY <3>1, <3>2
  <2> QED BY <2>1, <2>2 DEF Agrees
<1> QED BY <1>1, <1>4, <1>5, <1>9, <1>10 DEF QueueOK

-----------------------------------------------------------------------------
(* What collapse makes of one group: an item of that group, for the same   *)
(* analyser, whose range covers the range of every member.                 *)
LEMMA FirstOfOK ==
    ASSUME NEW M \in SUBSET WorkItem, M # {}, NEW g, \A i \in M : Group(i) = g
    PROVE  FirstOf(M) \in M
<1>1. CASE \E i \in M : i.range = None
  BY <1>1 DEF FirstOf
<1>2. CASE \A i \in M : i.range # None
  <2>1. \A i \in M : i.range \in AddressRange
    BY <1>2 DEF WorkItem
  <2>2. \A i \in M : i.range.start \in Nat /\ i.range.end \in Nat
    BY <2>1, QueueAssumption DEF AddressRange, Offset
  <2> DEFINE S == {i.range.start : i \in M}
  <2>3. PICK s \in S : \A x \in S : s <= x
    <3>1. S \subseteq Nat /\ S # {}
      BY <2>2
    <3> HIDE DEF S
    <3> QED BY <3>1, LeastExists
  <2> DEFINE E == {i.range.end : i \in {j \in M : j.range.start = s}}
  <2>4. PICK e \in E : \A x \in E : e <= x
    <3>1. E \subseteq Nat /\ E # {}
      BY <2>2, <2>3
    <3> HIDE DEF E
    <3> QED BY <3>1, LeastExists
  <2>5. PICK i \in M : i.range.start = s /\ i.range.end = e
    BY <2>4
  <2>6. \A j \in M : \/ i.range.start < j.range.start
                     \/ i.range.start = j.range.start /\ i.range.end <= j.range.end
    <3> SUFFICES ASSUME NEW j \in M
                 PROVE  \/ i.range.start < j.range.start
                        \/ i.range.start = j.range.start /\ i.range.end <= j.range.end
      OBVIOUS
    <3>1. s <= j.range.start
      BY <2>3
    <3>2. j.range.start = s => e <= j.range.end
      BY <2>4
    <3>3. s \in Nat /\ j.range.start \in Nat
      BY <2>2, <2>5
    <3> QED BY <2>5, <3>1, <3>2, <3>3
  <2> QED BY <2>6 DEF FirstOf
<1> QED BY <1>1, <1>2

\* The hull of ranges of one space is a range that contains each of them.
LEMMA HullOK ==
    ASSUME NEW R \in SUBSET AddressRange, R # {}, NEW s \in Space,
           \A r \in R : r.space = s
    PROVE  /\ Hull(R) \in AddressRange
           /\ Hull(R).space = s
           /\ \A r \in R : Cells(r) \subseteq Cells(Hull(R))
<1>1. \A r \in R : /\ r.start \in Offset /\ r.end \in Offset
                   /\ r.start \in Nat /\ r.end \in Nat /\ r.start <= r.end
  BY QueueAssumption DEF AddressRange, Offset
<1> DEFINE lo == CHOOSE r \in R : \A q \in R : r.start <= q.start
           hi == CHOOSE r \in R : \A q \in R : q.end <= r.end
<1>2. lo \in R /\ \A q \in R : lo.start <= q.start
  <2> DEFINE S == {r.start : r \in R}
  <2>1. PICK m \in S : \A x \in S : m <= x
    <3>1. S \subseteq Nat /\ S # {}
      BY <1>1
    <3> HIDE DEF S
    <3> QED BY <3>1, LeastExists
  <2>2. \E r \in R : \A q \in R : r.start <= q.start
    BY <2>1
  <2> QED BY <2>2
<1>3. hi \in R /\ \A q \in R : q.end <= hi.end
  <2> DEFINE S == {r.end : r \in R}
  <2>1. PICK m \in S : \A x \in S : x <= m
    <3>1. S \subseteq 0..MaxAddress /\ S # {}
      BY <1>1 DEF Offset
    <3> HIDE DEF S
    <3> QED BY <3>1, GreatestExists, QueueAssumption, ZenonT(30)
  <2>2. \E r \in R : \A q \in R : q.end <= r.end
    BY <2>1
  <2> QED BY <2>2
<1>4. (CHOOSE r \in R : TRUE).space = s
  BY DEF AddressRange
<1>5. Hull(R) = [space |-> s, start |-> lo.start, end |-> hi.end]
  BY <1>4 DEF Hull
<1>6. lo.start <= hi.end
  BY <1>1, <1>2, <1>3
<1>7. Hull(R) \in AddressRange
  BY <1>1, <1>2, <1>3, <1>5, <1>6 DEF AddressRange
<1>8. ASSUME NEW r \in R PROVE Cells(r) \subseteq Cells(Hull(R))
  <2>1. r.start..r.end \subseteq lo.start..hi.end
    BY <1>1, <1>2, <1>3
  <2>2. /\ Hull(R).space = s /\ Hull(R).start = lo.start /\ Hull(R).end = hi.end
    BY <1>5
  <2>3. Cells(r) = {s} \X (r.start..r.end)
    BY DEF Cells
  <2>4. Cells(Hull(R)) = {s} \X (lo.start..hi.end)
    BY <2>2 DEF Cells
  <2> HIDE DEF lo, hi
  <2> QED BY <2>1, <2>3, <2>4
<1>9. Hull(R).space = s
  BY <1>5
<1> QED BY <1>7, <1>8, <1>9

(* One item stands in for another: same analyser, no fewer addresses and   *)
(* no fewer triggers.                                                      *)
Subsumes(n, i) == /\ n.analyser = i.analyser
                  /\ Covers(i) \subseteq Covers(n)
                  /\ Triggers(i) \subseteq Triggers(n)

\* The item that collapse makes of a group is a work item and subsumes every member.
LEMMA CollapsedOK ==
    ASSUME NEW M \in SUBSET WorkItem, M # {}, NEW g, \A i \in M : Group(i) = g,
           NEW a, \A i \in M : i.analyser = a, NEW c \in GroupCauses(M)
    PROVE  LET n == CollapsedItem(M, c)
           IN  /\ n \in WorkItem /\ n.analyser = a /\ Group(n) = g
               /\ \A i \in M : Subsumes(n, i)
<1> DEFINE first == FirstOf(M)
           n == CollapsedItem(M, c)
           att == (CHOOSE j \in M : \A k \in M : k.attempts <= j.attempts).attempts
           pri == (CHOOSE j \in M : \A k \in M : j.priority <= k.priority).priority
           R == {j.range : j \in M}
           rng == IF first.range = None THEN None ELSE Hull(R)
<1>1. first \in M
  BY FirstOfOK
<1>2. att \in 0..AttemptLimit
  <2> DEFINE S == {j.attempts : j \in M}
  <2>1. S \subseteq 0..AttemptLimit /\ S # {}
    BY DEF WorkItem
  <2>2. PICK m \in S : \A x \in S : x <= m
    <3> HIDE DEF S
    <3> QED BY <2>1, GreatestExists, QueueAssumption
  <2>3. \E j \in M : \A k \in M : k.attempts <= j.attempts
    BY <2>2
  <2> QED BY <2>3 DEF WorkItem
<1>3. pri \in Priority
  <2> DEFINE S == {j.priority : j \in M}
  <2>1. S \subseteq Nat /\ S # {}
    <3>1. \A j \in M : j.priority \in Priority
      BY DEF WorkItem
    <3>2. \A j \in M : j.priority \in Nat
      BY <3>1, QueueAssumption
    <3> QED BY <3>2
  <2>2. PICK m \in S : \A x \in S : m <= x
    <3> HIDE DEF S
    <3> QED BY <2>1, LeastExists
  <2>3. \E j \in M : \A k \in M : j.priority <= k.priority
    BY <2>2
  <2> QED BY <2>3 DEF WorkItem
<1>4. c \in SUBSET Cause /\ \A j \in M : UNION j.causes \subseteq UNION c
  <2> DEFINE all == UNION {j.causes : j \in M}
  <2>1. first.causes \in SUBSET Cause /\ all \in SUBSET Cause
    BY <1>1 DEF WorkItem
  <2>2. c \in Absorbed(first.causes, all)
    BY DEF GroupCauses
  <2>3. c \in SUBSET Cause /\ UNION c = (UNION first.causes) \cup (UNION all)
    <3> HIDE DEF all, first
    <3> QED BY <2>1, <2>2, AbsorbedOK
  <2>4. \A j \in M : j.causes \subseteq all
    OBVIOUS
  <2> QED BY <2>3, <2>4
<1>5. /\ rng \in AddressRange \cup {None}
      /\ (IF rng = None THEN None ELSE rng.space)
           = (IF first.range = None THEN None ELSE first.range.space)
      /\ \A i \in M : (IF i.range = None THEN {None} ELSE Cells(i.range))
                       \subseteq (IF rng = None THEN {None} ELSE Cells(rng))
  <2>0. \A i \in M : i.range \in AddressRange => i.range.space \in Space /\ i.range.space # None
    BY QueueAssumption DEF AddressRange
  <2>1. \A i \in M : i.range \in AddressRange \cup {None}
    BY DEF WorkItem
  <2>2. \A i \in M : (IF i.range = None THEN None ELSE i.range.space)
                      = (IF first.range = None THEN None ELSE first.range.space)
    BY <1>1 DEF Group
  <2>3. CASE first.range = None
    <3>1. \A i \in M : i.range = None
      BY <2>0, <2>1, <2>2, <2>3
    <3> QED BY <2>3, <3>1
  <2>4. CASE first.range # None
    <3>1. \A i \in M : i.range \in AddressRange /\ i.range.space = first.range.space
      BY <2>0, <1>1, <2>1, <2>2, <2>4
    <3>2. R \in SUBSET AddressRange /\ R # {} /\ first.range.space \in Space
          /\ \A r \in R : r.space = first.range.space
      BY <1>1, <2>0, <3>1
    <3>3. /\ Hull(R) \in AddressRange /\ Hull(R).space = first.range.space
          /\ \A r \in R : Cells(r) \subseteq Cells(Hull(R))
      <4> HIDE DEF R, first
      <4> QED BY <3>2, HullOK
    <3>4. Hull(R) # None /\ \A i \in M : i.range # None /\ i.range \in R
      BY <3>1, <3>3, QueueAssumption
    <3> HIDE DEF R, first
    <3> QED BY <2>4, <3>3, <3>4
  <2> QED BY <2>3, <2>4
<1>6. first \in WorkItem
  BY <1>1
<1>7. /\ n \in WorkItem
      /\ n.analyser = first.analyser /\ n.kind = first.kind
      /\ n.range = rng /\ n.causes = c
  <2>1. n = [first EXCEPT !.range = rng, !.causes = c, !.attempts = att, !.priority = pri]
    BY DEF CollapsedItem
  <2> HIDE DEF first, rng, att, pri, n
  <2> QED BY <1>2, <1>3, <1>4, <1>5, <1>6, <2>1 DEF WorkItem
<1>8. n.analyser = a
  BY <1>1, <1>7
<1>9. Group(n) = g
  <2>1. Group(n) = Group(first)
    <3> HIDE DEF first, rng, n
    <3> QED BY <1>5, <1>7 DEF Group
  <2> QED BY <1>1, <2>1
<1>10. ASSUME NEW i \in M PROVE Subsumes(n, i)
  <2> HIDE DEF n, rng
  <2> QED BY <1>4, <1>5, <1>7, <1>8 DEF Subsumes, Covers, Triggers
<1> QED BY <1>7, <1>8, <1>9, <1>10

-----------------------------------------------------------------------------
(* Degradation reports stay well-formed. *)
ReportOK(rep) == rep \in [Degradation -> {None} \cup SUBSET Global]

\* Noting scopes in a report keeps it a report.
LEMMA NoteOK ==
    ASSUME NEW rep, ReportOK(rep), NEW kind \in Degradation, NEW scopes \in SUBSET SUBSET Global
    PROVE  ReportOK(Note(rep, kind, scopes))
<1> DEFINE S == scopes \cup ({rep[kind]} \ {None})
<1>1. S \in SUBSET SUBSET Global
  BY DEF ReportOK
<1>2. Covering(S) \in SUBSET Global \/ scopes = {}
  <2>1. CASE scopes = {}
    BY <2>1
  <2>2. CASE scopes # {}
    <3>1. S # {}
      BY <2>2
    <3>2. (CHOOSE s \in S : TRUE) \in SUBSET Global
      BY <1>1, <3>1
    <3>3. {x \in Address : \E y \in UNION S : y[1] = x[1]} \in SUBSET Global
      BY DEF Global
    <3> HIDE DEF S
    <3> QED BY <3>2, <3>3 DEF Covering
  <2> QED BY <2>1, <2>2
<1>3. Note(rep, kind, scopes) = [rep EXCEPT ![kind] = IF scopes = {} THEN rep[kind] ELSE Covering(S)]
  BY DEF Note
<1> HIDE DEF S
<1> QED BY <1>2, <1>3 DEF ReportOK

\* The scope of an item is one a report can hold.
LEMMA ScopeOK ==
    ASSUME NEW i \in WorkItem PROVE ScopeOf(i) \in SUBSET Global
<1>1. CASE i.range = None
  BY <1>1 DEF ScopeOf
<1>2. CASE i.range \in AddressRange
  <2>1. Cells(i.range) \subseteq Address
    BY <1>2, QueueAssumption DEF AddressRange, Cells, Address, Offset
  <2> QED BY <1>2, <2>1, QueueAssumption DEF ScopeOf, Global
<1> QED BY <1>1, <1>2 DEF WorkItem

-----------------------------------------------------------------------------
(* The items of a map. *)
Values(f) == {f[k] : k \in DOMAIN f}

(* insert, in each of its three outcomes, keeps the maps in step, passes   *)
(* its assertions and keeps a stand-in for every item and for the new one. *)
LEMMA PromoteOK ==
    ASSUME NEW its, NEW idx, QueueOK(its, idx), NEW i \in WorkItem,
           ReportOK(reported), Promote(its, idx, i)
    PROVE  /\ QueueOK(items', index') /\ ~panicked' /\ panicked' \in BOOLEAN
           /\ ReportOK(reported')
           /\ \A j \in Values(its) \cup {i} : \E n \in Values(items') : Subsumes(n, j)
<1> DEFINE a == i.analyser
           key == idx[a][Location(i)]
           old == its[key]
<1>1. key \in DOMAIN its
  BY DEF Promote
<1>2. PICK c \in Absorbed(old.causes, i.causes) :
         LET new  == [old EXCEPT !.causes   = c,
                                 !.attempts = Larger(old.attempts, i.attempts),
                                 !.priority = Smaller(old.priority, i.priority)]
             rest == Drop(its, {key})
         IN  /\ items' = Put(rest, KeyOf(new), new)
             /\ index' = [idx EXCEPT ![a] = Put(@, Location(i), KeyOf(new))]
             /\ panicked' = (KeyOf(new) \in DOMAIN rest)
  BY DEF Promote
<1> DEFINE new == [old EXCEPT !.causes   = c,
                              !.attempts = Larger(old.attempts, i.attempts),
                              !.priority = Smaller(old.priority, i.priority)]
<1>3. a \in Analyser /\ Location(i) \in DOMAIN idx[a]
  BY DEF Promote, WorkItem
<1>4. old \in WorkItem /\ old.analyser = a /\ Location(old) = Location(i)
  BY <1>1, <1>3 DEF QueueOK, MapsTyped, IsMap, Agrees
<1>5. c \in SUBSET Cause /\ UNION c = (UNION old.causes) \cup (UNION i.causes)
  <2>1. old.causes \in SUBSET Cause /\ i.causes \in SUBSET Cause
    BY <1>4 DEF WorkItem
  <2> HIDE DEF old
  <2> QED BY <2>1, <1>2, AbsorbedOK
<1>6. /\ Larger(old.attempts, i.attempts) \in 0..AttemptLimit
      /\ Smaller(old.priority, i.priority) \in Priority
  BY <1>4 DEF Larger, Smaller, WorkItem
<1>7. /\ new \in WorkItem /\ new.analyser = a /\ new.range = old.range
      /\ new.kind = old.kind /\ new.causes = c
  <2> HIDE DEF old
  <2> QED BY <1>4, <1>5, <1>6 DEF WorkItem
<1>8. Location(new) = Location(i) /\ Location(new) = Location(old) /\ new.range = i.range
  <2>1. Location(new) = Location(old)
    <3> HIDE DEF new, old
    <3> QED BY <1>7 DEF Location
  <2>2. new.range = i.range
    <3> HIDE DEF new, old
    <3> QED BY <1>4, <1>7 DEF Location
  <2> QED BY <1>4, <2>1, <2>2
<1>9. /\ items' = Put(Drop(its, {key}), KeyOf(new), new)
      /\ index' = [idx EXCEPT ![a] = Put(@, Location(i), KeyOf(new))]
      /\ panicked' = (KeyOf(new) \in DOMAIN Drop(its, {key}))
  BY <1>2
<1>10. QueueOK(items', index') /\ ~panicked' /\ panicked' \in BOOLEAN
  <2>1. /\ KeyOf(new) \notin DOMAIN Drop(its, {key})
        /\ QueueOK(Put(Drop(its, {key}), KeyOf(new), new),
                   [idx EXCEPT ![new.analyser] = Put(@, Location(new), KeyOf(new))])
    <3>1. new.analyser = its[key].analyser /\ Location(new) = Location(its[key])
      BY <1>4, <1>7, <1>8
    <3> HIDE DEF new, key
    <3> QED BY <1>1, <1>7, <3>1, RekeyOK
  <2> HIDE DEF new, key
  <2>2. ~panicked' /\ panicked' \in BOOLEAN
    <3>1. ~panicked'
      BY <1>9, <2>1, Zenon
    <3>2. panicked' \in BOOLEAN
      BY <1>9
    <3> QED BY <3>1, <3>2
  <2>3. index' = [idx EXCEPT ![new.analyser] = Put(@, Location(new), KeyOf(new))]
    <3> HIDE DEF a
    <3> QED BY <1>7, <1>8, <1>9
  <2>4. QueueOK(items', index')
    BY <1>9, <2>1, <2>3
  <2> QED BY <2>2, <2>4
<1>11. ReportOK(reported')
  <2> DEFINE sc == IF Overflows(old.causes, i.causes) THEN {ScopeOf(i)} ELSE {}
  <2>1. reported' = Note(reported, "CausesMerged", sc)
    BY DEF Promote
  <2>2. sc \in SUBSET SUBSET Global /\ "CausesMerged" \in Degradation
    BY ScopeOK DEF Degradation
  <2> HIDE DEF sc
  <2> QED BY <2>1, <2>2, NoteOK
<1>12. ASSUME NEW j \in Values(its) \cup {i}
       PROVE  \E n \in Values(items') : Subsumes(n, j)
  <2>1. new \in Values(items')
    <3> HIDE DEF new, key
    <3> QED BY <1>9 DEF Values, Put
  <2>2. CASE j = i
    <3>1. Subsumes(new, i)
      <4> HIDE DEF new, old
      <4> QED BY <1>5, <1>7, <1>8 DEF Subsumes, Covers, Triggers
    <3> QED BY <2>1, <2>2, <3>1
  <2>3. CASE j = old
    <3>1. Subsumes(new, old)
      <4> HIDE DEF new, old
      <4> QED BY <1>4, <1>5, <1>7 DEF Subsumes, Covers, Triggers
    <3> QED BY <2>1, <2>3, <3>1
  <2>4. CASE j \in Values(its) /\ j # old
    <3>1. PICK k \in DOMAIN its : j = its[k]
      BY <2>4 DEF Values
    <3>2. k # key
      BY <2>4, <3>1
    <3>3. k \in DOMAIN items' /\ (items'[k] = its[k] \/ items'[k] = new)
      <4> HIDE DEF new, key
      <4> QED BY <1>9, <3>1, <3>2 DEF Put, Drop
    <3>4. k # KeyOf(new)
      <4>1. KeyOf(new) \notin DOMAIN Drop(its, {key})
        <5> HIDE DEF new, key
        <5> QED BY <1>9, <1>10, Zenon
      <4> HIDE DEF new, key
      <4> QED BY <3>2, <4>1 DEF Drop
    <3>5. items'[k] = its[k]
      <4> HIDE DEF new, key
      <4> QED BY <1>9, <3>1, <3>2, <3>4 DEF Put, Drop
    <3>6. Subsumes(j, j)
      BY DEF Subsumes
    <3> QED BY <3>1, <3>3, <3>5, <3>6 DEF Values
  <2> QED BY <2>2, <2>3, <2>4
<1> QED BY <1>10, <1>11, <1>12

\* collapse keeps the maps in step, does not panic, and keeps what was queued.
LEMMA CollapseOK ==
    ASSUME NEW its, NEW idx, QueueOK(its, idx), NEW a \in Analyser,
           ReportOK(reported), Collapse(its, idx, a)
    PROVE  /\ QueueOK(items', index') /\ ~panicked' /\ panicked' \in BOOLEAN
           /\ ReportOK(reported')
           /\ \A j \in Values(its) : \E n \in Values(items') : Subsumes(n, j)
<1> DEFINE keys   == {idx[a][l] : l \in DOMAIN idx[a]}
           old    == {its[k] : k \in keys \cap DOMAIN its}
           groups == {Group(i) : i \in old}
           Members(g) == {i \in old : Group(i) = g}
           mixed  == {g \in groups : \E i, j \in Members(g) : i.causes # j.causes}
           merged == {g \in groups : \E i, j \in Members(g) : i # j}
<1>1. PICK pick \in [groups -> UNION {GroupCauses(Members(g)) : g \in groups}] :
          LET made == [g \in groups |-> CollapsedItem(Members(g), pick[g])]
              new  == {made[g] : g \in groups}
              Scopes(G) == {ScopeOf(made[g]) : g \in G}
          IN  /\ \A g \in groups : pick[g] \in GroupCauses(Members(g))
              /\ items' = Replaced(its, keys, new)
              /\ index' = [idx EXCEPT ![a] = Reindexed(new)]
              /\ panicked' = \/ ~(keys \subseteq DOMAIN its)
                             \/ \E i \in new : KeyOf(i) \in DOMAIN its \ keys
                             \/ \E i, j \in new : i # j /\ (KeyOf(i) = KeyOf(j)
                                                            \/ Location(i) = Location(j))
              /\ reported' = Note(Note(reported, "CausesMerged", Scopes(mixed)),
                                  "RangesCollapsed", Scopes(merged))
  BY DEF Collapse
<1> DEFINE made == [g \in groups |-> CollapsedItem(Members(g), pick[g])]
           new  == {made[g] : g \in groups}
           Scopes(G) == {ScopeOf(made[g]) : g \in G}
<1>2. /\ \A g \in groups : pick[g] \in GroupCauses(Members(g))
      /\ items' = Replaced(its, keys, new)
      /\ index' = [idx EXCEPT ![a] = Reindexed(new)]
      /\ panicked' = \/ ~(keys \subseteq DOMAIN its)
                     \/ \E i \in new : KeyOf(i) \in DOMAIN its \ keys
                     \/ \E i, j \in new : i # j /\ (KeyOf(i) = KeyOf(j)
                                                    \/ Location(i) = Location(j))
      /\ reported' = Note(Note(reported, "CausesMerged", Scopes(mixed)),
                          "RangesCollapsed", Scopes(merged))
  BY <1>1
<1>3. \A i \in old : i \in WorkItem /\ i.analyser = a
  BY DEF QueueOK, MapsTyped, IsMap, Agrees
<1>4. ASSUME NEW g \in groups
      PROVE  /\ made[g] \in WorkItem /\ made[g].analyser = a /\ Group(made[g]) = g
             /\ \A i \in Members(g) : Subsumes(made[g], i)
  <2>1. /\ Members(g) \in SUBSET WorkItem /\ Members(g) # {}
        /\ \A i \in Members(g) : Group(i) = g /\ i.analyser = a
    BY <1>3
  <2>2. pick[g] \in GroupCauses(Members(g)) /\ made[g] = CollapsedItem(Members(g), pick[g])
    BY <1>2
  <2> HIDE DEF Members, made
  <2> QED BY <2>1, <2>2, CollapsedOK
<1>5. /\ new \in SUBSET WorkItem /\ \A i \in new : i.analyser = a
  BY <1>4
<1>6. \A i, j \in new : Location(i) = Location(j) => i = j
  <2> SUFFICES ASSUME NEW g \in groups, NEW h \in groups,
                      Location(made[g]) = Location(made[h])
               PROVE  g = h
    OBVIOUS
  <2>1. Group(made[g]) = Group(made[h])
    <3> HIDE DEF made
    <3> QED BY DEF Location, Group
  <2> QED BY <1>4, <2>1
<1>7. /\ keys \subseteq DOMAIN its
      /\ \A i \in new : KeyOf(i) \notin DOMAIN its \ keys
      /\ \A i, j \in new : KeyOf(i) = KeyOf(j) => i = j
      /\ QueueOK(Replaced(its, keys, new), [idx EXCEPT ![a] = Reindexed(new)])
  <2> HIDE DEF new
  <2> QED BY <1>5, <1>6, ReplaceOK
<1>8. QueueOK(items', index') /\ ~panicked' /\ panicked' \in BOOLEAN
  <2> HIDE DEF new, keys
  <2>1. QueueOK(items', index')
    BY <1>2, <1>7
  <2>2. panicked' \in BOOLEAN
    BY <1>2
  <2>3. ~(\/ ~(keys \subseteq DOMAIN its)
          \/ \E i \in new : KeyOf(i) \in DOMAIN its \ keys
          \/ \E i, j \in new : i # j /\ (KeyOf(i) = KeyOf(j)
                                         \/ Location(i) = Location(j)))
    BY <1>6, <1>7
  <2>4. ~panicked'
    BY <1>2, <2>3, Zenon
  <2> QED BY <2>1, <2>2, <2>4
<1>9. ReportOK(reported')
  <2>1. \A g \in groups : ScopeOf(made[g]) \in SUBSET Global
    BY <1>4, ScopeOK
  <2>2. Scopes(mixed) \in SUBSET SUBSET Global /\ Scopes(merged) \in SUBSET SUBSET Global
    <3>1. mixed \subseteq groups /\ merged \subseteq groups
      OBVIOUS
    <3> HIDE DEF mixed, merged, made, groups
    <3> QED BY <2>1, <3>1
  <2>3. "CausesMerged" \in Degradation /\ "RangesCollapsed" \in Degradation
    BY DEF Degradation
  <2> HIDE DEF Scopes, mixed, merged
  <2>4. ReportOK(Note(reported, "CausesMerged", Scopes(mixed)))
    BY <2>2, <2>3, NoteOK
  <2>5. ReportOK(Note(Note(reported, "CausesMerged", Scopes(mixed)),
                      "RangesCollapsed", Scopes(merged)))
    BY <2>2, <2>3, <2>4, NoteOK
  <2> QED BY <1>2, <2>5
<1>10. ASSUME NEW j \in Values(its)
       PROVE  \E n \in Values(items') : Subsumes(n, j)
  <2>1. PICK k \in DOMAIN its : j = its[k]
    BY DEF Values
  <2>2. CASE k \in keys
    <3>1. j \in old /\ Group(j) \in groups /\ j \in Members(Group(j))
      BY <2>1, <2>2
    <3>2. Subsumes(made[Group(j)], j) /\ made[Group(j)] \in new
      BY <1>4, <3>1
    <3>3. made[Group(j)] \in Values(items')
      <4> DEFINE n == made[Group(j)]
      <4>1. n \in new
        BY <3>2
      <4> HIDE DEF n, new, keys
      <4>2. /\ KeyOf(n) \in DOMAIN Replaced(its, keys, new)
            /\ Replaced(its, keys, new)[KeyOf(n)] = CHOOSE i \in new : KeyOf(i) = KeyOf(n)
        BY <1>7, <4>1 DEF Replaced
      <4>3. (CHOOSE i \in new : KeyOf(i) = KeyOf(n)) = n
        BY <1>7, <4>1
      <4>4. n \in Values(items')
        BY <1>2, <4>2, <4>3 DEF Values
      <4> QED BY <4>4 DEF n
    <3> QED BY <3>2, <3>3
  <2>3. CASE k \notin keys
    <3>1. k \in DOMAIN items' /\ items'[k] = j
      <4> HIDE DEF new, keys
      <4> QED BY <1>2, <2>1, <2>3 DEF Replaced
    <3>2. Subsumes(j, j)
      BY DEF Subsumes
    <3> QED BY <3>1, <3>2 DEF Values
  <2> QED BY <2>2, <2>3
<1> QED BY <1>8, <1>9, <1>10

\* insert keeps the maps in step, does not panic, and keeps what was queued
\* and what is inserted.
LEMMA InsertOK ==
    ASSUME NEW its, NEW idx, QueueOK(its, idx), NEW i \in WorkItem,
           ReportOK(reported), Insert(its, idx, i)
    PROVE  /\ QueueOK(items', index') /\ ~panicked' /\ panicked' \in BOOLEAN
           /\ ReportOK(reported')
           /\ \A j \in Values(its) \cup {i} : \E n \in Values(items') : Subsumes(n, j)
<1> DEFINE grown == Cardinality(DOMAIN Indexed(idx, i)[i.analyser])
           known == /\ Location(i) \in DOMAIN idx[i.analyser]
                    /\ idx[i.analyser][Location(i)] \in DOMAIN its
<1>1. \/ Promote(its, idx, i)
      \/ /\ ~known
         /\ items' = Placed(its, i)
         /\ index' = Indexed(idx, i)
         /\ panicked' = Clashes(its, idx, i)
         /\ UNCHANGED reported
      \/ ~known /\ Collapse(Placed(its, i), Indexed(idx, i), i.analyser)
  BY DEF Insert
<1>2. i.analyser \in Analyser
  BY DEF WorkItem
<1>3. CASE Promote(its, idx, i)
  BY <1>3, PromoteOK
<1>4. ASSUME ~known
      PROVE  /\ QueueOK(Placed(its, i), Indexed(idx, i)) /\ ~Clashes(its, idx, i)
             /\ i \in Values(Placed(its, i)) /\ Values(its) \subseteq Values(Placed(its, i))
  <2>1. Location(i) \notin DOMAIN idx[i.analyser]
    BY <1>2, <1>4 DEF QueueOK, Agrees
  <2>2. QueueOK(Placed(its, i), Indexed(idx, i)) /\ ~Clashes(its, idx, i)
    BY <2>1, PlaceOK
  <2>3. KeyOf(i) \notin DOMAIN its
    BY <2>2 DEF Clashes
  <2> QED BY <2>2, <2>3 DEF Placed, Put, Values
<1>5. CASE /\ ~known
           /\ items' = Placed(its, i)
           /\ index' = Indexed(idx, i)
           /\ panicked' = Clashes(its, idx, i)
           /\ UNCHANGED reported
  <2>1. \A j \in Values(its) \cup {i} : j \in Values(items') /\ Subsumes(j, j)
    BY <1>4, <1>5 DEF Subsumes
  <2>2. Clashes(its, idx, i) \in BOOLEAN
    BY DEF Clashes
  <2>3. ~panicked'
    BY <1>4, <1>5, Zenon
  <2>4. panicked' \in BOOLEAN
    BY <1>5, <2>2
  <2>5. QueueOK(items', index') /\ ReportOK(reported')
    BY <1>4, <1>5 DEF ReportOK
  <2> QED BY <2>1, <2>3, <2>4, <2>5
<1>6. CASE ~known /\ Collapse(Placed(its, i), Indexed(idx, i), i.analyser)
  <2> HIDE DEF known
  <2> QED BY <1>2, <1>4, <1>6, CollapseOK
<1> QED BY <1>1, <1>3, <1>5, <1>6

-----------------------------------------------------------------------------
(* Regions and debts *)

(* The runs of a region, RangesOf, leave none of its addresses out. *)
LEMMA RunsCover ==
    ASSUME NEW region \in SUBSET Address, NEW x \in region
    PROVE  \E r \in RangesOf(region) : x \in Cells(r)
<1>1. PICK s \in Space, o \in Offset : x = <<s, o>>
  BY DEF Address
<1>2. MaxAddress \in Nat /\ o \in 0..MaxAddress
  BY QueueAssumption DEF Offset
<1> DEFINE Down == {b \in 0..o : \A c \in b..o : <<s, c>> \in region}
           Up   == {b \in o..MaxAddress : \A c \in o..b : <<s, c>> \in region}
<1>3. Down \subseteq Nat /\ o \in Down /\ Up \subseteq 0..MaxAddress /\ o \in Up
  <2>1. \A c \in o..o : c = o
    BY <1>2
  <2> QED BY <1>1, <1>2, <2>1
<1>4. PICK lo \in Down : \A b \in Down : lo <= b
  <2> HIDE DEF Down
  <2> QED BY <1>3, LeastExists
<1>5. PICK hi \in Up : \A b \in Up : b <= hi
  <2> HIDE DEF Up
  <2> QED BY <1>2, <1>3, GreatestExists
<1> DEFINE r == [space |-> s, start |-> lo, end |-> hi]
<1>6. lo \in 0..o /\ hi \in o..MaxAddress /\ lo \in Nat /\ hi \in Nat
  BY <1>2
<1>7. r \in AddressRange /\ x \in Cells(r)
  BY <1>1, <1>2, <1>6 DEF AddressRange, Offset, Cells
<1>8. Cells(r) \subseteq region
  <2>1. ASSUME NEW c \in lo..hi PROVE <<s, c>> \in region
    <3>1. c \in lo..o \/ c \in o..hi
      BY <1>2, <1>6
    <3> QED BY <3>1
  <2> QED BY <2>1 DEF Cells
<1>9. <<s, lo - 1>> \notin region
  <2>1. SUFFICES ASSUME <<s, lo - 1>> \in region PROVE FALSE
    OBVIOUS
  <2>2. lo - 1 \in 0..MaxAddress
    BY <2>1 DEF Address, Offset
  <2>3. \A c \in (lo - 1)..o : c = lo - 1 \/ c \in lo..o
    BY <1>2, <1>6
  <2>4. lo - 1 \in Down
    BY <1>2, <1>6, <2>1, <2>2, <2>3
  <2> QED BY <1>4, <1>6, <2>4
<1>10. <<s, hi + 1>> \notin region
  <2>1. SUFFICES ASSUME <<s, hi + 1>> \in region PROVE FALSE
    OBVIOUS
  <2>2. hi + 1 \in 0..MaxAddress
    BY <2>1 DEF Address, Offset
  <2>3. \A c \in o..(hi + 1) : c = hi + 1 \/ c \in o..hi
    BY <1>2, <1>6
  <2>4. hi + 1 \in Up
    BY <1>2, <1>6, <2>1, <2>2, <2>3
  <2> QED BY <1>5, <1>6, <2>4
<1> QED BY <1>7, <1>8, <1>9, <1>10 DEF RangesOf

(* An item serves a debt when it would still pay it. *)
Serves(i, d) == i.analyser = d[1] /\ d[2] \in Covers(i) /\ d[3] \in Triggers(i)

(* The debts of an item are well-formed, and are the ones it serves. *)
LEMMA DebtsOK ==
    ASSUME NEW i \in WorkItem
    PROVE  /\ Covers(i) \subseteq Global
           /\ Debts(i) \subseteq Analyser \X Global \X Trigger
           /\ \A d \in Debts(i) : Serves(i, d)
           /\ \A d \in Analyser \X Global \X Trigger : Serves(i, d) => d \in Debts(i)
<1>1. /\ i.analyser \in Analyser /\ i.range \in AddressRange \cup {None}
      /\ i.causes \in SUBSET Cause
  BY DEF WorkItem
<1>2. Triggers(i) \subseteq Trigger
  BY <1>1 DEF Triggers, Cause
<1>3. Covers(i) \subseteq Global
  <2>1. CASE i.range = None
    BY <2>1 DEF Covers, Global
  <2>2. CASE i.range \in AddressRange
    <3>1. Cells(i.range) \subseteq Address
      BY <2>2, QueueAssumption DEF AddressRange, Cells, Address, Offset
    <3> QED BY <2>2, <3>1, QueueAssumption DEF Covers, Global
  <2> QED BY <1>1, <2>1, <2>2
<1>4. Debts(i) \subseteq Analyser \X Global \X Trigger
  BY <1>1, <1>2, <1>3 DEF Debts
<1>5. \A d \in Debts(i) : Serves(i, d)
  BY DEF Debts, Serves
<1>6. \A d \in Analyser \X Global \X Trigger : Serves(i, d) => d \in Debts(i)
  BY DEF Debts, Serves
<1> QED BY <1>3, <1>4, <1>5, <1>6

(* A stand-in serves every debt that what it stands for serves. *)
LEMMA SubsumesServes ==
    ASSUME NEW n, NEW i, Subsumes(n, i), NEW d, Serves(i, d)
    PROVE  Serves(n, d)
  BY DEF Subsumes, Serves

-----------------------------------------------------------------------------
(* The inductive invariant.  Beside the properties themselves it says that *)
(* no bytes are charged outside pop_batch, and that a running cancel names *)
(* only regional keys of its phases while nothing it cancels is owed.      *)

\* Bytes are only counted while a batch is being filled.
SpentReset == ~filling => spent = 0

\* A running cancel only names regional items of the cancelled phases, and
\* nothing is owed in its region.
CancelSettled ==
    cancelling # None =>
        /\ \A k \in cancelling.keys : k.phase \in CancelPhases /\ k.address # None
        /\ \A d \in owed : ~(PhaseOf[d[1]] \in CancelPhases /\ d[2] \in cancelling.region)

\* The part of the invariant that is about the maps and not about requests.
Shape == TypeOK /\ IndexAgrees /\ NoPanic /\ SpentReset

\* The inductive invariant: NoWorkLost needs the maps to agree, and nothing owed
\* in a region whose cancellation is still running.
QueueInv == Shape /\ CancelSettled /\ NoWorkLost

\* NoWorkLost in terms of Serves.
LEMMA NoWorkLostServes == NoWorkLost <=> \A d \in owed : \E i \in Held : Serves(i, d)
  BY DEF NoWorkLost, Serves

\* An empty queue satisfies the invariant.
LEMMA InitInv == Init => QueueInv
<1> SUFFICES ASSUME Init PROVE QueueInv
  OBVIOUS
<1>1. MapsTyped(items, index) /\ Agrees(items, index)
  BY DEF Init, MapsTyped, Agrees, IsMap, Empty
<1>2. TypeOK
  <2>1. filling \in BOOLEAN /\ panicked \in BOOLEAN
    BY Zenon DEF Init
  <2>2. spent \in 0..SliceBytes /\ requests \in 0..MaxRequests
    BY QueueAssumption DEF Init
  <2>3. reported \in [Degradation -> {None} \cup SUBSET Global]
    BY DEF Init
  <2>4. /\ todo \subseteq WorkItem /\ cancelling = None /\ batch \subseteq WorkItem
        /\ owed \subseteq Analyser \X Global \X Trigger
        /\ asked \subseteq Analyser \X Global
    BY DEF Init
  <2> QED BY <1>1, <2>1, <2>2, <2>3, <2>4 DEF TypeOK
<1>3. NoPanic
  BY Zenon DEF Init, NoPanic
<1>4. SpentReset /\ CancelSettled /\ NoWorkLost
  BY DEF Init, SpentReset, CancelSettled, NoWorkLost
<1> QED BY <1>1, <1>2, <1>3, <1>4 DEF QueueInv, Shape, IndexAgrees

(* schedule *)
LEMMA ScheduleInv ==
    ASSUME QueueInv, NEW a \in Analyser, NEW p \in Priority, NEW region \in Regions,
           NEW t \in Trigger, Schedule(a, p, region, t)
    PROVE  QueueInv'
<1> DEFINE ranges == IF region = {} THEN {None} ELSE RangesOf(region)
           new    == {NewItem(a, p, r, t) : r \in ranges}
<1>1. /\ ~Busy /\ todo' = new /\ requests < MaxRequests /\ requests' = requests + 1
      /\ owed' = owed \cup UNION {Debts(i) : i \in new}
      /\ asked' = asked \cup UNION {{a} \X Covers(i) : i \in new}
      /\ UNCHANGED <<queue, cancelling, batch, spent, filling>>
  BY DEF Schedule
<1>2. ranges \subseteq AddressRange \cup {None}
  BY DEF RangesOf
<1>3. new \subseteq WorkItem
  <2>1. ASSUME NEW r \in ranges PROVE NewItem(a, p, r, t) \in WorkItem
    BY <1>2, QueueAssumption DEF NewItem, WorkItem, Cause
  <2> HIDE DEF ranges
  <2> QED BY <2>1
<1> HIDE DEF new
<1>4. \A i \in new : i.analyser = a
  BY DEF new, NewItem
<1>5. Shape'
  <2>1. UNION {Debts(i) : i \in new} \subseteq Analyser \X Global \X Trigger
    BY <1>3, DebtsOK
  <2>2. UNION {{a} \X Covers(i) : i \in new} \subseteq Analyser \X Global
    BY <1>3, DebtsOK
  <2>3. requests' \in 0..MaxRequests
    BY <1>1, QueueAssumption DEF QueueInv, Shape, TypeOK
  <2> QED BY <1>1, <1>3, <2>1, <2>2, <2>3
          DEF QueueInv, Shape, TypeOK, queue, IndexAgrees, NoPanic, SpentReset
<1>6. CancelSettled'
  BY <1>1 DEF Busy, CancelSettled
<1>7. NoWorkLost'
  <2>1. Held \subseteq Held' /\ new \subseteq Held'
    BY <1>1 DEF Held, Queued, Busy, queue
  <2>2. ASSUME NEW d \in owed' PROVE \E i \in Held' : Serves(i, d)
    <3>1. CASE d \in owed
      BY <2>1, <3>1, NoWorkLostServes DEF QueueInv
    <3>2. CASE \E i \in new : d \in Debts(i)
      BY <1>3, <2>1, <3>2, DebtsOK
    <3> QED BY <1>1, <3>1, <3>2
  <2> QED BY <2>2 DEF NoWorkLost, Serves
<1> QED BY <1>5, <1>6, <1>7 DEF QueueInv

(* One insertion of schedule, requeue or cancel *)
LEMMA InsertNextInv ==
    ASSUME QueueInv, InsertNext
    PROVE  QueueInv'
<1>1. PICK i \in todo : todo' = todo \ {i} /\ Insert(items, index, i)
  BY DEF InsertNext
<1>2. UNCHANGED <<cancelling, batch, spent, filling, requests, owed, asked>>
  BY DEF InsertNext
<1>3. i \in WorkItem /\ QueueOK(items, index) /\ ReportOK(reported)
  BY DEF QueueInv, Shape, TypeOK, IndexAgrees, QueueOK, ReportOK
<1>4. /\ QueueOK(items', index') /\ ~panicked' /\ panicked' \in BOOLEAN
      /\ ReportOK(reported')
      /\ \A j \in Values(items) \cup {i} : \E n \in Values(items') : Subsumes(n, j)
  BY <1>1, <1>3, InsertOK
<1>5. Shape'
  BY <1>1, <1>2, <1>4
     DEF QueueInv, Shape, TypeOK, IndexAgrees, NoPanic, SpentReset, QueueOK, ReportOK
<1>6. CancelSettled'
  BY <1>2 DEF QueueInv, CancelSettled
<1>7. NoWorkLost'
  <2>1. ASSUME NEW d \in owed' PROVE \E n \in Held' : Serves(n, d)
    <3>1. PICK j \in Held : Serves(j, d)
      BY <1>2, NoWorkLostServes DEF QueueInv
    <3>2. CASE j \in Values(items) \cup {i}
      BY <1>4, <3>1, <3>2, SubsumesServes DEF Held, Queued, Values
    <3>3. CASE j \in todo \ {i}
      BY <1>1, <3>1, <3>3 DEF Held
    <3> QED BY <3>2, <3>3 DEF Held, Queued, Values
  <2> QED BY <2>1 DEF NoWorkLost, Serves
<1> QED BY <1>5, <1>6, <1>7 DEF QueueInv

(* What the worker does with its batch *)
LEMMA DisposeInv ==
    ASSUME QueueInv, NEW requeued \in SUBSET WorkItem, Dispose(requeued)
    PROVE  QueueInv'
<1>1. /\ ~Busy /\ batch' = {} /\ todo' = requeued
      /\ owed' = owed \cup UNION {Debts(i) : i \in requeued}
      /\ UNCHANGED <<queue, cancelling, spent, filling, requests, asked>>
  BY DEF Dispose
<1>2. Shape'
  <2>1. UNION {Debts(i) : i \in requeued} \subseteq Analyser \X Global \X Trigger
    BY DebtsOK
  <2> QED BY <1>1, <2>1
          DEF QueueInv, Shape, TypeOK, queue, IndexAgrees, NoPanic, SpentReset
<1>3. CancelSettled'
  BY <1>1 DEF Busy, CancelSettled
<1>4. NoWorkLost'
  <2>1. Held \subseteq Held' /\ requeued \subseteq Held'
    BY <1>1 DEF Held, Queued, Busy, queue
  <2>2. ASSUME NEW d \in owed' PROVE \E i \in Held' : Serves(i, d)
    <3>1. CASE d \in owed
      BY <2>1, <3>1, NoWorkLostServes DEF QueueInv
    <3>2. CASE \E i \in requeued : d \in Debts(i)
      BY <2>1, <3>2, DebtsOK
    <3> QED BY <1>1, <3>1, <3>2
  <2> QED BY <2>2 DEF NoWorkLost, Serves
<1> QED BY <1>2, <1>3, <1>4 DEF QueueInv

(* pop, for any budget that the slice still has room for.  The item that   *)
(* leaves, or its first part, pays its debts; the rest of it goes back.    *)
LEMMA PopInv ==
    ASSUME QueueInv, NEW budget \in Nat, budget > 0, spent + budget <= SliceBytes,
           Pop(budget), UNCHANGED <<todo, cancelling, requests, asked>>,
           filling' = TRUE, ~panicked
    PROVE  QueueInv'
<1>1. QueueOK(items, index) /\ ReportOK(reported) /\ panicked \in BOOLEAN
      /\ spent \in 0..SliceBytes /\ SliceBytes \in Nat
  BY QueueAssumption DEF QueueInv, Shape, TypeOK, IndexAgrees, QueueOK, ReportOK
<1>2. PICK key \in DOMAIN items :
        LET item == items[key]
            r    == item.range
            its  == Drop(items, {key})
            idx  == [index EXCEPT ![item.analyser] = Drop(@, {Location(item)})]
            cut  == [item EXCEPT !.range.end = r.start + budget - 1]
            tail == [item EXCEPT !.range.start = r.start + budget]
            Take(i) == /\ batch' = batch \cup {i}
                       /\ spent' = spent + Cost(i)
                       /\ owed' = owed \ Debts(i)
        IN  \/ /\ Cost(item) <= budget
               /\ Take(item)
               /\ items' = its
               /\ index' = idx
               /\ UNCHANGED <<reported, panicked>>
            \/ /\ Cost(item) > budget
               /\ Take(cut)
               /\ Insert(its, idx, tail)
  BY DEF Pop
<1> DEFINE item == items[key]
           r    == item.range
           its  == Drop(items, {key})
           idx  == [index EXCEPT ![item.analyser] = Drop(@, {Location(item)})]
           cut  == [item EXCEPT !.range.end = r.start + budget - 1]
           tail == [item EXCEPT !.range.start = r.start + budget]
<1>3. QueueOK(its, idx) /\ item \in WorkItem
  <2>1. QueueOK(its, idx)
    BY <1>1, RemoveOK
  <2>2. item \in WorkItem
    BY <1>1 DEF QueueOK, MapsTyped, IsMap
  <2> QED BY <2>1, <2>2
<1>4. Values(items) = Values(its) \cup {item}
  BY DEF Values, Drop
<1>5. SUFFICES ASSUME NEW taken \in WorkItem, Cost(taken) <= budget, Cost(taken) \in Nat,
                      batch' = batch \cup {taken}, spent' = spent + Cost(taken),
                      owed' = owed \ Debts(taken),
                      QueueOK(items', index'), ~panicked', panicked' \in BOOLEAN,
                      ReportOK(reported'),
                      \A j \in Values(its) : \E n \in Values(items') : Subsumes(n, j),
                      \A d \in owed' : Serves(item, d) => \E n \in Values(items') : Serves(n, d)
               PROVE  QueueInv'
  <2>1. \A j \in WorkItem : Cost(j) \in Nat
    BY QueueAssumption DEF WorkItem, Cost, Size, AddressRange, Offset
  <2>2. CASE Cost(item) <= budget /\ batch' = batch \cup {item}
             /\ spent' = spent + Cost(item) /\ owed' = owed \ Debts(item)
             /\ items' = its /\ index' = idx /\ UNCHANGED <<reported, panicked>>
    <3>1. \A d \in owed' : ~Serves(item, d)
      BY <1>3, <2>2, DebtsOK DEF QueueInv, Shape, TypeOK
    <3>2. \A j \in Values(its) : j \in Values(items') /\ Subsumes(j, j)
      BY <2>2 DEF Subsumes
    <3>3. QueueOK(items', index') /\ ReportOK(reported')
      BY <1>1, <1>3, <2>2
    <3>4. ~panicked' /\ panicked' \in BOOLEAN
      BY <1>1, <2>2
    <3> HIDE DEF item, its, idx
    <3> QED BY <1>3, <1>5, <2>1, <2>2, <3>1, <3>2, <3>3, <3>4
  <2>3. CASE Cost(item) > budget /\ batch' = batch \cup {cut}
             /\ spent' = spent + Cost(cut) /\ owed' = owed \ Debts(cut)
             /\ Insert(its, idx, tail)
    <3>1. item.range \in AddressRange /\ item.range # None
      BY <1>3, <2>3, QueueAssumption DEF WorkItem, Cost
    <3>2. /\ r.space \in Space /\ r.start \in Nat /\ r.end \in Nat
          /\ r.start \in Offset /\ r.end \in Offset
          /\ r.start + budget <= r.end
      BY <2>3, <3>1, QueueAssumption DEF AddressRange, Cost, Size, Offset
    <3>3. /\ cut.range = [r EXCEPT !.end = r.start + budget - 1]
          /\ tail.range = [r EXCEPT !.start = r.start + budget]
          /\ cut.analyser = item.analyser /\ tail.analyser = item.analyser
          /\ cut.causes = item.causes /\ tail.causes = item.causes
      BY <1>3 DEF WorkItem
    <3>4. /\ cut.range \in AddressRange /\ tail.range \in AddressRange
          /\ cut.range.space = r.space /\ tail.range.space = r.space
          /\ cut.range.start = r.start /\ cut.range.end = r.start + budget - 1
          /\ tail.range.start = r.start + budget /\ tail.range.end = r.end
      BY <3>1, <3>2, <3>3, QueueAssumption DEF AddressRange, Offset
    <3>5. cut \in WorkItem /\ tail \in WorkItem
      BY <1>3, <3>3, <3>4 DEF WorkItem
    <3>6. cut.range # None /\ tail.range # None
      BY <3>4, QueueAssumption
    <3>7. Cost(cut) = budget
      BY <3>2, <3>4, <3>6 DEF Cost, Size
    <3>8. Covers(item) \subseteq Covers(cut) \cup Covers(tail)
      BY <3>1, <3>2, <3>4, <3>6 DEF Covers, Cells
    <3> HIDE DEF its, idx, cut, tail, item
    <3>9. /\ QueueOK(items', index') /\ ~panicked' /\ panicked' \in BOOLEAN
          /\ ReportOK(reported')
          /\ \A j \in Values(its) \cup {tail} : \E n \in Values(items') : Subsumes(n, j)
      BY <1>1, <1>3, <2>3, <3>5, InsertOK
    <3>10. ASSUME NEW d \in owed', Serves(item, d)
           PROVE  \E n \in Values(items') : Serves(n, d)
      <4>1. ~Serves(cut, d)
        BY <2>3, <3>5, DebtsOK DEF QueueInv, Shape, TypeOK
      <4>2. Serves(tail, d)
        BY <3>3, <3>8, <3>10, <4>1 DEF Serves, Triggers
      <4> QED BY <3>9, <4>2, SubsumesServes
    <3> QED BY <1>5, <2>1, <2>3, <3>5, <3>7, <3>9, <3>10
  <2> QED BY <1>2, <2>2, <2>3
<1> HIDE DEF item, its, idx, cut, tail
<1>6. Shape'
  BY <1>1, <1>5, QueueAssumption
     DEF QueueInv, Shape, TypeOK, IndexAgrees, NoPanic, SpentReset, QueueOK, ReportOK
<1>7. CancelSettled'
  BY <1>5 DEF QueueInv, CancelSettled
<1>8. NoWorkLost'
  <2>1. ASSUME NEW d \in owed' PROVE \E n \in Held' : Serves(n, d)
    <3>1. PICK j \in Held : Serves(j, d)
      BY <1>5, NoWorkLostServes DEF QueueInv
    <3>2. CASE j \in Values(its)
      BY <1>5, <3>1, <3>2, SubsumesServes DEF Held, Queued, Values
    <3>3. CASE j = item
      BY <1>5, <3>1, <3>3 DEF Held, Queued, Values
    <3>4. CASE j \in todo
      BY <3>1, <3>4 DEF Held
    <3> QED BY <1>4, <3>2, <3>3, <3>4 DEF Held, Queued, Values
  <2> QED BY <2>1 DEF NoWorkLost, Serves
<1> QED BY <1>6, <1>7, <1>8 DEF QueueInv

(* cancel: the affected keys are regional keys of the cancelled phases. *)
LEMMA CancelInv ==
    ASSUME QueueInv, NEW region \in Regions, Cancel(region)
    PROVE  QueueInv'
<1> DEFINE keys == {k \in DOMAIN items :
                        /\ PhaseOf[items[k].analyser] \in CancelPhases
                        /\ items[k].range # None
                        /\ Cells(items[k].range) \cap region # {}}
<1>1. /\ ~Busy /\ requests < MaxRequests /\ requests' = requests + 1
      /\ cancelling' = [region |-> region, keys |-> keys]
      /\ owed' = {d \in owed : ~(PhaseOf[d[1]] \in CancelPhases /\ d[2] \in region)}
      /\ UNCHANGED <<queue, todo, batch, spent, filling, asked>>
  BY DEF Cancel
<1>2. region \in SUBSET Address
  BY QueueAssumption
<1>3. keys \subseteq WorkKey
  BY DEF QueueInv, Shape, TypeOK, MapsTyped, IsMap
<1>4. \A k \in keys : k.phase \in CancelPhases /\ k.address # None
  <2> SUFFICES ASSUME NEW k \in keys PROVE k.phase \in CancelPhases /\ k.address # None
    OBVIOUS
  <2>1. k = KeyOf(items[k]) /\ items[k] \in WorkItem
    BY DEF QueueInv, Shape, TypeOK, MapsTyped, IsMap, IndexAgrees, Agrees
  <2>2. items[k].range \in AddressRange
    BY <2>1 DEF WorkItem
  <2>3. <<items[k].range.space, items[k].range.start>> \in Address
    BY <2>2 DEF AddressRange, Address
  <2> QED BY <2>1, <2>3, QueueAssumption DEF KeyOf
<1> HIDE DEF keys
<1>5. Shape'
  <2>1. requests' \in 0..MaxRequests
    BY <1>1, QueueAssumption DEF QueueInv, Shape, TypeOK
  <2> QED BY <1>1, <1>2, <1>3, <2>1
          DEF QueueInv, Shape, TypeOK, queue, IndexAgrees, NoPanic, SpentReset
<1>6. CancelSettled'
  BY <1>1, <1>4 DEF CancelSettled
<1>7. NoWorkLost'
  BY <1>1 DEF QueueInv, NoWorkLost, Held, Queued, queue
<1> QED BY <1>5, <1>6, <1>7 DEF QueueInv

(* One iteration of cancel: what survives of the item covers every address *)
(* that is still owed.                                                     *)
LEMMA CancelNextInv ==
    ASSUME QueueInv, CancelNext
    PROVE  QueueInv'
<1>1. PICK k \in cancelling.keys :
          /\ cancelling' = [cancelling EXCEPT !.keys = @ \ {k}]
          /\ \/ /\ k \notin DOMAIN items
                /\ UNCHANGED <<items, index, todo>>
             \/ /\ k \in DOMAIN items
                /\ items' = Drop(items, {k})
                /\ index' = [index EXCEPT ![items[k].analyser] =
                                       Drop(@, {Location(items[k])})]
                /\ todo' = {[items[k] EXCEPT !.range = r] :
                               r \in RangesOf(Covers(items[k]) \ cancelling.region)}
  BY DEF CancelNext
<1>2. /\ cancelling # None /\ todo = {}
      /\ UNCHANGED <<reported, panicked, batch, spent, filling, requests, owed, asked>>
  BY DEF CancelNext
<1>3. cancelling \in [region : SUBSET Address, keys : SUBSET WorkKey]
  BY <1>2 DEF QueueInv, Shape, TypeOK
<1>4. /\ cancelling' \in [region : SUBSET Address, keys : SUBSET WorkKey]
      /\ cancelling'.region = cancelling.region
      /\ cancelling'.keys \subseteq cancelling.keys
  BY <1>1, <1>3
<1>5. CancelSettled'
  BY <1>2, <1>4 DEF QueueInv, CancelSettled
<1>6. CASE k \notin DOMAIN items /\ UNCHANGED <<items, index, todo>>
  <2>1. Shape'
    BY <1>2, <1>4, <1>6 DEF QueueInv, Shape, TypeOK, IndexAgrees, NoPanic, SpentReset
  <2>2. NoWorkLost'
    BY <1>2, <1>6 DEF QueueInv, NoWorkLost, Held, Queued
  <2> QED BY <1>5, <2>1, <2>2 DEF QueueInv
<1>7. CASE /\ k \in DOMAIN items
           /\ items' = Drop(items, {k})
           /\ index' = [index EXCEPT ![items[k].analyser] = Drop(@, {Location(items[k])})]
           /\ todo' = {[items[k] EXCEPT !.range = r] :
                          r \in RangesOf(Covers(items[k]) \ cancelling.region)}
  <2> DEFINE item == items[k]
             left == Covers(item) \ cancelling.region
  <2>1. QueueOK(items, index)
    BY DEF QueueInv, Shape, TypeOK, IndexAgrees, QueueOK
  <2>2. QueueOK(items', index')
    BY <1>7, <2>1, RemoveOK
  <2>3. item \in WorkItem /\ KeyOf(item) = k
    BY <1>7, <2>1 DEF QueueOK, MapsTyped, IsMap, Agrees
  <2>4. k.phase \in CancelPhases /\ k.address # None
    BY <1>2 DEF QueueInv, CancelSettled
  <2>5. PhaseOf[item.analyser] \in CancelPhases /\ item.range # None
    BY <2>3, <2>4 DEF KeyOf
  <2>6. item.range \in AddressRange
    BY <2>3, <2>5 DEF WorkItem
  <2>7. left \in SUBSET Address
    BY <2>5, <2>6, QueueAssumption DEF Covers, Cells, AddressRange, Address, Offset
  <2>8. \A r \in RangesOf(left) : /\ r \in AddressRange
                                  /\ [item EXCEPT !.range = r] \in WorkItem
    BY <2>3 DEF RangesOf, WorkItem
  <2>9. Shape'
    <3>1. todo' \subseteq WorkItem
      BY <1>7, <2>8
    <3> QED BY <1>2, <1>4, <2>2, <3>1
            DEF QueueInv, Shape, TypeOK, IndexAgrees, NoPanic, SpentReset, QueueOK
  <2>10. NoWorkLost'
    <3>1. ASSUME NEW d \in owed' PROVE \E n \in Held' : Serves(n, d)
      <4>1. PICK j \in Queued : Serves(j, d)
        BY <1>2, NoWorkLostServes DEF QueueInv, Held
      <4>2. CASE j = item
        <5>1. d[2] \in left
          BY <1>2, <2>5, <4>1, <4>2 DEF QueueInv, CancelSettled, Serves
        <5> HIDE DEF left, item
        <5>2. PICK r \in RangesOf(left) : d[2] \in Cells(r)
          BY <2>7, <5>1, RunsCover
        <5> DEFINE n == [item EXCEPT !.range = r]
        <5>3. n.range = r /\ n.analyser = item.analyser /\ n.causes = item.causes
          BY <2>3 DEF WorkItem
        <5>4. r # None
          BY <2>8, <5>2, QueueAssumption
        <5>5. Serves(n, d)
          BY <4>1, <4>2, <5>2, <5>3, <5>4 DEF Serves, Covers, Triggers
        <5>6. n \in todo'
          BY <1>7, <5>2 DEF left, item
        <5> QED BY <5>5, <5>6 DEF Held
      <4>3. CASE j # item
        <5>1. j \in Queued'
          BY <1>7, <4>1, <4>3 DEF Queued, Drop
        <5> QED BY <4>1, <5>1 DEF Held
      <4> QED BY <4>2, <4>3
    <3> QED BY <3>1 DEF NoWorkLost, Serves
  <2> QED BY <1>5, <2>9, <2>10 DEF QueueInv
<1> QED BY <1>1, <1>6, <1>7

(* Every step of the queue and of the worker that drives it. *)
LEMMA NextInv ==
    ASSUME QueueInv, [Next]_vars
    PROVE  QueueInv'
<1>0. SliceBytes \in Nat /\ SliceBytes > 0 /\ spent \in 0..SliceBytes
  BY QueueAssumption DEF QueueInv, Shape, TypeOK
<1>1. CASE UNCHANGED vars
  BY <1>1 DEF vars, QueueInv, Shape, TypeOK, IndexAgrees, NoPanic, SpentReset,
              CancelSettled, NoWorkLost, Held, Queued
<1>2. ASSUME NEW a \in Analyser, NEW p \in Priority, NEW region \in Regions,
             NEW t \in Trigger, Schedule(a, p, region, t)
      PROVE  QueueInv'
  BY <1>2, ScheduleInv
<1>3. CASE InsertNext
  BY <1>3, InsertNextInv
<1>4. CASE PopFirst /\ ~panicked
  <2>1. spent = 0
    BY <1>4 DEF PopFirst, Busy, QueueInv, Shape, SpentReset
  <2>2. Pop(SliceBytes) /\ UNCHANGED <<todo, cancelling, requests, asked>> /\ filling' = TRUE
    BY <1>4 DEF PopFirst
  <2> QED BY <1>0, <1>4, <2>1, <2>2, PopInv
<1>5. CASE PopNext /\ ~panicked
  <2>1. spent < SliceBytes
    BY <1>5 DEF PopNext, CanGrow
  <2>2. Pop(SliceBytes - spent) /\ UNCHANGED <<todo, cancelling, requests, asked>>
    BY <1>5 DEF PopNext
  <2>3. filling' = TRUE
    BY <1>5, Zenon DEF PopNext, QueueInv, Shape, TypeOK
  <2> QED BY <1>0, <1>5, <2>1, <2>2, <2>3, PopInv
<1>6. CASE BatchReady
  <2>1. filling' \in BOOLEAN
    BY <1>6, Zenon DEF BatchReady
  <2>2. /\ spent' = 0
        /\ UNCHANGED <<queue, todo, cancelling, batch, requests, owed, asked>>
    BY <1>6 DEF BatchReady
  <2> QED BY <1>0, <2>1, <2>2 DEF queue, QueueInv, Shape, TypeOK, IndexAgrees, NoPanic,
              SpentReset, CancelSettled, NoWorkLost, Held, Queued
<1>7. ASSUME NEW region \in Regions, Cancel(region) PROVE QueueInv'
  BY <1>7, CancelInv
<1>8. CASE CancelNext
  BY <1>8, CancelNextInv
<1>9. CASE CancelDone
  BY <1>9 DEF CancelDone, queue, QueueInv, Shape, TypeOK, IndexAgrees, NoPanic,
              SpentReset, CancelSettled, NoWorkLost, Held, Queued
<1>10. batch \subseteq WorkItem
  BY DEF QueueInv, Shape, TypeOK
<1>11. CASE Committed \/ Conflicted
  <2>1. {} \in SUBSET WorkItem /\ batch \in SUBSET WorkItem
    BY <1>10
  <2> QED BY <1>11, <2>1, DisposeInv DEF Committed, Conflicted
<1>12. CASE CommittedPending
  <2>1. {[i EXCEPT !.kind = Continuation] : i \in batch} \in SUBSET WorkItem
    BY <1>10 DEF WorkItem
  <2> QED BY <1>12, <2>1, DisposeInv DEF CommittedPending
<1>13. CASE Failed
  <2> DEFINE tried == {[i EXCEPT !.attempts = Smaller(@ + 1, AttemptLimit)] : i \in batch}
  <2>1. ASSUME NEW i \in batch
        PROVE  [i EXCEPT !.attempts = Smaller(@ + 1, AttemptLimit)] \in WorkItem
    <3>1. Smaller(i.attempts + 1, AttemptLimit) \in 0..AttemptLimit
      BY <1>10, QueueAssumption DEF WorkItem, Smaller
    <3> QED BY <1>10, <3>1 DEF WorkItem
  <2>2. {i \in tried : i.attempts < MaxAttempts} \in SUBSET WorkItem
    BY <2>1
  <2>3. Dispose({i \in tried : i.attempts < MaxAttempts})
    BY <1>13 DEF Failed
  <2> HIDE DEF tried
  <2> QED BY <2>2, <2>3, DisposeInv
<1>14. CASE Drained
  BY <1>1, <1>14 DEF Drained
<1> QED BY <1>1, <1>2, <1>3, <1>4, <1>5, <1>6, <1>7, <1>8, <1>9, <1>11, <1>12, <1>13, <1>14
        DEF Next

\* The invariant holds in every reachable state.
LEMMA Invariance == Spec => []QueueInv
<1>1. Init => QueueInv
  BY InitInv
<1>2. QueueInv /\ [Next]_vars => QueueInv'
  BY NextInv
<1> QED BY <1>1, <1>2, PTL DEF Spec

(***************************************************************************)
(* Every reachable queue is well-formed: the maps, batch and histories of  *)
(* AnalysisWorkQueue hold values of their types and no batch overspends    *)
(* WORK_SLICE_BYTES.                                                       *)
(***************************************************************************)
THEOREM QueueTyped == Spec => []TypeOK
  BY Invariance, PTL DEF QueueInv, Shape

(***************************************************************************)
(* AnalysisWorkQueue's items and location index describe the same items    *)
(* after every insert, promotion, collapse, pop, split, cancel and         *)
(* requeue, for any number of analysers, spaces, priorities and any        *)
(* limits.                                                                 *)
(***************************************************************************)
THEOREM MapsAgree == Spec => []IndexAgrees
  BY Invariance, PTL DEF QueueInv, Shape

(***************************************************************************)
(* None of the assertions and expects of AnalysisWorkQueue (work.rs        *)
(* insert, insert_distinct, collapse) can fail.                            *)
(***************************************************************************)
THEOREM NeverPanics == Spec => []NoPanic
  BY Invariance, PTL DEF QueueInv, Shape

(***************************************************************************)
(* The queue loses no request: until an analyser is handed an address, or  *)
(* a retraction cancels it, some held item of that analyser covers it and  *)
(* still names the trigger, through every coalescing, collapse and split.  *)
(***************************************************************************)
THEOREM RequestsKept == Spec => []NoWorkLost
  BY Invariance, PTL DEF QueueInv
=============================================================================
