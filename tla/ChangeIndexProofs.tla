------------------------- MODULE ChangeIndexProofs -------------------------
(***************************************************************************)
(* The change index is well typed, conservative and precise, and a term    *)
(* that asks it never returns a stale value, for any kinds, groups,        *)
(* records, addresses, limits, threads and dependencies.                   *)
(*                                                                         *)
(* Conservative speaks of moments between publications.  The invariant     *)
(* IndexInv also says what holds in the middle of one: a change the index  *)
(* does not know of yet is of the current revision, and a step that will   *)
(* make it known is still to be done.  For Precise, Accurate traces what   *)
(* the index holds back to a change or to a collapse it told of; for       *)
(* HitFresh, Heard says what a half-finished evaluate may rely on.         *)
(***************************************************************************)
EXTENDS QueryTerm, WellFoundedInduction, TLAPS

\* A step to come that makes a change of a kind at a place known.
Coming(k, x) ==
    \E s \in todo : \/ s[1] = Resync
                    \/ s[1].kind = k /\ (HomeOf[k] \in Mark \/ x \in s[2])

\* A change of a located kind is known to its group, or about to be.
GroupKnows ==
    \A k \in Located, x \in Place : HomeOf[k] \in Group =>
        \/ truth[k][x] <= floor[HomeOf[k]]
        \/ x \in Address /\ truth[k][x] <= cells[HomeOf[k]][x]
        \/ x \in Address /\ Coming(k, x)

\* A change of a watermarked kind is known to its watermark, or about to be.
MarkKnows ==
    \A k \in Kind, x \in Place : HomeOf[k] \in Mark =>
        truth[k][x] <= mark[HomeOf[k]] \/ Coming(k, x)

\* The maximum of a group bounds its runs, so a compaction that raises the floor
\* to it forgets none of them.
MaxCovers == \A g \in Group, x \in Address : cells[g][x] <= max[g]

\* The inductive invariant.
IndexInv == IndexTypeOK /\ GroupKnows /\ MarkKnows /\ MaxCovers
-----------------------------------------------------------------------------
\* Larger is the maximum of two numbers.
LEMMA LargerNat ==
    ASSUME NEW x \in Nat, NEW y \in Nat
    PROVE  Larger(x, y) \in {x, y} /\ Larger(x, y) >= x /\ Larger(x, y) >= y
  BY DEF Larger

\* Staging keeps the records or replaces all of them by Resync.
LEMMA StagedOK ==
    ASSUME NEW R \in SUBSET (Record \cup {Problem})
    PROVE  /\ Staged(R) = R \/ Staged(R) = {Resync}
           /\ Staged(R) \subseteq Record \cup {Problem, Resync}
  BY DEF Staged

\* The initial index knows of everything: nothing has happened.
LEMMA InitInv == IndexInit => IndexInv
<1> SUFFICES ASSUME IndexInit PROVE IndexInv
  OBVIOUS
<1> USE IndexAssumption
<1>1. Untouched \in [Address -> {0}] /\ 0..0 = {0}
  BY DEF Untouched
<1>2. IndexTypeOK
  <2>1. revision \in 0..MaxRevision /\ 0..revision = {0} /\ told \in 0..revision
    BY DEF IndexInit
  <2>2. cells \in [Group -> [Address -> 0..revision]]
    BY <1>1, <2>1 DEF IndexInit
  <2>3. deferred \in BOOLEAN
    BY Zenon DEF IndexInit
  <2>4. inserts \in [Group -> 0..(CensusInterval - 1)]
    BY DEF IndexInit
  <2>5. truth \in [Kind -> [Place -> 0..revision]]
    BY <2>1 DEF IndexInit
  <2>6. floor \in [Group -> 0..revision] /\ max \in [Group -> 0..revision]
        /\ mark \in [Mark -> 0..revision]
    BY <2>1 DEF IndexInit
  <2>7. todo \subseteq (Record \cup {Problem, Resync}) \X SUBSET Address
    BY DEF IndexInit
  <2> QED
    BY <2>1, <2>2, <2>3, <2>4, <2>5, <2>6, <2>7 DEF IndexTypeOK
<1>3. GroupKnows
  BY DEF IndexInit, GroupKnows, Located
<1>4. MarkKnows
  BY DEF IndexInit, MarkKnows
<1>5. MaxCovers
  BY DEF IndexInit, MaxCovers, Untouched
<1> QED
  BY <1>2, <1>3, <1>4, <1>5 DEF IndexInv

\* A commit leaves a step to come for every change it makes.
LEMMA CommitInv ==
    ASSUME NEW chosen \in SUBSET Record, IndexInv, Commit(chosen)
    PROVE  IndexInv'
<1> USE IndexAssumption
<1> DEFINE records == chosen \cup (IF deferred THEN {Problem} ELSE {})
           staged  == Staged(records)
<1>1. records \in SUBSET (Record \cup {Problem})
  OBVIOUS
<1>2. /\ staged = records \/ staged = {Resync}
      /\ staged \subseteq Record \cup {Problem, Resync}
  BY <1>1, StagedOK
<1>3. /\ todo = {}
      /\ revision < MaxRevision
      /\ revision' = revision + 1
      /\ truth' = [k \in Kind |-> [x \in Place |->
                      IF \E r \in records \cup staged : r.kind = k /\ x \in Reach(r)
                      THEN revision' ELSE truth[k][x]]]
      /\ todo' = Steps(staged)
      /\ deferred' = (Resync \in staged)
      /\ told' = IF Resync \in staged THEN revision' ELSE told
      /\ UNCHANGED index
  BY DEF Commit
<1> HIDE DEF records, staged
<1>t. IndexTypeOK
  BY DEF IndexInv
<1>r. revision \in Nat /\ revision' \in Nat /\ revision' \in 0..MaxRevision
      /\ \A n \in 0..revision : n \in 0..revision'
  BY <1>t, <1>3 DEF IndexTypeOK
<1>4. IndexTypeOK'
  <2>1. truth' \in [Kind -> [Place -> 0..revision']]
    BY <1>3, <1>t, <1>r DEF IndexTypeOK
  <2>2. todo' \subseteq (Record \cup {Problem, Resync}) \X SUBSET Address
    BY <1>2, <1>3 DEF Steps
  <2>3. deferred' \in BOOLEAN
    BY <1>3
  <2>4. told' \in 0..revision'
    BY <1>3, <1>t, <1>r DEF IndexTypeOK
  <2>5. floor' \in [Group -> 0..revision'] /\ max' \in [Group -> 0..revision']
    BY <1>3, <1>t, <1>r DEF IndexTypeOK, index
  <2>6. cells' \in [Group -> [Address -> 0..revision']]
    BY <1>3, <1>t, <1>r DEF IndexTypeOK, index
  <2>7. mark' \in [Mark -> 0..revision'] /\ inserts' \in [Group -> 0..(CensusInterval - 1)]
    BY <1>3, <1>t, <1>r DEF IndexTypeOK, index
  <2> QED
    BY <1>r, <2>1, <2>2, <2>3, <2>4, <2>5, <2>6, <2>7 DEF IndexTypeOK
\* A collapsed transaction leaves the Resync step, any other one per range or watermark.
<1>5. staged = {Resync} => <<Resync, {}>> \in todo'
  BY <1>3 DEF Steps
<1>6. ASSUME NEW r \in records, staged = records, HomeOf[r.kind] \in Mark
      PROVE  <<r, {}>> \in todo'
  <2>1. HomeOf[r.kind] \notin Group
    BY <1>6
  <2> QED
    BY <1>6, <1>3, <2>1 DEF Steps
<1>7. ASSUME NEW r \in records, staged = records, HomeOf[r.kind] \in Group, NEW x \in UNION r.ranges
      PROVE  \E s \in todo' : s[1] = r /\ x \in s[2]
  <2>1. PICK range \in r.ranges : x \in range
    BY <1>7
  <2>2. range \in SUBSET Address
    BY <1>1, <2>1 DEF ChangeRecord
  <2>3. <<r, range>> \in todo'
    BY <1>7, <1>3, <2>1, <2>2 DEF Steps
  <2> QED
    BY <2>1, <2>3
<1>8. GroupKnows'
  <2> SUFFICES ASSUME NEW k \in Located, NEW x \in Place, HomeOf[k] \in Group
               PROVE  \/ truth'[k][x] <= floor'[HomeOf[k]]
                      \/ x \in Address /\ truth'[k][x] <= cells'[HomeOf[k]][x]
                      \/ x \in Address /\ Coming(k, x)'
    BY DEF GroupKnows
  <2>0. k \in Kind
    BY DEF Located
  <2>1. CASE \E r \in records \cup staged : r.kind = k /\ x \in Reach(r)
    <3>1. PICK r \in records \cup staged : r.kind = k /\ x \in Reach(r)
      BY <2>1
    <3>2. r # Resync /\ r \in records
      BY <3>1, <1>2
    <3>3. r.ranges # {} /\ x \in UNION r.ranges
      BY <3>1, <3>2, <1>1 DEF Located, Reach
    <3>4. x \in Address
      BY <3>3, <3>2, <1>1 DEF ChangeRecord
    <3>5. Coming(k, x)'
      <4>1. CASE staged = {Resync}
        BY <4>1, <1>5 DEF Coming
      <4>2. CASE staged = records
        BY <4>2, <1>7, <3>1, <3>2, <3>3 DEF Coming
      <4> QED
        BY <4>1, <4>2, <1>2
    <3> QED
      BY <3>4, <3>5
  <2>2. CASE ~\E r \in records \cup staged : r.kind = k /\ x \in Reach(r)
    <3>1. truth'[k][x] = truth[k][x]
      BY <2>0, <2>2, <1>3
    <3>2. ~Coming(k, x)
      BY <1>3 DEF Coming
    <3>3. floor' = floor /\ cells' = cells
      BY <1>3 DEF index
    <3> QED
      BY <3>1, <3>2, <3>3 DEF IndexInv, GroupKnows
  <2> QED
    BY <2>1, <2>2
<1>9. MarkKnows'
  <2> SUFFICES ASSUME NEW k \in Kind, NEW x \in Place, HomeOf[k] \in Mark
               PROVE  truth'[k][x] <= mark'[HomeOf[k]] \/ Coming(k, x)'
    BY DEF MarkKnows
  <2>1. CASE \E r \in records \cup staged : r.kind = k /\ x \in Reach(r)
    <3>1. CASE staged = {Resync}
      BY <3>1, <1>5 DEF Coming
    <3>2. CASE staged = records
      <4>1. PICK r \in records : r.kind = k
        BY <2>1, <3>2
      <4>2. <<r, {}>> \in todo'
        BY <4>1, <3>2, <1>6
      <4> QED
        BY <4>1, <4>2 DEF Coming
    <3> QED
      BY <3>1, <3>2, <1>2
  <2>2. CASE ~\E r \in records \cup staged : r.kind = k /\ x \in Reach(r)
    <3>1. truth'[k][x] = truth[k][x]
      BY <2>2, <1>3
    <3>2. ~Coming(k, x)
      BY <1>3 DEF Coming
    <3>3. mark' = mark
      BY <1>3 DEF index
    <3> QED
      BY <3>1, <3>2, <3>3 DEF IndexInv, MarkKnows
  <2> QED
    BY <2>1, <2>2
<1>10. MaxCovers'
  <2>1. max' = max /\ cells' = cells
    BY <1>3 DEF index
  <2> QED
    BY <2>1 DEF IndexInv, MaxCovers
<1> QED
  BY <1>4, <1>8, <1>9, <1>10 DEF IndexInv

\* Applying a step makes its change known and forgets none.
LEMMA ApplyInv ==
    ASSUME IndexInv, ApplyNext
    PROVE  IndexInv'
<1> USE IndexAssumption
<1>t. IndexTypeOK
  BY DEF IndexInv
<1>k. /\ revision' = revision
      /\ truth' = truth
      /\ revision \in Nat
      /\ \A k \in Kind, x \in Place : truth[k][x] \in 0..revision
  BY <1>t DEF ApplyNext, IndexTypeOK
<1>1. PICK s \in todo :
         /\ todo' = todo \ {s}
         /\ \/ s[1] = Resync /\ Resynchronise
            \/ s[1] # Resync /\ HomeOf[s[1].kind] \in Mark /\ Bump(HomeOf[s[1].kind])
            \/ HomeOf[s[1].kind] \in Group /\ Touch(HomeOf[s[1].kind], s[2])
            \/ HomeOf[s[1].kind] \in Group /\ TouchAndCompact(HomeOf[s[1].kind], s[2])
  BY DEF ApplyNext
<1>s. /\ s[1] \in ChangeRecord
      /\ s[2] \in SUBSET Address
      /\ todo' \subseteq (Record \cup {Problem, Resync}) \X SUBSET Address
  BY <1>1, <1>t DEF IndexTypeOK
\* What is still coming, unless this step was it.
<1>c. ASSUME NEW k, NEW x, Coming(k, x)
      PROVE  \/ Coming(k, x)'
             \/ s[1] = Resync
             \/ s[1].kind = k /\ (HomeOf[k] \in Mark \/ x \in s[2])
  BY <1>c, <1>1 DEF Coming
<1>2. CASE s[1] = Resync /\ Resynchronise
  <2>1. /\ \A g \in Group : floor'[g] \in 0..revision /\ floor'[g] >= revision
        /\ \A g \in Group : max'[g] \in 0..revision
        /\ \A m \in Mark : mark'[m] \in 0..revision /\ mark'[m] >= revision
    <3>1. ASSUME NEW n \in 0..revision
          PROVE  Larger(n, revision) \in 0..revision /\ Larger(n, revision) >= revision
      BY <1>k DEF Larger
    <3>2. /\ \A g \in Group : floor[g] \in 0..revision /\ max[g] \in 0..revision
          /\ \A m \in Mark : mark[m] \in 0..revision
      BY <1>t DEF IndexTypeOK
    <3>3. /\ \A g \in Group : floor'[g] = Larger(floor[g], revision)
          /\ \A g \in Group : max'[g] = Larger(max[g], revision)
          /\ \A m \in Mark : mark'[m] = Larger(mark[m], revision)
      BY <1>2 DEF Resynchronise
    <3> QED
      BY <3>1, <3>2, <3>3
  <2>2. /\ floor' = [g \in Group |-> floor'[g]]
        /\ max' = [g \in Group |-> max'[g]]
        /\ mark' = [m \in Mark |-> mark'[m]]
    BY <1>2 DEF Resynchronise
  <2>3. Untouched \in [Address -> 0..revision]
    BY <1>k DEF Untouched
  <2>4. IndexTypeOK'
    <3>1. cells' \in [Group -> [Address -> 0..revision']]
      BY <1>2, <2>3, <1>k DEF Resynchronise
    <3>2. inserts' \in [Group -> 0..(CensusInterval - 1)]
      BY <1>2 DEF Resynchronise
    <3>3. /\ floor' \in [Group -> 0..revision']
          /\ max' \in [Group -> 0..revision']
          /\ mark' \in [Mark -> 0..revision']
      BY <2>1, <2>2, <1>k
    <3>4. deferred' = deferred /\ told' = told
      BY <1>2 DEF Resynchronise
    <3> QED
      BY <1>k, <1>s, <1>t, <3>1, <3>2, <3>3, <3>4 DEF IndexTypeOK
  <2>5. GroupKnows'
    BY <2>1, <1>k DEF GroupKnows, Located
  <2>6. MarkKnows'
    BY <2>1, <1>k DEF MarkKnows
  <2>7. MaxCovers'
    BY <1>2, <2>1 DEF MaxCovers, Resynchronise, Untouched
  <2> QED
    BY <2>4, <2>5, <2>6, <2>7 DEF IndexInv
<1>3. CASE s[1] # Resync /\ HomeOf[s[1].kind] \in Mark /\ Bump(HomeOf[s[1].kind])
  <2> DEFINE m == HomeOf[s[1].kind]
  <2>1. /\ mark' = [mark EXCEPT ![m] = Larger(mark[m], revision)]
        /\ UNCHANGED <<floor, max, cells, inserts, deferred, told>>
    BY <1>3 DEF Bump
  <2>2. mark[m] \in 0..revision /\ m \in Mark
    BY <1>3, <1>t DEF IndexTypeOK
  <2>3. Larger(mark[m], revision) \in 0..revision /\ Larger(mark[m], revision) >= revision
    BY <2>2, <1>k, LargerNat
  <2>4. \A n \in Mark : mark'[n] >= mark[n]
    BY <2>1, <2>2, <2>3, <1>k, <1>t DEF IndexTypeOK
  <2>5. mark'[m] >= revision /\ mark' \in [Mark -> 0..revision]
    BY <2>1, <2>2, <2>3, <1>t DEF IndexTypeOK
  <2> HIDE DEF m
  <2>6. IndexTypeOK'
    BY <2>1, <2>5, <1>k, <1>s, <1>t DEF IndexTypeOK
  <2>7. GroupKnows'
    <3> SUFFICES ASSUME NEW k \in Located, NEW x \in Place, HomeOf[k] \in Group
                 PROVE  \/ truth[k][x] <= floor[HomeOf[k]]
                        \/ x \in Address /\ truth[k][x] <= cells[HomeOf[k]][x]
                        \/ x \in Address /\ Coming(k, x)'
      BY <2>1, <1>k DEF GroupKnows
    <3>1. Coming(k, x) => Coming(k, x)'
      BY <1>3, <1>c
    <3> QED
      BY <3>1 DEF IndexInv, GroupKnows
  <2>8. MarkKnows'
    <3> SUFFICES ASSUME NEW k \in Kind, NEW x \in Place, HomeOf[k] \in Mark
                 PROVE  truth[k][x] <= mark'[HomeOf[k]] \/ Coming(k, x)'
      BY <1>k DEF MarkKnows
    <3>1. CASE Coming(k, x)
      <4>1. Coming(k, x)' \/ s[1].kind = k
        BY <3>1, <1>3, <1>c
      <4> QED
        BY <4>1, <2>5, <1>k DEF m
    <3>2. CASE truth[k][x] <= mark[HomeOf[k]]
      <4>1. mark[HomeOf[k]] \in 0..revision /\ mark'[HomeOf[k]] \in 0..revision
            /\ mark'[HomeOf[k]] >= mark[HomeOf[k]] /\ truth[k][x] \in 0..revision
        BY <2>4, <2>5, <1>k, <1>t DEF IndexTypeOK
      <4> QED
        BY <3>2, <4>1
    <3> QED
      BY <3>1, <3>2 DEF IndexInv, MarkKnows
  <2>9. MaxCovers'
    BY <2>1 DEF IndexInv, MaxCovers
  <2> QED
    BY <2>6, <2>7, <2>8, <2>9 DEF IndexInv
<1> DEFINE g == HomeOf[s[1].kind]
\* What the two cases of touch have in common.
<1>4. ASSUME g \in Group,
             max' = [max EXCEPT ![g] = Larger(max[g], revision)],
             mark' = mark
      PROVE  /\ max' \in [Group -> 0..revision]
             /\ max'[g] = Larger(max[g], revision)
             /\ max'[g] >= revision
             /\ \A h \in Group : h # g => max'[h] = max[h]
             /\ MarkKnows'
  <2>1. max[g] \in 0..revision
    BY <1>4, <1>t DEF IndexTypeOK
  <2>2. Larger(max[g], revision) \in 0..revision /\ Larger(max[g], revision) >= revision
    BY <2>1, <1>k, LargerNat
  <2>3. ASSUME NEW k \in Kind, NEW x \in Place, HomeOf[k] \in Mark
        PROVE  truth[k][x] <= mark[HomeOf[k]] \/ Coming(k, x)'
    <3>1. truth[k][x] <= mark[HomeOf[k]] \/ Coming(k, x)
      BY <2>3 DEF IndexInv, MarkKnows
    <3>2. s[1] # Resync /\ s[1].kind # k
      BY <1>4, <2>3
    <3>3. Coming(k, x) => Coming(k, x)'
      BY <3>2, <1>c
    <3> QED
      BY <3>1, <3>3
  <2>4. MarkKnows'
    BY <2>3, <1>4, <1>k DEF MarkKnows
  <2>5. /\ max' \in [Group -> 0..revision]
        /\ max'[g] = Larger(max[g], revision)
        /\ \A h \in Group : h # g => max'[h] = max[h]
    BY <2>2, <1>4, <1>t DEF IndexTypeOK
  <2> QED
    BY <2>2, <2>4, <2>5
<1>5. CASE g \in Group /\ Touch(g, s[2])
  <2>1. /\ cells' = [cells EXCEPT ![g] = Touched(g, s[2])]
        /\ max' = [max EXCEPT ![g] = Larger(max[g], revision)]
        /\ inserts' = [inserts EXCEPT ![g] = IF CensusDue(g) THEN 0 ELSE inserts[g] + 1]
        /\ UNCHANGED <<floor, mark, deferred, told>>
    BY <1>5 DEF Touch
  <2>2. /\ max' \in [Group -> 0..revision]
        /\ max'[g] >= revision
        /\ \A h \in Group : h # g => max'[h] = max[h]
        /\ MarkKnows'
    BY <1>4, <1>5, <2>1
  <2>3. Touched(g, s[2]) \in [Address -> 0..revision]
    BY <1>5, <1>k, <1>t DEF Touched, IndexTypeOK
  <2>4. inserts' \in [Group -> 0..(CensusInterval - 1)]
    BY <1>5, <2>1, <1>t DEF CensusDue, IndexTypeOK
  <2>5. cells' \in [Group -> [Address -> 0..revision]]
    BY <2>1, <2>3, <1>t DEF IndexTypeOK
  <2>6. IndexTypeOK'
    BY <2>1, <2>2, <2>4, <2>5, <1>k, <1>s, <1>t DEF IndexTypeOK
  <2>7. ASSUME NEW h \in Group, NEW x \in Address
        PROVE  cells'[h][x] = IF h = g /\ x \in s[2] THEN revision ELSE cells[h][x]
    BY <2>1, <1>5, <1>t DEF Touched, IndexTypeOK
  <2> HIDE DEF g
  <2>8. GroupKnows'
    <3> SUFFICES ASSUME NEW k \in Located, NEW x \in Place, HomeOf[k] \in Group
                 PROVE  \/ truth[k][x] <= floor[HomeOf[k]]
                        \/ x \in Address /\ truth[k][x] <= cells'[HomeOf[k]][x]
                        \/ x \in Address /\ Coming(k, x)'
      BY <2>1, <1>k DEF GroupKnows
    <3>0. k \in Kind
      BY DEF Located
    <3>1. CASE truth[k][x] <= floor[HomeOf[k]]
      BY <3>1
    <3>2. CASE x \in Address /\ truth[k][x] <= cells[HomeOf[k]][x]
      BY <3>0, <3>2, <2>7, <1>k
    <3>3. CASE x \in Address /\ Coming(k, x)
      <4>1. s[1] # Resync /\ HomeOf[k] \notin Mark
        BY <1>5 DEF g
      <4>2. Coming(k, x)' \/ (s[1].kind = k /\ x \in s[2])
        BY <3>3, <4>1, <1>c
      <4>3. s[1].kind = k /\ x \in s[2] => cells'[HomeOf[k]][x] = revision
        BY <3>3, <2>7 DEF g
      <4> QED
        BY <3>0, <3>3, <4>2, <4>3, <1>k
    <3> QED
      BY <3>1, <3>2, <3>3 DEF IndexInv, GroupKnows
  <2>9. MaxCovers'
    <3> SUFFICES ASSUME NEW h \in Group, NEW x \in Address
                 PROVE  cells'[h][x] <= max'[h]
      BY DEF MaxCovers
    <3>1. cells'[h][x] \in 0..revision /\ max'[h] \in 0..revision
      BY <2>2, <2>5
    <3>2. CASE h = g
      BY <3>1, <3>2, <2>2, <1>k
    <3>3. CASE h # g
      BY <3>3, <2>2, <2>7 DEF IndexInv, MaxCovers
    <3> QED
      BY <3>2, <3>3
  <2> QED
    BY <2>2, <2>6, <2>8, <2>9 DEF IndexInv
<1>6. CASE g \in Group /\ TouchAndCompact(g, s[2])
  <2>1. /\ cells' = [cells EXCEPT ![g] = Untouched]
        /\ max' = [max EXCEPT ![g] = Larger(max[g], revision)]
        /\ floor' = [floor EXCEPT ![g] = Larger(max[g], revision)]
        /\ inserts' = [inserts EXCEPT ![g] = 0]
        /\ told' = revision
        /\ mark' = mark
    BY <1>6 DEF TouchAndCompact
  <2>d. deferred' \in BOOLEAN
    BY <1>6, Zenon DEF TouchAndCompact
  <2>2. /\ max' \in [Group -> 0..revision]
        /\ max'[g] = Larger(max[g], revision)
        /\ max'[g] >= revision
        /\ \A h \in Group : h # g => max'[h] = max[h]
        /\ MarkKnows'
    BY <1>4, <1>6, <2>1
  <2>3. /\ floor' \in [Group -> 0..revision]
        /\ floor'[g] >= revision
        /\ \A h \in Group : h # g => floor'[h] = floor[h]
    <3> DEFINE top == Larger(max[g], revision)
    <3>1. top \in 0..revision /\ top >= revision
      BY <1>6, <2>2
    <3>2. floor' = [floor EXCEPT ![g] = top] /\ floor \in [Group -> 0..revision] /\ g \in Group
      BY <1>6, <2>1, <1>t DEF IndexTypeOK
    <3> HIDE DEF top, g
    <3> QED
      BY <3>1, <3>2
  <2>4. Untouched \in [Address -> 0..revision]
    BY <1>k DEF Untouched
  <2>5. cells' \in [Group -> [Address -> 0..revision]]
    BY <1>6, <2>1, <2>4, <1>t DEF IndexTypeOK
  <2>6. inserts' \in [Group -> 0..(CensusInterval - 1)]
    BY <1>6, <2>1, <1>t DEF IndexTypeOK
  <2>7. IndexTypeOK'
    <3>1. mark' \in [Mark -> 0..revision'] /\ told' \in 0..revision'
      BY <2>1, <1>k, <1>t DEF IndexTypeOK
    <3>2. revision' \in 0..MaxRevision /\ truth' \in [Kind -> [Place -> 0..revision']]
      BY <1>k, <1>t DEF IndexTypeOK
    <3> QED
      BY <2>d, <2>2, <2>3, <2>5, <2>6, <1>k, <1>s, <3>1, <3>2 DEF IndexTypeOK
  <2>8. \A h \in Group : h # g => cells'[h] = cells[h]
    BY <2>1, <1>t DEF IndexTypeOK
  <2> HIDE DEF g
  <2>9. GroupKnows'
    <3> SUFFICES ASSUME NEW k \in Located, NEW x \in Place, HomeOf[k] \in Group
                 PROVE  \/ truth[k][x] <= floor'[HomeOf[k]]
                        \/ x \in Address /\ truth[k][x] <= cells'[HomeOf[k]][x]
                        \/ x \in Address /\ Coming(k, x)'
      BY <1>k DEF GroupKnows
    <3>0. k \in Kind
      BY DEF Located
    <3>1. CASE HomeOf[k] = g
      <4>1. floor'[g] \in 0..revision /\ truth[k][x] \in 0..revision
        BY <3>0, <2>3, <1>6, <1>k
      <4> QED
        BY <3>1, <4>1, <2>3, <1>k
    <3>2. CASE HomeOf[k] # g
      <4>1. s[1].kind # k /\ s[1] # Resync
        BY <3>2, <1>6 DEF g
      <4>2. Coming(k, x) => Coming(k, x)'
        BY <4>1, <1>c
      <4> QED
        BY <3>2, <4>2, <2>3, <2>8 DEF IndexInv, GroupKnows
    <3> QED
      BY <3>1, <3>2
  <2>10. MaxCovers'
    <3> SUFFICES ASSUME NEW h \in Group, NEW x \in Address
                 PROVE  cells'[h][x] <= max'[h]
      BY DEF MaxCovers
    <3>1. cells'[h][x] \in 0..revision /\ max'[h] \in 0..revision
      BY <2>2, <2>5
    <3>2. CASE h = g
      BY <3>1, <3>2, <2>2, <1>k
    <3>3. CASE h # g
      BY <3>3, <2>2, <2>8 DEF IndexInv, MaxCovers
    <3> QED
      BY <3>2, <3>3
  <2> QED
    BY <2>2, <2>7, <2>9, <2>10 DEF IndexInv
<1> QED
  BY <1>1, <1>2, <1>3, <1>5, <1>6

\* Every step of the index keeps the invariant.
LEMMA IndexStep == ASSUME IndexInv, [IndexNext]_indexVars PROVE IndexInv'
<1>1. CASE \E chosen \in SUBSET Record : Commit(chosen)
  BY <1>1, CommitInv
<1>2. CASE ApplyNext
  BY <1>2, ApplyInv
<1>3. CASE UNCHANGED indexVars
  BY <1>3 DEF indexVars, index, IndexInv, IndexTypeOK, GroupKnows, MarkKnows, MaxCovers, Coming
<1>4. CASE IndexIdle
  BY <1>3, <1>4 DEF IndexIdle
<1> QED
  BY <1>1, <1>2, <1>3, <1>4 DEF IndexNext

\* The invariant holds in every reachable state.
LEMMA IndexInvariance == IndexSpec => []IndexInv
<1>1. IndexInit => IndexInv
  BY InitInv
<1>2. IndexInv /\ [IndexNext]_indexVars => IndexInv'
  BY IndexStep
<1> QED
  BY <1>1, <1>2, PTL DEF IndexSpec

(***************************************************************************)
(* The index is well typed: in particular no watermark, floor or cell ever *)
(* runs ahead of the project's revision.                                   *)
(***************************************************************************)
THEOREM IndexTyped == IndexSpec => []IndexTypeOK
<1>1. IndexInv => IndexTypeOK
  BY DEF IndexInv
<1> QED
  BY <1>1, IndexInvariance, PTL

\* Between publications nothing is still to come, so what the index knows is everything.
LEMMA InvConservative == ASSUME IndexInv PROVE Conservative
<1> SUFFICES ASSUME todo = {},
                    NEW k \in Located, NEW region \in SUBSET Address,
                    NEW since \in 0..revision,
                    TrulyChanged(since, {k}, region)
             PROVE  ChangedSince(since, {k}, region)
  BY DEF Conservative
<1> USE IndexAssumption
<1>t. IndexTypeOK
  BY DEF IndexInv
<1>k. k \in Kind /\ HomeOf[k] \in Group \cup Mark /\ revision \in Nat
  BY <1>t DEF Located, IndexTypeOK
<1>1. PICK x \in Place : /\ truth[k][x] > since
                         /\ region = {} \/ x \in region \cup {Nowhere}
  BY DEF TrulyChanged
<1>2. ~Coming(k, x) /\ truth[k][x] \in 0..revision
  BY <1>t, <1>k DEF Coming, IndexTypeOK
<1>3. CASE HomeOf[k] \in Mark
  <2>1. truth[k][x] <= mark[HomeOf[k]] /\ mark[HomeOf[k]] \in 0..revision
    BY <1>3, <1>2, <1>k, <1>t DEF IndexInv, MarkKnows, IndexTypeOK
  <2>2. mark[HomeOf[k]] > since
    BY <1>1, <1>2, <2>1, <1>k
  <2> QED
    BY <1>3, <2>2 DEF ChangedSince
<1>4. CASE HomeOf[k] \in Group
  <2>1. \/ truth[k][x] <= floor[HomeOf[k]]
        \/ x \in Address /\ truth[k][x] <= cells[HomeOf[k]][x]
    BY <1>4, <1>2 DEF IndexInv, GroupKnows
  <2>2. floor[HomeOf[k]] \in 0..revision /\ max[HomeOf[k]] \in 0..revision
        /\ \A y \in Address : cells[HomeOf[k]][y] \in 0..revision
                              /\ cells[HomeOf[k]][y] <= max[HomeOf[k]]
    BY <1>4, <1>t DEF IndexInv, IndexTypeOK, MaxCovers
  <2>3. GroupChangedSince(since, HomeOf[k], region)
    <3>1. CASE truth[k][x] <= floor[HomeOf[k]]
      BY <3>1, <2>2, <1>1, <1>2, <1>k DEF GroupChangedSince
    <3>2. CASE x \in Address /\ truth[k][x] <= cells[HomeOf[k]][x]
      <4>1. cells[HomeOf[k]][x] > since /\ max[HomeOf[k]] > since
        BY <3>2, <2>2, <1>1, <1>2, <1>k
      <4>2. region = {} \/ x \in region
        BY <3>2, <1>1
      <4> QED
        BY <4>1, <4>2 DEF GroupChangedSince
    <3> QED
      BY <2>1, <3>1, <3>2
  <2>4. HomeOf[k] \notin Mark
    BY <1>4
  <2> QED
    BY <2>3, <2>4 DEF ChangedSince
<1> QED
  BY <1>3, <1>4, <1>k

(***************************************************************************)
(* The index is conservative: ChangeIndex::changed_since never answers     *)
(* "unchanged" about a change that ChangeIndex::apply was given, through   *)
(* any number of compactions and resynchronisations.                       *)
(***************************************************************************)
THEOREM IndexConservative == IndexSpec => []Conservative
<1>1. IndexInv => Conservative
  BY InvConservative
<1> QED
  BY <1>1, IndexInvariance, PTL
-----------------------------------------------------------------------------
(* Precision. *)

\* Records name no empty ranges: AddressRange is inclusive at both ends, and its
\* producers build it from an address or from a size above zero.
RangesProper == \A r \in Record \cup {Problem} : {} \notin r.ranges

\* A group or watermark h that stands at revision n was told to collapse then or later, or
\* one of its kinds changed at one of the places X.
Known(h, n, X) ==
    n <= told \/ \E k \in Kind, x \in X : HomeOf[k] = h /\ truth[k][x] >= n

\* Nothing in the index is there without a change or a collapse that is told of.
Accurate ==
    /\ \A g \in Group : floor[g] <= told
    /\ \A g \in Group, x \in Address : Known(g, cells[g][x], {x})
    /\ \A g \in Group : Known(g, max[g], Place)
    /\ \A m \in Mark : Known(m, mark[m], Place)

\* A step still to come stands for a change of this revision, or for a collapse.
Due(s) ==
    \/ s[1] = Resync /\ told = revision
    \/ /\ s[1] # Resync
       /\ HomeOf[s[1].kind] \in Group => s[2] # {} /\ \A x \in s[2] : truth[s[1].kind][x] = revision
       /\ HomeOf[s[1].kind] \in Mark => \E x \in Place : truth[s[1].kind][x] = revision

StepsDue == \A s \in todo : Due(s)

\* What changed stays known when changes and collapses are added.
LEMMA KnownKept ==
    ASSUME IndexTypeOK, IndexTypeOK', NEW h, NEW n \in Nat, NEW X \in SUBSET Place, Known(h, n, X),
           told <= told', \A k \in Kind, x \in Place : truth[k][x] <= truth'[k][x]
    PROVE  Known(h, n, X)'
<1>1. told \in Nat /\ told' \in Nat
  BY DEF IndexTypeOK
<1>2. \A k \in Kind, x \in Place : truth[k][x] \in Nat /\ truth'[k][x] \in Nat
  BY DEF IndexTypeOK
<1> QED BY <1>1, <1>2 DEF Known

\* An index that no commit has reached is accurate.
LEMMA AccurateInit == ASSUME IndexInit PROVE Accurate /\ StepsDue
BY DEF IndexInit, Accurate, StepsDue, Known, Untouched

\* A commit raises nothing of the index: the steps it leaves to apply stand for what it changed.
LEMMA AccurateCommit ==
    ASSUME RangesProper, NEW chosen \in SUBSET Record, IndexInv, IndexInv', Accurate, Commit(chosen)
    PROVE  Accurate' /\ StepsDue'
<1> USE IndexAssumption
<1> DEFINE records == chosen \cup (IF deferred THEN {Problem} ELSE {})
           staged  == Staged(records)
<1>t. IndexTypeOK /\ IndexTypeOK' /\ revision \in Nat
  BY DEF IndexInv, IndexTypeOK
<1>1. records \in SUBSET (Record \cup {Problem})
  OBVIOUS
<1>2. staged = records \/ staged = {Resync}
  BY <1>1, StagedOK
<1>3. /\ revision' = revision + 1
      /\ todo' = Steps(staged)
      /\ truth' = [k \in Kind |-> [x \in Place |->
                      IF \E r \in records \cup staged : r.kind = k /\ x \in Reach(r)
                      THEN revision' ELSE truth[k][x]]]
      /\ told' = IF Resync \in staged THEN revision' ELSE told
      /\ UNCHANGED <<floor, max, cells, inserts, mark>>
  BY DEF Commit, index
<1> HIDE DEF records, staged
<1>4. \A k \in Kind, x \in Place : truth[k][x] <= truth'[k][x]
  BY <1>3, <1>t DEF IndexTypeOK
<1>5. told <= told'
  BY <1>3, <1>t DEF IndexTypeOK
<1>6. Accurate'
  <2>1. ASSUME NEW h, NEW n \in Nat, NEW X \in SUBSET Place, Known(h, n, X) PROVE Known(h, n, X)'
    BY <1>t, <1>4, <1>5, <2>1, KnownKept
  <2>2. \A g \in Group : floor'[g] <= told'
    BY <1>3, <1>5, <1>t DEF Accurate, IndexTypeOK
  <2>3. ASSUME NEW g \in Group, NEW x \in Address PROVE Known(g, cells[g][x], {x})'
    <3>1. cells[g][x] \in Nat /\ {x} \in SUBSET Place
      BY <1>t DEF IndexTypeOK, Place
    <3>2. Known(g, cells[g][x], {x})
      BY DEF Accurate
    <3>3. ASSUME NEW n \in Nat, n = cells[g][x] PROVE Known(g, n, {x})'
      BY <2>1, <3>1, <3>2, <3>3
    <3> QED BY <1>3, <3>1, <3>3 DEF Known
  <2>4. ASSUME NEW g \in Group PROVE Known(g, max[g], Place)'
    <3>1. max[g] \in Nat /\ Known(g, max[g], Place)
      BY <1>t DEF Accurate, IndexTypeOK
    <3>2. ASSUME NEW n \in Nat, n = max[g] PROVE Known(g, n, Place)'
      BY <2>1, <3>1, <3>2
    <3> QED BY <1>3, <3>1, <3>2 DEF Known
  <2>5. ASSUME NEW m \in Mark PROVE Known(m, mark[m], Place)'
    <3>1. mark[m] \in Nat /\ Known(m, mark[m], Place)
      BY <1>t DEF Accurate, IndexTypeOK
    <3>2. ASSUME NEW n \in Nat, n = mark[m] PROVE Known(m, n, Place)'
      BY <2>1, <3>1, <3>2
    <3> QED BY <1>3, <3>1, <3>2 DEF Known
  <2> QED BY <2>2, <2>3, <2>4, <2>5 DEF Accurate
<1>7. StepsDue'
  <2> SUFFICES ASSUME NEW s \in Steps(staged) PROVE Due(s)'
    BY <1>3 DEF StepsDue
  <2>1. s \in staged \X SUBSET Address
        /\ IF HomeOf[s[1].kind] \in Group THEN s[2] \in s[1].ranges ELSE s[2] = {}
    BY DEF Steps
  <2>2. CASE s[1] = Resync
    BY <1>3, <2>1, <2>2 DEF Due
  <2>3. CASE s[1] # Resync
    <3>1. s[1] \in records /\ s[1] \in ChangeRecord /\ {} \notin s[1].ranges
      BY <1>1, <1>2, <2>1, <2>3 DEF RangesProper
    <3>2. s[1].kind \in Kind /\ s[1].ranges \in SUBSET SUBSET Address
      BY <3>1 DEF ChangeRecord
    <3>3. \A x \in Place : x \in Reach(s[1]) => truth'[s[1].kind][x] = revision'
      BY <1>3, <3>1, <3>2
    <3>4. HomeOf[s[1].kind] \in Group =>
            s[2] # {} /\ \A x \in s[2] : truth'[s[1].kind][x] = revision'
      BY <2>1, <3>1, <3>2, <3>3 DEF Reach, Place
    <3>5. \E x \in Place : x \in Reach(s[1])
      <4>1. CASE s[1].ranges = {}
        BY <4>1 DEF Reach, Place
      <4>2. CASE s[1].ranges # {}
        <5>1. PICK R \in s[1].ranges : R # {}
          BY <4>2, <3>1
        <5>2. PICK x \in R : x \in Place
          BY <5>1, <3>2 DEF Place
        <5> QED BY <4>2, <5>1, <5>2 DEF Reach
      <4> QED BY <4>1, <4>2
    <3> QED BY <2>3, <3>3, <3>4, <3>5 DEF Due
  <2> QED BY <2>2, <2>3
<1> QED BY <1>6, <1>7

\* Applying a step raises the index to the revision of the change or collapse it stands for.
LEMMA AccurateApply ==
    ASSUME IndexInv, IndexInv', Accurate, StepsDue, ApplyNext
    PROVE  Accurate' /\ StepsDue'
<1> USE IndexAssumption
<1>t. /\ IndexTypeOK /\ IndexTypeOK' /\ revision \in Nat /\ told \in Nat /\ told <= revision
      /\ \A g \in Group : floor[g] \in 0..revision /\ max[g] \in 0..revision
      /\ \A g \in Group, x \in Address : cells[g][x] \in 0..revision
      /\ \A m \in Mark : mark[m] \in 0..revision
  BY DEF IndexInv, IndexTypeOK
<1>1. PICK s \in todo :
         /\ todo' = todo \ {s}
         /\ \/ s[1] = Resync /\ Resynchronise
            \/ s[1] # Resync /\ HomeOf[s[1].kind] \in Mark /\ Bump(HomeOf[s[1].kind])
            \/ HomeOf[s[1].kind] \in Group /\ Touch(HomeOf[s[1].kind], s[2])
            \/ HomeOf[s[1].kind] \in Group /\ TouchAndCompact(HomeOf[s[1].kind], s[2])
  BY DEF ApplyNext
<1>2. revision' = revision /\ truth' = truth
  BY DEF ApplyNext
<1>3. Due(s) /\ s[1].kind \in Kind /\ s[2] \in SUBSET Address
  BY <1>1, <1>t DEF StepsDue, IndexTypeOK, ChangeRecord
<1>4. HomeOf[s[1].kind] \in Group => s[1] # Resync
  OBVIOUS
<1>5. told' = told \/ told' = revision
  BY <1>1 DEF Resynchronise, Bump, Touch, TouchAndCompact
<1>6. \A h, n, X : n \in Nat /\ Known(h, n, X) => Known(h, n, X)'
  BY <1>2, <1>5, <1>t DEF Known
<1>7. StepsDue'
  BY <1>1, <1>2, <1>5, <1>t DEF StepsDue, Due
<1>8. \A n \in 0..revision : Larger(n, revision) = revision
  BY <1>t DEF Larger
<1>9. CASE s[1] = Resync /\ Resynchronise
  <2>1. told = revision /\ told' = told
    BY <1>3, <1>9 DEF Due, Resynchronise
  <2>2. /\ \A g \in Group : floor'[g] = revision /\ max'[g] = revision
        /\ \A g \in Group, x \in Address : cells'[g][x] = 0
        /\ \A m \in Mark : mark'[m] = revision
    BY <1>8, <1>9, <1>t DEF Resynchronise, Untouched
  <2>3. Accurate'
    BY <1>t, <2>1, <2>2 DEF Accurate, Known
  <2> QED BY <1>7, <2>3
<1>10. CASE s[1] # Resync /\ HomeOf[s[1].kind] \in Mark /\ Bump(HomeOf[s[1].kind])
  <2>1. /\ UNCHANGED <<floor, max, cells, told>>
        /\ \A m \in Mark : mark'[m] = IF m = HomeOf[s[1].kind] THEN revision ELSE mark[m]
    BY <1>8, <1>10, <1>t DEF Bump, IndexTypeOK
  <2>2. PICK x \in Place : truth[s[1].kind][x] = revision
    BY <1>3, <1>10 DEF Due
  <2>3. Known(HomeOf[s[1].kind], revision, Place)'
    BY <1>2, <1>3, <1>t, <2>2 DEF Known
  <2>4. \A m \in Mark : Known(m, mark[m], Place)'
    BY <1>t, <1>2, <2>1, <2>3 DEF Known, Accurate
  <2>5. Accurate'
    BY <1>2, <2>1, <2>4 DEF Accurate, Known
  <2> QED BY <1>7, <2>5
<1>11. ASSUME HomeOf[s[1].kind] \in Group
       PROVE  /\ \A x \in s[2] : Known(HomeOf[s[1].kind], revision, {x})'
              /\ Known(HomeOf[s[1].kind], revision, Place)'
  <2>1. s[2] # {} /\ \A x \in s[2] : x \in Place /\ truth'[s[1].kind][x] = revision
    BY <1>2, <1>3, <1>4, <1>11 DEF Due, Place
  <2>2. \A x \in s[2] : Known(HomeOf[s[1].kind], revision, {x})'
    BY <1>2, <1>3, <1>t, <2>1 DEF Known
  <2>3. PICK x \in s[2] : x \in Place /\ truth'[s[1].kind][x] = revision
    BY <2>1
  <2>4. Known(HomeOf[s[1].kind], revision, Place)'
    BY <1>2, <1>3, <1>t, <2>3 DEF Known
  <2> QED BY <2>2, <2>4
<1>12. CASE HomeOf[s[1].kind] \in Group /\ Touch(HomeOf[s[1].kind], s[2])
  <2>1. /\ UNCHANGED <<floor, mark, told>>
        /\ \A h \in Group : max'[h] = IF h = HomeOf[s[1].kind] THEN revision ELSE max[h]
        /\ \A h \in Group, x \in Address :
             cells'[h][x] = IF h = HomeOf[s[1].kind] /\ x \in s[2] THEN revision ELSE cells[h][x]
    BY <1>8, <1>12, <1>t DEF Touch, Touched, IndexTypeOK
  <2>2. \A h \in Group, x \in Address : Known(h, cells[h][x], {x})'
    BY <1>2, <1>11, <1>12, <2>1 DEF Known, Accurate
  <2>3. \A h \in Group : Known(h, max[h], Place)'
    BY <1>2, <1>11, <1>12, <2>1 DEF Known, Accurate
  <2>4. Accurate'
    BY <1>2, <2>1, <2>2, <2>3 DEF Accurate, Known
  <2> QED BY <1>7, <2>4
<1>13. CASE HomeOf[s[1].kind] \in Group /\ TouchAndCompact(HomeOf[s[1].kind], s[2])
  <2>1. told' = revision /\ UNCHANGED mark
    BY <1>13 DEF TouchAndCompact
  <2>2. /\ \A h \in Group : floor'[h] <= revision /\ floor'[h] \in Nat
        /\ \A h \in Group : max'[h] <= revision
        /\ \A h \in Group, x \in Address : cells'[h][x] <= revision
        /\ \A m \in Mark : mark'[m] <= revision
    BY <1>2, <1>t DEF IndexTypeOK
  <2>3. Accurate'
    BY <2>1, <2>2 DEF Accurate, Known
  <2> QED BY <1>7, <2>3
<1> QED BY <1>1, <1>9, <1>10, <1>12, <1>13

\* What the index answers is what it knows.
LEMMA AccuratePrecise == ASSUME IndexInv, Accurate PROVE Precise
<1> USE IndexAssumption
<1> SUFFICES ASSUME NEW k \in Kind, NEW region \in SUBSET Address, NEW since \in 0..revision,
                    ChangedSince(since, {k}, region), ~(told > since)
             PROVE  TrulyChanged(since, {j \in Kind : HomeOf[j] = HomeOf[k]},
                                 IF HomeOf[k] \in Mark THEN {} ELSE region)
  BY DEF Precise
<1>t. /\ revision \in Nat /\ told \in Nat
      /\ \A g \in Group : floor[g] \in Nat /\ max[g] \in Nat
      /\ \A g \in Group, x \in Address : cells[g][x] \in Nat
      /\ \A m \in Mark : mark[m] \in Nat
      /\ \A j \in Kind, x \in Place : truth[j][x] \in Nat
  BY DEF IndexInv, IndexTypeOK
<1>1. ASSUME NEW n \in Nat, n > since, NEW X, Known(HomeOf[k], n, X), X \subseteq Place
      PROVE  \E j \in Kind, x \in X : HomeOf[j] = HomeOf[k] /\ truth[j][x] > since
  BY <1>1, <1>t DEF Known
<1>2. CASE HomeOf[k] \in Mark
  <2>1. mark[HomeOf[k]] > since
    BY <1>2 DEF ChangedSince
  <2>2. PICK j \in Kind, x \in Place : HomeOf[j] = HomeOf[k] /\ truth[j][x] > since
    BY <1>1, <1>2, <1>t, <2>1 DEF Accurate
  <2> QED BY <1>2, <2>2 DEF TrulyChanged
<1>3. CASE HomeOf[k] \notin Mark
  <2>1. HomeOf[k] \in Group
    BY <1>3
  <2>2. floor[HomeOf[k]] <= told
    BY <2>1 DEF Accurate
  <2>3. \/ region = {} /\ max[HomeOf[k]] > since
        \/ \E x \in region : cells[HomeOf[k]][x] > since
    BY <1>3, <1>t, <2>1, <2>2 DEF ChangedSince, GroupChangedSince
  <2>4. CASE region = {} /\ max[HomeOf[k]] > since
    <3>1. PICK j \in Kind, x \in Place : HomeOf[j] = HomeOf[k] /\ truth[j][x] > since
      BY <1>1, <1>t, <2>1, <2>4 DEF Accurate
    <3> QED BY <1>3, <2>4, <3>1 DEF TrulyChanged
  <2>5. CASE \E x \in region : cells[HomeOf[k]][x] > since
    <3>1. PICK x \in region : cells[HomeOf[k]][x] > since
      BY <2>5
    <3>2. x \in Place /\ x \in Address
      BY DEF Place
    <3>3. Known(HomeOf[k], cells[HomeOf[k]][x], {x})
      BY <2>1, <3>2 DEF Accurate
    <3>4. PICK j \in Kind : HomeOf[j] = HomeOf[k] /\ truth[j][x] > since
      BY <1>t, <2>1, <3>1, <3>2, <3>3 DEF Known
    <3> QED BY <1>3, <3>1, <3>2, <3>4 DEF TrulyChanged
  <2> QED BY <2>3, <2>4, <2>5
<1> QED BY <1>2, <1>3

(***************************************************************************)
(* The index is precise unless it said so: ChangeIndex::changed_since      *)
(* answers "changed" only about something that did change, or about        *)
(* revisions before a collapse that begin_publish reports as a problem.    *)
(***************************************************************************)
THEOREM IndexPrecise == ASSUME RangesProper PROVE IndexSpec => []Precise
<1> DEFINE Inv == IndexInv /\ Accurate /\ StepsDue
<1>1. IndexInit => Inv
  BY InitInv, AccurateInit
<1>2. Inv /\ [IndexNext]_indexVars => Inv'
  <2> SUFFICES ASSUME Inv, [IndexNext]_indexVars PROVE Inv'
    OBVIOUS
  <2>1. IndexInv'
    BY IndexStep
  <2>2. CASE \E chosen \in SUBSET Record : Commit(chosen)
    BY <2>1, <2>2, AccurateCommit, RangesProper
  <2>3. CASE ApplyNext
    BY <2>1, <2>3, AccurateApply
  <2>4. CASE UNCHANGED indexVars
    BY <2>1, <2>4 DEF indexVars, index, Accurate, StepsDue, Known, Due
  <2>5. CASE IndexIdle
    BY <2>4, <2>5 DEF IndexIdle
  <2> QED BY <2>2, <2>3, <2>4, <2>5 DEF IndexNext
<1>3. Inv => Precise
  BY AccuratePrecise
<1> QED
  BY <1>1, <1>2, <1>3, PTL DEF IndexSpec
-----------------------------------------------------------------------------
(* Terms over the index. *)

\* The terms' own variables.
TermTyped ==
    /\ pc \in [Agent -> {"idle", "asking", "computing"}]
    /\ clause \in [Agent -> Nat]
    /\ \A a \in Agent : clause[a] \in 1..(Len(Clauses[a]) + 1)
    /\ latest \in [Agent -> 0..revision]
    /\ watermark \in [Agent -> (0..revision) \cup {Never}]
    /\ stored \in [Agent -> [reads : SUBSET Read, at : 0..revision]]
    /\ began \in [Agent -> 0..revision]

\* The place counts for a question about a region.
Concerns(region, x) == region = {} \/ x \in region \cup {Nowhere}

\* What evaluate has been told so far: no change before the call, of a clause it has asked
\* about, is later than the latest it found.  Changes of the meantime may be.
Heard(a) ==
    \A n \in DOMAIN Clauses[a], k \in Located, x \in Place :
        /\ n < clause[a]
        /\ k \in Clauses[a][n].kinds /\ Concerns(Clauses[a][n].region, x)
        /\ truth[k][x] <= began[a]
        => truth[k][x] <= latest[a]

\* A stored value was computed no earlier than the watermark it is filed under, and from
\* what the dependency declares.
FiledTrue(a) ==
    watermark[a] # Never => watermark[a] <= stored[a].at /\ Covers(a, stored[a].reads)

TermInv ==
    /\ TermTyped
    /\ \A a \in Agent : pc[a] = "asking" => Heard(a)
    /\ \A a \in Agent : FiledTrue(a)

\* Dependencies name kinds and addresses.
LEMMA ClauseFacts ==
    ASSUME NEW a \in Agent
    PROVE  /\ Len(Clauses[a]) \in Nat /\ DOMAIN Clauses[a] = 1..Len(Clauses[a])
           /\ \A n \in DOMAIN Clauses[a] :
                Clauses[a][n].kinds \in SUBSET Kind /\ Clauses[a][n].region \in SUBSET Address
<1> DEFINE Clause == [kinds : SUBSET Kind, region : SUBSET Address]
<1>1. Clauses[a] \in Seq(Clause)
  BY TermAssumption
<1>2. \A e \in Clause : e.kinds \in SUBSET Kind /\ e.region \in SUBSET Address
  OBVIOUS
<1> HIDE DEF Clause
<1>3. Len(Clauses[a]) \in Nat /\ DOMAIN Clauses[a] = 1..Len(Clauses[a])
  BY <1>1
<1>4. \A n \in DOMAIN Clauses[a] : Clauses[a][n] \in Clause
  BY <1>1, <1>3
<1> QED BY <1>2, <1>3, <1>4

\* The index's answers are about revisions the project has reached.
LEMMA ChangedBefore ==
    ASSUME IndexTypeOK, NEW kinds \in SUBSET Kind, NEW region \in SUBSET Address,
           NEW since \in Nat, ChangedSince(since, kinds, region)
    PROVE  since < revision
<1>1. PICK k \in kinds : IF HomeOf[k] \in Mark THEN mark[HomeOf[k]] > since
                         ELSE GroupChangedSince(since, HomeOf[k], region)
  BY DEF ChangedSince
<1>2. HomeOf[k] \in Group \cup Mark
  BY IndexAssumption
<1>3. revision \in Nat
  BY DEF IndexTypeOK
<1>4. CASE HomeOf[k] \in Mark
  BY <1>1, <1>3, <1>4 DEF IndexTypeOK
<1>5. CASE HomeOf[k] \notin Mark
  <2>1. /\ floor[HomeOf[k]] \in 0..revision /\ max[HomeOf[k]] \in 0..revision
        /\ \A x \in Address : cells[HomeOf[k]][x] \in 0..revision
    BY <1>2, <1>5 DEF IndexTypeOK
  <2> QED BY <1>1, <1>3, <1>5, <2>1 DEF GroupChangedSince
<1> QED BY <1>4, <1>5

\* ChangeIndex::latest_change is above every revision since which something changed, and
\* the project has reached it.
LEMMA LatestFacts ==
    ASSUME IndexTypeOK, NEW kinds \in SUBSET Kind, NEW region \in SUBSET Address
    PROVE  /\ LatestChange(kinds, region) \in 0..revision
           /\ \A since \in 0..MaxRevision :
                ChangedSince(since, kinds, region) => since < LatestChange(kinds, region)
<1> DEFINE Changed(n) == ChangedSince(n, kinds, region)
           Good(n) == /\ \A since \in n..MaxRevision : ~Changed(since)
                      /\ n = 0 \/ Changed(n - 1)
           Above == {n \in 0..MaxRevision : \A since \in n..MaxRevision : ~Changed(since)}
<1>1. MaxRevision \in Nat /\ revision \in 0..MaxRevision
  BY IndexAssumption DEF IndexTypeOK
<1>2. \A n \in Nat : Changed(n) => n < revision
  BY ChangedBefore
<1> HIDE DEF Changed
<1>3. MaxRevision \in Above
  BY <1>1, <1>2
<1>4. PICK n \in Above : \A m \in Above : ~(m < n)
  <2>1. Above \subseteq Nat /\ Above # {}
    BY <1>3
  <2> HIDE DEF Above
  <2>2. \E n \in Above : \A m \in Above : ~(<<m, n>> \in OpToRel(<, Nat))
    BY <2>1, NatLessThanWellFounded, WFMin
  <2>3. \A m, n \in Above : m < n => <<m, n>> \in OpToRel(<, Nat)
    BY <2>1 DEF OpToRel
  <2> QED BY <2>2, <2>3
<1>5. Good(n)
  <2>1. CASE n = 0
    BY <2>1
  <2>2. CASE n # 0
    <3>1. n \in Nat /\ n - 1 \in 0..MaxRevision /\ n - 1 \notin Above
      BY <1>1, <1>4, <2>2
    <3>2. PICK since \in (n - 1)..MaxRevision : Changed(since)
      BY <3>1
    <3>3. since = n - 1
      BY <1>1, <3>1, <3>2
    <3> QED BY <3>2, <3>3
  <2> QED BY <2>1, <2>2
<1>6. LatestChange(kinds, region) = CHOOSE m \in 0..MaxRevision : Good(m)
  BY DEF LatestChange, Changed
<1> DEFINE l == LatestChange(kinds, region)
<1>7. l \in 0..MaxRevision /\ Good(l)
  <2> HIDE DEF Good
  <2> QED BY <1>5, <1>6
<1> HIDE DEF l
<1>8. l \in 0..revision
  BY <1>1, <1>2, <1>7
<1>9. \A since \in 0..MaxRevision : Changed(since) => since < l
  BY <1>1, <1>7
<1> QED BY <1>8, <1>9 DEF Changed, l

\* A commit changes at its own revision, and only then.
LEMMA CommitTruth ==
    ASSUME IndexTypeOK, NEW chosen \in SUBSET Record, Commit(chosen)
    PROVE  /\ revision' = revision + 1
           /\ \A k \in Kind, x \in Place :
                truth'[k][x] = truth[k][x] \/ truth'[k][x] = revision + 1
BY DEF Commit

\* Every term starts unasked, at the revision the index starts with.
LEMMA TermInit == ASSUME Init PROVE TermInv
<1>1. \A a \in Agent : Len(Clauses[a]) \in Nat
  BY ClauseFacts
<1>2. revision = 0
  BY DEF Init, IndexInit
<1>3. TermTyped
  BY <1>1, <1>2, TermAssumption DEF Init, TermTyped
<1> QED BY <1>3 DEF Init, TermInv, FiledTrue

\* One clause more has been asked about: the index is conservative, so its answer is no
\* earlier than any change the clause is about.
LEMMA AskHeard ==
    ASSUME IndexInv, TermInv, NEW a \in Agent, Ask(a)
    PROVE  TermInv'
<1> DEFINE c == Clauses[a][clause[a]]
           l == LatestChange(c.kinds, c.region)
<1>1. /\ pc[a] = "asking" /\ clause[a] \in DOMAIN Clauses[a] /\ todo = {}
      /\ latest' = [latest EXCEPT ![a] = Larger(latest[a], l)]
      /\ clause' = [clause EXCEPT ![a] = clause[a] + 1]
      /\ UNCHANGED <<truth, revision, pc, watermark, stored, began>>
  BY DEF Ask, MayEnter, indexVars
<1>2. c.kinds \in SUBSET Kind /\ c.region \in SUBSET Address
  BY <1>1, ClauseFacts
<1>t. IndexTypeOK /\ revision \in Nat /\ revision <= MaxRevision /\ MaxRevision \in Nat
  BY IndexAssumption DEF IndexInv, IndexTypeOK
<1> HIDE DEF l
<1>3. /\ l \in 0..revision
      /\ \A since \in 0..MaxRevision : ChangedSince(since, c.kinds, c.region) => since < l
  BY <1>2, <1>t, LatestFacts DEF l
<1> HIDE DEF c
<1>4. /\ latest[a] \in 0..revision /\ Larger(latest[a], l) \in 0..revision
      /\ latest[a] <= Larger(latest[a], l) /\ l <= Larger(latest[a], l)
  BY <1>3, <1>t DEF TermInv, TermTyped, Larger
<1>5. TermTyped'
  <2>1. latest' \in [Agent -> 0..revision]
    BY <1>1, <1>4 DEF TermInv, TermTyped
  <2>2. clause' \in [Agent -> Nat]
    BY <1>1 DEF TermInv, TermTyped
  <2>3. \A b \in Agent : clause'[b] \in 1..(Len(Clauses[b]) + 1)
    BY <1>1, ClauseFacts, SMTT(30) DEF TermInv, TermTyped
  <2> QED BY <1>1, <2>1, <2>2, <2>3 DEF TermInv, TermTyped
<1>6. \A b \in Agent \ {a} : pc'[b] = "asking" => Heard(b)'
  BY <1>1 DEF TermInv, TermTyped, Heard
<1>7. Heard(a)'
  <2> SUFFICES ASSUME NEW n \in DOMAIN Clauses[a], NEW k \in Located, NEW x \in Place,
                      n < clause[a] + 1,
                      k \in Clauses[a][n].kinds, Concerns(Clauses[a][n].region, x),
                      truth[k][x] <= began[a]
               PROVE  truth[k][x] <= Larger(latest[a], l)
    BY <1>1 DEF Heard, TermInv, TermTyped
  <2>1. truth[k][x] \in 0..revision
    BY <1>t DEF IndexTypeOK, Located
  <2>2. CASE n < clause[a]
    <3>1. truth[k][x] <= latest[a]
      BY <1>1, <2>2 DEF TermInv, Heard
    <3> QED BY <1>3, <1>4, <1>t, <2>1, <3>1
  <2>3. CASE ~(n < clause[a])
    <3>1. n = clause[a]
      BY <2>3, ClauseFacts, SMTT(30) DEF TermInv, TermTyped
    <3>2. CASE truth[k][x] = 0
      BY <1>4, <1>t, <3>2
    <3>3. CASE truth[k][x] # 0
      <4>1. truth[k][x] - 1 \in 0..revision /\ truth[k][x] > truth[k][x] - 1
        BY <1>t, <2>1, <3>3
      <4>2. TrulyChanged(truth[k][x] - 1, {k}, c.region)
        BY <3>1, <4>1 DEF TrulyChanged, Concerns, c
      <4>3. ChangedSince(truth[k][x] - 1, {k}, c.region)
        BY <1>1, <1>2, <4>1, <4>2, InvConservative DEF Conservative
      <4>4. ChangedSince(truth[k][x] - 1, c.kinds, c.region)
        BY <3>1, <4>3 DEF ChangedSince, c
      <4>5. truth[k][x] - 1 < l
        BY <1>3, <1>t, <4>1, <4>4
      <4> QED BY <1>3, <1>4, <1>t, <2>1, <4>5
    <3> QED BY <3>2, <3>3
  <2> QED BY <2>2, <2>3
<1>8. \A b \in Agent : FiledTrue(b)'
  BY <1>1 DEF TermInv, FiledTrue
<1> QED BY <1>5, <1>6, <1>7, <1>8 DEF TermInv

\* The other steps of evaluate.
LEMMA TermStep ==
    ASSUME IndexInv, TermInv, NEW a \in Agent,
           Evaluate(a) \/ Hit(a) \/ Open(a) \/ Finish(a)
    PROVE  TermInv' /\ UNCHANGED indexVars
<1>t. revision \in Nat
  BY DEF IndexInv, IndexTypeOK
<1>1. UNCHANGED indexVars /\ truth' = truth /\ revision' = revision
  BY DEF Evaluate, Hit, Open, Finish, Abandon, Store, indexVars
<1>2. CASE Evaluate(a)
  <2>1. /\ pc' = [pc EXCEPT ![a] = "asking"] /\ clause' = [clause EXCEPT ![a] = 1]
        /\ latest' = [latest EXCEPT ![a] = 0] /\ began' = [began EXCEPT ![a] = revision]
        /\ UNCHANGED <<watermark, stored>>
    BY <1>2 DEF Evaluate
  <2>2. TermTyped'
    BY <1>t, <1>1, <2>1, ClauseFacts DEF TermInv, TermTyped
  <2>3. Heard(a)'
    BY <2>1, ClauseFacts DEF Heard, TermInv, TermTyped
  <2>4. \A b \in Agent \ {a} : pc'[b] = "asking" => Heard(b)'
    BY <1>1, <2>1 DEF Heard, TermInv, TermTyped
  <2>5. \A b \in Agent : FiledTrue(b)'
    BY <2>1 DEF TermInv, FiledTrue
  <2> QED BY <1>1, <2>2, <2>3, <2>4, <2>5 DEF TermInv
<1>3. CASE Hit(a) \/ Open(a) \/ Abandon(a)
  <2>1. /\ \E p \in {"idle", "computing"} : pc' = [pc EXCEPT ![a] = p]
        /\ UNCHANGED <<clause, latest, watermark, stored, began>>
    BY <1>3 DEF Hit, Open, Abandon
  <2>2. TermTyped'
    BY <1>1, <2>1 DEF TermInv, TermTyped
  <2>3. \A b \in Agent : pc'[b] = "asking" => Heard(b)'
    BY <1>1, <2>1 DEF Heard, TermInv, TermTyped
  <2>4. \A b \in Agent : FiledTrue(b)'
    BY <2>1 DEF TermInv, FiledTrue
  <2> QED BY <1>1, <2>2, <2>3, <2>4 DEF TermInv
<1>4. ASSUME NEW reads \in ReadSets, Store(a, reads) PROVE TermInv'
  <2>1. /\ Covers(a, reads) /\ pc' = [pc EXCEPT ![a] = "idle"]
        /\ watermark' = [watermark EXCEPT ![a] = latest[a]]
        /\ stored' = [stored EXCEPT ![a] = [reads |-> reads, at |-> revision]]
        /\ UNCHANGED <<clause, latest, began>>
    BY <1>4 DEF Store
  <2>2. reads \in SUBSET Read /\ latest[a] \in 0..revision
    BY TermAssumption DEF TermInv, TermTyped
  <2>3. TermTyped'
    BY <1>t, <1>1, <2>1, <2>2 DEF TermInv, TermTyped
  <2>4. \A b \in Agent : pc'[b] = "asking" => Heard(b)'
    BY <1>1, <2>1 DEF Heard, TermInv, TermTyped
  <2>5. FiledTrue(a)'
    <3>1. watermark'[a] = latest[a] /\ stored'[a] = [reads |-> reads, at |-> revision]
      BY <2>1 DEF TermInv, TermTyped
    <3> QED BY <1>t, <2>1, <2>2, <3>1 DEF FiledTrue, Covers
  <2>6. \A b \in Agent \ {a} : FiledTrue(b)'
    BY <2>1 DEF TermInv, TermTyped, FiledTrue, Covers
  <2> QED BY <2>3, <2>4, <2>5, <2>6 DEF TermInv
<1> QED BY <1>1, <1>2, <1>3, <1>4 DEF Finish

\* The worker's steps change nothing that evaluate was told about.
LEMMA WorkerStep ==
    ASSUME IndexInv, TermInv, UNCHANGED termVars,
           \/ \E chosen \in SUBSET Record : Commit(chosen)
           \/ revision' = revision /\ truth' = truth
    PROVE  TermInv'
<1>t. IndexTypeOK /\ revision \in Nat
  BY DEF IndexInv, IndexTypeOK
<1>1. /\ revision' \in Nat /\ revision <= revision'
      /\ \A k \in Kind, x \in Place :
           truth'[k][x] = truth[k][x] \/ truth'[k][x] = revision + 1
  BY <1>t, CommitTruth
<1>2. UNCHANGED <<pc, clause, latest, watermark, stored, began>>
  BY DEF termVars
<1>3. 0..revision \subseteq 0..revision'
  BY <1>t, <1>1
<1>4. TermTyped'
  BY <1>2, <1>3 DEF TermInv, TermTyped
<1>5. \A a \in Agent : pc[a] = "asking" => Heard(a)'
  <2> SUFFICES ASSUME NEW a \in Agent, pc[a] = "asking",
                      NEW n \in DOMAIN Clauses[a], NEW k \in Located, NEW x \in Place,
                      n < clause[a],
                      k \in Clauses[a][n].kinds, Concerns(Clauses[a][n].region, x),
                      truth'[k][x] <= began[a]
               PROVE  truth'[k][x] <= latest[a]
    BY <1>2 DEF Heard
  <2>1. k \in Kind /\ began[a] \in 0..revision
    BY DEF Located, TermInv, TermTyped
  <2>2. truth'[k][x] = truth[k][x]
    BY <1>t, <1>1, <2>1 DEF IndexTypeOK
  <2> QED BY <2>2 DEF TermInv, Heard
<1>6. \A a \in Agent : FiledTrue(a)'
  BY <1>2 DEF TermInv, FiledTrue
<1> QED BY <1>2, <1>4, <1>5, <1>6 DEF TermInv

\* Every step around the index is a step of the index or leaves it alone.
LEMMA IndexStepOfNext == ASSUME [Next]_vars PROVE [IndexNext]_indexVars
<1>1. ASSUME NEW a \in Agent, Evaluate(a) \/ Ask(a) \/ Hit(a) \/ Open(a) \/ Finish(a)
      PROVE  UNCHANGED indexVars
  BY <1>1 DEF Evaluate, Ask, Hit, Open, Finish, Abandon, Store
<1>2. ASSUME Want \/ GiveUp \/ UNCHANGED vars PROVE UNCHANGED indexVars
  BY <1>2 DEF Want, GiveUp, vars
<1>3. ASSUME NEW chosen \in SUBSET Record, Publish(chosen) PROVE Commit(chosen)
  BY <1>3 DEF Publish
<1>4. ASSUME Apply PROVE ApplyNext
  BY <1>4 DEF Apply
<1> QED BY <1>1, <1>2, <1>3, <1>4 DEF Next, IndexNext

\* Every step of the readers and of the index keeps what a term knows in step with it.
LEMMA TermInvStep == ASSUME IndexInv, TermInv, [Next]_vars PROVE IndexInv' /\ TermInv'
<1>1. ASSUME NEW a \in Agent, Ask(a) PROVE TermInv'
  BY <1>1, AskHeard
<1>2. ASSUME NEW a \in Agent, Evaluate(a) \/ Hit(a) \/ Open(a) \/ Finish(a) PROVE TermInv'
  BY <1>2, TermStep
<1>3. ASSUME Want \/ GiveUp \/ UNCHANGED vars PROVE TermInv'
  <2>1. UNCHANGED indexVars /\ UNCHANGED termVars
    BY <1>3 DEF Want, GiveUp, vars
  <2>2. revision' = revision /\ truth' = truth
    BY <2>1 DEF indexVars
  <2> QED BY <2>1, <2>2, WorkerStep
<1>4. ASSUME NEW chosen \in SUBSET Record, Publish(chosen) PROVE TermInv'
  BY <1>4, WorkerStep DEF Publish
<1>5. ASSUME Apply PROVE TermInv'
  BY <1>5, WorkerStep DEF Apply, ApplyNext
<1>6. TermInv'
  BY <1>1, <1>2, <1>3, <1>4, <1>5 DEF Next
<1> QED BY <1>6, IndexStep, IndexStepOfNext

\* A hit is of what the watermark was filed for.
LEMMA HitIsFresh == ASSUME IndexInv, TermInv PROVE HitFresh
<1> SUFFICES ASSUME NEW a \in Agent, Asked(a), watermark[a] = latest[a],
                    NEW r \in stored[a].reads, r.kind \in Located,
                    NEW x \in Place, truth[r.kind][x] > stored[a].at,
                    truth[r.kind][x] <= began[a], r.cells = {} \/ x \in r.cells \cup {Nowhere}
             PROVE  FALSE
  BY DEF HitFresh, Disturbed
<1>1. /\ latest[a] \in Nat /\ watermark[a] # Never /\ stored[a].at \in Nat
      /\ truth[r.kind][x] \in Nat
  <2>1. revision \in Nat /\ truth[r.kind][x] \in 0..revision
    BY DEF IndexInv, IndexTypeOK, Located
  <2>2. latest[a] \in 0..revision /\ stored[a].at \in 0..revision
    BY DEF TermInv, TermTyped
  <2> QED BY <2>1, <2>2, TermAssumption
<1>2. watermark[a] <= stored[a].at /\ Covers(a, stored[a].reads)
  BY <1>1 DEF TermInv, FiledTrue
<1>3. PICK n \in DOMAIN Clauses[a] :
        /\ r.kind \in Clauses[a][n].kinds
        /\ \/ Clauses[a][n].region = {}
           \/ r.cells # {} /\ r.cells \subseteq Clauses[a][n].region
  BY <1>2 DEF Covers
<1>4. Concerns(Clauses[a][n].region, x)
  BY <1>3 DEF Concerns
<1>5. n < clause[a]
  BY ClauseFacts DEF Asked, TermInv, TermTyped
<1>6. truth[r.kind][x] <= latest[a]
  BY <1>3, <1>4, <1>5 DEF TermInv, Asked, Heard
<1> QED BY <1>1, <1>2, <1>6

\* The invariant of the terms and the index they ask.
LEMMA TermInvariance == Spec => [](IndexInv /\ TermInv)
<1>1. Init => IndexInv /\ TermInv
  BY InitInv, TermInit DEF Init
<1>2. IndexInv /\ TermInv /\ [Next]_vars => (IndexInv /\ TermInv)'
  BY TermInvStep
<1> QED BY <1>1, <1>2, PTL DEF Spec

(***************************************************************************)
(* Term::evaluate never returns a cached value from before a change, made  *)
(* before the call, of something the value was computed from, whatever is  *)
(* committed between its questions to the index.                           *)
(***************************************************************************)
THEOREM HitsAreFresh == Spec => []HitFresh
<1>1. IndexInv /\ TermInv => HitFresh
  BY HitIsFresh
<1> QED BY <1>1, TermInvariance, PTL

(***************************************************************************)
(* The worker that takes the publication lock for every commit, and the    *)
(* terms that ask in between, use the index as ChangeIndex specifies it:   *)
(* what is proved of the index alone holds for the index the terms ask.    *)
(***************************************************************************)
THEOREM TermsUseIndex == Spec => IndexSpec
<1>1. Init => IndexInit
  BY DEF Init
<1>2. [Next]_vars => [IndexNext]_indexVars
  BY IndexStepOfNext
<1> QED BY <1>1, <1>2, PTL DEF Spec, IndexSpec
=============================================================================
