---------------------------- MODULE ChangeIndex ----------------------------
(***************************************************************************)
(* The change index behind QueryReader::latest_change and changed_since:   *)
(* fugue-core's queries/index.rs, fed by the worker's with_transaction and *)
(* begin_publish.                                                          *)
(*                                                                         *)
(* For seven groups of change kinds the index keeps, per address, the      *)
(* revision that last touched it; for the other kinds it keeps one         *)
(* watermark each.  A census every CensusInterval insertions throws the    *)
(* detail of a group with too many runs away and raises its floor instead. *)
(* The worker applies a change set while it holds the publication lock, so *)
(* the steps of one application (todo) are seen by nobody.                 *)
(***************************************************************************)
EXTENDS Integers, FiniteSets

CONSTANTS
    Space,           \* address-space identifiers
    MaxAddress,      \* the largest offset in a space
    Kind,            \* change kinds (ChangeKinds bits)
    Group,           \* region groups (RegionGroupKind)
    Mark,            \* global watermarks (GlobalWatermarks)
    HomeOf,          \* the group or the watermark of each kind
    Record,          \* the change records transactions are made of
    Problem,         \* the record of a ChangeIndexCollapsed problem
    Resync,          \* the Resynchronise record
    MaxDetailed,     \* MAX_DETAILED_CHANGE_RECORDS
    MaxRuns,         \* MAX_CHANGE_RUNS
    CensusInterval,  \* CENSUS_INTERVAL
    MaxRevision,     \* bound: how many transactions commit
    Nowhere          \* the place of a change without address

Address == Space \X (0..MaxAddress)
Place   == Address \cup {Nowhere}

\* A record's kind and the ranges it names, each as its set of addresses.
ChangeRecord == [kind : Kind, ranges : SUBSET SUBSET Address]

ASSUME IndexAssumption ==
    /\ MaxAddress \in Nat
    /\ Group \cap Mark = {}
    /\ HomeOf \in [Kind -> Group \cup Mark]
    /\ Record \subseteq ChangeRecord
    /\ Problem \in ChangeRecord
    /\ Resync \in ChangeRecord
    /\ HomeOf[Resync.kind] \in Mark
    /\ Resync \notin Record \cup {Problem}
    /\ MaxDetailed \in Nat \ {0}
    /\ MaxRuns \in Nat
    /\ CensusInterval \in Nat \ {0}
    /\ MaxRevision \in Nat
    /\ Nowhere \notin Address

VARIABLES
    revision,  \* the project's revision
    truth,     \* history: the revision that last changed a kind at a place
    floor,     \* per group: everything counts as changed at this revision
    max,       \* per group: the last revision that touched it
    cells,     \* per group and address: the revision that touched it, 0 for none
    inserts,   \* per group: insertions since the last census
    mark,      \* the global watermarks
    todo,      \* what the running application has still to do
    deferred,  \* a ChangeIndexCollapsed problem waits for the next transaction
    told       \* history: the last revision at which such a problem was deferred

index     == <<floor, max, cells, inserts, mark>>
indexVars == <<revision, truth, index, todo, deferred, told>>

Larger(x, y) == IF x >= y THEN x ELSE y
Untouched    == [x \in Address |-> 0]
-----------------------------------------------------------------------------
(* Transactions *)

\* ChangeStaging::finish: a transaction with too many records keeps no detail.
Staged(records) == IF Cardinality(records) > MaxDetailed THEN {Resync} ELSE records

Reach(r) == IF r.ranges = {} THEN {Nowhere} ELSE UNION r.ranges

\* apply works record by record and range by range; a watermark takes no range.
Steps(records) ==
    {s \in records \X SUBSET Address :
        IF HomeOf[s[1].kind] \in Group THEN s[2] \in s[1].ranges ELSE s[2] = {}}

\* with_transaction: the deferred problem is recorded along with the changes.
Commit(chosen) ==
    LET records == chosen \cup (IF deferred THEN {Problem} ELSE {})
        staged  == Staged(records)
    IN  /\ todo = {}
        /\ revision < MaxRevision
        /\ records # {}
        /\ revision' = revision + 1
        /\ truth' = [k \in Kind |-> [x \in Place |->
                        IF \E r \in records \cup staged : r.kind = k /\ x \in Reach(r)
                        THEN revision' ELSE truth[k][x]]]
        /\ todo' = Steps(staged)
        /\ deferred' = (Resync \in staged)
        /\ told' = IF Resync \in staged THEN revision' ELSE told
        /\ UNCHANGED index
-----------------------------------------------------------------------------
(* ChangeIndex::apply *)

\* RegionGroup::run_count: runs of addresses touched by one revision.
Runs(c) ==
    Cardinality({x \in Address : /\ c[x] # 0
                                 /\ \A y \in Address :
                                       y[1] = x[1] /\ y[2] + 1 = x[2] => c[y] # c[x]})

Touched(g, range) == [x \in Address |-> IF x \in range THEN revision ELSE cells[g][x]]

\* The census is due with this insertion.
CensusDue(g) == inserts[g] + 1 >= CensusInterval

\* RegionGroup::touch, without a compaction ...
Touch(g, range) ==
    /\ CensusDue(g) => Runs(Touched(g, range)) <= MaxRuns
    /\ cells' = [cells EXCEPT ![g] = Touched(g, range)]
    /\ max' = [max EXCEPT ![g] = Larger(@, revision)]
    /\ inserts' = [inserts EXCEPT ![g] = IF CensusDue(g) THEN 0 ELSE @ + 1]
    /\ UNCHANGED <<floor, mark, deferred, told>>

\* Faulty forms of TouchAndCompact: the old floor stays; nobody is told.
CompactAndForget(g, range) ==
    /\ CensusDue(g)
    /\ Runs(Touched(g, range)) > MaxRuns
    /\ cells' = [cells EXCEPT ![g] = Untouched]
    /\ max' = [max EXCEPT ![g] = Larger(@, revision)]
    /\ inserts' = [inserts EXCEPT ![g] = 0]
    /\ deferred' = TRUE
    /\ told' = revision
    /\ UNCHANGED <<mark, floor>>
CompactInSilence(g, range) ==
    /\ CensusDue(g)
    /\ Runs(Touched(g, range)) > MaxRuns
    /\ cells' = [cells EXCEPT ![g] = Untouched]
    /\ max' = [max EXCEPT ![g] = Larger(@, revision)]
    /\ floor' = [floor EXCEPT ![g] = Larger(max[g], revision)]
    /\ inserts' = [inserts EXCEPT ![g] = 0]
    /\ UNCHANGED <<mark, deferred, told>>

\* ... and with one; begin_publish hears of it and defers a problem.
TouchAndCompact(g, range) ==
    /\ CensusDue(g)
    /\ Runs(Touched(g, range)) > MaxRuns
    /\ cells' = [cells EXCEPT ![g] = Untouched]
    /\ max' = [max EXCEPT ![g] = Larger(@, revision)]
    /\ floor' = [floor EXCEPT ![g] = Larger(max[g], revision)]
    /\ inserts' = [inserts EXCEPT ![g] = 0]
    /\ deferred' = TRUE
    /\ told' = revision
    /\ UNCHANGED mark

\* Faulty form of Bump: a watermark ahead of the project.
BumpAhead(m) ==
    /\ mark' = [mark EXCEPT ![m] = Larger(@, revision + 1)]
    /\ UNCHANGED <<floor, max, cells, inserts, deferred, told>>

\* GlobalWatermarks::bump
Bump(m) ==
    /\ mark' = [mark EXCEPT ![m] = Larger(@, revision)]
    /\ UNCHANGED <<floor, max, cells, inserts, deferred, told>>

\* ChangeIndex::resynchronise: every group and every watermark has changed.
Resynchronise ==
    /\ floor' = [g \in Group |-> Larger(floor[g], revision)]
    /\ max' = [g \in Group |-> Larger(max[g], revision)]
    /\ cells' = [g \in Group |-> Untouched]
    /\ inserts' = [g \in Group |-> 0]
    /\ mark' = [m \in Mark |-> Larger(mark[m], revision)]
    /\ UNCHANGED <<deferred, told>>

ApplyNext ==
    /\ \E s \in todo :
          /\ todo' = todo \ {s}
          /\ \/ s[1] = Resync /\ Resynchronise
             \/ s[1] # Resync /\ HomeOf[s[1].kind] \in Mark /\ Bump(HomeOf[s[1].kind])
             \/ HomeOf[s[1].kind] \in Group /\ Touch(HomeOf[s[1].kind], s[2])
             \/ HomeOf[s[1].kind] \in Group /\ TouchAndCompact(HomeOf[s[1].kind], s[2])
    /\ UNCHANGED <<revision, truth>>
-----------------------------------------------------------------------------
(* Questions *)

\* ChangeIndex::changed_since; an empty region stands for everywhere.
GroupChangedSince(since, g, region) ==
    \/ floor[g] > since
    \/ region = {} /\ max[g] > since
    \/ \E x \in region : cells[g][x] > since

ChangedSince(since, kinds, region) ==
    \E k \in kinds : IF HomeOf[k] \in Mark THEN mark[HomeOf[k]] > since
                     ELSE GroupChangedSince(since, HomeOf[k], region)
-----------------------------------------------------------------------------
IndexInit ==
    /\ revision = 0
    /\ truth = [k \in Kind |-> [x \in Place |-> 0]]
    /\ floor = [g \in Group |-> 0]
    /\ max = [g \in Group |-> 0]
    /\ cells = [g \in Group |-> Untouched]
    /\ inserts = [g \in Group |-> 0]
    /\ mark = [m \in Mark |-> 0]
    /\ todo = {}
    /\ deferred = FALSE
    /\ told = 0

\* The worker waits for the next request.
IndexIdle ==
    /\ todo = {}
    /\ revision = MaxRevision
    /\ UNCHANGED indexVars

IndexNext ==
    \/ \E chosen \in SUBSET Record : Commit(chosen)
    \/ ApplyNext
    \/ IndexIdle

IndexSpec == IndexInit /\ [][IndexNext]_indexVars
-----------------------------------------------------------------------------
(* Properties *)

\* The values that the index and the application's steps range over.
IndexTypeOK ==
    /\ revision \in 0..MaxRevision
    /\ truth \in [Kind -> [Place -> 0..revision]]
    /\ floor \in [Group -> 0..revision]
    /\ max \in [Group -> 0..revision]
    /\ cells \in [Group -> [Address -> 0..revision]]
    /\ inserts \in [Group -> 0..(CensusInterval - 1)]
    /\ mark \in [Mark -> 0..revision]
    /\ todo \subseteq (Record \cup {Problem, Resync}) \X SUBSET Address
    /\ deferred \in BOOLEAN
    /\ told \in 0..revision

\* A change of some kind that the question is about: one in the region, or one without address.
TrulyChanged(since, kinds, region) ==
    \E k \in kinds, x \in Place : /\ truth[k][x] > since
                                  /\ region = {} \/ x \in region \cup {Nowhere}

\* The kinds whose records name addresses whenever the index files them by address.
Located ==
    {k \in Kind : \/ HomeOf[k] \in Mark
                  \/ \A r \in Record \cup {Problem} :
                        r.kind = k => r.ranges # {}}

(***************************************************************************)
(* The index is conservative, as test_change_index_compaction_is_          *)
(* conservative has it: between publications, a question about a kind, a   *)
(* region and a starting point is answered "unchanged" only if nothing of  *)
(* the sort was committed since, whatever the census and collapsed         *)
(* transactions threw away.                                                *)
(***************************************************************************)
Conservative ==
    todo = {} =>
        \A k \in Located, region \in SUBSET Address, since \in 0..revision :
            TrulyChanged(since, {k}, region) => ChangedSince(since, {k}, region)

(***************************************************************************)
(* The index is precise unless it said so: it answers "changed" without a  *)
(* change of that kind's group in the region (of that kind anywhere, when  *)
(* a watermark is kept for it) only about revisions before a collapse for  *)
(* which the worker deferred a ChangeIndexCollapsed problem.               *)
(***************************************************************************)
Precise ==
    \A k \in Kind, region \in SUBSET Address, since \in 0..revision :
        ChangedSince(since, {k}, region) =>
            \/ told > since
            \/ TrulyChanged(since, {j \in Kind : HomeOf[j] = HomeOf[k]},
                            IF HomeOf[k] \in Mark THEN {} ELSE region)

(***************************************************************************)
(* The memory of a group stays bounded: an insertion splits at most one    *)
(* run in three, and every CensusInterval-th insertion brings the number   *)
(* of runs back below MaxRuns.                                             *)
(***************************************************************************)
RunsBounded == \A g \in Group : Runs(cells[g]) <= MaxRuns + 2 * inserts[g]

(***************************************************************************)
(* What test_region_less_changes_are_observable asserts, for every kind: a *)
(* committed change without an address is seen by questions about any      *)
(* region.                                                                 *)
(***************************************************************************)
RegionLessObservable ==
    todo = {} =>
        \A k \in Kind, region \in SUBSET Address, since \in 0..revision :
            truth[k][Nowhere] > since => ChangedSince(since, {k}, region)

(***************************************************************************)
(* What the test census_bounds_run_count asserts after every change set: a *)
(* group exceeds the run bound by at most one census interval.             *)
(***************************************************************************)
CensusBounds == todo = {} => \A g \in Group : Runs(cells[g]) <= MaxRuns + CensusInterval
=============================================================================
