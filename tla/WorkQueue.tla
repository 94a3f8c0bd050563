------------------------------ MODULE WorkQueue ------------------------------
(***************************************************************************)
(* The work queue of the analysis engine, fugue-core's                     *)
(* engine/scheduler/work.rs: regional work items ordered by a key, a       *)
(* location index per analyser, coalescing of equal locations, collapse of *)
(* an over-full analyser to one item per address space, splitting to a     *)
(* byte budget and cancellation of a region.                               *)
(*                                                                         *)
(* The queue is owned by the worker thread, so its operations never        *)
(* overlap.  An operation that loops over several inserts (schedule,       *)
(* requeue_continuation, cancel) is one start action and one step per      *)
(* iteration; while iterations are outstanding (Busy) nothing else is      *)
(* enabled.                                                                *)
(***************************************************************************)
EXTENDS Integers, FiniteSets

CONSTANTS
    Analyser,      \* the analysers (AnalyserId)
    OrderOf,       \* the rank of an analyser's name (AnalyserOrder)
    PhaseOf,       \* the fixed phase of an analyser, as its rank
    Space,         \* address-space identifiers
    MaxAddress,    \* the largest offset in a space
    Priority,      \* priorities, the smallest first
    Trigger,       \* what a cause can name: a change or a dependency
    MaxAttempts,   \* an analyser's retry budget
    AttemptLimit,  \* the largest attempt count, u8::MAX
    CancelPhases,  \* the phases a retraction cancels
    MaxWorkItems,  \* MAX_WORK_ITEMS_PER_ANALYSER
    MaxCauses,     \* MAX_WORK_ITEM_CAUSES
    SliceBytes,    \* WORK_SLICE_BYTES
    BatchItems,    \* WORK_BATCH_ITEMS
    Regions,       \* the regions that requests and retractions name
    MaxRequests,   \* bound: how many of them there are in a behaviour
    None           \* Option::None

Region       == 0   \* WorkKind::Region
Continuation == 1   \* WorkKind::Continuation

Offset       == 0..MaxAddress
Address      == Space \X Offset
AddressRange == {r \in [space : Space, start : Offset, end : Offset] : r.start <= r.end}

(***************************************************************************)
(* A cause is the set of triggers it stands for.  One schedule makes a     *)
(* singleton; coarsening two causes makes their union.                     *)
(***************************************************************************)
Cause == SUBSET Trigger

WorkItem == [analyser : Analyser, range : AddressRange \cup {None}, priority : Priority,
             causes : SUBSET Cause, attempts : 0..AttemptLimit,
             kind : {Region, Continuation}]

WorkKey == [phase : Nat, address : Address \cup {None}, priority : Priority,
            order : Nat, kind : {Region, Continuation}, end : Offset]

Locations == (AddressRange \cup {None}) \X {Region, Continuation}

ASSUME QueueAssumption ==
    /\ Analyser # {}
    /\ OrderOf \in [Analyser -> Nat]
    /\ \A a, b \in Analyser : OrderOf[a] = OrderOf[b] => a = b
    /\ PhaseOf \in [Analyser -> Nat]
    /\ Space \subseteq Nat
    /\ IsFiniteSet(Space)
    /\ MaxAddress \in Nat
    /\ Priority \subseteq Nat
    /\ MaxAttempts \in Nat \ {0}
    /\ AttemptLimit \in Nat
    /\ MaxWorkItems \in Nat \ {0}
    /\ MaxCauses \in Nat \ {0}
    /\ SliceBytes \in Nat \ {0}
    /\ BatchItems \in Nat \ {0}
    /\ Regions \subseteq SUBSET Address
    /\ MaxRequests \in Nat
    /\ None \notin AddressRange
    /\ None \notin Address
    /\ None \notin Space

VARIABLES
    items,       \* the queue: work key -> work item
    index,       \* per analyser: location -> work key
    reported,    \* degradation kind -> scope told to the worker, or None
    todo,        \* items the running operation still has to insert
    cancelling,  \* the running cancel: its region and the keys left, or None
    batch,       \* the items the worker has popped and not yet disposed of
    spent,       \* bytes of the batch being filled
    filling,     \* pop_batch is still looking for items
    panicked,    \* an assert or expect of the queue has failed
    requests,    \* how many requests and retractions have arrived
    owed,        \* history: <<analyser, address, trigger>> asked for and still due
    asked        \* history: <<analyser, address>> ever asked for

queue == <<items, index, reported, panicked>>
vars  == <<items, index, reported, todo, cancelling, batch, spent, filling,
           panicked, requests, owed, asked>>
-----------------------------------------------------------------------------
(* Finite maps *)

Put(f, k, v)  == [x \in DOMAIN f \cup {k} |-> IF x = k THEN v ELSE f[x]]
Drop(f, K)    == [x \in DOMAIN f \ K |-> f[x]]
IsMap(f, D, R) == /\ f = [x \in DOMAIN f |-> f[x]]
                  /\ DOMAIN f \subseteq D
                  /\ \A x \in DOMAIN f : f[x] \in R
Empty         == [x \in {} |-> None]
Larger(x, y)  == IF x >= y THEN x ELSE y
Smaller(x, y) == IF x <= y THEN x ELSE y

-----------------------------------------------------------------------------
(* Ranges, keys and locations *)

Cells(r)  == {r.space} \X (r.start..r.end)
Size(r)   == r.end - r.start + 1
Hull(R)   == [space |-> (CHOOSE r \in R : TRUE).space,
              start |-> (CHOOSE r \in R : \A s \in R : r.start <= s.start).start,
              end   |-> (CHOOSE r \in R : \A s \in R : s.end <= r.end).end]

\* The ranges of an AddressRangeSet: its maximal runs.
RangesOf(region) ==
    {r \in AddressRange : /\ Cells(r) \subseteq region
                   /\ <<r.space, r.start - 1>> \notin region
                   /\ <<r.space, r.end + 1>> \notin region}

\* What an item is about: its addresses, or None for project-wide work.
Covers(i) == IF i.range = None THEN {None} ELSE Cells(i.range)
Cost(i)   == IF i.range = None THEN 1 ELSE Size(i.range)

Triggers(i) == UNION i.causes

\* Faulty form of KeyOf: ranges that differ only in extent share a key.
KeyWithoutEnd(i) ==
    [phase    |-> PhaseOf[i.analyser],
     address  |-> IF i.range = None THEN None ELSE <<i.range.space, i.range.start>>,
     priority |-> i.priority, order |-> OrderOf[i.analyser], kind |-> i.kind, end |-> 0]

KeyOf(i) == [phase    |-> PhaseOf[i.analyser],
             address  |-> IF i.range = None THEN None
                          ELSE <<i.range.space, i.range.start>>,
             priority |-> i.priority,
             order    |-> OrderOf[i.analyser],
             kind     |-> i.kind,
             end      |-> IF i.range = None THEN 0 ELSE i.range.end]

Location(i) == <<i.range, i.kind>>

\* Option<Address> order: None first, then space, then offset.
AddressBefore(x, y) ==
    \/ x = None /\ y # None
    \/ /\ x # None /\ y # None
       /\ \/ x[1] < y[1]
          \/ x[1] = y[1] /\ x[2] < y[2]

\* The derived order of WorkKey: field by field.
KeyBefore(j, k) ==
    \/ j.phase < k.phase
    \/ /\ j.phase = k.phase
       /\ \/ AddressBefore(j.address, k.address)
          \/ /\ j.address = k.address
             /\ \/ j.priority < k.priority
                \/ /\ j.priority = k.priority
                   /\ \/ j.order < k.order
                      \/ /\ j.order = k.order
                         /\ \/ j.kind < k.kind
                            \/ j.kind = k.kind /\ j.end < k.end

IsFirst(k, K) == k \in K /\ \A j \in K : ~KeyBefore(j, k)
-----------------------------------------------------------------------------
(* Causes and degradations *)

(***************************************************************************)
(* WorkItem::absorb.  The causes already held keep their places, the new   *)
(* ones fill the list up to MaxCauses, and the last place is coarsened     *)
(* with everything that did not fit.  The list's order, which decides who  *)
(* is last and who fits, is abstracted to a choice.                        *)
(***************************************************************************)
\* Faulty form of Overflows: the list of causes is never full.
NeverOverflows(held, new) == FALSE

Overflows(held, new) == Cardinality(held \cup new) > MaxCauses

\* The causes that keep a place and, second, the one in the last place.
Placements(held, new) ==
    {p \in (SUBSET (held \cup new)) \X (held \cup new) :
        /\ held \subseteq p[1]
        /\ Cardinality(p[1]) = MaxCauses
        /\ p[2] \in p[1]
        /\ p[2] \in held => p[1] = held}

\* Faulty form of Absorbed: a cause that does not fit is dropped.
AbsorbedOrDropped(held, new) == {IF Overflows(held, new) THEN held ELSE held \cup new}

Absorbed(held, new) ==
    IF ~Overflows(held, new)
    THEN {held \cup new}
    ELSE {(p[1] \ {p[2]}) \cup {p[2] \cup UNION ((held \cup new) \ p[1])} :
             p \in Placements(held, new)}

Degradation == {"CausesMerged", "RangesCollapsed"}

\* ProblemScope: a set of addresses that is a range, a whole space or everything.
Global    == Address \cup {None}
\* ProblemScope::covering, of any number of scopes.
Covering(S) ==
    IF Cardinality(S) = 1 THEN CHOOSE s \in S : TRUE
    ELSE IF \E x \in Space : UNION S \subseteq {x} \X Offset
         THEN {x \in Address : \E y \in UNION S : y[1] = x[1]}
         ELSE Global
ScopeOf(i) == IF i.range = None THEN Global ELSE Cells(i.range)

\* Faulty form of Note: only the first event of a kind is kept.
NoteFirst(rep, kind, scopes) ==
    [rep EXCEPT ![kind] = IF scopes = {} \/ @ # None THEN @ ELSE Covering(scopes)]

\* DegradationReport::push: one event per kind, its scope covering all of them.
Note(rep, kind, scopes) ==
    [rep EXCEPT ![kind] = IF scopes = {} THEN @ ELSE Covering(scopes \cup ({@} \ {None}))]
-----------------------------------------------------------------------------
(* Insertion *)

\* insert: work at a location already queued is merged into the queued item.
Promote(its, idx, i) ==
    LET a   == i.analyser
        key == idx[a][Location(i)]
        old == its[key]
    IN  /\ Location(i) \in DOMAIN idx[a]
        /\ key \in DOMAIN its
        /\ \E c \in Absorbed(old.causes, i.causes) :
              LET new  == [old EXCEPT !.causes   = c,
                                      !.attempts = Larger(@, i.attempts),
                                      !.priority = Smaller(@, i.priority)]
                  rest == Drop(its, {key})
              IN  /\ items' = Put(rest, KeyOf(new), new)
                  /\ index' = [idx EXCEPT ![a] = Put(@, Location(i), KeyOf(new))]
                  /\ panicked' = (KeyOf(new) \in DOMAIN rest)
        /\ reported' = Note(reported, "CausesMerged",
                            IF Overflows(old.causes, i.causes) THEN {ScopeOf(i)} ELSE {})

\* insert_distinct's two maps and its assertion.
Placed(its, i)      == Put(its, KeyOf(i), i)
Indexed(idx, i)     == [idx EXCEPT ![i.analyser] = Put(@, Location(i), KeyOf(i))]
Clashes(its, idx, i) == \/ KeyOf(i) \in DOMAIN its
                        \/ Location(i) \in DOMAIN idx[i.analyser]

\* collapse keeps one item per address space and kind.
Group(i) == <<IF i.range = None THEN None ELSE i.range.space, i.kind>>

\* The first of a group in location order: its causes keep their places.
FirstOf(M) ==
    CHOOSE i \in M : \A j \in M : \/ i.range = None
                                  \/ i.range.start < j.range.start
                                  \/ /\ i.range.start = j.range.start
                                     /\ i.range.end <= j.range.end

CollapsedItem(M, c) ==
    LET first == FirstOf(M)
    IN  [first EXCEPT
            !.range    = IF @ = None THEN None ELSE Hull({j.range : j \in M}),
            !.causes   = c,
            !.attempts = (CHOOSE j \in M : \A k \in M : k.attempts <= j.attempts).attempts,
            !.priority = (CHOOSE j \in M : \A k \in M : j.priority <= k.priority).priority]

GroupCauses(M) == Absorbed(FirstOf(M).causes, UNION {j.causes : j \in M})

\* The maps once the items under some keys have given way to new ones.
Replaced(its, keys, new) ==
    [k \in (DOMAIN its \ keys) \cup {KeyOf(i) : i \in new} |->
        IF k \in DOMAIN its \ keys THEN its[k] ELSE CHOOSE i \in new : KeyOf(i) = k]

Reindexed(new) ==
    [l \in {Location(i) : i \in new} |-> KeyOf(CHOOSE i \in new : Location(i) = l)]

Collapse(its, idx, a) ==
    LET keys   == {idx[a][l] : l \in DOMAIN idx[a]}
        old    == {its[k] : k \in keys \cap DOMAIN its}
        groups == {Group(i) : i \in old}
        Members(g) == {i \in old : Group(i) = g}
        mixed  == {g \in groups : \E i, j \in Members(g) : i.causes # j.causes}
        merged == {g \in groups : \E i, j \in Members(g) : i # j}
    IN  \E pick \in [groups -> UNION {GroupCauses(Members(g)) : g \in groups}] :
          LET made == [g \in groups |-> CollapsedItem(Members(g), pick[g])]
              new  == {made[g] : g \in groups}
              Scopes(G) == {ScopeOf(made[g]) : g \in G}
          IN  /\ \A g \in groups : pick[g] \in GroupCauses(Members(g))
              /\ items' = Replaced(its, keys, new)
              /\ index' = [idx EXCEPT ![a] = Reindexed(new)]
              /\ panicked' = \/ ~(keys \subseteq DOMAIN its)
                             \/ \E i \in new : KeyOf(i) \in DOMAIN its \ keys
                             \/ \E i, j \in new : i # j /\ (KeyOf(i) = KeyOf(j)
                                                            \/ Location(i) = Location(j))
              /\ reported' = Note(Note(reported, "CausesMerged", Scopes(mixed)),
                                  "RangesCollapsed", Scopes(merged))

Insert(its, idx, i) ==
    LET grown == Cardinality(DOMAIN Indexed(idx, i)[i.analyser])
        known == /\ Location(i) \in DOMAIN idx[i.analyser]
                 /\ idx[i.analyser][Location(i)] \in DOMAIN its
    IN  \/ Promote(its, idx, i)
        \/ /\ ~known
           /\ grown <= MaxWorkItems
           /\ items' = Placed(its, i)
           /\ index' = Indexed(idx, i)
           /\ panicked' = Clashes(its, idx, i)
           /\ UNCHANGED reported
        \/ /\ ~known
           /\ grown > MaxWorkItems
           /\ Collapse(Placed(its, i), Indexed(idx, i), i.analyser)
-----------------------------------------------------------------------------
(* Operations *)

Busy == todo # {} \/ cancelling # None \/ filling

Debts(i) == {i.analyser} \X Covers(i) \X Triggers(i)

\* schedule: one item per range of the region, or one project-wide item.
NewItem(a, p, r, t) ==
    [analyser |-> a, range |-> r, priority |-> p, causes |-> {{t}},
     attempts |-> 0, kind |-> Region]

Schedule(a, p, region, t) ==
    LET ranges == IF region = {} THEN {None} ELSE RangesOf(region)
        new    == {NewItem(a, p, r, t) : r \in ranges}
    IN  /\ ~Busy
        /\ requests < MaxRequests
        /\ requests' = requests + 1
        /\ todo' = new
        /\ owed' = owed \cup UNION {Debts(i) : i \in new}
        /\ asked' = asked \cup UNION {{a} \X Covers(i) : i \in new}
        /\ UNCHANGED <<queue, cancelling, batch, spent, filling>>

\* One iteration of the running operation's insertions.
InsertNext ==
    /\ \E i \in todo : /\ IsFirst(KeyOf(i), {KeyOf(j) : j \in todo})
                       /\ todo' = todo \ {i}
                       /\ Insert(items, index, i)
    /\ UNCHANGED <<cancelling, batch, spent, filling, requests, owed, asked>>

\* pop: the first item, cut to the budget; the rest of it goes back.
Pop(budget) ==
    \E key \in DOMAIN items :
      LET item == items[key]
          r    == item.range
          its  == Drop(items, {key})
          idx  == [index EXCEPT ![item.analyser] = Drop(@, {Location(item)})]
          cut  == [item EXCEPT !.range.end = r.start + budget - 1]
          tail == [item EXCEPT !.range.start = r.start + budget]
          Take(i) == /\ batch' = batch \cup {i}
                     /\ spent' = spent + Cost(i)
                     /\ owed' = owed \ Debts(i)
      IN  /\ IsFirst(key, DOMAIN items)
          /\ \/ /\ Cost(item) <= budget
                /\ Take(item)
                /\ items' = its
                /\ index' = idx
                /\ UNCHANGED <<reported, panicked>>
             \/ /\ Cost(item) > budget
                /\ Take(cut)
                /\ Insert(its, idx, tail)

PopFirst ==
    /\ ~Busy
    /\ batch = {}
    /\ Pop(SliceBytes)
    /\ filling' = TRUE
    /\ UNCHANGED <<todo, cancelling, requests, asked>>

\* Faulty forms: a batch mixes fresh and continued work, or ignores its byte budget.
JoinsAnyKind(i) == \A j \in batch : i.analyser = j.analyser
CanOverspend ==
    /\ Cardinality(batch) < BatchItems
    /\ \E k \in DOMAIN items : IsFirst(k, DOMAIN items) /\ \A j \in batch :
          items[k].analyser = j.analyser /\ items[k].kind = j.kind

\* pop_batch goes on while the next item belongs with the first and fits.
Joins(i) == \A j \in batch : i.analyser = j.analyser /\ i.kind = j.kind
CanGrow ==
    /\ Cardinality(batch) < BatchItems
    /\ spent < SliceBytes
    /\ \E k \in DOMAIN items : IsFirst(k, DOMAIN items) /\ Joins(items[k])

PopNext ==
    /\ filling
    /\ CanGrow
    /\ Pop(SliceBytes - spent)
    /\ UNCHANGED <<todo, cancelling, filling, requests, asked>>

BatchReady ==
    /\ filling
    /\ ~CanGrow
    /\ filling' = FALSE
    /\ spent' = 0
    /\ UNCHANGED <<queue, todo, cancelling, batch, requests, owed, asked>>

\* cancel: collect the affected keys ...
Cancel(region) ==
    /\ ~Busy
    /\ requests < MaxRequests
    /\ requests' = requests + 1
    /\ cancelling' =
          [region |-> region,
           keys |-> {k \in DOMAIN items :
                        /\ PhaseOf[items[k].analyser] \in CancelPhases
                        /\ items[k].range # None
                        /\ Cells(items[k].range) \cap region # {}}]
    /\ owed' = {d \in owed : ~(PhaseOf[d[1]] \in CancelPhases /\ d[2] \in region)}
    /\ UNCHANGED <<queue, todo, batch, spent, filling, asked>>

\* ... then take each one out and put back what survives of it.
CancelNext ==
    /\ cancelling # None
    /\ todo = {}
    /\ cancelling.keys # {}
    /\ \E k \in cancelling.keys :
          /\ IsFirst(k, cancelling.keys)
          /\ cancelling' = [cancelling EXCEPT !.keys = @ \ {k}]
          /\ \/ /\ k \notin DOMAIN items
                /\ UNCHANGED <<items, index, todo>>
             \/ /\ k \in DOMAIN items
                /\ LET item == items[k]
                   IN  /\ items' = Drop(items, {k})
                       /\ index' = [index EXCEPT ![item.analyser] =
                                       Drop(@, {Location(item)})]
                       /\ todo' = {[item EXCEPT !.range = r] :
                                      r \in RangesOf(Covers(item) \ cancelling.region)}
    /\ UNCHANGED <<reported, panicked, batch, spent, filling, requests, owed, asked>>

CancelDone ==
    /\ cancelling # None
    /\ todo = {}
    /\ cancelling.keys = {}
    /\ cancelling' = None
    /\ UNCHANGED <<queue, todo, batch, spent, filling, requests, owed, asked>>
-----------------------------------------------------------------------------
(* What the worker does with a popped batch once the analyser has run *)

Dispose(requeued) ==
    /\ ~Busy
    /\ batch # {}
    /\ batch' = {}
    /\ todo' = requeued
    /\ owed' = owed \cup UNION {Debts(i) : i \in requeued}
    /\ UNCHANGED <<queue, cancelling, spent, filling, requests, asked>>

Committed        == Dispose({})
CommittedPending == Dispose({[i EXCEPT !.kind = Continuation] : i \in batch})
Conflicted       == Dispose(batch)

\* handle_dispatch_failure: an item at its retry budget is given up.
Failed ==
    LET tried == {[i EXCEPT !.attempts = Smaller(@ + 1, AttemptLimit)] : i \in batch}
    IN  Dispose({i \in tried : i.attempts < MaxAttempts})

\* No work and nothing more to come: the worker waits on its intake channel.
Drained ==
    /\ ~Busy
    /\ batch = {}
    /\ items = Empty
    /\ requests = MaxRequests
    /\ UNCHANGED vars

Init ==
    /\ items = Empty
    /\ index = [a \in Analyser |-> Empty]
    /\ reported = [d \in Degradation |-> None]
    /\ todo = {}
    /\ cancelling = None
    /\ batch = {}
    /\ spent = 0
    /\ filling = FALSE
    /\ panicked = FALSE
    /\ requests = 0
    /\ owed = {}
    /\ asked = {}

Next ==
    /\ ~panicked
    /\ \/ \E a \in Analyser, p \in Priority, region \in Regions, t \in Trigger :
             Schedule(a, p, region, t)
       \/ InsertNext
       \/ PopFirst
       \/ PopNext
       \/ BatchReady
       \/ \E region \in Regions \ {{}} : Cancel(region)
       \/ CancelNext
       \/ CancelDone
       \/ Committed
       \/ CommittedPending
       \/ Conflicted
       \/ Failed
       \/ Drained

Spec == Init /\ [][Next]_vars
-----------------------------------------------------------------------------
(* Properties *)

Queued == {items[k] : k \in DOMAIN items}
Held   == Queued \cup todo

Agrees(its, idx) ==
    /\ \A k \in DOMAIN its :
          LET i == its[k]
          IN  /\ KeyOf(i) = k
              /\ Location(i) \in DOMAIN idx[i.analyser]
              /\ idx[i.analyser][Location(i)] = k
    /\ \A a \in Analyser : \A l \in DOMAIN idx[a] :
          /\ idx[a][l] \in DOMAIN its
          /\ its[idx[a][l]].analyser = a
          /\ Location(its[idx[a][l]]) = l

MapsTyped(its, idx) ==
    /\ IsMap(its, WorkKey, WorkItem)
    /\ idx = [a \in Analyser |-> idx[a]]
    /\ \A a \in Analyser : IsMap(idx[a], Locations, WorkKey)

\* The values that the queue's fields and the worker's batch range over.
TypeOK ==
    /\ MapsTyped(items, index)
    /\ reported \in [Degradation -> {None} \cup SUBSET Global]
    /\ todo \subseteq WorkItem
    /\ \/ cancelling = None
       \/ cancelling \in [region : SUBSET Address, keys : SUBSET WorkKey]
    /\ batch \subseteq WorkItem
    /\ spent \in 0..SliceBytes
    /\ filling \in BOOLEAN
    /\ panicked \in BOOLEAN
    /\ requests \in 0..MaxRequests
    /\ owed \subseteq Analyser \X Global \X Trigger
    /\ asked \subseteq Analyser \X Global

(***************************************************************************)
(* The two BTreeMaps of AnalysisWorkQueue describe the same items: every   *)
(* item sits under its own key and its analyser's index names that key at  *)
(* its location, and every index entry names such an item.  A merge, a     *)
(* collapse, a split or a cancellation that updated only one of them would *)
(* strand work: it would be popped twice, or never.                        *)
(***************************************************************************)
IndexAgrees == Agrees(items, index)

(***************************************************************************)
(* No assertion of the queue fails: promoted and distinct work always has  *)
(* a key and a location of its own, and a location names a queued item.    *)
(***************************************************************************)
NoPanic == ~panicked

(***************************************************************************)
(* No request is lost: whatever an analyser was asked to look at and has   *)
(* not been handed, nor had cancelled, is covered by an item held for that *)
(* analyser whose causes still mention the trigger, whatever merges,       *)
(* collapses, splits and requeues happened in between.                     *)
(***************************************************************************)
NoWorkLost ==
    \A d \in owed : \E i \in Held : /\ i.analyser = d[1]
                                    /\ d[2] \in Covers(i)
                                    /\ d[3] \in Triggers(i)

(***************************************************************************)
(* The queue of an analyser is bounded: beyond MAX_WORK_ITEMS_PER_ANALYSER *)
(* items it holds at most one per address space and kind, and no item      *)
(* carries more than MAX_WORK_ITEM_CAUSES causes.                          *)
(***************************************************************************)
Bounded ==
    /\ \A a \in Analyser :
          \/ Cardinality(DOMAIN index[a]) <= MaxWorkItems
          \/ \A i, j \in Queued :
                i.analyser = a /\ j.analyser = a /\ Group(i) = Group(j) => i = j
    /\ \A i \in Held : Cardinality(i.causes) <= MaxCauses

(***************************************************************************)
(* Widened work is reported: when a held item covers an address nobody     *)
(* asked its analyser to look at, a RangesCollapsed degradation whose      *)
(* scope covers that address has been handed to the worker.                *)
(***************************************************************************)
WideningReported ==
    \A i \in Held : \A x \in Covers(i) :
        \/ <<i.analyser, x>> \in asked
        \/ /\ reported["RangesCollapsed"] # None
           /\ x \in reported["RangesCollapsed"]

(***************************************************************************)
(* A batch is one dispatch: it fits the byte and item budgets and its      *)
(* items share analyser and kind.                                          *)
(***************************************************************************)
BatchFits ==
    /\ spent <= SliceBytes
    /\ Cardinality(batch) <= BatchItems
    /\ \A i, j \in batch : i.analyser = j.analyser /\ i.kind = j.kind

(***************************************************************************)
(* What cancel's test asserts of the surviving items: once a cancellation  *)
(* is over, no queued item of a cancelled phase touches the region.        *)
(***************************************************************************)
CancelClears ==
    [][CancelDone => \A i \in Queued :
          PhaseOf[i.analyser] \in CancelPhases /\ i.range # None
             => Cells(i.range) \cap cancelling.region = {}]_vars
=============================================================================
