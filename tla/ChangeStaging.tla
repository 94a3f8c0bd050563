---------------------------- MODULE ChangeStaging ----------------------------
(***************************************************************************)
(* What a transaction announces: ChangeStaging collects the change records *)
(* of a ProjectTransaction, keeps one record per function and per          *)
(* placement of a mapping, keeps counts of their kinds, and gives up the   *)
(* detail past MAX_DETAILED_CHANGE_RECORDS.  From                          *)
(* project/transaction/mod.rs, function.rs and segment.rs.                 *)
(*                                                                         *)
(* A function is the set of places it covers (empty when it does not       *)
(* exist), a mapping the set of places where it is placed.  An operation   *)
(* changes the staged tables and lists the records it pushes (todo); they  *)
(* are pushed one at a time, and nothing comes between them.               *)
(***************************************************************************)
EXTENDS Naturals, Sequences, FiniteSets, SequencesExt

CONSTANTS
  Entry,        \* functions, by entry
  Mapping,      \* segment mappings
  Place,        \* addresses
  Asserted,     \* functions that byte and mapping changes do not remove
  Before,       \* the functions before the transaction
  Placed,       \* the mappings before the transaction
  MaxRecords,   \* MAX_DETAILED_CHANGE_RECORDS
  MaxOps        \* bound on the operations of a transaction

ASSUME StagingAssumption ==
  /\ IsFiniteSet(Entry) /\ IsFiniteSet(Place)
  /\ Asserted \subseteq Entry
  /\ Before \in [Entry -> SUBSET Place]
  /\ Placed \in [Mapping -> SUBSET Place]
  /\ MaxRecords \in Nat \ {0} /\ MaxOps \in Nat

VARIABLES
  staging,   \* the ChangeStaging
  todo,      \* the records that the current operation still pushes
  body,      \* the staged functions
  rebuilt,   \* the functions whose body an operation replaced
  placed,    \* the staged mappings
  retold,    \* where each mapping was when its metadata was updated
  ops        \* operations so far

transaction == <<staging, todo, body, rebuilt, placed, retold, ops>>

-----------------------------------------------------------------------------
(* Change records. *)

FunctionKinds == {"FunctionAdded", "FunctionChanged", "FunctionProperties", "FunctionRemoved"}
PlacementKinds == {"SegmentMapped", "SegmentUnmapped"}
Kind == FunctionKinds \cup PlacementKinds
          \cup {"SegmentMappingChanged", "BytesWritten", "Symbol", "Resynchronise"}

\* A record of a kind (ChangeRecord::kind) about an entity and its ranges.
ChangeRecord(k, id, cover) == [kind |-> k, id |-> id, cover |-> cover]
Resync == ChangeRecord("Resynchronise", "project", {})

\* ChangeRecord::affects_lifted_inputs.
AffectsLiftedInputs(r) == r.kind \notin {"FunctionProperties", "Symbol"}

\* StagedChangeKey::for_record: records with the same key become one.
Keyed(r) == r.kind \in FunctionKinds \cup PlacementKinds \cup {"SegmentMappingChanged"}
Key(r) ==
  IF r.kind \in FunctionKinds THEN <<"Function", r.id, {}>>
  ELSE IF r.kind \in PlacementKinds THEN <<r.kind, r.id, r.cover>>
  ELSE <<r.kind, r.id, {}>>

\* What a record and a later one with the same key amount to: the kind of the
\* net change, or "None" when nothing is left of them.
Net(earlier, later) ==
  CASE earlier = "FunctionAdded" /\ later = "FunctionRemoved" -> "None"
    [] earlier = "FunctionRemoved" /\ later # "FunctionRemoved" -> "FunctionChanged"
    [] earlier \in {"FunctionChanged", "FunctionProperties"}
         /\ later \in {"FunctionRemoved", "FunctionChanged"} -> later
    [] OTHER -> earlier

\* Mutant: the later record replaces the earlier one.
CoalesceLast(earlier, later) == ChangeRecord(Net(earlier.kind, later.kind), later.id, later.cover)

\* ChangeStaging::coalesce: coverage is only put together for functions.
Coalesce(earlier, later) ==
  ChangeRecord(Net(earlier.kind, later.kind), earlier.id,
               IF earlier.kind \in FunctionKinds THEN earlier.cover \cup later.cover
               ELSE earlier.cover)

-----------------------------------------------------------------------------
(* ChangeStaging. *)

One(b) == IF b THEN 1 ELSE 0

\* add_metadata and remove_metadata.
Counted(s, r) ==
  [s EXCEPT !.counts[r.kind] = @ + 1, !.kinds = @ \cup {r.kind},
            !.semantic = @ + One(AffectsLiftedInputs(r))]

Uncounted(s, r) ==
  [s EXCEPT !.counts[r.kind] = @ - 1,
            !.kinds = IF s.counts[r.kind] = 1 THEN @ \ {r.kind} ELSE @,
            !.semantic = @ - One(AffectsLiftedInputs(r))]

\* push after the detail was given up, and the push that gives it up.
Summarised(s, r) ==
  [s EXCEPT !.kinds = @ \cup {r.kind}, !.semantic = @ + One(AffectsLiftedInputs(r))]

\* Mutant: the metadata starts again with the record that overflowed.
CollapsedAnew(s, r) ==
  [records |-> <<Resync>>, indices |-> << >>, counts |-> [k \in Kind |-> 0],
   kinds |-> {r.kind}, semantic |-> One(AffectsLiftedInputs(r)), collapsed |-> TRUE]

Collapsed(s, r) ==
  [Summarised(s, r) EXCEPT !.records = <<Resync>>, !.indices = << >>,
                           !.counts = [k \in Kind |-> 0], !.collapsed = TRUE]

\* A function on the keys, with one key more or less.
With(f, key, i) == [k \in DOMAIN f \cup {key} |-> IF k = key THEN i ELSE f[k]]
Without(f, key) == [k \in DOMAIN f \ {key} |-> f[k]]

\* push of a record with a new key, or with none.
Appended(s, r) ==
  LET counted == Counted(s, r) IN
  [counted EXCEPT !.records = Append(@, r),
                  !.indices = IF Keyed(r) THEN With(@, Key(r), Len(s.records) + 1) ELSE @]

\* Mutant: the record that takes the removed one's position keeps its index.
DroppedOnly(s, i, key) ==
  LET last == Len(s.records) IN
  [s EXCEPT !.records = [j \in 1..(last - 1) |-> IF j = i THEN s.records[last] ELSE s.records[j]],
            !.indices = Without(@, key)]

\* swap_remove: the last record takes the position of the removed one.
Dropped(s, i, key) ==
  LET last == Len(s.records)
      moved == s.records[last]
      kept == Without(s.indices, key)
  IN [s EXCEPT !.records = [j \in 1..(last - 1) |-> IF j = i THEN moved ELSE s.records[j]],
               !.indices = IF i < last /\ Keyed(moved) /\ Key(moved) \in DOMAIN kept
                           THEN With(kept, Key(moved), i) ELSE kept]

\* Mutant: the record that is replaced stays counted.
MergedUncounted(s, i, r) ==
  LET net == Coalesce(s.records[i], r) IN
  IF net.kind = "None" THEN Dropped(s, i, Key(r))
  ELSE [Counted(s, net) EXCEPT !.records[i] = net]

\* push of a record whose key has a record at position i.
Merged(s, i, r) ==
  LET earlier == s.records[i]
      uncounted == Uncounted(s, earlier)
      net == Coalesce(earlier, r)
  IN IF net.kind = "None" THEN Dropped(uncounted, i, Key(r))
     ELSE [Counted(uncounted, net) EXCEPT !.records[i] = net]

\* Mutant: the limit is noticed one record late.
PushPastLimit(s, r) ==
  IF s.collapsed THEN Summarised(s, r)
  ELSE IF Keyed(r) /\ Key(r) \in DOMAIN s.indices THEN Merged(s, s.indices[Key(r)], r)
  ELSE IF Len(s.records) > MaxRecords THEN Collapsed(s, r)
  ELSE Appended(s, r)

\* ChangeStaging::push.
Push(s, r) ==
  IF s.collapsed THEN Summarised(s, r)
  ELSE IF Keyed(r) /\ Key(r) \in DOMAIN s.indices THEN Merged(s, s.indices[Key(r)], r)
  ELSE IF Len(s.records) = MaxRecords THEN Collapsed(s, r)
  ELSE Appended(s, r)

-----------------------------------------------------------------------------
(* The operations of a transaction. *)

Ready == todo = << >> /\ ops < MaxOps

\* stage_function_removal of the recovered functions in a range
\* (invalidate_functions_in_range).
Invalid(rs) == { f \in Entry \ Asserted : body[f] \cap rs # {} }
Removed(fs) == SetToSeq({ ChangeRecord("FunctionRemoved", f, body[f]) : f \in fs })
Removals(rs) == Removed(Invalid(rs))

\* add_function, add_functions and changes of membership: the function's body
\* is staged, over the one it replaces if there is one.
StageFunction(f, cover) ==
  /\ Ready
  /\ todo' = << ChangeRecord(IF body[f] = {} THEN "FunctionAdded" ELSE "FunctionChanged",
                             f, body[f] \cup cover) >>
  /\ body' = [body EXCEPT ![f] = cover]
  /\ rebuilt' = rebuilt \cup {f}
  /\ ops' = ops + 1
  /\ UNCHANGED <<staging, placed, retold>>

UpdateFunctionProperties(f) ==
  /\ Ready /\ body[f] # {}
  /\ todo' = << ChangeRecord("FunctionProperties", f, body[f]) >>
  /\ ops' = ops + 1
  /\ UNCHANGED <<staging, body, rebuilt, placed, retold>>

StageFunctionRemoval(f) ==
  /\ Ready /\ body[f] # {}
  /\ todo' = << ChangeRecord("FunctionRemoved", f, body[f]) >>
  /\ body' = [body EXCEPT ![f] = {}]
  /\ rebuilt' = rebuilt \cup {f}
  /\ ops' = ops + 1
  /\ UNCHANGED <<staging, placed, retold>>

\* What a change of the bytes at the places of rs does to the functions.
Invalidated(rs) ==
  /\ body' = [f \in Entry |-> IF f \in Invalid(rs) THEN {} ELSE body[f]]
  /\ rebuilt' = rebuilt \cup Invalid(rs)

WriteBytes(p) ==
  /\ Ready
  /\ todo' = Append(Removals({p}), ChangeRecord("BytesWritten", "bytes", {p}))
  /\ Invalidated({p})
  /\ ops' = ops + 1
  /\ UNCHANGED <<staging, placed, retold>>

\* add_mapping_to_space, and prioritise_mapping or deprioritise_mapping of a
\* mapping that is there already.
AddMappingToSpace(m, p) ==
  /\ Ready
  /\ placed' = [placed EXCEPT ![m] = @ \cup {p}]
  /\ todo' = << ChangeRecord("SegmentMapped", m, {p}) >> \o Removals({p})
  /\ Invalidated({p})
  /\ ops' = ops + 1
  /\ UNCHANGED <<staging, retold>>

\* remap_mapping and resize_mapping (to other places) and remove_mapping (to
\* none): the functions at the old places are removed, then those at the new.
Placements(k, m, rs) == SetToSeq({ ChangeRecord(k, m, {p}) : p \in rs })
MoveMapping(m, new) ==
  /\ Ready /\ placed[m] # {}
  /\ placed' = [placed EXCEPT ![m] = new]
  /\ todo' = Placements("SegmentUnmapped", m, placed[m]) \o Removals(placed[m])
             \o Placements("SegmentMapped", m, new)
             \o Removed(Invalid(new) \ Invalid(placed[m]))
  /\ Invalidated(placed[m] \cup new)
  /\ ops' = ops + 1
  /\ UNCHANGED <<staging, retold>>

UpdateMappingMetadata(m) ==
  /\ Ready
  /\ todo' = << ChangeRecord("SegmentMappingChanged", m, placed[m]) >>
  /\ retold' = [retold EXCEPT ![m] = @ \cup placed[m]]
  /\ ops' = ops + 1
  /\ UNCHANGED <<staging, body, rebuilt, placed>>

\* A record without a key and without effect on lifting: those commit adds for
\* symbols, references, problems and switches, and those of removed IL.
PublishSymbol ==
  /\ Ready
  /\ todo' = << ChangeRecord("Symbol", "symbol", {}) >>
  /\ ops' = ops + 1
  /\ UNCHANGED <<staging, body, rebuilt, placed, retold>>

PushNext ==
  /\ todo # << >>
  /\ staging' = Push(staging, Head(todo))
  /\ todo' = Tail(todo)
  /\ UNCHANGED <<body, rebuilt, placed, retold, ops>>

StagingInit ==
  /\ staging = [records |-> << >>, indices |-> << >>, counts |-> [k \in Kind |-> 0],
                kinds |-> {}, semantic |-> 0, collapsed |-> FALSE]
  /\ todo = << >> /\ body = Before /\ rebuilt = {}
  /\ placed = Placed /\ retold = [m \in Mapping |-> {}] /\ ops = 0

StagingNext ==
  \/ \E f \in Entry, cover \in (SUBSET Place) \ {{}} : StageFunction(f, cover)
  \/ \E f \in Entry : UpdateFunctionProperties(f)
  \/ \E f \in Entry : StageFunctionRemoval(f)
  \/ \E p \in Place : WriteBytes(p)
  \/ \E m \in Mapping, p \in Place : AddMappingToSpace(m, p)
  \/ \E m \in Mapping, new \in SUBSET Place : MoveMapping(m, new)
  \/ \E m \in Mapping : UpdateMappingMetadata(m)
  \/ PublishSymbol
  \/ PushNext

StagingSpec == StagingInit /\ [][StagingNext]_transaction

-----------------------------------------------------------------------------
Positions == DOMAIN staging.records
About(f) == { i \in Positions : staging.records[i].kind \in FunctionKinds /\ staging.records[i].id = f }

\* The staging holds at most MAX_DETAILED_CHANGE_RECORDS records, and its
\* counts are within them.
StagingTypeOK ==
  /\ Len(staging.records) <= MaxRecords
  /\ staging.counts \in [Kind -> 0..MaxRecords]
  /\ staging.kinds \subseteq Kind
  /\ staging.semantic \in Nat

\* The index names the one record of every key, through all coalescing and
\* removals of records (push, swap_remove).
IndexExact ==
  staging.collapsed
  \/ /\ \A i \in Positions :
          Keyed(staging.records[i]) =>
            /\ Key(staging.records[i]) \in DOMAIN staging.indices
            /\ staging.indices[Key(staging.records[i])] = i
     /\ \A key \in DOMAIN staging.indices :
          /\ staging.indices[key] \in Positions
          /\ Key(staging.records[staging.indices[key]]) = key

\* kinds, counts and semantic() agree with the records they summarise, so
\* remove_metadata never finds a count of zero and no kind is announced that
\* no record has (add_metadata, remove_metadata).
MetadataExact ==
  staging.collapsed
  \/ /\ \A k \in Kind :
          staging.counts[k] = Cardinality({ i \in Positions : staging.records[i].kind = k })
     /\ staging.kinds = { staging.records[i].kind : i \in Positions }
     /\ staging.semantic =
          Cardinality({ i \in Positions : AffectsLiftedInputs(staging.records[i]) })

\* The index, the counts, the kinds and the semantic count describe the records of
\* the transaction after every sequence of pushes, coalescings and removals: what
\* push and swap_remove maintain separately never drifts apart.
StagingExact == IndexExact /\ MetadataExact

\* The kind of record that tells what a transaction did to a function.
NetKinds(f) ==
  IF Before[f] = {} THEN {"FunctionAdded"}
  ELSE IF body[f] = {} THEN {"FunctionRemoved"}
  ELSE IF f \in rebuilt THEN {"FunctionChanged"}
  ELSE {"FunctionChanged", "FunctionProperties"}

\* Between operations every function that a transaction left different is
\* told of by one record, of the kind of the net change and covering the
\* function's places before and after; a function that came and went is not
\* told of at all (coalesce).
NetReported ==
  todo # << >> \/ staging.collapsed
  \/ \A f \in Entry :
       /\ Before[f] = {} /\ body[f] = {} => About(f) = {}
       /\ f \in rebuilt /\ (Before[f] # {} \/ body[f] # {}) =>
            \E i \in Positions :
              /\ About(f) = {i}
              /\ staging.records[i].kind \in NetKinds(f)
              /\ Before[f] \cup body[f] \subseteq staging.records[i].cover

\* A transaction that replaced or removed a function is known to have changed
\* the inputs of lifting, collapsed or not: materialise_erased refuses IL
\* after it, and commit advances the semantic revision.
SemanticKept ==
  todo = << >> =>
    ((\E f \in rebuilt : Before[f] # {} \/ body[f] # {}) => staging.semantic > 0)

\* The record of a mapping's metadata covers every place where the mapping
\* was when its metadata was updated (update_mapping_metadata).
MetadataPlaces ==
  todo # << >> \/ staging.collapsed
  \/ \A m \in Mapping : retold[m] # {} =>
       \E i \in Positions :
         /\ staging.records[i].kind = "SegmentMappingChanged" /\ staging.records[i].id = m
         /\ retold[m] \subseteq staging.records[i].cover
=============================================================================
