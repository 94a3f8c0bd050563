--------------------------- MODULE SegmentStaging ---------------------------
(***************************************************************************)
(* Segments in a transaction: SegmentStorageStaging collects what a        *)
(* ProjectTransaction does to mappings, spaces and bytes, and publish      *)
(* repeats it on the storage when the transaction commits.  From           *)
(* storage/segments/staging.rs and project/transaction/segment.rs.         *)
(*                                                                         *)
(* A project changes its segments in transactions only, one at a time.     *)
(* The publication is a list of steps, taken in order with nothing in      *)
(* between; a step that the storage refuses is an expect that fails.       *)
(***************************************************************************)
EXTENDS AddressSpaces

CONSTANTS MaxStaged,   \* bound on the operations of all transactions
          MaxTx        \* bound on the transactions

VARIABLES
  phase,      \* of the transaction
  stage,      \* SegmentStorageStaging
  agenda,     \* what publish has still to do
  reported,   \* the places that the change records name
  retold,     \* mappings with a SegmentMappingChanged record
  before,     \* what every address showed when the transaction began
  meant,      \* the providers' bytes, had every write been made at once
  expected,   \* what the storage should be after the commit
  staged, txs \* operations and transactions so far

transaction == <<phase, stage, agenda, reported, retold, before, meant, expected, staged, txs>>

-----------------------------------------------------------------------------
(* What is staged. *)

\* SegmentStorageStaging::default.
EmptyStage ==
  [created |-> NoEntries, altered |-> NoEntries, placements |-> <<>>, removed |-> {}, reservations |-> 0,
   synthetic |-> Nothing, writes |-> <<>>, spaces |-> NoEntries]

\* StagedMappingRecord::from_storage.
Plain(m) ==
  [space |-> m.space, start |-> m.start, size |-> m.size, offset |-> m.offset,
   provider |-> m.provider, meta |-> m.meta, writable |-> m.writable]

\* staged_mapping, for the ids that it knows.
StagedIds == (DOMAIN mappings \cup DOMAIN stage.created) \ stage.removed
StagedMapping(id) ==
  CASE id \in DOMAIN stage.created -> stage.created[id]
    [] id \in DOMAIN stage.altered -> stage.altered[id]
    [] OTHER -> Plain(mappings[id])

StagedSpaces == DOMAIN spaces \cup DOMAIN stage.spaces

\* has_mapping_placement.
HasMappingPlacement(s, id) ==
  \/ \E p \in ToSet(stage.placements) : p.space = s /\ p.id = id
  \/ s \in DOMAIN spaces /\ Placed(s, id)

\* set_mapping_placement: the later placement of a mapping in a space counts.
SetMappingPlacement(placements, s, id, end) ==
  Append(SelectSeq(placements, LAMBDA p : p.space # s \/ p.id # id), [space |-> s, id |-> id, end |-> end])

\* staged_mappings_in_space, the lowest first.
StagedList(s) ==
  LET committed == IF s \in DOMAIN spaces THEN PriorityList(spaces[s]) ELSE <<>>
      kept == SelectSeq(committed, LAMBDA id : id \notin stage.removed)
      own == SelectSeq(stage.placements, LAMBDA p : p.space = s)
      Place(list, p) == IF p.end = "top" THEN Append(Remove(list, p.id), p.id) ELSE <<p.id>> \o Remove(list, p.id)
  IN FoldLeft(Place, kept, own)

\* mapping_placements: the places of a mapping in every space.
ExtentIn(m) == m.start..(m.start + m.size - 1)
MappingPlacements(id) ==
  {s \in StagedSpaces : HasMappingPlacement(s, id)} \X ExtentIn(StagedMapping(id))

\* A created mapping changes as its builder, another one as a staged record.
Restaged(id, m) ==
  IF id \in DOMAIN stage.created THEN [stage EXCEPT !.created[id] = m]
  ELSE [stage EXCEPT !.altered = Assign(@, id, m)]

-----------------------------------------------------------------------------
(* Writes: prepare_write. *)

\* The size of a provider once the transaction has committed.
ProviderSizeStaged(p) ==
  LET committed == IF p \in DOMAIN providers THEN providers[p] ELSE 0
  IN IF stage.synthetic # Nothing /\ stage.synthetic.id = p THEN Max({stage.synthetic.size, committed})
     ELSE committed

\* The position in a list of the mapping that an address shows, 0 for none.
ShownAt(list, a) == Max({0} \cup {i \in DOMAIN list : a \in ExtentIn(StagedMapping(list[i]))})

\* Mutant: a chunk runs on under the mappings above it.
ChunkSizeToEnd(list, i, a, remaining) ==
  Min({remaining, StagedMapping(list[i]).start + StagedMapping(list[i]).size - a})

\* How much of a write the mapping at a position takes: to its end, or to the
\* start of a higher one.
ChunkSize(list, i, a, remaining) ==
  LET m == StagedMapping(list[i])
      above == {StagedMapping(list[j]).start : j \in (i + 1)..Len(list)}
  IN Min({remaining, m.start + m.size - a} \cup {start - a : start \in {x \in above : x > a}})

\* The chunks of a write, from left to right; the write fails as a whole.
PrepareWrite(s, a, data) ==
  LET list == StagedList(s)
      Chunk(acc, k) ==
        LET i == ShownAt(list, a + k - 1)
            m == StagedMapping(list[i])
            n == ChunkSize(list, i, a + k - 1, Len(data) - k + 1)
            offset == ToOffset(m, a + k - 1)
        IN IF ~acc.ok \/ k < acc.next THEN acc
           ELSE IF i = 0 \/ ~m.writable \/ offset + n > ProviderSizeStaged(m.provider)
           THEN [acc EXCEPT !.ok = FALSE]
           ELSE [ok |-> TRUE, next |-> k + n,
                 writes |-> Append(acc.writes, [provider |-> m.provider, offset |-> offset,
                                                data |-> SubSeq(data, k, k + n - 1)])]
  IN FoldLeft(Chunk, [ok |-> TRUE, next |-> 1, writes |-> <<>>], [k \in 1..Len(data) |-> k])

\* Mutant: the bytes are taken to be those of one mapping.
PendingWriteRangesOne(w) ==
  LET Hit(id) == {p \in MappingPlacements(id) :
                    ToOffset(StagedMapping(id), p[2]) \in w.offset..(w.offset + Len(w.data) - 1)}
      ids == {x \in StagedIds : StagedMapping(x).provider = w.provider /\ Hit(x) # {}}
  IN IF ids = {} THEN {} ELSE Hit(Max(ids))

\* pending_write_ranges_into: the places of every mapping of the bytes.
PendingWriteRanges(w) ==
  UNION {{p \in MappingPlacements(id) :
            ToOffset(StagedMapping(id), p[2]) \in w.offset..(w.offset + Len(w.data) - 1)}
         : id \in {x \in StagedIds : StagedMapping(x).provider = w.provider}}

-----------------------------------------------------------------------------
(* Operations of the transaction. *)

\* What an address shows and reads as.
Content(s, a) ==
  LET b == Backing(mappings, spaces[s], a)
      x == <<b.provider, b.offset>>
  IN IF b = Nothing THEN Nothing
     ELSE <<b, IF x \in DOMAIN bytes THEN bytes[x] ELSE Nothing>>

Contents == [x \in (DOMAIN spaces) \X Addr |-> Content(x[1], x[2])]

BeginTransaction ==
  /\ Idle /\ phase \in {"none", "published"} /\ txs < MaxTx
  /\ phase' = "open" /\ txs' = txs + 1
  /\ stage' = EmptyStage /\ reported' = {} /\ retold' = {}
  /\ before' = Contents /\ meant' = bytes /\ expected' = Nothing
  /\ UNCHANGED <<segments, agenda, staged>>

\* A staged operation: what it stages, and the places its records name.
Staging(st, places) ==
  /\ phase = "open" /\ staged < MaxStaged /\ staged' = staged + 1
  /\ stage' = st /\ reported' = reported \cup places
  /\ UNCHANGED <<segments, phase, agenda, before, expected, txs>>

Reserved(b) ==
  [stage EXCEPT !.created = Assign(@, mappingCtr + stage.reservations, b), !.reservations = @ + 1]

\* create_mapping.
StageMapping(b) ==
  /\ b.provider \in DOMAIN providers /\ mappingCtr + stage.reservations < MaxMapping
  /\ Staging(Reserved(b), {})
  /\ UNCHANGED <<retold, meant>>

\* create_synthetic_mapping, with its placement.
StageSynthetic(s, a, data) ==
  LET p == IF stage.synthetic # Nothing THEN stage.synthetic.id ELSE SyntheticProvider
      committed == IF stage.synthetic # Nothing THEN {stage.synthetic.size} ELSE EndsIn(mappings, p)
      offset == Max(committed \cup EndsIn(stage.created, p) \cup EndsIn(stage.altered, p))
      id == mappingCtr + stage.reservations
      m == [space |-> s, start |-> a, size |-> Len(data), offset |-> offset, provider |-> p,
            meta |-> Synthetic, writable |-> TRUE]
  IN /\ s \in StagedSpaces /\ ValidRange(a, Len(data)) /\ id < MaxMapping
     /\ Staging([Reserved(m) EXCEPT
                   !.synthetic = [id |-> p, size |-> offset + Len(data)],
                   !.writes = Append(@, [provider |-> p, offset |-> offset, data |-> data]),
                   !.placements = SetMappingPlacement(@, s, id, DefaultEnd(Synthetic))],
                {s} \X ExtentIn(m))
     /\ meant' = LET put == {<<p, offset + i - 1>> : i \in 1..Len(data)}
                 IN [x \in DOMAIN meant \cup put |-> IF x \in put THEN data[x[2] - offset + 1] ELSE meant[x]]
     /\ UNCHANGED retold

\* create_space, create_space_with.
StageSpace(base) ==
  LET id == Cardinality(DOMAIN spaces) + Cardinality(DOMAIN stage.spaces)
      Base(s) == IF s \in DOMAIN spaces THEN spaces[s].base ELSE stage.spaces[s]
  IN /\ id < MaxSpace
     /\ base # Nothing => Base(base) = Nothing
     /\ Staging([stage EXCEPT !.spaces = Assign(@, id, base)], {})
     /\ UNCHANGED <<retold, meant>>

\* add_mapping_to_space and its forms for the top and the bottom, where the
\* mapping is not; prioritise_mapping and deprioritise_mapping, where it is.
StagePlacement(s, id, end) ==
  /\ Staging([stage EXCEPT !.placements = SetMappingPlacement(@, s, id, end)],
             {s} \X ExtentIn(StagedMapping(id)))
  /\ UNCHANGED <<retold, meant>>

StageAdd(s, id) == ~HasMappingPlacement(s, id) /\ StagePlacement(s, id, DefaultEnd(StagedMapping(id).meta))
StageAddAt(s, id, end) == ~HasMappingPlacement(s, id) /\ StagePlacement(s, id, end)
StageReprioritise(s, id, end) == HasMappingPlacement(s, id) /\ StagePlacement(s, id, end)

\* remove_mapping.
StageRemoval(id) ==
  LET kept == SelectSeq(stage.placements, LAMBDA p : p.id # id)
  IN /\ Staging(IF id \in DOMAIN stage.created
                THEN [stage EXCEPT !.created = Without(@, {id}), !.placements = kept]
                ELSE [stage EXCEPT !.altered = Without(@, {id}), !.removed = @ \cup {id}, !.placements = kept],
                MappingPlacements(id))
     /\ UNCHANGED <<retold, meant>>

\* remap_mapping and resize_mapping: the old places and the new are reported.
StageExtent(id, m) ==
  /\ ValidRange(m.start, m.size)
  /\ Staging(Restaged(id, m),
             MappingPlacements(id)
               \cup ({s \in StagedSpaces : HasMappingPlacement(s, id)} \X ExtentIn(m)))
  /\ UNCHANGED <<retold, meant>>

\* update_mapping_metadata: of several records of a mapping the first stays.
StageMetadata(id, meta) ==
  /\ Staging(Restaged(id, [StagedMapping(id) EXCEPT !.meta = meta]),
             IF id \in retold THEN {} ELSE MappingPlacements(id))
  /\ retold' = retold \cup {id}
  /\ UNCHANGED meant

\* write_bytes.
StageWrite(s, a, data) ==
  LET prepared == PrepareWrite(s, a, data)
      list == StagedList(s)
      Place(i) == LET m == StagedMapping(list[ShownAt(list, a + i - 1)])
                  IN <<m.provider, ToOffset(m, a + i - 1)>>
  IN /\ a + Len(data) - 1 <= TopAddr /\ prepared.ok
     /\ Staging([stage EXCEPT !.writes = @ \o prepared.writes],
                UNION {PendingWriteRanges(w) : w \in ToSet(prepared.writes)})
     /\ meant' = [x \in DOMAIN meant \cup {Place(i) : i \in 1..Len(data)} |->
                    LET hit == {i \in 1..Len(data) : Place(i) = x}
                    IN IF hit = {} THEN meant[x] ELSE data[Max(hit)]]
     /\ UNCHANGED retold

-----------------------------------------------------------------------------
(* The commit. *)

InOrder(f, Step(_)) == LET ids == SetToSortSeq(DOMAIN f, <) IN [i \in DOMAIN ids |-> Step(ids[i])]

\* PreparedSegmentBatch::publish, as the list of its steps.
Publication ==
  LET open == IF stage.synthetic = Nothing THEN <<>> ELSE <<[op |-> "open", at |-> stage.synthetic]>>
      writes == [i \in DOMAIN stage.writes |-> [op |-> "write", at |-> stage.writes[i]]]
      created == InOrder(stage.spaces, LAMBDA s : [op |-> "space", id |-> s, at |-> stage.spaces[s]])
      mapped == InOrder(stage.created, LAMBDA id : [op |-> "create", id |-> id, at |-> stage.created[id]])
      Alter(id) == LET now == mappings[id]
                       new == stage.altered[id]
                   IN (IF now.start # new.start \/ now.space # new.space
                       THEN <<[op |-> "remap", id |-> id, at |-> new]>> ELSE <<>>)
                      \o (IF now.size # new.size THEN <<[op |-> "resize", id |-> id, at |-> new]>> ELSE <<>>)
                      \o (IF now.meta # new.meta THEN <<[op |-> "metadata", id |-> id, at |-> new]>> ELSE <<>>)
      altered == FlattenSeq(InOrder(stage.altered, Alter))
      placed == [i \in DOMAIN stage.placements |-> [op |-> "place", at |-> stage.placements[i]]]
      gone == LET ids == SetToSortSeq(stage.removed, <) IN [i \in DOMAIN ids |-> [op |-> "remove", id |-> ids[i]]]
  IN open \o writes \o created \o mapped \o altered \o placed \o gone

\* ProjectTransaction::commit, for the segments.
Commit ==
  /\ phase = "open" /\ phase' = "publishing"
  /\ agenda' = Publication
  /\ expected' = [mappings |-> [id \in StagedIds |-> StagedMapping(id)],
                  lists |-> [s \in StagedSpaces |-> StagedList(s)], bytes |-> meant]
  /\ UNCHANGED <<segments, stage, reported, retold, before, meant, staged, txs>>

\* A transaction that is dropped leaves the storage alone.
Abandon ==
  /\ phase = "open" /\ phase' = "none"
  /\ stage' = EmptyStage
  /\ UNCHANGED <<segments, agenda, reported, retold, before, meant, expected, staged, txs>>

\* What the storage refuses: each is an expect or an assert of publish.
Refused(step) ==
  \/ step.op = "write" /\ (\/ step.at.provider \notin DOMAIN providers
                           \/ step.at.offset + Len(step.at.data) > providers[step.at.provider])
  \/ step.op = "space" /\ step.id \in DOMAIN spaces
  \/ step.op = "create" /\ (\/ step.at.provider \notin DOMAIN providers \/ step.id \in DOMAIN mappings
                            \/ ~ValidRange(step.at.start, step.at.size))
  \/ step.op \in {"remap", "resize", "metadata", "remove"} /\ step.id \notin DOMAIN mappings
  \/ step.op = "remap" /\ ~ValidRange(step.at.start, mappings[step.id].size)
  \/ step.op = "resize" /\ ~ValidRange(mappings[step.id].start, step.at.size)
  \/ step.op = "place" /\ (step.at.space \notin DOMAIN spaces \/ step.at.id \notin DOMAIN mappings)

PublishOpen(at) ==
  /\ providers' = Grown(at.id, at.size)
  /\ synthetic' = IF at.id \in DOMAIN providers THEN synthetic ELSE at.id
  /\ providerCtr' = Max({providerCtr, at.id + 1})
  /\ dirty' = (dirty \/ at.id \notin DOMAIN providers)
  /\ UNCHANGED <<mappings, spaces, bytes, mappingCtr>>

PublishWrite(at) ==
  /\ bytes' = Written(providers, at.provider, at.offset, at.data)
  /\ UNCHANGED <<mappings, spaces, providers, synthetic, mappingCtr, providerCtr, dirty>>

PublishPlacement(at) ==
  IF Placed(at.space, at.id) THEN MovePriority(at.space, at.id, at.end)
  ELSE PlaceMapping(at.space, at.id, at.end)

Publish(step) ==
  \/ step.op = "open" /\ PublishOpen(step.at)
  \/ step.op = "write" /\ PublishWrite(step.at)
  \/ step.op = "space" /\ StoreSpace(step.id, step.at)
  \/ step.op = "create" /\ StoreMapping(step.id, step.at)
  \/ step.op = "remap" /\ AlterMapping(step.id, [mappings[step.id] EXCEPT !.space = step.at.space, !.start = step.at.start])
  \/ step.op = "resize" /\ AlterMapping(step.id, [mappings[step.id] EXCEPT !.size = step.at.size])
  \/ step.op = "metadata" /\ AlterMapping(step.id, [mappings[step.id] EXCEPT !.meta = step.at.meta])
  \/ step.op = "place" /\ PublishPlacement(step.at)
  \/ step.op = "remove" /\ DropMapping(step.id)

PublishNext ==
  /\ phase = "publishing" /\ agenda # <<>>
  /\ agenda' = Tail(agenda)
  /\ IF Refused(Head(agenda)) THEN phase' = "panicked" /\ UNCHANGED storage
     ELSE Publish(Head(agenda)) /\ UNCHANGED phase
  /\ UNCHANGED <<disk, loading, closing, cached, calls, stage, reported, retold, before, meant, expected, staged, txs>>

PublishDone ==
  /\ phase = "publishing" /\ agenda = <<>> /\ phase' = "published"
  /\ UNCHANGED <<segments, stage, agenda, reported, retold, before, meant, expected, staged, txs>>

StagedInit ==
  /\ SegmentsInit
  /\ phase = "none" /\ stage = EmptyStage /\ agenda = <<>> /\ reported = {} /\ retold = {}
  /\ before = NoEntries /\ meant = NoEntries /\ expected = Nothing /\ staged = 0 /\ txs = 0

Load == (LoadSegment \/ FinishLoading) /\ UNCHANGED transaction

StageOnMapping ==
  \E id \in StagedIds :
    \/ StageRemoval(id)
    \/ \E s \in HomeSpace, a \in Addr : StageExtent(id, [StagedMapping(id) EXCEPT !.space = s, !.start = a])
    \/ \E size \in Size : StageExtent(id, [StagedMapping(id) EXCEPT !.size = size])
    \/ \E meta \in Metadata : StageMetadata(id, meta)
    \/ \E s \in StagedSpaces :
         \/ StageAdd(s, id)
         \/ \E end \in {"top", "bottom"} : StageAddAt(s, id, end) \/ StageReprioritise(s, id, end)

StageOnStorage ==
  \/ \E b \in Builder : StageMapping(b)
  \/ \E base \in {Nothing} \cup StagedSpaces : StageSpace(base)
  \/ \E s \in StagedSpaces, a \in Addr, data \in Data : StageSynthetic(s, a, data) \/ StageWrite(s, a, data)

StagedNext ==
  \/ Load \/ BeginTransaction \/ Commit \/ Abandon \/ PublishNext \/ PublishDone
  \/ StageOnMapping \/ StageOnStorage

StagedSpec == StagedInit /\ [][StagedNext]_<<segments, transaction>>

-----------------------------------------------------------------------------
(* Properties. *)

\* A commit leaves the storage as the transaction saw it: the mappings as they
\* were staged, every space's list in the staged order, and in every provider
\* the bytes that writing at once, to the mapping then visible, would have left.
PublishedAsStaged ==
  phase = "published" =>
    /\ [id \in DOMAIN mappings |-> Plain(mappings[id])] = expected.mappings
    /\ [s \in DOMAIN spaces |-> PriorityList(spaces[s])] = expected.lists
    /\ bytes = expected.bytes

\* Whatever a committed transaction changed of what an address shows or reads
\* as, through whichever mapping and in whichever space, one of its change
\* records names the place, though later metadata records are dropped.
ChangesReported ==
  phase = "published" =>
    \A s \in DOMAIN spaces, a \in Addr :
      LET was == IF <<s, a>> \in DOMAIN before THEN before[<<s, a>>] ELSE Nothing
      IN Content(s, a) # was => <<s, a>> \in reported

\* "staged mapping start was validated before publication": publish never meets
\* a step that the storage refuses.
PublishNeverPanics ==
  phase # "panicked"

=============================================================================
