---------------------------- MODULE AddressSpaces ----------------------------
(***************************************************************************)
(* The segment storage: mappings of provider bytes, placed at priorities   *)
(* in address spaces, from storage/segments/{space,mapping,mod,cache}.rs.  *)
(* A space keeps, for every address, the submap of the mapping it shows,   *)
(* cut as mappings come and go, and three indexes of what is placed: by    *)
(* priority, by mapping and by extent.                                     *)
(*                                                                         *)
(* A provider is a size and the bytes written so far; a byte nobody wrote  *)
(* reads as the fill byte.  Kind, provenance and flags of a mapping are    *)
(* one value, of which the default placement knows the provenance.  Names, *)
(* hints and the registry of provider types are left out.                  *)
(***************************************************************************)
EXTENDS Integers, Sequences, FiniteSetsExt, SequencesExt

CONSTANTS
  TopAddr,      \* the highest address
  Image,        \* the images that may be loaded: sequences of segments
  Bank,         \* the sizes of an image's banks
  Layout,       \* the base of each of its spaces
  Builder,      \* the mappings that may be created: SegmentMappingBuilder
  Size,         \* sizes that a mapping may be given
  HomeSpace,    \* spaces that the address of a mapping may name
  Metadata,     \* kind, provenance and flags
  Residue,      \* the metadata that goes to the bottom by default
  Synthetic,    \* the metadata of synthetic mappings
  ProviderSize, \* sizes of the providers opened later
  Data,         \* what is written: sequences of bytes
  Nothing,      \* no view, no provider, no base space
  MaxCalls, MaxMapping, MaxProvider, MaxSpace   \* bounds on operations and ids

Addr == 0..TopAddr
Mapping == [space : Nat, start : Addr, size : Nat \ {0}, offset : Nat, provider : Nat,
            meta : Metadata, writable : BOOLEAN]

ASSUME SegmentAssumption ==
  /\ TopAddr \in Nat /\ Size \subseteq Nat /\ ProviderSize \subseteq Nat \ {0} /\ HomeSpace \subseteq Nat
  /\ Residue \subseteq Metadata /\ Synthetic \in Residue
  /\ Nothing \notin Int
  /\ Builder \subseteq Mapping /\ Image \subseteq Seq(Mapping) /\ Bank \in Seq(Nat \ {0})
  /\ Layout \in Seq(Nat \cup {Nothing}) /\ Len(Layout) > 0 /\ Data \subseteq Seq(Nat)
  /\ \A b \in Builder \cup UNION {ToSet(i) : i \in Image} : b.start + b.size - 1 <= TopAddr

VARIABLES
  mappings,     \* SegmentStorage::mappings
  spaces,       \* SegmentStorage::spaces
  providers,    \* the size of each provider
  bytes,        \* what has been written to the providers
  synthetic,    \* SegmentStorage::synthetic_provider
  mappingCtr, providerCtr,
  dirty,        \* whether revision differs from persisted_revision
  disk,         \* the metadata file
  loading,      \* the segments of the image that from_loadable has still to map
  closing,      \* the provider that close_provider is closing
  cached,       \* a SegmentMappingCache
  calls         \* operations so far

storage == <<mappings, spaces, providers, bytes, synthetic, mappingCtr, providerCtr, dirty>>
segments == <<storage, disk, loading, closing, cached, calls>>

Assign(f, k, v) == [x \in DOMAIN f \cup {k} |-> IF x = k THEN v ELSE f[x]]
Without(f, gone) == [x \in DOMAIN f \ gone |-> f[x]]
NoEntries == [x \in {} |-> 0]

-----------------------------------------------------------------------------
(* Ranges and mappings. *)

\* AddressRange::from_size: a range is not empty and does not pass the end.
ValidRange(start, size) == size > 0 /\ start + size - 1 <= TopAddr
Extent(id, start, size) == [id |-> id, lo |-> start, hi |-> start + size - 1]
Meets(v, lo, hi) == v.lo <= hi /\ v.hi >= lo
Covers(v, a) == v.lo <= a /\ a <= v.hi

\* SegmentMapping::mapping_ref, SegmentMappingRef::is_valid.
RefOf(id, m) == [id |-> id, revision |-> m.revision]
IsValid(ref) == ref.id \in DOMAIN mappings /\ mappings[ref.id].revision = ref.revision

\* SegmentMapping::to_offset.
ToOffset(m, a) == m.offset + (a - m.start)

-----------------------------------------------------------------------------
(* One address space. *)

\* AddressSpace::new_with.
EmptySpace(base) ==
  [base |-> base, submaps |-> {}, extents |-> {}, byPriority |-> NoEntries,
   placements |-> NoEntries, highest |-> 0, lowest |-> 0, revision |-> 0]

\* Mutant: a mapping that is placed again stays at its old priority too.
UpdateMappingPlacementTwice(sp, ref, priority, extent) ==
  LET gone == {sp.placements[id] : id \in DOMAIN sp.placements \cap {ref.id}}
  IN [sp EXCEPT !.byPriority = Assign(@, priority, ref),
                !.extents = (@ \ {p.extent : p \in gone}) \cup {extent},
                !.placements = Assign(@, ref.id, [priority |-> priority, extent |-> extent])]

\* AddressSpace::update_mapping_placement.
UpdateMappingPlacement(sp, ref, priority, extent) ==
  LET gone == {sp.placements[id] : id \in DOMAIN sp.placements \cap {ref.id}}
  IN [sp EXCEPT
        !.byPriority = Assign(Without(@, {p.priority : p \in gone}), priority, ref),
        !.extents = (@ \ {p.extent : p \in gone}) \cup {extent},
        !.placements = Assign(@, ref.id, [priority |-> priority, extent |-> extent])]

\* Mutant: the part to the left keeps the first address of the range.
CutOutTouching(submaps, lo, hi) ==
  LET hit == {v \in submaps : Meets(v, lo, hi)}
  IN (submaps \ hit)
       \cup {[v EXCEPT !.hi = lo] : v \in {w \in hit : w.lo < lo}}
       \cup {[v EXCEPT !.lo = hi + 1] : v \in {w \in hit : w.hi > hi}}

\* What remains of the submaps outside a range.
CutOut(submaps, lo, hi) ==
  LET hit == {v \in submaps : Meets(v, lo, hi)}
  IN (submaps \ hit)
       \cup {[v EXCEPT !.hi = lo - 1] : v \in {w \in hit : w.lo < lo}}
       \cup {[v EXCEPT !.lo = hi + 1] : v \in {w \in hit : w.hi > hi}}

\* AddressSpace::insert_submap_top.
InsertSubmapTop(submaps, ref, lo, hi) ==
  CutOut(submaps, lo, hi) \cup {[lo |-> lo, hi |-> hi, ref |-> ref]}

\* Mutant: the space keeps its revision.
AddMappingTopUnmarked(sp, ref, extent) ==
  LET placed == UpdateMappingPlacement(sp, ref, sp.highest + 1, extent)
  IN [placed EXCEPT !.highest = @ + 1, !.submaps = InsertSubmapTop(@, ref, extent.lo, extent.hi)]

\* AddressSpace::add_mapping_top, also for a mapping that is placed already.
AddMappingTop(sp, ref, extent) ==
  LET placed == UpdateMappingPlacement(sp, ref, sp.highest + 1, extent)
  IN [placed EXCEPT !.highest = @ + 1, !.revision = @ + 1,
                    !.submaps = InsertSubmapTop(@, ref, extent.lo, extent.hi)]

\* The parts of a range that no submap covers, found from left to right.
Gaps(submaps, lo, hi) ==
  LET hit == SetToSortSeq({v \in submaps : Meets(v, lo, hi)}, LAMBDA v, w : v.lo < w.lo)
      Step(acc, v) ==
        IF acc.from > hi THEN acc
        ELSE [found |-> IF v.lo > acc.from THEN acc.found \cup {[lo |-> acc.from, hi |-> v.lo - 1]}
                                           ELSE acc.found,
              from  |-> IF v.hi >= hi THEN hi + 1 ELSE Max({v.hi + 1, acc.from})]
      end == FoldLeft(Step, [found |-> {}, from |-> lo], hit)
  IN end.found \cup IF end.from <= hi THEN {[lo |-> end.from, hi |-> hi]} ELSE {}

\* AddressSpace::add_mapping_bottom: the mapping shows in the gaps.
AddMappingBottom(sp, ref, extent) ==
  LET placed == UpdateMappingPlacement(sp, ref, sp.lowest - 1, extent)
  IN [placed EXCEPT !.lowest = @ - 1, !.revision = @ + 1,
        !.submaps = @ \cup {[lo |-> g.lo, hi |-> g.hi, ref |-> ref] : g \in Gaps(@, extent.lo, extent.hi)}]

\* AddressSpace::deprioritise; the submaps are rebuilt by the storage.
Deprioritise(sp, id) ==
  [sp EXCEPT !.byPriority = Assign(Without(@, {sp.placements[id].priority}), sp.lowest - 1,
                                sp.byPriority[sp.placements[id].priority]),
             !.placements[id].priority = sp.lowest - 1,
             !.lowest = @ - 1, !.revision = @ + 1]

\* AddressSpace::remove_mapping_ref.
RemoveMappingRef(sp, id) ==
  [sp EXCEPT !.byPriority = Without(@, {sp.placements[id].priority}),
             !.extents = @ \ {sp.placements[id].extent},
             !.placements = Without(@, {id})]

\* AddressSpace::update_mapping_ref.
UpdateMappingRef(sp, ref, extent) ==
  [UpdateMappingPlacement(sp, ref, sp.placements[ref.id].priority, extent) EXCEPT !.revision = @ + 1]

\* AddressSpace::mappings_overlapping, the lowest first.
MappingsOverlapping(sp, lo, hi) ==
  LET over == {sp.placements[e.id].priority : e \in {x \in sp.extents : Meets(x, lo, hi)}}
      sorted == SetToSortSeq(over, <)
  IN [i \in DOMAIN sorted |-> sp.byPriority[sorted[i]]]

\* AddressSpace::priority_list.
PriorityList(sp) ==
  LET sorted == SetToSortSeq(DOMAIN sp.byPriority, <)
  IN [i \in DOMAIN sorted |-> sp.byPriority[sorted[i]].id]

\* AddressSpace::find_containing.
FindContaining(sp, a) == {v \in sp.submaps : Covers(v, a)}

\* SegmentStorage::rebuild_submaps_in_range and AddressSpace::rebuild_range: a
\* range is emptied and shows again, from the lowest, the mappings that meet it.
Rebuilt(sp, maps, lo, hi) ==
  LET Show(submaps, ref) ==
        LET m == maps[ref.id]
            clamped == [lo |-> Max({m.start, lo}), hi |-> Min({m.start + m.size - 1, hi})]
        IN IF ref.id \notin DOMAIN maps \/ clamped.lo > clamped.hi THEN submaps
           ELSE InsertSubmapTop(submaps, ref, clamped.lo, clamped.hi)
  IN [sp EXCEPT !.submaps = FoldLeft(Show, CutOut(@, lo, hi), MappingsOverlapping(sp, lo, hi)),
                !.revision = @ + 1]

\* Faulty form of UpdateMappingInSpace: only the old range is rebuilt.
UpdateOldRangeOnly(sp, maps, id, old) ==
  LET m == maps[id]
      updated == UpdateMappingRef(sp, RefOf(id, m), Extent(id, m.start, m.size))
  IN Rebuilt(updated, maps, old.start, old.start + old.size - 1)

\* SegmentStorage::update_mapping_in_space: first where the mapping was, then where it is.
UpdateMappingInSpace(sp, maps, id, old) ==
  LET m == maps[id]
      updated == UpdateMappingRef(sp, RefOf(id, m), Extent(id, m.start, m.size))
      vacated == Rebuilt(updated, maps, old.start, old.start + old.size - 1)
  IN IF old.start = m.start /\ old.size = m.size THEN vacated
     ELSE Rebuilt(vacated, maps, m.start, m.start + m.size - 1)

\* SegmentStorage::remove_mapping_from_space.
RemoveMappingFromSpace(sp, maps, id) ==
  Rebuilt(RemoveMappingRef(sp, id), maps, maps[id].start, maps[id].start + maps[id].size - 1)

Placed(s, id) == id \in DOMAIN spaces[s].placements
ExtentOf(id) == Extent(id, mappings[id].start, mappings[id].size)

-----------------------------------------------------------------------------
(* The storage.  Every operation but a write and the growth of a provider   *)
(* touches the storage's revision.                                          *)

\* SegmentMapping::from_builder.
FromBuilder(b) ==
  [space |-> b.space, start |-> b.start, size |-> b.size, offset |-> b.offset,
   provider |-> b.provider, meta |-> b.meta, writable |-> b.writable, revision |-> 0]

\* add_mapping_to_space: where a mapping goes by default.
DefaultEnd(meta) == IF meta \in Residue THEN "bottom" ELSE "top"

\* A mapping put at an end of a space it is not in.
AddedAt(sp, ref, extent, end) ==
  IF end = "top" THEN AddMappingTop(sp, ref, extent) ELSE AddMappingBottom(sp, ref, extent)

\* create_mapping_with_id.
StoreMapping(id, b) ==
  /\ b.provider \in DOMAIN providers /\ id \notin DOMAIN mappings
  /\ mappings' = Assign(mappings, id, FromBuilder(b))
  /\ mappingCtr' = Max({mappingCtr, id + 1})
  /\ dirty' = TRUE
  /\ UNCHANGED <<spaces, providers, bytes, synthetic, providerCtr>>

\* create_space_with_id.
StoreSpace(s, base) ==
  /\ s \notin DOMAIN spaces
  /\ spaces' = Assign(spaces, s, EmptySpace(base))
  /\ dirty' = TRUE
  /\ UNCHANGED <<mappings, providers, bytes, synthetic, mappingCtr, providerCtr>>

\* Mutant: the new range may pass the end of the address space.
AlterMappingUnbounded(id, m) ==
  /\ mappings' = [mappings EXCEPT ![id] = [m EXCEPT !.revision = @ + 1]]
  /\ spaces' = [s \in DOMAIN spaces |->
                  IF Placed(s, id) THEN UpdateMappingInSpace(spaces[s], mappings', id, mappings[id])
                  ELSE spaces[s]]
  /\ dirty' = TRUE
  /\ UNCHANGED <<providers, bytes, synthetic, mappingCtr, providerCtr>>

\* remap_mapping, resize_mapping, update_mapping_metadata: the mapping is
\* altered, with a new revision, and then updated in every space it is in.
AlterMapping(id, m) ==
  /\ ValidRange(m.start, m.size)
  /\ mappings' = [mappings EXCEPT ![id] = [m EXCEPT !.revision = @ + 1]]
  /\ spaces' = [s \in DOMAIN spaces |->
                  IF Placed(s, id) THEN UpdateMappingInSpace(spaces[s], mappings', id, mappings[id])
                  ELSE spaces[s]]
  /\ dirty' = TRUE
  /\ UNCHANGED <<providers, bytes, synthetic, mappingCtr, providerCtr>>

\* add_mapping_to_space_at.
PlaceMapping(s, id, end) ==
  /\ ~Placed(s, id)
  /\ spaces' = [spaces EXCEPT ![s] = AddedAt(@, RefOf(id, mappings[id]), ExtentOf(id), end)]
  /\ dirty' = TRUE
  /\ UNCHANGED <<mappings, providers, bytes, synthetic, mappingCtr, providerCtr>>

\* Faulty form of MovePriority: the storage's revision is left alone.
MovePriorityUntouched(s, id, end) ==
  /\ Placed(s, id)
  /\ spaces' = [spaces EXCEPT ![s] =
                  IF end = "top" THEN AddMappingTop(@, RefOf(id, mappings[id]), ExtentOf(id))
                  ELSE Rebuilt(Deprioritise(@, id), mappings, ExtentOf(id).lo, ExtentOf(id).hi)]
  /\ UNCHANGED <<mappings, providers, bytes, synthetic, mappingCtr, providerCtr, dirty>>

\* prioritise_mapping and deprioritise_mapping.
MovePriority(s, id, end) ==
  /\ Placed(s, id)
  /\ spaces' = [spaces EXCEPT ![s] =
                  IF end = "top" THEN AddMappingTop(@, RefOf(id, mappings[id]), ExtentOf(id))
                  ELSE Rebuilt(Deprioritise(@, id), mappings, ExtentOf(id).lo, ExtentOf(id).hi)]
  /\ dirty' = TRUE
  /\ UNCHANGED <<mappings, providers, bytes, synthetic, mappingCtr, providerCtr>>

\* remove_mapping.
DropMapping(id) ==
  /\ spaces' = [s \in DOMAIN spaces |->
                  IF Placed(s, id) THEN RemoveMappingFromSpace(spaces[s], mappings, id) ELSE spaces[s]]
  /\ mappings' = Without(mappings, {id})
  /\ dirty' = TRUE
  /\ UNCHANGED <<providers, bytes, synthetic, mappingCtr, providerCtr>>

\* SegmentStorageProvider::write_bytes: as much of the data as fits.
Fitting(sizes, p, offset, data) == {i \in 1..Len(data) : offset + i - 1 < sizes[p]}
Written(sizes, p, offset, data) ==
  LET put == {<<p, offset + i - 1>> : i \in Fitting(sizes, p, offset, data)}
  IN [x \in DOMAIN bytes \cup put |-> IF x \in put THEN data[x[2] - offset + 1] ELSE bytes[x]]

\* create_synthetic_mapping: the provider that is used, opened if it is not
\* there, and the offset past every mapping of it.
SyntheticProvider == IF synthetic \in DOMAIN providers THEN synthetic ELSE providerCtr
EndsIn(maps, p) == {0} \cup {maps[id].offset + maps[id].size : id \in {x \in DOMAIN maps : maps[x].provider = p}}

\* Mutant: the end of the provider, which a mapping may extend past.
SyntheticOffsetAtEnd == IF SyntheticProvider \in DOMAIN providers THEN providers[SyntheticProvider] ELSE 0

SyntheticOffset ==
  Max(EndsIn(mappings, SyntheticProvider))

\* open_synthetic_provider: opened with a size, or grown to it.
Grown(p, size) == Assign(providers, p, IF p \in DOMAIN providers /\ providers[p] >= size THEN providers[p] ELSE size)

-----------------------------------------------------------------------------
(* What reads and writes see. *)

\* view_containing_in_space, with the check of the reference that reading,
\* writing and the cache make.
Shown(maps, sp, a) ==
  LET found == {v.ref.id : v \in {w \in FindContaining(sp, a) :
                  w.ref.id \in DOMAIN maps /\ maps[w.ref.id].revision = w.ref.revision}}
  IN IF found = {} THEN Nothing ELSE CHOOSE id \in found : TRUE

\* The provider byte behind an address, and how it is described.
Backing(maps, sp, a) ==
  LET id == Shown(maps, sp, a)
  IN IF id = Nothing THEN Nothing
     ELSE [provider |-> maps[id].provider, offset |-> ToOffset(maps[id], a),
           meta |-> maps[id].meta, writable |-> maps[id].writable]

-----------------------------------------------------------------------------
(* The file of a persistent storage: persist_storage, from_storage_internal. *)

Snapshot ==
  [mappings |-> mappings, providers |-> DOMAIN providers, synthetic |-> synthetic,
   spaces |-> [s \in DOMAIN spaces |-> [base |-> spaces[s].base, list |-> PriorityList(spaces[s])]]]

\* The conditions under which a file is refused.
Readable(d) ==
  /\ \A id \in DOMAIN d.mappings : d.mappings[id].provider \in d.providers /\ d.mappings[id].space \in DOMAIN d.spaces
  /\ \A s \in DOMAIN d.spaces : d.spaces[s].base \in {Nothing} \cup DOMAIN d.spaces

\* Mappings are numbered anew, in the order of their ids.
Rank(d, id) == Cardinality({other \in DOMAIN d.mappings : other < id})
ReloadedMappings(d) ==
  [i \in 0..(Cardinality(DOMAIN d.mappings) - 1) |->
     LET id == CHOOSE x \in DOMAIN d.mappings : Rank(d, x) = i
     IN [d.mappings[id] EXCEPT !.revision = 0]]

\* The mappings of a space come back one above the other, the lowest first.
ReloadedSpace(d, s) ==
  LET Add(sp, id) == AddMappingTop(sp, [id |-> Rank(d, id), revision |-> 0],
                                   Extent(Rank(d, id), d.mappings[id].start, d.mappings[id].size))
  IN FoldLeft(Add, EmptySpace(d.spaces[s].base), d.spaces[s].list)

-----------------------------------------------------------------------------
(* Loading. *)

SegmentsInit ==
  /\ mappings = NoEntries
  /\ spaces = [s \in 0..(Len(Layout) - 1) |-> EmptySpace(Layout[s + 1])]
  /\ providers = [p \in 0..(Len(Bank) - 1) |-> Bank[p + 1]] /\ providerCtr = Len(Bank)
  /\ bytes = NoEntries /\ synthetic = Nothing /\ mappingCtr = 0
  /\ dirty = TRUE /\ disk = Nothing
  /\ loading \in Image /\ closing = Nothing /\ cached = Nothing /\ calls = 0

\* from_loadable maps the segments one by one, each in its own space ...
LoadSegment ==
  /\ loading # <<>> /\ loading' = Tail(loading)
  /\ LET m == FromBuilder(Head(loading))
     IN /\ mappings' = Assign(mappings, mappingCtr, m)
        /\ spaces' = [spaces EXCEPT ![m.space] =
             AddedAt(@, RefOf(mappingCtr, m), Extent(mappingCtr, m.start, m.size), DefaultEnd(m.meta))]
  /\ mappingCtr' = mappingCtr + 1 /\ dirty' = TRUE
  /\ UNCHANGED <<providers, bytes, synthetic, providerCtr, disk, closing, cached, calls>>

\* ... and persists the result.
FinishLoading ==
  /\ loading = <<>> /\ disk = Nothing
  /\ disk' = Snapshot /\ dirty' = FALSE
  /\ UNCHANGED <<mappings, spaces, providers, bytes, synthetic, mappingCtr, providerCtr, loading, closing, cached, calls>>

-----------------------------------------------------------------------------
(* Operations. *)

Idle == loading = <<>> /\ disk # Nothing /\ closing = Nothing

\* One call from outside.
Operation == Idle /\ calls < MaxCalls /\ calls' = calls + 1 /\ UNCHANGED <<loading, cached>>

Edit == Operation /\ UNCHANGED <<disk, closing>>

OpenProvider(size) ==
  /\ Edit /\ providerCtr < MaxProvider
  /\ providers' = Assign(providers, providerCtr, size) /\ providerCtr' = providerCtr + 1
  /\ dirty' = TRUE
  /\ UNCHANGED <<mappings, spaces, bytes, synthetic, mappingCtr>>

\* close_provider removes the provider's mappings one by one, then the provider.
CloseProvider(p) ==
  /\ Operation /\ p \in DOMAIN providers
  /\ closing' = p
  /\ UNCHANGED <<storage, disk>>

CloseNext ==
  LET own == {id \in DOMAIN mappings : mappings[id].provider = closing}
  IN /\ closing # Nothing
     /\ \/ own # {} /\ DropMapping(Min(own)) /\ UNCHANGED closing
        \/ /\ own = {} /\ closing' = Nothing
           /\ providers' = Without(providers, {closing})
           /\ bytes' = [x \in {y \in DOMAIN bytes : y[1] # closing} |-> bytes[x]]
           /\ dirty' = TRUE
           /\ UNCHANGED <<mappings, spaces, synthetic, mappingCtr, providerCtr>>
     /\ UNCHANGED <<disk, loading, cached, calls>>

\* create_mapping_from_builder.
CreateMapping(b) == Edit /\ mappingCtr < MaxMapping /\ StoreMapping(mappingCtr, b)

CreateSyntheticMapping(s, a, data) ==
  LET p == SyntheticProvider
      offset == SyntheticOffset
      m == [space |-> s, start |-> a, size |-> Len(data), offset |-> offset, provider |-> p,
            meta |-> Synthetic, writable |-> TRUE, revision |-> 0]
  IN /\ Edit /\ mappingCtr < MaxMapping /\ p < MaxProvider
     /\ ValidRange(a, Len(data))
     /\ providers' = Grown(p, offset + Len(data))
     /\ bytes' = Written(providers', p, offset, data)
     /\ synthetic' = IF p \in DOMAIN providers THEN synthetic ELSE p
     /\ providerCtr' = Max({providerCtr, p + 1})
     /\ mappings' = Assign(mappings, mappingCtr, m) /\ mappingCtr' = mappingCtr + 1
     /\ spaces' = [spaces EXCEPT ![s] =
          AddedAt(@, RefOf(mappingCtr, m), Extent(mappingCtr, a, Len(data)), DefaultEnd(Synthetic))]
     /\ dirty' = TRUE

RemoveMapping(id) == Edit /\ DropMapping(id)
RemapMapping(id, s, a) == Edit /\ AlterMapping(id, [mappings[id] EXCEPT !.space = s, !.start = a])
ResizeMapping(id, size) == Edit /\ AlterMapping(id, [mappings[id] EXCEPT !.size = size])
UpdateMappingMetadata(id, meta) == Edit /\ AlterMapping(id, [mappings[id] EXCEPT !.meta = meta])

\* create_space and create_space_with: an overlay has a base that is none itself.
CreateSpace(base) ==
  /\ Edit /\ Cardinality(DOMAIN spaces) < MaxSpace
  /\ base # Nothing => spaces[base].base = Nothing
  /\ StoreSpace(Cardinality(DOMAIN spaces), base)

AddMappingToSpace(s, id) == Edit /\ PlaceMapping(s, id, DefaultEnd(mappings[id].meta))
AddMappingToSpaceAt(s, id, end) == Edit /\ PlaceMapping(s, id, end)
Reprioritise(s, id, end) == Edit /\ MovePriority(s, id, end)

\* write_bytes_to_space: addresses without a writable view are skipped; the
\* write ends at the first byte that its provider does not take.
WriteBytes(s, a, data) ==
  LET Target(i) == Backing(mappings, spaces[s], a + i - 1)
      open == {i \in 1..Len(data) : Target(i) # Nothing /\ Target(i).writable}
      over == {i \in open : Target(i).offset >= providers[Target(i).provider]}
      done == {i \in open : \A j \in over : i < j}
      Place(i) == <<Target(i).provider, Target(i).offset>>
  IN /\ Edit /\ a + Len(data) - 1 <= TopAddr
     /\ bytes' = [x \in DOMAIN bytes \cup {Place(i) : i \in done} |->
                    LET hit == {i \in done : Place(i) = x}
                    IN IF hit = {} THEN bytes[x] ELSE data[Max(hit)]]
     /\ UNCHANGED <<mappings, spaces, providers, synthetic, mappingCtr, providerCtr, dirty>>

\* persist_storage.
PersistStorage ==
  /\ Operation /\ dirty
  /\ disk' = Snapshot /\ dirty' = FALSE
  /\ UNCHANGED <<mappings, spaces, providers, bytes, synthetic, mappingCtr, providerCtr, closing>>

\* SegmentMappingCache::view_containing, when the cache has no answer.
CacheHit(s, a) ==
  /\ cached # Nothing /\ cached.space = s /\ Covers(cached.view, a)
  /\ cached.revision = spaces[s].revision
  /\ IsValid(cached.view.ref)

CacheLookup(s, a) ==
  /\ Idle /\ calls < MaxCalls /\ calls' = calls + 1
  /\ ~CacheHit(s, a)
  /\ \E v \in FindContaining(spaces[s], a) :
       /\ v.ref.id \in DOMAIN mappings
       /\ cached' = [space |-> s, view |-> v, revision |-> spaces[s].revision]
  /\ UNCHANGED <<storage, disk, loading, closing>>

OnMapping ==
  \E id \in DOMAIN mappings :
    \/ RemoveMapping(id)
    \/ \E s \in HomeSpace, a \in Addr : RemapMapping(id, s, a)
    \/ \E size \in Size : ResizeMapping(id, size)
    \/ \E meta \in Metadata : UpdateMappingMetadata(id, meta)
    \/ \E s \in DOMAIN spaces :
         \/ AddMappingToSpace(s, id)
         \/ \E end \in {"top", "bottom"} : AddMappingToSpaceAt(s, id, end) \/ Reprioritise(s, id, end)

OnStorage ==
  \/ \E size \in ProviderSize : OpenProvider(size)
  \/ \E p \in DOMAIN providers : CloseProvider(p)
  \/ \E b \in Builder : CreateMapping(b)
  \/ \E base \in {Nothing} \cup DOMAIN spaces : CreateSpace(base)
  \/ \E s \in DOMAIN spaces, a \in Addr :
       \/ CacheLookup(s, a)
       \/ \E data \in Data : CreateSyntheticMapping(s, a, data) \/ WriteBytes(s, a, data)

SegmentsNext == LoadSegment \/ FinishLoading \/ CloseNext \/ PersistStorage \/ OnMapping \/ OnStorage

SegmentsSpec == SegmentsInit /\ [][SegmentsNext]_segments

-----------------------------------------------------------------------------
(* Properties. *)

\* The storage is well formed.
SegmentsTypeOK ==
  /\ DOMAIN mappings \subseteq 0..(mappingCtr - 1)
  /\ \A id \in DOMAIN mappings :
       LET m == mappings[id]
       IN /\ m.start \in Addr /\ m.size \in Nat \ {0} /\ m.start + m.size - 1 <= TopAddr
          /\ m.offset \in Nat /\ m.meta \in Metadata /\ m.revision \in Nat
          /\ m.provider \in DOMAIN providers
  /\ DOMAIN providers \subseteq 0..(providerCtr - 1)
  /\ \A s \in DOMAIN spaces : spaces[s].base \in {Nothing} \cup DOMAIN spaces
  /\ \A x \in DOMAIN bytes : x[1] \in DOMAIN providers /\ x[2] < providers[x[1]]

\* Every placement of a space is in the priority index under its priority, with
\* the current revision, and in the extent index with the current extent, and
\* nothing else is in either.
SpaceIndexed(sp) ==
  /\ DOMAIN sp.placements \subseteq DOMAIN mappings
  /\ DOMAIN sp.byPriority = {sp.placements[id].priority : id \in DOMAIN sp.placements}
  /\ sp.extents = {sp.placements[id].extent : id \in DOMAIN sp.placements}
  /\ \A id \in DOMAIN sp.placements :
       LET p == sp.placements[id]
       IN /\ p.priority \in sp.lowest..sp.highest
          /\ p.extent = ExtentOf(id)
          /\ sp.byPriority[p.priority] = RefOf(id, mappings[id])

\* The three indexes of every space say the same, of mappings as they are now.
\* The expects and asserts of space.rs rest on it.
IndexesAgree == \A s \in DOMAIN spaces : SpaceIndexed(spaces[s])

\* The stacks are the priority lists, and a stale reference shows nothing known.
Layers == INSTANCE LayeredSpaces WITH
            defined <- mappings,
            stack <- [s \in DOMAIN spaces |-> PriorityList(spaces[s])],
            view <- [s \in DOMAIN spaces |-> [a \in Addr |->
                       IF FindContaining(spaces[s], a) = {} THEN Nothing
                       ELSE IF Shown(mappings, spaces[s], a) = Nothing THEN -1
                       ELSE Shown(mappings, spaces[s], a)]]

\* The storage implements stacks of mappings: at every address a space shows the
\* highest mapping of its list that extends over it, by a current reference,
\* through every mixture of additions, moves, resizings and removals.
ImplementsLayers == Layers!LayeredSpec

\* No two submaps of a space cover the same address, however often it was cut,
\* filled and rebuilt: find_containing takes the first one that covers it.
SubmapsApart ==
  \A s \in DOMAIN spaces : \A v, w \in spaces[s].submaps :
    v # w => \A a \in Addr : ~(Covers(v, a) /\ Covers(w, a))

\* What the cache answers without asking is what the storage would answer,
\* however the spaces changed since.
CacheFresh ==
  cached # Nothing =>
    \A a \in Addr : CacheHit(cached.space, a) =>
      Shown(mappings, spaces[cached.space], a) = cached.view.ref.id

\* A storage that thinks its file is up to date finds in it, when it is opened
\* again, the same byte behind every address of every space.
ReloadSame ==
  Idle /\ ~dirty =>
    /\ Readable(disk) /\ DOMAIN disk.spaces = DOMAIN spaces
    /\ \A s \in DOMAIN spaces, a \in Addr :
         Backing(ReloadedMappings(disk), ReloadedSpace(disk, s), a) = Backing(mappings, spaces[s], a)

\* The i-th byte behind a mapping.
ByteOf(written, m, i) ==
  IF <<m.provider, m.offset + i>> \in DOMAIN written THEN written[<<m.provider, m.offset + i>>] ELSE Nothing

\* A new synthetic mapping takes provider bytes that no mapping extends over,
\* whatever was moved, resized or removed before: no mapping changes its bytes.
SyntheticApart ==
  [][mappingCtr' > mappingCtr =>
       \A id \in DOMAIN mappings : \A i \in 0..(mappings[id].size - 1) :
         ByteOf(bytes', mappings[id], i) = ByteOf(bytes, mappings[id], i)]_segments

=============================================================================
