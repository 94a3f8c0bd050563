---------------------------- MODULE LiftedCache ----------------------------
(***************************************************************************)
(* The cache of lifted IL that query readers and the engine's worker share *)
(* (queries/cache.rs, queries/engine.rs, queries/reader.rs, and the        *)
(* worker's generation of IL, engine/worker.rs).                           *)
(*                                                                         *)
(* An artefact is represented by the one thing that tells a good one from  *)
(* a bad one: the semantic revision of the project it was lifted from.     *)
(* One IL form stands for the registry's path of forms.  A reader looks an *)
(* artefact up holding the publication lock for reading and asks the       *)
(* worker when there is none; the worker prepares artefacts, runs the      *)
(* analysers of that IL (drain), and caches what it prepared before.  The  *)
(* worker alone publishes, holding the publication lock for writing.       *)
(* A worker that fails is the subject of EngineLifecycle.                  *)
(***************************************************************************)
EXTENDS Naturals, Sequences, SequencesExt

CONSTANTS
  Function,               \* functions of the project
  Reader,                 \* threads that hold a QueryReader
  Absent,                 \* a cached or stored "there is none"
  Miss,                   \* no cache entry; also: nothing prepared
  MaxRevision             \* bound on the semantic revisions explored

Revision == 0..MaxRevision

ASSUME LiftedAssumption ==
  /\ MaxRevision \in Nat
  /\ Absent \notin Nat /\ Miss \notin Nat /\ Absent # Miss

VARIABLES
  semantic,     \* ProjectRevisionState.semantic_revision
  stored,       \* the persisted artefact of each function, by input revision
  cache,        \* QueryCache.lifted
  publishing,   \* records committed and not yet applied to the cache, or <<>>
  reader,       \* where each reader is in lifted / lifted_batch
  got,          \* what each reader's last call returned
  intake,       \* GenerateLifted and GenerateLiftedBatch requests
  worker,       \* where the worker is in generate_lifted_batch
  meddling      \* whether IL analysers change what IL is lifted from

lifted == <<semantic, stored, cache, publishing, reader, got, intake, worker, meddling>>

-----------------------------------------------------------------------------
(* What the project and the cache answer. *)

\* The stored artefact if it was lifted from the current inputs; a stale one
\* counts as none (load_current and the StaleArtefact arm).
Current(f) == IF stored[f] = semantic THEN semantic ELSE Absent

\* The value a lookup with IlLookup::Current finds for f.
Found(f) == IF cache[f] = Miss THEN Current(f) ELSE cache[f]

\* The cache after an insertion: an entry over the byte budget is not
\* inserted, and then what was there stays.
Inserted(c, f, e) == { c, [c EXCEPT ![f] = e] }

\* The cache after lookups of all of fs: what was missing is filled in.
LookedUp(fs) ==
  [f \in Function |-> IF f \in fs /\ cache[f] = Miss THEN Current(f) ELSE cache[f]]

\* What generation has to make for f: nothing when the lookup found one.
Generated(f) == IF Found(f) = Absent THEN semantic ELSE Miss

Idle == [pc |-> "idle", functions |-> <<>>, value |-> Miss, since |-> 0]

Rest == [pc |-> "idle", for |-> Absent, functions |-> <<>>,
         base |-> 0, prepared |-> <<>>, answer |-> <<>>, turn |-> 0]

-----------------------------------------------------------------------------
(* Publication: the worker commits under the write side of the publication  *)
(* lock and applies the records to the cache before it lets go.             *)

\* Mutant: cached_il lets go of the lock before it caches what it loaded.
InsideWhileLoading == { r \in Reader : reader[r].pc = "load" }

\* The readers inside cached_il, which hold the lock for reading.
Inside == { r \in Reader : reader[r].pc \in {"load", "put"} }

\* The worker may commit between requests, and inside a request while it
\* drains the work of the IL analysers.
MayCommit == publishing = <<>> /\ Inside = {} /\ worker.pc \in {"idle", "drain"}

\* A commit that changes what IL is lifted from, by records of that kind or
\* by the one Resynchronise record of a collapsed transaction; the stored
\* artefacts of the functions it redefines go with it.
ChangeInputs(gone) ==
  /\ MayCommit /\ semantic < MaxRevision
  /\ worker.pc = "drain" => meddling
  /\ semantic' = semantic + 1
  /\ stored' = [f \in Function |-> IF f \in gone THEN Absent ELSE stored[f]]
  /\ publishing' = <<"inputs">>
  /\ UNCHANGED <<cache, reader, got, intake, worker>>

\* ensure_lifted: looks only at what is stored (IlLookup::Persisted) and, when
\* that is not current, stores an artefact of the current semantic revision.
Materialise(f) ==
  /\ MayCommit /\ worker.pc = "idle"
  /\ stored[f] # semantic
  /\ stored' = [stored EXCEPT ![f] = semantic]
  /\ publishing' = <<"function", f>>
  /\ UNCHANGED <<semantic, cache, reader, got, intake, worker>>

\* Mutant: a materialised artefact leaves the cached "none" in place.
ApplyInputsOnly ==
  /\ publishing # <<>>
  /\ cache' = IF publishing[1] = "inputs" THEN [f \in Function |-> Miss] ELSE cache
  /\ publishing' = <<>>
  /\ UNCHANGED <<semantic, stored, reader, got, intake, worker>>

ApplyChanges ==
  /\ publishing # <<>>
  /\ cache' = IF publishing[1] = "inputs"
              THEN [f \in Function |-> Miss]
              ELSE [cache EXCEPT ![publishing[2]] = Miss]
  /\ publishing' = <<>>
  /\ UNCHANGED <<semantic, stored, reader, got, intake, worker>>

\* quick_cache evicts by weight whenever it inserts.
Evict(f) ==
  /\ cache[f] # Miss
  /\ cache' = [cache EXCEPT ![f] = Miss]
  /\ UNCHANGED <<semantic, stored, publishing, reader, got, intake, worker>>

-----------------------------------------------------------------------------
(* A reader: lifted and lifted_batch. *)

Return(r, values) ==
  /\ reader' = [reader EXCEPT ![r] = Idle]
  /\ got' = [got EXCEPT ![r] = [values |-> values, since |-> reader[r].since]]

RequestGenerated(r, fs) ==
  /\ reader' = [reader EXCEPT ![r].pc = "wait"]
  /\ intake' = Append(intake, [reader |-> r, functions |-> fs])
  /\ UNCHANGED got

Lifted(r, f) ==
  /\ reader[r].pc = "idle"
  /\ reader' = [reader EXCEPT ![r] = [pc |-> "look", functions |-> <<f>>,
                                      value |-> Miss, since |-> semantic]]
  /\ UNCHANGED <<semantic, stored, cache, publishing, got, intake, worker>>

LiftedBatch(r, fs) ==
  /\ reader[r].pc = "idle"
  /\ reader' = [reader EXCEPT ![r] = [pc |-> "wait", functions |-> fs,
                                      value |-> Miss, since |-> semantic]]
  /\ intake' = Append(intake, [reader |-> r, functions |-> fs])
  /\ UNCHANGED <<semantic, stored, cache, publishing, got, worker>>

\* cached_il takes the lock (enter_query) and consults the cache.
Look(r) ==
  LET found == cache[reader[r].functions[1]] IN
  /\ reader[r].pc = "look" /\ publishing = <<>>
  /\ \/ found \in Revision /\ Return(r, <<found>>) /\ UNCHANGED intake
     \/ found = Absent /\ RequestGenerated(r, reader[r].functions)
     \/ /\ found = Miss
        /\ reader' = [reader EXCEPT ![r].pc = "load"]
        /\ UNCHANGED <<got, intake>>
  /\ UNCHANGED <<semantic, stored, cache, publishing, worker>>

Load(r) ==
  /\ reader[r].pc = "load"
  /\ reader' = [reader EXCEPT ![r].pc = "put",
                              ![r].value = Current(reader[r].functions[1])]
  /\ UNCHANGED <<semantic, stored, cache, publishing, got, intake, worker>>

\* ... caches what the project holds, lets go of the lock, and asks the
\* worker when that was nothing.
Put(r) ==
  LET value == reader[r].value IN
  /\ reader[r].pc = "put"
  /\ cache' \in Inserted(cache, reader[r].functions[1], value)
  /\ \/ value \in Revision /\ Return(r, <<value>>) /\ UNCHANGED intake
     \/ value = Absent /\ RequestGenerated(r, reader[r].functions)
  /\ UNCHANGED <<semantic, stored, publishing, worker>>

-----------------------------------------------------------------------------
(* The worker: generate_lifted is generate_lifted_batch of one function.    *)

\* Every function of the request is prepared from one state of the project.
Prepare ==
  /\ worker.pc = "idle" /\ publishing = <<>> /\ intake # <<>>
  /\ LET fs == Head(intake).functions IN
     /\ worker' = [pc |-> "turn", for |-> Head(intake).reader, functions |-> fs,
                   base |-> semantic, prepared |-> [i \in DOMAIN fs |-> Generated(fs[i])],
                   answer |-> <<>>, turn |-> semantic]
     /\ cache' = LookedUp(ToSet(fs))
  /\ intake' = Tail(intake)
  /\ UNCHANGED <<semantic, stored, publishing, reader, got>>

\* The function whose turn it is.
Position == Len(worker.answer) + 1
Turn == worker.functions[Position]

\* Mutant: a turn keeps what was prepared before the first turn.
RecheckNever(f) == worker.prepared[Position]

\* Prepared again when an earlier turn's analysers changed the inputs.
Recheck(f) == IF worker.base # semantic THEN Generated(f) ELSE worker.prepared[Position]

\* A turn that has something to cache hands it to the analysers and drains;
\* one that has nothing answers with another lookup.  A function the
\* project does not (or no longer) have is a missing artefact: answered none.
TakeTurn ==
  /\ worker.pc = "turn" /\ Position <= Len(worker.functions)
  /\ LET made == Recheck(Turn) IN
     \/ /\ made # Miss
        /\ worker' = [worker EXCEPT !.pc = "drain", !.prepared[Position] = made,
                                    !.turn = semantic]
        /\ cache' = IF worker.base # semantic THEN LookedUp({Turn}) ELSE cache
     \/ /\ made = Miss
        /\ worker' = [worker EXCEPT !.answer = Append(@, Found(Turn))]
        /\ cache' = LookedUp({Turn})
     \/ /\ worker' = [worker EXCEPT !.answer = Append(@, Absent)]
        /\ UNCHANGED cache
  /\ UNCHANGED <<semantic, stored, publishing, reader, got, intake>>

\* The drain is over: what was prepared before it is cached and answered.
InsertGenerated ==
  /\ worker.pc = "drain" /\ publishing = <<>>
  /\ cache' \in Inserted(cache, Turn, worker.prepared[Position])
  /\ worker' = [worker EXCEPT !.pc = "turn",
                              !.answer = Append(@, worker.prepared[Position])]
  /\ UNCHANGED <<semantic, stored, publishing, reader, got, intake>>

\* Mutant: the worker starts on the next request before it has replied.
ReplyLost ==
  /\ worker.pc = "turn" /\ Position > Len(worker.functions)
  /\ reader' = [reader EXCEPT ![worker.for] = Idle]
  /\ UNCHANGED <<semantic, stored, cache, publishing, got, intake, worker>>

Reply ==
  /\ worker.pc = "turn" /\ Position > Len(worker.functions)
  /\ Return(worker.for, worker.answer)
  /\ worker' = Rest
  /\ UNCHANGED <<semantic, stored, cache, publishing, intake>>

-----------------------------------------------------------------------------
Init ==
  /\ semantic = 0
  /\ stored \in [Function -> {Absent, 0}]
  /\ cache = [f \in Function |-> Miss]
  /\ publishing = <<>>
  /\ reader = [r \in Reader |-> Idle]
  /\ got = [r \in Reader |-> [values |-> <<>>, since |-> 0]]
  /\ intake = <<>>
  /\ worker = Rest
  /\ meddling \in BOOLEAN

\* The batches readers ask for: two functions in either order.
Batches == { fs \in Function \X Function : fs[1] # fs[2] }

Steps ==
  \/ \E gone \in SUBSET Function : ChangeInputs(gone)
  \/ ApplyChanges
  \/ \E f \in Function : Materialise(f) \/ Evict(f)
  \/ \E r \in Reader, f \in Function : Lifted(r, f)
  \/ \E r \in Reader, fs \in Batches : LiftedBatch(r, fs)
  \/ \E r \in Reader : Look(r) \/ Load(r) \/ Put(r)
  \/ Prepare \/ TakeTurn \/ InsertGenerated \/ Reply

\* The analysers of an engine are fixed when it is made.
Next == Steps /\ UNCHANGED meddling

Spec == Init /\ [][Next]_lifted

-----------------------------------------------------------------------------
Entry == Revision \cup {Absent, Miss}
Requests == { <<f>> : f \in Function } \cup Batches

\* The type invariant of the shared cache, the readers and the worker.
LiftedTypeOK ==
  /\ semantic \in Revision
  /\ stored \in [Function -> Revision \cup {Absent}]
  /\ cache \in [Function -> Entry]
  /\ publishing = <<>> \/ publishing = <<"inputs">>
       \/ \E f \in Function : publishing = <<"function", f>>
  /\ \A r \in Reader :
       /\ reader[r].pc \in {"idle", "look", "load", "put", "wait"}
       /\ reader[r].pc # "idle" => reader[r].functions \in Requests
       /\ reader[r].value \in Entry /\ reader[r].since \in Revision
  /\ \A i \in DOMAIN intake : reader[intake[i].reader].pc = "wait"
  /\ worker.pc \in {"idle", "turn", "drain"}
  /\ worker.pc # "idle" => worker.functions \in Requests
                            /\ reader[worker.for].pc = "wait"

\* A call never returns an artefact lifted from inputs that had already been
\* replaced when the call was made.
AlwaysFresh ==
  \A r \in Reader : \A i \in DOMAIN got[r].values :
    got[r].values[i] \in Revision => got[r].values[i] >= got[r].since

\* The same where the IL analysers leave the inputs of lifting alone
\* (cached_il's lock, apply_changes' clearing of the cache, the revision check
\* of load_current, generate_lifted).
ReadFresh == ~meddling => AlwaysFresh

\* A cached "there is none" (insert_lifted of None) never hides an artefact
\* that ensure_lifted stored: it was dropped when the artefact was published.
AbsentTrue ==
  publishing = <<>> => \A f \in Function : cache[f] = Absent => stored[f] # semantic

\* Both together: an artefact that a read is answered with is current, and an entry
\* of the cache says "there is none" only where none is stored (cached_il,
\* apply_changes).
ReadTrue == ReadFresh /\ AbsentTrue

\* The artefact a batch hands to the analysers of a function is lifted from
\* the inputs as they are at that function's turn, although all functions of
\* the batch were prepared before the first turn (generate_lifted_batch).
TurnFresh == worker.pc = "drain" => worker.prepared[Position] = worker.turn
=============================================================================
