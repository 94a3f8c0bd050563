----------------------------- MODULE Reanalysis -----------------------------
(***************************************************************************)
(* Who is analysed again when the project changes: the worker's routing of *)
(* committed changes to analysers (route_changes, route_direct,            *)
(* route_dependencies), the reads it records for every production          *)
(* (DependencyIndex), and the ways a piece of scheduled work ends          *)
(* (dispatch, handle_dispatch_failure).  From engine/worker.rs and         *)
(* engine/view.rs.                                                         *)
(*                                                                         *)
(* Addresses are the places 1, 2, ...; place 0 is the whole project, the   *)
(* place of records and of work without a range.  The work queue is a set  *)
(* of places per analyser: WorkQueue shows that it loses and invents       *)
(* nothing.  The worker is the only thread that commits, so an analyser's  *)
(* run, its admission and the routing of what it published are one step.   *)
(* A record is about one place.  A function's record, which triggers at    *)
(* its entry but concerns the reads of its whole body, is two: one at the  *)
(* entry, and one of a kind that triggers nobody for the rest of the body. *)
(* A commit past its limit of records is collapsed to one Resynchronise.   *)
(***************************************************************************)
EXTENDS Naturals, FiniteSets, FiniteSetsExt

CONSTANTS
  Analyser,
  MaxPlace,      \* addresses are 1..MaxPlace
  ChangeKind,    \* kinds of changes
  Retracting,    \* kinds whose records require retraction (bytes, mappings)
  Tracked,       \* TRACKED_DEPENDENCY_KINDS
  Resync,        \* the kind RESYNCHRONISE, of collapsed commits
  Triggers,      \* the kinds that schedule an analyser directly
  Produces,      \* the kinds an analyser declares to produce
  Cancellable,   \* analysers of the phases cancelled by retraction
  MaxAttempts,   \* Analyser::max_attempts
  Commits,       \* what commits change, as records, and whether they are collapsed
  Requests,      \* the kinds and sets of addresses that clients schedule
  ReadChoices,   \* the sets of records that an analysis may read
  Outside,       \* the author of commits that no analyser makes
  MaxRevision    \* bound on the number of commits

Address == 1..MaxPlace
Place == 0..MaxPlace
Whole == 0
Record == ChangeKind \X Place        \* a change record, or a read of what it changes

ASSUME ReanalysisAssumption ==
  /\ MaxPlace \in Nat /\ MaxRevision \in Nat
  /\ MaxAttempts \in Nat \ {0}
  /\ Retracting \subseteq ChangeKind /\ Tracked \subseteq ChangeKind /\ Resync \in ChangeKind
  /\ Triggers \in [Analyser -> SUBSET ChangeKind]
  /\ Produces \in [Analyser -> SUBSET ChangeKind]
  /\ Cancellable \subseteq Analyser
  /\ Commits \subseteq (SUBSET Record) \X BOOLEAN
  /\ Requests \subseteq ChangeKind \X SUBSET Address
  /\ ReadChoices \subseteq SUBSET Record
  /\ Outside \notin Analyser

VARIABLES
  now,      \* the project's revision
  queue,    \* queue[a][p][c]: 0, or 1 + the attempts of a's work at p (c: a continuation)
  reads,    \* DependencyIndex: what a's production at p read
  ran,      \* the revision after a's last run at p
  seen,     \* history: the last revision whose change set told a of a record's change
  missed,   \* history: the last revision whose change set did not
  ended,    \* history: work that ended without a run: exhausted, cancelled, aborted
  absorbed, \* history: whose project-wide work was run as work over regions only
  ending    \* the completion hooks that this drain still owes its analysers

history == <<seen, missed>>
reanalysis == <<now, queue, reads, ran, history, ended, absorbed, ending>>

-----------------------------------------------------------------------------
(* Routing. *)

KindsOf(w) == { r[1] : r \in w }
PlacesOf(w, k) == { r[2] : r \in { s \in w : s[1] = k } }

\* The ranges of a commit's records of kind k, put together; records without
\* a range add nothing.
Regions(w, k) == PlacesOf(w, k) \ {Whole}

\* A change that an analyser published itself, of a kind it declares.
SelfProduced(a, by, k) == by = a /\ k \in Produces[a]

\* Mutant: only a read with a range can be invalidated.
ConcernsRanged(read, k, rs) == read[1] = k /\ read[2] \in rs

\* The read of one record concerns a change of kind k over the regions rs
\* (everywhere when rs is empty).
Concerns(read, k, rs) ==
  read[1] = k /\ (rs = {} \/ read[2] = Whole \/ read[2] \in rs)

\* The places where a is scheduled for a commit: directly by the kinds that
\* trigger it, and by the reads of its productions.
Direct(a, by, w) ==
  UNION { IF Regions(w, k) = {} THEN {Whole} ELSE Regions(w, k) :
          k \in { k \in KindsOf(w) \cap Triggers[a] : ~SelfProduced(a, by, k) } }

Invalidated(a, by, w) ==
  { p \in Place : \E k \in KindsOf(w) \cap Tracked :
      /\ ~SelfProduced(a, by, k)
      /\ \E read \in reads[a][p] : Concerns(read, k, Regions(w, k)) }

\* What a commit takes out of the queue: the decoding and partitioning of
\* bytes that are no longer there.
Retracted(w) == UNION { Regions(w, k) : k \in Retracting }

\* Mutant: cancellation comes after the new work is scheduled.
RoutedThenCancelled(q, by, w) ==
  LET gone == Retracted(w) IN
  [a \in Analyser |->
    LET at == Direct(a, by, w) \cup Invalidated(a, by, w) IN
    [p \in Place |-> [c \in BOOLEAN |->
       IF a \in Cancellable /\ p \in gone THEN 0
       ELSE IF ~c /\ p \in at THEN Max({q[a][p][c], 1}) ELSE q[a][p][c]]]]

\* The queue after route_changes: cancel, then schedule; work that is already
\* queued at the place keeps its attempts.
Routed(q, by, w) ==
  LET gone == Retracted(w) IN
  [a \in Analyser |->
    LET at == Direct(a, by, w) \cup Invalidated(a, by, w) IN
    [p \in Place |-> [c \in BOOLEAN |->
       LET kept == IF a \in Cancellable /\ p \in gone THEN 0 ELSE q[a][p][c] IN
       IF ~c /\ p \in at THEN Max({kept, 1}) ELSE kept]]]

Queued(q, a, p) == \E c \in BOOLEAN : q[a][p][c] > 0

\* The work that the commit's cancellation ends.
CancelledBy(q, w) == { x \in Cancellable \X Retracted(w) : Queued(q, x[1], x[2]) }

Quiet == \A a \in Analyser, p \in Place : ~Queued(queue, a, p)

\* The change set of a commit that changes the records of w (finish).
Staged(w, collapsed) == IF collapsed THEN {<<Resync, Whole>>} ELSE w

\* The changes that the change set names: none when it was collapsed, and of
\* those without a range none that stands beside a ranged one of its kind.
Named(w, collapsed) ==
  IF collapsed THEN {} ELSE { r \in w : r[2] = Whole => Regions(w, r[1]) = {} }

\* The history of a commit of w by an author; an empty one changes nothing.
Published(by, w, collapsed) ==
  LET named == Named(w, collapsed) IN
  /\ now' = IF w = {} THEN now ELSE now + 1
  /\ seen' = [a \in Analyser |-> [r \in Record |->
       IF r \in named /\ ~SelfProduced(a, by, r[1]) THEN now' ELSE seen[a][r]]]
  /\ missed' = [a \in Analyser |-> [r \in Record |->
       IF r \in w \ named /\ ~SelfProduced(a, by, r[1]) THEN now' ELSE missed[a][r]]]

-----------------------------------------------------------------------------
(* Commits that are not an analyser's run. *)

\* An update by a client, or the diagnostics the worker flushes: applied
\* when the queue is empty and the completion hooks have run.
Update(w, collapsed) ==
  /\ Quiet /\ ending = {} /\ now < MaxRevision
  /\ Published(Outside, w, collapsed)
  /\ queue' = Routed(queue, Outside, Staged(w, collapsed))
  /\ ended' = ended \cup CancelledBy(queue, Staged(w, collapsed))
  /\ UNCHANGED <<reads, ran, absorbed, ending>>

\* The completion hooks (analysis_ended) start when the queue is empty and
\* run one after the other, the later ones beside work that the earlier ones
\* scheduled.  A hook publishes in the name of its analyser; what it read is
\* not recorded.
Complete(a, w, collapsed) ==
  /\ a \in ending
  /\ ending = Analyser => Quiet
  /\ w # {} => now < MaxRevision
  /\ Published(a, w, collapsed)
  /\ queue' = Routed(queue, a, Staged(w, collapsed))
  /\ ended' = ended \cup CancelledBy(queue, Staged(w, collapsed))
  /\ ending' = ending \ {a}
  /\ UNCHANGED <<reads, ran, absorbed>>

\* A hook that fails ends the drain.
CompletionFails ==
  /\ ending # {}
  /\ ending = Analyser => Quiet
  /\ ending' = {}
  /\ UNCHANGED <<now, queue, reads, ran, history, ended, absorbed>>

\* schedule_ranges: work a client asks for; several requests may be routed
\* before the drain that follows them.
RouteRequested(k, rs) ==
  /\ ending = {}
  /\ queue' = [a \in Analyser |-> [p \in Place |-> [c \in BOOLEAN |->
       IF ~c /\ k \in Triggers[a] /\ p \in (IF rs = {} THEN {Whole} ELSE rs)
       THEN Max({queue[a][p][c], 1}) ELSE queue[a][p][c]]]]
  /\ UNCHANGED <<now, reads, ran, history, ended, absorbed, ending>>

-----------------------------------------------------------------------------
(* The analysers' work. *)

\* The batches pop_batch may return for a: the first few of its places (the
\* whole project comes first), of one kind of work.
Batches(a, c) ==
  LET at == { p \in Place : queue[a][p][c] > 0 } IN
  { { p \in at : p <= last } : last \in at }

\* The queue without a batch.
Popped(a, c, batch) ==
  [queue EXCEPT ![a] = [p \in Place |-> IF p \in batch THEN [@[p] EXCEPT ![c] = 0] ELSE @[p]]]

\* The productions that a run over a batch renews: those of its regions, or
\* the project-wide one when it has none (regions.is_empty()).
Renewed(batch) == IF batch \subseteq {Whole} THEN {Whole} ELSE batch \ {Whole}

\* DependencyIndex::record: the reads of a continuation are added to those of
\* what it continues.
Recorded(a, c, batch, read) ==
  LET before == IF c THEN UNION { reads[a][p] : p \in Renewed(batch) } ELSE {} IN
  [reads EXCEPT ![a] = [p \in Place |-> IF p \in Renewed(batch) THEN read \cup before ELSE @[p]]]

\* The queue with a batch put back as a continuation, with its attempts.
Continued(q, a, c, batch) ==
  [q EXCEPT ![a] = [p \in Place |-> [d \in BOOLEAN |->
     IF d /\ p \in batch THEN Max({q[a][p][d], queue[a][p][c]}) ELSE q[a][p][d]]]]

\* A run that is admitted: it reads, publishes, and its changes are routed by
\* the reads recorded before; then its own reads are recorded.  An analyser
\* with work left (more) gets the batch back as a continuation.
Dispatch(a, c, batch, read, w, collapsed, more) ==
  /\ w # {} => now < MaxRevision
  /\ Published(a, w, collapsed)
  /\ queue' = LET after == Routed(Popped(a, c, batch), a, Staged(w, collapsed)) IN
              IF more THEN Continued(after, a, c, batch) ELSE after
  /\ reads' = Recorded(a, c, batch, read)
  /\ ran' = [ran EXCEPT ![a] = [p \in Place |->
       IF p \in Renewed(batch) THEN now' ELSE @[p]]]
  /\ ended' = (ended \cup CancelledBy(Popped(a, c, batch), Staged(w, collapsed)))
                \ { <<a, p>> : p \in Renewed(batch) }
  /\ absorbed' = (absorbed \ { b \in {a} : Whole \in Renewed(batch) })
                   \cup { b \in {a} : Whole \in batch \ Renewed(batch) }
  /\ ending' = Analyser

\* A run that fails or is rejected: every item is charged an attempt and put
\* back, or given up and reported as RetryBudgetExhausted.
Fail(a, c, batch) ==
  /\ queue' = [Popped(a, c, batch) EXCEPT ![a] = [p \in Place |->
       IF p \in batch
       THEN [@[p] EXCEPT ![c] = IF queue[a][p][c] >= MaxAttempts THEN 0 ELSE queue[a][p][c] + 1]
       ELSE @[p]]]
  /\ ended' = ended \cup { <<a, p>> : p \in { q \in batch : queue[a][q][c] >= MaxAttempts } }
  /\ ending' = Analyser
  /\ UNCHANGED <<now, reads, ran, history, absorbed>>

\* An error that ends the drain (storage, analysis data): the batch is gone.
Abort(a, c, batch) ==
  /\ queue' = Popped(a, c, batch)
  /\ ended' = ended \cup { <<a, p>> : p \in batch }
  /\ ending' = {}
  /\ UNCHANGED <<now, reads, ran, history, absorbed>>

-----------------------------------------------------------------------------
RoutingInit ==
  /\ now = 0
  /\ queue = [a \in Analyser |-> [p \in Place |-> [c \in BOOLEAN |-> 0]]]
  /\ reads = [a \in Analyser |-> [p \in Place |-> {}]]
  /\ ran = [a \in Analyser |-> [p \in Place |-> 0]]
  /\ seen = [a \in Analyser |-> [r \in Record |-> 0]]
  /\ missed = [a \in Analyser |-> [r \in Record |-> 0]]
  /\ ended = {} /\ absorbed = {}
  /\ ending = {}

\* What an analyser publishes: a commit, or nothing.
Publications == Commits \cup {<<{}, FALSE>>}

RunBatch(a, c, batch) ==
  \/ \E read \in ReadChoices, w \in Publications, more \in BOOLEAN :
       Dispatch(a, c, batch, read, w[1], w[2], more)
  \/ Fail(a, c, batch)
  \/ Abort(a, c, batch)

RoutingNext ==
  \/ \E w \in Commits : Update(w[1], w[2])
  \/ \E a \in Analyser, w \in Publications : Complete(a, w[1], w[2])
  \/ CompletionFails
  \/ \E q \in Requests : RouteRequested(q[1], q[2])
  \/ /\ ending \in {{}, Analyser}
     /\ \E a \in Analyser, c \in BOOLEAN : \E batch \in Batches(a, c) : RunBatch(a, c, batch)

RoutingSpec == RoutingInit /\ [][RoutingNext]_reanalysis

-----------------------------------------------------------------------------
\* The type invariant of the routing state.
RoutingTypeOK ==
  /\ now \in 0..MaxRevision
  /\ queue \in [Analyser -> [Place -> [BOOLEAN -> 0..MaxAttempts]]]
  /\ reads \in [Analyser -> [Place -> SUBSET Record]]
  /\ ran \in [Analyser -> [Place -> 0..MaxRevision]]
  /\ seen \in [Analyser -> [Record -> 0..MaxRevision]]
  /\ missed \in [Analyser -> [Record -> 0..MaxRevision]]
  /\ ended \subseteq Analyser \X Place /\ absorbed \subseteq Analyser
  /\ ending \subseteq Analyser

\* A read concerns a record: the same kind, and the same place unless one of
\* the two is about the whole project (ReadSet::conflicts_with).
Reads(read, r) == read[1] = r[1] /\ (read[2] = r[2] \/ Whole \in {read[2], r[2]})

\* A's work at p is not forgotten: it is queued, or it ended in a way the
\* engine knows of, or it is the whole project's and was run as work over
\* regions only (regions.is_empty() in record is about the whole batch).
Accounted(a, p) ==
  Queued(queue, a, p) \/ <<a, p>> \in ended \/ (p = Whole /\ a \in absorbed)

\* A production does not stay out of date unnoticed: when a change of
\* something that it read was told after its last run, its analyser is
\* scheduled there again (route_dependencies and DependencyIndex::record).
\* What no change set tells of is a change in a collapsed commit, and one
\* without a range beside ranged ones of its kind.
UpToDate ==
  \A a \in Analyser, p \in Place :
    \A read \in reads[a][p], r \in Record :
      Reads(read, r) /\ r[1] \in Tracked /\ seen[a][r] > ran[a][p] => Accounted(a, p)

\* A change that triggers an analyser at a place and is told is followed by a
\* run there, or its work is accounted for (route_direct, run_work_batch and
\* handle_dispatch_failure).
TriggersServed ==
  \A a \in Analyser, r \in Record :
    r[1] \in Triggers[a] /\ seen[a][r] > ran[a][r[2]] => Accounted(a, r[2])

\* The same of all work, which the code does not keep: a batch may hold
\* project-wide work beside work over regions.
UpToDateStrictly ==
  \A a \in Analyser, p \in Place :
    \A read \in reads[a][p], r \in Record :
      Reads(read, r) /\ r[1] \in Tracked /\ seen[a][r] > ran[a][p]
        => Queued(queue, a, p) \/ <<a, p>> \in ended

\* The same of the triggers in every commit, which the code does not keep: a
\* commit may be collapsed.
TriggersServedStrictly ==
  \A a \in Analyser, r \in Record :
    r[1] \in Triggers[a] /\ Max({seen[a][r], missed[a][r]}) > ran[a][r[2]] => Accounted(a, r[2])
=============================================================================
