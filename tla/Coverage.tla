------------------------------ MODULE Coverage ------------------------------
(***************************************************************************)
(* What has been analysed, across openings of a project: the regions an    *)
(* analyser claims while it works (ScheduledAnalyser), the coverage that   *)
(* the worker marks when it is done (mark_covered), what retraction takes  *)
(* back, and what a new engine with other analysers must do again          *)
(* (AnalysisCoverage::configure).  From project/analysis.rs,               *)
(* engine/worker.rs and engine/scheduler/analyser.rs.                      *)
(*                                                                         *)
(* Regions are sets of places.  A transaction past its limit of records is *)
(* collapsed to one Resynchronise, which names no place: route_changes     *)
(* then retracts and schedules nothing.  IL analysers, which have no       *)
(* coverage, and project-wide work, which claims no region, are left out.  *)
(***************************************************************************)
EXTENDS Naturals, FiniteSets

CONSTANTS
  Name,         \* names of analysers
  Phase,        \* their phases
  Cancelled,    \* PHASES_CANCELLED_BY_RETRACTION
  Place,        \* addresses
  Hints,        \* entry point, function symbols and hints of the segments
  OnMapping,    \* analysers that new mappings and bytes trigger
  Configs,      \* the analysers, with their phases, that an engine may have
  MaxOpen,      \* bound on the openings of the project
  MaxChanges    \* bound on the commits that change bytes or mappings

ASSUME CoverageAssumption ==
  /\ Cancelled \subseteq Phase /\ Hints \subseteq Place /\ OnMapping \subseteq Name
  /\ \A conf \in Configs : DOMAIN conf \subseteq Name /\ \A a \in DOMAIN conf : conf[a] \in Phase
  /\ MaxOpen \in Nat \ {0} /\ MaxChanges \in Nat

VARIABLES
  conf,      \* the analysers of this engine and their phases
  cov,       \* AnalysisCoverage, by analyser: ranges, phase and pending
  queue,     \* where each analyser has work
  claimed,   \* what each analyser has claimed since it last marked coverage
  done,      \* history: what each analyser that claims processed, unchanged since
  unseen,    \* history: what it processed and changed, and the code lets stand
  yielded,   \* history: the claims it left to another analyser of its phase
  lost,      \* history: what retraction took from its coverage, until covered again
  opened,    \* openings so far
  changes    \* commits so far that changed bytes or mappings

history == <<done, unseen, yielded, lost>>
coverage == <<conf, cov, queue, claimed, history, opened, changes>>

Active == DOMAIN conf
Quiet == \A a \in Active : queue[a] = {}
Uncovered(ph) == [pending |-> {}, phase |-> ph, ranges |-> {}]

\* AnalysisCoverage::covered: what every analyser of the phase has covered.
Covered(c, ph) ==
  LET in == { a \in DOMAIN c : c[a].phase = ph } IN
  { p \in Place : in # {} /\ \A a \in in : p \in c[a].ranges }

-----------------------------------------------------------------------------
(* The work of an engine. *)

\* Mutant: what is no longer covered is not remembered.
ClearSilently(c, rs) == [a \in DOMAIN c |-> [c[a] EXCEPT !.ranges = @ \ rs]]

\* AnalysisCoverage::clear.
Clear(c, rs) ==
  [a \in DOMAIN c |-> [c[a] EXCEPT !.ranges = @ \ rs, !.pending = @ \cup (c[a].ranges \cap rs)]]

\* AnalysisCoverage::mark of a's claims.
Mark(c, a, rs) == [c EXCEPT ![a].ranges = @ \cup rs, ![a].pending = @ \ rs]

\* What the routing of changed bytes or mappings at rs leaves of the queue q:
\* no work of the cancelled phases there, and work for the analysers of
\* OnMapping when bytes or mappings are new (mapped); the end of a mapping
\* triggers none.
Rerouted(q, rs, mapped) ==
  [a \in Active |->
    (IF conf[a] \in Cancelled THEN q[a] \ rs ELSE q[a])
      \cup (IF mapped /\ a \in OnMapping THEN rs ELSE {})]

\* Mutant: the claims outlive what they are about.
RetractClaimedNone(rs) == claimed

\* ScheduledAnalyser::retract_claimed, for the analysers of those phases.
RetractClaimed(rs) ==
  [a \in Active |-> IF conf[a] \in Cancelled THEN claimed[a] \ rs ELSE claimed[a]]

\* What coverage loses when rs changes.
Losing(rs) ==
  [a \in Name |-> IF a \in Active THEN lost[a] \cup (cov[a].ranges \cap rs) ELSE lost[a]]

\* What the records of a commit that changes rs name of it.
Told(rs, collapsed) == IF collapsed THEN {} ELSE rs

\* What has changed since an analyser processed it, and stays covered or claimed
\* all the same: everything that a collapsed commit changes, and the claims
\* of the phases that retraction does not cancel.
Unseen(rs, collapsed) ==
  [a \in Name |->
    IF a \notin Active THEN {}
    ELSE IF collapsed THEN unseen[a] \cup (rs \cap (cov[a].ranges \cup claimed[a]))
    ELSE (unseen[a] \ rs) \cup (IF conf[a] \in Cancelled THEN {} ELSE claimed[a] \cap rs)]

\* A commit of a client changes bytes or mappings at rs (route_changes): the
\* work, the claims and the coverage of what its records name go.
Retract(rs, mapped, collapsed) ==
  LET told == Told(rs, collapsed) IN
  /\ changes < MaxChanges /\ changes' = changes + 1
  /\ queue' = Rerouted(queue, told, mapped)
  /\ claimed' = RetractClaimed(told)
  /\ cov' = Clear(cov, told)
  /\ lost' = Losing(told)
  /\ done' = [a \in Name |-> done[a] \ rs]
  /\ unseen' = Unseen(rs, collapsed)
  /\ yielded' = [a \in Name |-> yielded[a] \ rs]
  /\ UNCHANGED <<conf, opened>>

\* schedule_ranges and the routing of other changes: work without retraction.
Schedule(a, rs) ==
  /\ ~(rs \subseteq queue[a])
  /\ queue' = [queue EXCEPT ![a] = @ \cup rs]
  /\ UNCHANGED <<conf, cov, claimed, history, opened, changes>>

\* What the other analysers of a's phase still have to do.
Contended(a, q) == UNION { q[b] : b \in { b \in Active \ {a} : conf[b] = conf[a] } }

\* Mutant: the work of the analysers of every phase counts.
NarrowedByAll(a, rs, q) ==
  rs \ UNION { q[b] : b \in Active \ {a} }

\* What a may mark of its claims.
Narrowed(a, rs, q) ==
  rs \ Contended(a, q)

\* A run of a over a batch of its work that publishes changes of the bytes or
\* mappings at rs (none when rs is empty), admitted.  The publication is
\* routed; then the batch is claimed, but in the phase Retract, also where the
\* run itself changed it, and when the analyser has nothing left its claims
\* are marked (mark_covered); then, when the analyser says that it has work
\* left (more), the batch is queued again.
Run(a, batch, more, rs, mapped, collapsed) ==
  LET told == Told(rs, collapsed)
      left == Rerouted([queue EXCEPT ![a] = @ \ batch], told, mapped)
      own == IF conf[a] = "Retract" THEN {} ELSE batch
      claims == RetractClaimed(told)[a] \cup own
      over == ~more /\ left[a] = {}
      marked == IF over THEN Narrowed(a, claims, left) ELSE {}
  IN /\ rs # {} => changes < MaxChanges
     /\ changes' = IF rs = {} THEN changes ELSE changes + 1
     /\ queue' = IF more THEN [left EXCEPT ![a] = @ \cup batch] ELSE left
     /\ claimed' = [RetractClaimed(told) EXCEPT ![a] = IF over THEN {} ELSE claims]
     /\ cov' = Mark(Clear(cov, told), a, marked)
     /\ lost' = [Losing(told) EXCEPT ![a] = @ \ marked]
     /\ done' = [n \in Name |-> (IF n = a THEN done[n] \cup own ELSE done[n]) \ rs]
     /\ unseen' = [Unseen(rs, collapsed) EXCEPT ![a] = (@ \ own) \cup (own \cap rs)]
     /\ yielded' = [n \in Name |->
          IF n # a THEN yielded[n] \ rs
          ELSE (yielded[n] \ (rs \cup own))
                 \cup (IF over THEN claims \cap Contended(a, left) ELSE {})]
     /\ UNCHANGED <<conf, opened>>

\* Work that is given up (RetryBudgetExhausted, or the error that ends a
\* drain).
GiveUp(a, batch) ==
  /\ queue' = [queue EXCEPT ![a] = @ \ batch]
  /\ UNCHANGED <<conf, cov, claimed, history, opened, changes>>

-----------------------------------------------------------------------------
(* Opening the project with an engine of other analysers. *)

\* The analysers that new has and c does not have in the same phase, and
\* those that c has and new does not.
Arriving(c, new) == { a \in DOMAIN new : a \notin DOMAIN c \/ c[a].phase # new[a] }
Leaving(c, new) == { a \in DOMAIN c : a \notin DOMAIN new \/ c[a].phase # new[a] }

\* What an arriving analyser has to repeat: what its phase had covered, what
\* the analysers that leave its phase had, and what it had in another phase
\* (CoverageConfiguration::from_changes).
Repeated(c, new, a) ==
  Covered(c, new[a])
    \cup UNION { c[b].ranges : b \in { b \in Leaving(c, new) : b = a \/ c[b].phase = new[a] } }

\* AnalysisCoverage::configure.
Configured(c, new) ==
  [a \in DOMAIN new |->
    LET kept == IF a \notin DOMAIN c THEN Uncovered(new[a])
                ELSE IF c[a].phase = new[a] THEN c[a]
                ELSE [Uncovered(new[a]) EXCEPT !.pending = c[a].pending]
    IN [kept EXCEPT !.pending = @ \cup (IF a \in Arriving(c, new) THEN Repeated(c, new, a) ELSE {})]]

\* The work an engine starts with: apply_coverage_reconfiguration and
\* schedule_uncovered_hints.
StartupWork(c) ==
  [a \in DOMAIN c |-> c[a].pending \cup (IF a \in OnMapping THEN Hints \ c[a].ranges ELSE {})]

\* The engine is dropped, which drains its queue unless an error ends that,
\* the project is saved, opened again and given to an engine with the
\* analysers of new.  The claims go with the engine.
Reopen(new) ==
  /\ opened < MaxOpen
  /\ conf' = new
  /\ cov' = Configured(cov, new)
  /\ queue' = StartupWork(cov')
  /\ claimed' = [a \in DOMAIN new |-> {}]
  /\ LET staying == DOMAIN new \ Arriving(cov, new) IN
       /\ done' = [a \in Name |-> IF a \in staying THEN done[a] \cap cov[a].ranges ELSE {}]
       /\ unseen' = [a \in Name |-> IF a \in staying THEN unseen[a] \cap cov[a].ranges ELSE {}]
  /\ yielded' = [a \in Name |-> {}]
  /\ lost' = [a \in Name |-> IF a \in Active \cap DOMAIN new THEN lost[a] ELSE {}]
  /\ opened' = opened + 1
  /\ UNCHANGED changes

Init ==
  /\ conf \in Configs
  /\ cov = [a \in DOMAIN conf |-> Uncovered(conf[a])]
  /\ queue = StartupWork(cov)
  /\ claimed = [a \in DOMAIN conf |-> {}]
  /\ done = [a \in Name |-> {}] /\ unseen = [a \in Name |-> {}]
  /\ yielded = [a \in Name |-> {}] /\ lost = [a \in Name |-> {}]
  /\ opened = 1 /\ changes = 0

\* A commit maps or writes, unmaps, or is collapsed.
Commits == { c \in BOOLEAN \X BOOLEAN : ~(c[1] /\ c[2]) }

Next ==
  \/ \E p \in Place, c \in Commits : Retract({p}, c[1], c[2])
  \/ \E a \in Active, p \in Place : Schedule(a, {p})
  \/ \E a \in Active : \E batch \in (SUBSET queue[a]) \ {{}} :
       \/ \E more \in BOOLEAN :
            \/ Run(a, batch, more, {}, FALSE, FALSE)
            \/ \E p \in Place, c \in Commits : Run(a, batch, more, {p}, c[1], c[2])
       \/ GiveUp(a, batch)
  \/ \E new \in Configs : Reopen(new)

Spec == Init /\ [][Next]_coverage

-----------------------------------------------------------------------------
\* The type invariant: one entry of coverage for every configured analyser,
\* in the phase this engine runs it in.
CoverageTypeOK ==
  /\ conf \in Configs /\ DOMAIN cov = Active
  /\ \A a \in Active :
       /\ cov[a].phase = conf[a]
       /\ cov[a].ranges \subseteq Place /\ cov[a].pending \subseteq Place
       /\ queue[a] \subseteq Place /\ claimed[a] \subseteq Place
  /\ done \in [Name -> SUBSET Place] /\ unseen \in [Name -> SUBSET Place]
  /\ yielded \in [Name -> SUBSET Place] /\ lost \in [Name -> SUBSET Place]
  /\ opened \in 1..MaxOpen /\ changes \in 0..MaxChanges

\* Coverage tells the truth: what it says an analyser has covered was
\* processed by it, in this opening of the project or an earlier one, and has
\* not changed since (mark_covered, retract_claimed, retract_coverage).  It is
\* blind to three changes alone: those of a collapsed commit, those that a
\* run makes in its own batch, and those under the claims of a phase that
\* retraction does not cancel.
CoveredTrue ==
  \A a \in Active : cov[a].ranges \subseteq done[a] \cup unseen[a]

\* The same without the exceptions, which the code does not keep.
CoveredStrictly ==
  \A a \in Active : cov[a].ranges \subseteq done[a]

\* An engine that opens the project again does not repeat what an analyser
\* has processed: of that it queues only what was claimed when the last
\* engine ended, before the analyser was through with its work, and what the
\* analyser left to another one of its phase.
NotRepeated ==
  [][opened' # opened =>
       \A a \in DOMAIN conf' \ Arriving(cov, conf') :
         queue'[a] \cap done[a] \subseteq claimed[a] \cup yielded[a]]_coverage

\* The same when nothing is yielded to another analyser, which the code does
\* not keep.
NotRepeatedStrictly ==
  [][opened' # opened =>
       \A a \in DOMAIN conf' \ Arriving(cov, conf') :
         queue'[a] \cap done[a] \subseteq claimed[a]]_coverage

\* What retraction took from an analyser's coverage is pending until it is
\* covered again, whatever fails and however often the project is opened.
MarkersKept ==
  \A a \in Active : lost[a] \subseteq cov[a].pending

\* An engine with other analysers starts with work for everything that a
\* phase had covered and an analyser of that phase has not.
PhasesRestored ==
  [][opened' # opened =>
       \A a \in DOMAIN conf' :
         Covered(cov, conf'[a]) \subseteq cov'[a].ranges \cup queue'[a]]_coverage
=============================================================================
