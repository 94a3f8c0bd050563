----------------------------- MODULE CoverageProofs -----------------------------
(***************************************************************************)
(* What Coverage promises holds for any analysers, phases and addresses    *)
(* and any number of openings and changes: what retraction takes from      *)
(* coverage stays pending, a new engine repeats what its phases had        *)
(* covered, coverage tells the truth but for the three changes that the    *)
(* code lets stand, and what was processed is repeated only where it was   *)
(* claimed and not yet marked, or left to another analyser of the phase.   *)
(***************************************************************************)
EXTENDS Coverage, TLAPS

\* An analyser's entry of AnalysisCoverage.
CoverageEntry == [pending : SUBSET Place, phase : Phase, ranges : SUBSET Place]

\* Everything the engine keeps is kept for exactly its analysers, in their phases.
Typed ==
  /\ conf \in Configs
  /\ cov \in [Active -> CoverageEntry]
  /\ \A a \in Active : cov[a].phase = conf[a]
  /\ queue \in [Active -> SUBSET Place]
  /\ claimed \in [Active -> SUBSET Place]
  /\ done \in [Name -> SUBSET Place] /\ unseen \in [Name -> SUBSET Place]
  /\ yielded \in [Name -> SUBSET Place] /\ lost \in [Name -> SUBSET Place]
  /\ opened \in 1..MaxOpen /\ changes \in 0..MaxChanges

\* What is claimed was processed, and changed since only where the code lets it stand:
\* marking it is as true as coverage is.
ClaimsTrue ==
  \A a \in Active : claimed[a] \subseteq done[a] \cup unseen[a]

\* What was processed is covered, claimed, or left to another analyser; and what is covered
\* is not pending.
Accounted ==
  \A a \in Active :
    /\ done[a] \subseteq cov[a].ranges \cup claimed[a] \cup yielded[a]
    /\ cov[a].ranges \cap cov[a].pending = {}

-----------------------------------------------------------------------------
(* The operators on coverage. *)

\* AnalysisCoverage::clear takes rs from every entry's ranges and keeps what it took.
LEMMA ClearEntries ==
  ASSUME NEW D, NEW c \in [D -> CoverageEntry], NEW rs \in SUBSET Place
  PROVE  /\ Clear(c, rs) \in [D -> CoverageEntry]
         /\ \A a \in D :
              /\ Clear(c, rs)[a].ranges = c[a].ranges \ rs
              /\ Clear(c, rs)[a].pending = c[a].pending \cup (c[a].ranges \cap rs)
              /\ Clear(c, rs)[a].phase = c[a].phase
BY DEF Clear, CoverageEntry

\* AnalysisCoverage::mark adds rs to the ranges of one entry and ends its being pending.
LEMMA MarkEntries ==
  ASSUME NEW D, NEW c \in [D -> CoverageEntry], NEW a \in D, NEW rs \in SUBSET Place
  PROVE  /\ Mark(c, a, rs) \in [D -> CoverageEntry]
         /\ Mark(c, a, rs)[a].ranges = c[a].ranges \cup rs
         /\ Mark(c, a, rs)[a].pending = c[a].pending \ rs
         /\ Mark(c, a, rs)[a].phase = c[a].phase
         /\ \A b \in D \ {a} : Mark(c, a, rs)[b] = c[b]
BY DEF Mark, CoverageEntry

\* Routing leaves work at addresses, for the engine's analysers.
LEMMA ReroutedTyped ==
  ASSUME NEW q \in [Active -> SUBSET Place], NEW rs \in SUBSET Place, NEW mapped \in BOOLEAN
  PROVE  Rerouted(q, rs, mapped) \in [Active -> SUBSET Place]
BY DEF Rerouted

\* retract_claimed only takes claims away.
LEMMA RetractClaimedTyped ==
  ASSUME Typed, NEW rs \in SUBSET Place
  PROVE  /\ RetractClaimed(rs) \in [Active -> SUBSET Place]
         /\ \A a \in Active :
              /\ claimed[a] \ rs \subseteq RetractClaimed(rs)[a]
              /\ RetractClaimed(rs)[a] \subseteq claimed[a]
              /\ conf[a] \in Cancelled => RetractClaimed(rs)[a] \cap rs = {}
BY DEF Typed, RetractClaimed

\* What coverage loses is noted.
LEMMA LosingTyped ==
  ASSUME Typed, NEW rs \in SUBSET Place
  PROVE  /\ Losing(rs) \in [Name -> SUBSET Place]
         /\ \A a \in Active : Losing(rs)[a] = lost[a] \cup (cov[a].ranges \cap rs)
<1>1. Active \subseteq Name
  BY CoverageAssumption DEF Typed, Active
<1>2. \A a \in Active : cov[a].ranges \in SUBSET Place
  BY DEF Typed, CoverageEntry
<1> QED BY <1>1, <1>2 DEF Typed, Losing

\* AnalysisCoverage::configure keeps the entry of an analyser that stays in its phase; one
\* that arrives starts without ranges, and what it had, and what its phase had covered, is
\* pending.
LEMMA ConfiguredEntries ==
  ASSUME Typed, NEW new \in Configs
  PROVE  /\ Configured(cov, new) \in [DOMAIN new -> CoverageEntry]
         /\ \A a \in DOMAIN new :
              LET e == Configured(cov, new)[a] IN
              /\ e.phase = new[a]
              /\ a \notin Arriving(cov, new) =>
                   a \in Active /\ cov[a].phase = new[a] /\ e = cov[a]
              /\ a \in Arriving(cov, new) =>
                   /\ e.ranges = {}
                   /\ Covered(cov, new[a]) \subseteq e.pending
                   /\ a \in Active => cov[a].pending \cup cov[a].ranges \subseteq e.pending
<1> DEFINE kept(a) == IF a \notin DOMAIN cov THEN Uncovered(new[a])
                      ELSE IF cov[a].phase = new[a] THEN cov[a]
                      ELSE [Uncovered(new[a]) EXCEPT !.pending = cov[a].pending]
           more(a) == IF a \in Arriving(cov, new) THEN Repeated(cov, new, a) ELSE {}
<1>1. DOMAIN cov = Active /\ \A a \in Active : cov[a] \in CoverageEntry
  BY DEF Typed
<1>2. \A a \in DOMAIN new : new[a] \in Phase
  BY CoverageAssumption
<1>3. Configured(cov, new) = [a \in DOMAIN new |-> [kept(a) EXCEPT !.pending = @ \cup more(a)]]
  BY DEF Configured
<1>4. \A a \in DOMAIN new : kept(a) \in CoverageEntry /\ kept(a).phase = new[a]
  BY <1>1, <1>2 DEF Uncovered, CoverageEntry
<1>5. \A a \in DOMAIN new : more(a) \in SUBSET Place
  <2> SUFFICES ASSUME NEW a \in DOMAIN new PROVE Repeated(cov, new, a) \in SUBSET Place
    OBVIOUS
  <2>1. \A b \in Leaving(cov, new) : cov[b].ranges \in SUBSET Place
    BY <1>1 DEF Leaving, CoverageEntry
  <2> QED BY <2>1 DEF Repeated, Covered
<1>6. \A a \in DOMAIN new :
        LET e == Configured(cov, new)[a] IN
        /\ e \in CoverageEntry
        /\ e.phase = new[a] /\ e.ranges = kept(a).ranges
        /\ e.pending = kept(a).pending \cup more(a)
  <2> HIDE DEF kept, more
  <2> QED BY <1>3, <1>4, <1>5 DEF CoverageEntry
<1>7. \A a \in DOMAIN new \ Arriving(cov, new) :
        a \in Active /\ cov[a].phase = new[a] /\ Configured(cov, new)[a] = cov[a]
  <2> TAKE a \in DOMAIN new \ Arriving(cov, new)
  <2>1. a \in Active /\ cov[a].phase = new[a]
    BY <1>1 DEF Arriving
  <2>2. kept(a) = cov[a] /\ more(a) = {}
    BY <2>1, <1>1
  <2> HIDE DEF kept, more
  <2>3. Configured(cov, new)[a] = [cov[a] EXCEPT !.pending = @ \cup {}]
    BY <1>3, <2>2
  <2> QED BY <2>1, <2>3, <1>1 DEF CoverageEntry
<1>8. \A a \in DOMAIN new \cap Arriving(cov, new) :
        /\ kept(a).ranges = {}
        /\ Covered(cov, new[a]) \subseteq more(a)
        /\ a \in Active =>
             cov[a].pending \subseteq kept(a).pending /\ cov[a].ranges \subseteq more(a)
  <2> TAKE a \in DOMAIN new \cap Arriving(cov, new)
  <2>1. a \notin DOMAIN cov \/ cov[a].phase # new[a]
    BY DEF Arriving
  <2>2. kept(a).ranges = {} /\ (a \in Active => cov[a].pending \subseteq kept(a).pending)
    BY <1>1, <2>1 DEF Uncovered
  <2>3. more(a) = Repeated(cov, new, a)
    OBVIOUS
  <2>4. a \in Active => a \in Leaving(cov, new)
    BY <1>1, <2>1 DEF Leaving
  <2> HIDE DEF kept, more
  <2> QED BY <2>2, <2>3, <2>4 DEF Repeated
<1> HIDE DEF kept, more
<1>9. Configured(cov, new) \in [DOMAIN new -> CoverageEntry]
  BY <1>3, <1>6
<1> QED BY <1>6, <1>7, <1>8, <1>9

-----------------------------------------------------------------------------
(* What the actions do to the state, as the invariants see it. *)

\* The part of a step that retracts told from what analyser n has: its claims, its coverage.
Retracted(n, told) ==
  /\ cov'[n].ranges = cov[n].ranges \ told
  /\ cov'[n].pending = cov[n].pending \cup (cov[n].ranges \cap told)
  /\ claimed'[n] = RetractClaimed(told)[n]
  /\ lost'[n] = lost[n] \cup (cov[n].ranges \cap told)

\* Its history when rs changes.
Outdated(n, rs, collapsed) ==
  /\ done'[n] = done[n] \ rs
  /\ unseen'[n] = Unseen(rs, collapsed)[n]
  /\ yielded'[n] = yielded[n] \ rs

\* What the records of a commit name is some of what it changes.
LEMMA ToldTyped ==
  ASSUME NEW rs \in SUBSET Place, NEW collapsed \in BOOLEAN
  PROVE  Told(rs, collapsed) \in SUBSET Place
BY DEF Told

\* What the code lets stand is a set of places for every analyser.
LEMMA UnseenTyped ==
  ASSUME Typed, NEW rs \in SUBSET Place, NEW collapsed \in BOOLEAN
  PROVE  Unseen(rs, collapsed) \in [Name -> SUBSET Place]
BY DEF Typed, Unseen, CoverageEntry

\* route_changes: every analyser's claims and coverage of what is named go.
LEMMA RetractStep ==
  ASSUME Typed, NEW rs \in SUBSET Place, NEW mapped \in BOOLEAN, NEW collapsed \in BOOLEAN,
         Retract(rs, mapped, collapsed)
  PROVE  /\ Typed' /\ conf' = conf /\ opened' = opened
         /\ \A n \in Active :
              Retracted(n, Told(rs, collapsed)) /\ Outdated(n, rs, collapsed)
<1> DEFINE told == Told(rs, collapsed)
<1>0. told \in SUBSET Place /\ Active \subseteq Name
  BY ToldTyped, CoverageAssumption DEF Typed, Active
<1>1. conf' = conf /\ opened' = opened /\ Active' = Active
  BY DEF Retract, Active
<1>2. cov \in [Active -> CoverageEntry] /\ cov' = Clear(cov, told)
  BY DEF Typed, Retract
<1>3. /\ cov' \in [Active -> CoverageEntry]
      /\ \A a \in Active : /\ cov'[a].ranges = cov[a].ranges \ told
                           /\ cov'[a].pending = cov[a].pending \cup (cov[a].ranges \cap told)
                           /\ cov'[a].phase = cov[a].phase
  BY <1>0, <1>2, ClearEntries
<1>4. queue' \in [Active -> SUBSET Place]
  BY <1>0, ReroutedTyped DEF Typed, Retract
<1>5. claimed' \in [Active -> SUBSET Place] /\ claimed' = RetractClaimed(told)
  BY <1>0, RetractClaimedTyped DEF Retract
<1>6. /\ lost' \in [Name -> SUBSET Place]
      /\ \A a \in Active : lost'[a] = lost[a] \cup (cov[a].ranges \cap told)
  BY <1>0, LosingTyped DEF Retract
<1>7. /\ done' \in [Name -> SUBSET Place] /\ yielded' \in [Name -> SUBSET Place]
      /\ unseen' \in [Name -> SUBSET Place] /\ changes' \in 0..MaxChanges
  <2>1. done' \in [Name -> SUBSET Place] /\ yielded' \in [Name -> SUBSET Place]
    BY DEF Typed, Retract
  <2>2. unseen' \in [Name -> SUBSET Place]
    BY UnseenTyped DEF Retract
  <2>3. changes' \in 0..MaxChanges
    BY CoverageAssumption DEF Typed, Retract
  <2> QED BY <2>1, <2>2, <2>3
<1>8. \A n \in Active : Outdated(n, rs, collapsed)
  BY <1>0 DEF Outdated, Retract
<1>9. Typed'
  BY <1>1, <1>3, <1>4, <1>5, <1>6, <1>7 DEF Typed
<1> QED BY <1>1, <1>3, <1>5, <1>6, <1>8, <1>9 DEF Retracted

\* What a run of a leaves it, when it claims own: it marks some of its claims and keeps
\* or yields the others.
Claiming(a, own, rs, collapsed) ==
  LET told == Told(rs, collapsed)
      claims == RetractClaimed(told)[a] \cup own
  IN \E marked \in SUBSET Place :
       /\ cov'[a].ranges = (cov[a].ranges \ told) \cup marked
       /\ cov'[a].pending = (cov[a].pending \cup (cov[a].ranges \cap told)) \ marked
       /\ lost'[a] = (lost[a] \cup (cov[a].ranges \cap told)) \ marked
       /\ marked \subseteq claims /\ claimed'[a] \subseteq claims
       /\ claims \subseteq marked \cup claimed'[a] \cup yielded'[a]
       /\ yielded[a] \ (rs \cup own) \subseteq yielded'[a]
       /\ done'[a] = (done[a] \cup own) \ rs
       /\ unseen'[a] = (Unseen(rs, collapsed)[a] \ own) \cup (own \cap rs)

\* What it leaves all analysers: the others lose what its publication names.
Ran(a, rs, collapsed) ==
  /\ \A n \in Active \ {a} :
       Retracted(n, Told(rs, collapsed)) /\ Outdated(n, rs, collapsed)
  /\ \E own \in SUBSET Place : Claiming(a, own, rs, collapsed)

\* A run retracts from every other analyser what its publication names, and claims or
\* marks for its own.
LEMMA RunStep ==
  ASSUME Typed, NEW a \in Active, NEW batch \in SUBSET queue[a], NEW more \in BOOLEAN,
         NEW rs \in SUBSET Place, NEW mapped \in BOOLEAN, NEW collapsed \in BOOLEAN,
         Run(a, batch, more, rs, mapped, collapsed)
  PROVE  Typed' /\ conf' = conf /\ opened' = opened /\ Ran(a, rs, collapsed)
<1> DEFINE told == Told(rs, collapsed)
           left == Rerouted([queue EXCEPT ![a] = @ \ batch], told, mapped)
           own == IF conf[a] = "Retract" THEN {} ELSE batch
           claims == RetractClaimed(told)[a] \cup own
           over == ~more /\ left[a] = {}
           marked == IF over THEN Narrowed(a, claims, left) ELSE {}
           cleared == Clear(cov, told)
<1>0. told \in SUBSET Place /\ Active \subseteq Name
  BY ToldTyped, CoverageAssumption DEF Typed, Active
<1>1. conf' = conf /\ opened' = opened /\ Active' = Active
  BY DEF Run, Active
<1>2. /\ batch \in SUBSET Place /\ own \in SUBSET Place
      /\ [queue EXCEPT ![a] = @ \ batch] \in [Active -> SUBSET Place]
  BY DEF Typed
<1>3. left \in [Active -> SUBSET Place]
  BY <1>0, <1>2, ReroutedTyped
<1>4. /\ cleared \in [Active -> CoverageEntry]
      /\ \A n \in Active : /\ cleared[n].ranges = cov[n].ranges \ told
                           /\ cleared[n].pending = cov[n].pending \cup (cov[n].ranges \cap told)
                           /\ cleared[n].phase = cov[n].phase
  BY <1>0, ClearEntries DEF Typed
<1>5. RetractClaimed(told) \in [Active -> SUBSET Place]
  BY <1>0, RetractClaimedTyped
<1>6. claims \in SUBSET Place
  BY <1>2, <1>5
<1>7. marked \in SUBSET Place /\ marked \subseteq claims
  BY <1>6 DEF Narrowed
<1>8. /\ Mark(cleared, a, marked) \in [Active -> CoverageEntry]
      /\ Mark(cleared, a, marked)[a].ranges = cleared[a].ranges \cup marked
      /\ Mark(cleared, a, marked)[a].pending = cleared[a].pending \ marked
      /\ Mark(cleared, a, marked)[a].phase = cleared[a].phase
      /\ \A b \in Active \ {a} : Mark(cleared, a, marked)[b] = cleared[b]
  <2> HIDE DEF cleared, marked
  <2> QED BY <1>4, <1>7, MarkEntries
<1>9. /\ Losing(told) \in [Name -> SUBSET Place]
      /\ \A n \in Active : Losing(told)[n] = lost[n] \cup (cov[n].ranges \cap told)
  BY <1>0, LosingTyped
<1>10. /\ queue' = IF more THEN [left EXCEPT ![a] = @ \cup batch] ELSE left
       /\ claimed' = [RetractClaimed(told) EXCEPT ![a] = IF over THEN {} ELSE claims]
       /\ cov' = Mark(cleared, a, marked)
       /\ lost' = [Losing(told) EXCEPT ![a] = @ \ marked]
  BY DEF Run
<1>11. /\ done' = [n \in Name |-> (IF n = a THEN done[n] \cup own ELSE done[n]) \ rs]
       /\ unseen' = [Unseen(rs, collapsed) EXCEPT ![a] = (@ \ own) \cup (own \cap rs)]
       /\ yielded' = [n \in Name |->
            IF n # a THEN yielded[n] \ rs
            ELSE (yielded[n] \ (rs \cup own))
                   \cup (IF over THEN claims \cap Contended(a, left) ELSE {})]
  BY DEF Run
<1>12. changes' \in 0..MaxChanges
  BY CoverageAssumption DEF Typed, Run
<1>13. claims \subseteq marked \cup (IF over THEN {} ELSE claims)
                          \cup (IF over THEN claims \cap Contended(a, left) ELSE {})
  BY DEF Narrowed
<1>14. Unseen(rs, collapsed) \in [Name -> SUBSET Place]
  BY UnseenTyped
<1> HIDE DEF told, left, own, claims, over, marked, cleared
<1>15. queue' \in [Active -> SUBSET Place] /\ claimed' \in [Active -> SUBSET Place]
  BY <1>2, <1>3, <1>5, <1>6, <1>10
<1>16. /\ cov' \in [Active -> CoverageEntry]
       /\ \A n \in Active : cov'[n].phase = conf[n]
  BY <1>4, <1>8, <1>10 DEF Typed
<1>17. lost' \in [Name -> SUBSET Place] /\ done' \in [Name -> SUBSET Place]
  BY <1>2, <1>9, <1>10, <1>11 DEF Typed
<1>18. unseen' \in [Name -> SUBSET Place] /\ yielded' \in [Name -> SUBSET Place]
  BY <1>2, <1>6, <1>11, <1>14 DEF Typed
<1>19. Typed'
  BY <1>1, <1>12, <1>15, <1>16, <1>17, <1>18 DEF Typed
<1>20. ASSUME NEW n \in Active, n # a PROVE Retracted(n, told) /\ Outdated(n, rs, collapsed)
  <2>1. Retracted(n, told)
    BY <1>0, <1>4, <1>5, <1>8, <1>9, <1>10, <1>20 DEF Retracted
  <2>2. Outdated(n, rs, collapsed)
    BY <1>0, <1>11, <1>14, <1>20 DEF Outdated
  <2> QED BY <2>1, <2>2
<1>21. Claiming(a, own, rs, collapsed)
  <2>1. /\ cov'[a].ranges = (cov[a].ranges \ told) \cup marked
        /\ cov'[a].pending = (cov[a].pending \cup (cov[a].ranges \cap told)) \ marked
    BY <1>4, <1>8, <1>10
  <2>2. lost'[a] = (lost[a] \cup (cov[a].ranges \cap told)) \ marked
    BY <1>0, <1>9, <1>10
  <2>3. claimed'[a] = IF over THEN {} ELSE claims
    BY <1>5, <1>10
  <2>4. /\ yielded'[a] = (yielded[a] \ (rs \cup own))
                           \cup (IF over THEN claims \cap Contended(a, left) ELSE {})
        /\ done'[a] = (done[a] \cup own) \ rs
        /\ unseen'[a] = (Unseen(rs, collapsed)[a] \ own) \cup (own \cap rs)
    BY <1>0, <1>11, <1>14
  <2>5. claims \subseteq marked \cup claimed'[a] \cup yielded'[a]
    BY <1>13, <2>3, <2>4
  <2>6. claims = RetractClaimed(Told(rs, collapsed))[a] \cup own /\ told = Told(rs, collapsed)
    BY DEF claims, told
  <2> QED BY <1>7, <2>1, <2>2, <2>3, <2>4, <2>5, <2>6 DEF Claiming
<1>22. \A n \in Active \ {a} : Retracted(n, Told(rs, collapsed)) /\ Outdated(n, rs, collapsed)
  BY <1>20 DEF told
<1>23. Ran(a, rs, collapsed)
  BY <1>2, <1>21, <1>22 DEF Ran
<1> QED BY <1>1, <1>19, <1>23

\* Opening the project with the analysers of new.
LEMMA ReopenStep ==
  ASSUME Typed, NEW new \in Configs, Reopen(new)
  PROVE  /\ Typed' /\ conf' = new /\ cov' = Configured(cov, new)
         /\ opened' # opened
         /\ \A a \in DOMAIN new :
              /\ cov'[a].pending \subseteq queue'[a] /\ claimed'[a] = {}
              /\ queue'[a] \cap cov'[a].ranges \subseteq cov'[a].pending
<1>1. conf' = new /\ cov' = Configured(cov, new) /\ Active' = DOMAIN new
  BY DEF Reopen, Active
<1>2. cov' \in [DOMAIN new -> CoverageEntry] /\ \A a \in DOMAIN new : cov'[a].phase = new[a]
  BY <1>1, ConfiguredEntries
<1>3. /\ queue' \in [DOMAIN new -> SUBSET Place]
      /\ \A a \in DOMAIN new :
           /\ cov'[a].pending \subseteq queue'[a]
           /\ queue'[a] \cap cov'[a].ranges \subseteq cov'[a].pending
  <2>1. queue' = [a \in DOMAIN new |->
           cov'[a].pending \cup (IF a \in OnMapping THEN Hints \ cov'[a].ranges ELSE {})]
    BY <1>2 DEF Reopen, StartupWork
  <2>2. \A a \in DOMAIN new : cov'[a].pending \in SUBSET Place
    BY <1>2 DEF CoverageEntry
  <2> QED BY <2>1, <2>2, CoverageAssumption
<1>4. claimed' = [a \in DOMAIN new |-> {}]
  BY DEF Reopen
<1>5. done' \in [Name -> SUBSET Place] /\ unseen' \in [Name -> SUBSET Place]
  <2>1. \A a \in DOMAIN new \ Arriving(cov, new) : cov[a].ranges \in SUBSET Place
    BY DEF Typed, Arriving, CoverageEntry
  <2> QED BY <2>1 DEF Reopen
<1>6. lost' \in [Name -> SUBSET Place] /\ yielded' \in [Name -> SUBSET Place]
  BY DEF Typed, Reopen
<1>7. opened' \in 1..MaxOpen /\ opened' # opened /\ changes' \in 0..MaxChanges
  BY CoverageAssumption DEF Typed, Reopen
<1>8. Typed'
  BY <1>1, <1>2, <1>3, <1>4, <1>5, <1>6, <1>7 DEF Typed
<1> QED BY <1>1, <1>3, <1>4, <1>7, <1>8

\* schedule_ranges and the end of a drain touch the queue alone.
LEMMA QueueStep ==
  ASSUME Typed, NEW a \in Active, NEW rs \in SUBSET Place, Schedule(a, rs) \/ GiveUp(a, rs)
  PROVE  Typed' /\ UNCHANGED <<conf, cov, claimed, done, unseen, yielded, lost, opened>>
<1>1. /\ UNCHANGED <<conf, cov, claimed, done, unseen, yielded, lost, opened, changes>>
      /\ Active' = Active
  BY DEF Schedule, GiveUp, Active, history
<1>2. queue' \in [Active -> SUBSET Place]
  BY DEF Typed, Schedule, GiveUp
<1> QED BY <1>1, <1>2 DEF Typed

\* A step of the specification, by what it does.
LEMMA Steps ==
  ASSUME Typed, [Next]_coverage
  PROVE  \/ \E rs \in SUBSET Place, mapped, collapsed \in BOOLEAN : Retract(rs, mapped, collapsed)
         \/ \E a \in Active : \E batch \in SUBSET queue[a], more \in BOOLEAN,
              rs \in SUBSET Place, mapped, collapsed \in BOOLEAN :
                Run(a, batch, more, rs, mapped, collapsed)
         \/ \E a \in Active, rs \in SUBSET Place : Schedule(a, rs) \/ GiveUp(a, rs)
         \/ \E new \in Configs : Reopen(new)
         \/ UNCHANGED coverage
<1>0. /\ {} \in SUBSET Place /\ \A p \in Place : {p} \in SUBSET Place
      /\ \A c \in Commits : c[1] \in BOOLEAN /\ c[2] \in BOOLEAN
  BY DEF Commits
<1>1. ASSUME NEW p \in Place, NEW c \in Commits, Retract({p}, c[1], c[2])
      PROVE  \E rs \in SUBSET Place, mapped, collapsed \in BOOLEAN : Retract(rs, mapped, collapsed)
  BY <1>0, <1>1
<1>2. ASSUME NEW a \in Active, NEW p \in Place, Schedule(a, {p})
      PROVE  \E b \in Active, rs \in SUBSET Place : Schedule(b, rs) \/ GiveUp(b, rs)
  BY <1>0, <1>2
<1>3. ASSUME NEW a \in Active, NEW batch \in SUBSET queue[a], NEW more \in BOOLEAN,
             \/ Run(a, batch, more, {}, FALSE, FALSE)
             \/ \E p \in Place, c \in Commits : Run(a, batch, more, {p}, c[1], c[2])
      PROVE  \E rs \in SUBSET Place, mapped, collapsed \in BOOLEAN :
               Run(a, batch, more, rs, mapped, collapsed)
  <2>1. FALSE \in BOOLEAN
    OBVIOUS
  <2> QED BY <1>0, <1>3, <2>1
<1>4. ASSUME NEW a \in Active, NEW batch \in SUBSET queue[a], GiveUp(a, batch)
      PROVE  \E b \in Active, rs \in SUBSET Place : Schedule(b, rs) \/ GiveUp(b, rs)
  <2>1. batch \in SUBSET Place
    BY DEF Typed
  <2> QED BY <1>4, <2>1
<1> QED BY <1>1, <1>2, <1>3, <1>4 DEF Next

\* Every step keeps the state typed.
LEMMA TypedStep == ASSUME Typed, [Next]_coverage PROVE Typed'
<1>1. ASSUME UNCHANGED coverage PROVE Typed'
  BY <1>1 DEF coverage, history, Typed, Active
<1> QED BY Steps, RetractStep, RunStep, QueueStep, ReopenStep, <1>1

\* A new project has nothing covered; the hints are the first work.
LEMMA TypedInit == ASSUME Init PROVE Typed
<1>1. conf \in Configs /\ \A a \in Active : conf[a] \in Phase
  BY CoverageAssumption DEF Init, Active
<1>2. cov = [a \in Active |-> [pending |-> {}, phase |-> conf[a], ranges |-> {}]]
  BY DEF Init, Active, Uncovered
<1>3. /\ cov \in [Active -> CoverageEntry]
      /\ \A a \in Active : cov[a].phase = conf[a] /\ cov[a].pending = {}
  BY <1>1, <1>2 DEF CoverageEntry
<1>4. queue \in [Active -> SUBSET Place]
  BY <1>3, CoverageAssumption DEF Init, StartupWork
<1>5. opened \in 1..MaxOpen /\ changes \in 0..MaxChanges
  BY CoverageAssumption DEF Init
<1> QED BY <1>1, <1>3, <1>4, <1>5 DEF Init, Typed, Active

\* The facts the step lemmas carry include the type invariant.
LEMMA TypedImplies == ASSUME Typed PROVE CoverageTypeOK
BY DEF Typed, CoverageTypeOK, CoverageEntry

\* Type correctness: coverage, work and claims are kept for exactly the engine's analysers,
\* in the phases it runs them in, through every change of configuration (configure).
THEOREM TypeCorrect == Spec => []CoverageTypeOK
<1>1. Init => Typed
  BY TypedInit
<1>2. Typed /\ [Next]_coverage => Typed'
  BY TypedStep
<1>3. Typed => CoverageTypeOK
  BY TypedImplies
<1> QED BY <1>1, <1>2, <1>3, PTL DEF Spec

-----------------------------------------------------------------------------
(* The markers. *)

\* Every step keeps what retraction took in pending or in coverage.
LEMMA MarkersStep == ASSUME Typed, MarkersKept, [Next]_coverage PROVE MarkersKept'
<1>1. ASSUME NEW rs \in SUBSET Place, NEW mapped \in BOOLEAN, NEW collapsed \in BOOLEAN,
             Retract(rs, mapped, collapsed)
      PROVE  MarkersKept'
  <2>1. Active' = Active /\ \A n \in Active : Retracted(n, Told(rs, collapsed))
    BY <1>1, RetractStep DEF Active
  <2> QED BY <2>1 DEF MarkersKept, Retracted
<1>2. ASSUME NEW a \in Active, NEW batch \in SUBSET queue[a], NEW more \in BOOLEAN,
             NEW rs \in SUBSET Place, NEW mapped \in BOOLEAN, NEW collapsed \in BOOLEAN,
             Run(a, batch, more, rs, mapped, collapsed)
      PROVE  MarkersKept'
  <2>1. /\ Active' = Active
        /\ \A n \in Active \ {a} : Retracted(n, Told(rs, collapsed))
        /\ \E own \in SUBSET Place : Claiming(a, own, rs, collapsed)
    BY <1>2, RunStep DEF Active, Ran
  <2>2. lost'[a] \subseteq cov'[a].pending
    BY <2>1 DEF MarkersKept, Claiming
  <2>3. \A n \in Active \ {a} : lost'[n] \subseteq cov'[n].pending
    BY <2>1 DEF MarkersKept, Retracted
  <2> QED BY <2>1, <2>2, <2>3 DEF MarkersKept
<1>3. ASSUME NEW a \in Active, NEW rs \in SUBSET Place, Schedule(a, rs) \/ GiveUp(a, rs)
      PROVE  MarkersKept'
  BY <1>3, QueueStep DEF MarkersKept, Active
<1>4. ASSUME NEW new \in Configs, Reopen(new) PROVE MarkersKept'
  <2>1. Active' = DOMAIN new /\ cov' = Configured(cov, new)
    BY <1>4 DEF Reopen, Active
  <2>2. DOMAIN new \subseteq Name
    BY CoverageAssumption
  <2>3. \A n \in DOMAIN new : lost'[n] = IF n \in Active THEN lost[n] ELSE {}
    BY <1>4, <2>2 DEF Reopen
  <2> SUFFICES ASSUME NEW n \in DOMAIN new, n \in Active
               PROVE  lost[n] \subseteq cov'[n].pending
    BY <2>1, <2>3 DEF MarkersKept
  <2>4. cov[n].pending \subseteq cov'[n].pending
    BY <2>1, ConfiguredEntries
  <2> QED BY <2>4 DEF MarkersKept
<1>5. ASSUME UNCHANGED coverage PROVE MarkersKept'
  BY <1>5 DEF coverage, history, MarkersKept, Active
<1> QED BY Steps, <1>1, <1>2, <1>3, <1>4, <1>5

\* What retraction took from an analyser's coverage is pending until it is covered again,
\* whatever fails and however often the project is opened (clear, mark, configure).
THEOREM LostStaysPending == Spec => []MarkersKept
<1>1. Init => Typed /\ MarkersKept
  <2>1. Init => MarkersKept
    BY CoverageAssumption DEF Init, MarkersKept, Active, Uncovered
  <2> QED BY <2>1, TypedInit
<1>2. Typed /\ MarkersKept /\ [Next]_coverage => (Typed /\ MarkersKept)'
  BY TypedStep, MarkersStep
<1> QED BY <1>1, <1>2, PTL DEF Spec

-----------------------------------------------------------------------------
(* Opening with other analysers. *)

\* Only an opening counts opened up, and it queues what the phase covered and the analyser did not.
LEMMA RestoredStep ==
  ASSUME Typed, [Next]_coverage, opened' # opened, NEW a \in DOMAIN conf'
  PROVE  Covered(cov, conf'[a]) \subseteq cov'[a].ranges \cup queue'[a]
<1>1. PICK new \in Configs : Reopen(new)
  <2>1. ASSUME UNCHANGED coverage PROVE FALSE
    BY <2>1 DEF coverage
  <2> QED BY Steps, RetractStep, RunStep, QueueStep, <2>1
<1>2. conf' = new /\ cov' = Configured(cov, new) /\ cov'[a].pending \subseteq queue'[a]
  BY <1>1, ReopenStep
<1>3. CASE a \in Arriving(cov, new)
  BY <1>2, <1>3, ConfiguredEntries
<1>4. CASE a \notin Arriving(cov, new)
  <2>1. a \in DOMAIN cov /\ cov[a].phase = new[a] /\ cov'[a] = cov[a]
    BY <1>2, <1>4, ConfiguredEntries DEF Typed
  <2>2. Covered(cov, new[a]) \subseteq cov[a].ranges
    BY <2>1 DEF Covered
  <2> QED BY <1>2, <2>1, <2>2
<1> QED BY <1>3, <1>4

\* An engine with other analysers starts with work for everything that a phase had covered
\* and an analyser of that phase has not (CoverageConfiguration::from_changes).
THEOREM NothingCoveredSkipped == Spec => PhasesRestored
<1>1. Init => Typed
  BY TypedInit
<1>2. Typed /\ [Next]_coverage => Typed'
  BY TypedStep
<1>3. Typed /\ [Next]_coverage =>
        [opened' # opened =>
           \A a \in DOMAIN conf' :
             Covered(cov, conf'[a]) \subseteq cov'[a].ranges \cup queue'[a]]_coverage
  BY RestoredStep
<1> QED BY <1>1, <1>2, <1>3, PTL DEF Spec, PhasesRestored

-----------------------------------------------------------------------------
(* Coverage and what was processed. *)

\* What a change leaves covered and claimed was processed, or is what the code lets stand.
LEMMA OutdatedTrue ==
  ASSUME Typed, ClaimsTrue, CoveredTrue, NEW n \in Active, NEW rs \in SUBSET Place,
         NEW collapsed \in BOOLEAN
  PROVE  /\ RetractClaimed(Told(rs, collapsed))[n]
              \subseteq (done[n] \ rs) \cup Unseen(rs, collapsed)[n]
         /\ cov[n].ranges \ Told(rs, collapsed)
              \subseteq (done[n] \ rs) \cup Unseen(rs, collapsed)[n]
<1>0. n \in Name
  BY CoverageAssumption DEF Typed, Active
<1>1. claimed[n] \subseteq done[n] \cup unseen[n] /\ cov[n].ranges \subseteq done[n] \cup unseen[n]
  BY DEF ClaimsTrue, CoveredTrue
<1>2. CASE collapsed
  <2>1. Unseen(rs, collapsed)[n] = unseen[n] \cup (rs \cap (cov[n].ranges \cup claimed[n]))
    BY <1>0, <1>2 DEF Unseen
  <2>2. Told(rs, collapsed) = {}
    BY <1>2 DEF Told
  <2>3. RetractClaimed(Told(rs, collapsed))[n] \subseteq claimed[n]
    BY ToldTyped, RetractClaimedTyped
  <2> QED BY <1>1, <2>1, <2>2, <2>3
<1>3. CASE ~collapsed
  <2>1. Unseen(rs, collapsed)[n] =
          (unseen[n] \ rs) \cup (IF conf[n] \in Cancelled THEN {} ELSE claimed[n] \cap rs)
    BY <1>0, <1>3 DEF Unseen
  <2>2. Told(rs, collapsed) = rs
    BY <1>3 DEF Told
  <2>3. /\ RetractClaimed(rs)[n] \subseteq claimed[n]
        /\ conf[n] \in Cancelled => RetractClaimed(rs)[n] \cap rs = {}
    BY RetractClaimedTyped
  <2> QED BY <1>1, <2>1, <2>2, <2>3
<1> QED BY <1>2, <1>3

\* Every step keeps both what is claimed and what is covered true.
LEMMA CoveredStep ==
  ASSUME Typed, ClaimsTrue, CoveredTrue, [Next]_coverage
  PROVE  ClaimsTrue' /\ CoveredTrue'
<1> DEFINE Good(n) == /\ claimed'[n] \subseteq done'[n] \cup unseen'[n]
                      /\ cov'[n].ranges \subseteq done'[n] \cup unseen'[n]
<1>0. ASSUME NEW n \in Active, NEW rs \in SUBSET Place, NEW collapsed \in BOOLEAN,
             Retracted(n, Told(rs, collapsed)), Outdated(n, rs, collapsed)
      PROVE  Good(n)
  BY <1>0, OutdatedTrue DEF Retracted, Outdated
<1>1. ASSUME NEW rs \in SUBSET Place, NEW mapped \in BOOLEAN, NEW collapsed \in BOOLEAN,
             Retract(rs, mapped, collapsed)
      PROVE  ClaimsTrue' /\ CoveredTrue'
  <2>1. Active' = Active /\ \A n \in Active : Good(n)
    BY <1>0, <1>1, RetractStep DEF Active
  <2> QED BY <2>1 DEF ClaimsTrue, CoveredTrue
<1>2. ASSUME NEW a \in Active, NEW batch \in SUBSET queue[a], NEW more \in BOOLEAN,
             NEW rs \in SUBSET Place, NEW mapped \in BOOLEAN, NEW collapsed \in BOOLEAN,
             Run(a, batch, more, rs, mapped, collapsed)
      PROVE  ClaimsTrue' /\ CoveredTrue'
  <2>0. conf' = conf /\ Ran(a, rs, collapsed)
    BY <1>2, RunStep
  <2>1. Active' = Active /\ \A n \in Active \ {a} : Good(n)
    <3> HIDE DEF Good
    <3> QED BY <2>0, <1>0 DEF Active, Ran
  <2>2. PICK own \in SUBSET Place : Claiming(a, own, rs, collapsed)
    BY <2>0 DEF Ran
  <2> DEFINE kept == (done[a] \ rs) \cup Unseen(rs, collapsed)[a]
  <2>3. /\ RetractClaimed(Told(rs, collapsed))[a] \subseteq kept
        /\ cov[a].ranges \ Told(rs, collapsed) \subseteq kept
    BY OutdatedTrue
  <2>4. kept \cup own \subseteq done'[a] \cup unseen'[a]
    BY <2>2 DEF Claiming
  <2>5. Good(a)
    BY <2>2, <2>3, <2>4 DEF Claiming
  <2> QED BY <2>1, <2>5 DEF ClaimsTrue, CoveredTrue
<1>3. ASSUME NEW a \in Active, NEW rs \in SUBSET Place, Schedule(a, rs) \/ GiveUp(a, rs)
      PROVE  ClaimsTrue' /\ CoveredTrue'
  BY <1>3, QueueStep DEF Active, ClaimsTrue, CoveredTrue
<1>4. ASSUME NEW new \in Configs, Reopen(new) PROVE ClaimsTrue' /\ CoveredTrue'
  <2>1. /\ Active' = DOMAIN new /\ cov' = Configured(cov, new)
        /\ \A n \in DOMAIN new : claimed'[n] = {}
    BY <1>4, ReopenStep DEF Active
  <2>2. \A n \in DOMAIN new \ Arriving(cov, new) :
          /\ done'[n] = done[n] \cap cov[n].ranges
          /\ unseen'[n] = unseen[n] \cap cov[n].ranges
    <3>1. DOMAIN new \subseteq Name
      BY CoverageAssumption
    <3> QED BY <1>4, <3>1 DEF Reopen
  <2>3. \A n \in DOMAIN new : cov'[n].ranges \subseteq done'[n] \cup unseen'[n]
    BY <2>1, <2>2, ConfiguredEntries DEF CoveredTrue
  <2> QED BY <2>1, <2>3 DEF ClaimsTrue, CoveredTrue
<1>5. ASSUME UNCHANGED coverage PROVE ClaimsTrue' /\ CoveredTrue'
  BY <1>5 DEF coverage, history, Active, ClaimsTrue, CoveredTrue
<1> QED BY Steps, <1>1, <1>2, <1>3, <1>4, <1>5

\* Coverage tells the truth about what was processed and has not changed since
\* (mark_covered, retract_claimed, retract_coverage), but for the changes of a collapsed
\* commit, of a run in its own batch, and under the claims of a phase that retraction
\* does not cancel.
THEOREM CoverageIsTrue == Spec => []CoveredTrue
<1>1. Init => Typed /\ ClaimsTrue /\ CoveredTrue
  <2>1. Init => ClaimsTrue /\ CoveredTrue
    BY CoverageAssumption DEF Init, ClaimsTrue, CoveredTrue, Active, Uncovered
  <2> QED BY <2>1, TypedInit
<1>2. Typed /\ ClaimsTrue /\ CoveredTrue /\ [Next]_coverage
        => (Typed /\ ClaimsTrue /\ CoveredTrue)'
  BY TypedStep, CoveredStep
<1> QED BY <1>1, <1>2, PTL DEF Spec

\* Every step accounts for what was processed, and nothing is both covered and pending.
LEMMA AccountedStep == ASSUME Typed, Accounted, [Next]_coverage PROVE Accounted'
<1> DEFINE Good(n) == /\ done'[n] \subseteq cov'[n].ranges \cup claimed'[n] \cup yielded'[n]
                      /\ cov'[n].ranges \cap cov'[n].pending = {}
<1>0. ASSUME NEW n \in Active, NEW rs \in SUBSET Place, NEW collapsed \in BOOLEAN
      PROVE  /\ claimed[n] \ rs \subseteq RetractClaimed(Told(rs, collapsed))[n]
             /\ cov[n].ranges \ rs \subseteq cov[n].ranges \ Told(rs, collapsed)
             /\ done[n] \subseteq cov[n].ranges \cup claimed[n] \cup yielded[n]
             /\ cov[n].ranges \cap cov[n].pending = {}
  <2>1. Told(rs, collapsed) \subseteq rs /\ Told(rs, collapsed) \in SUBSET Place
    BY DEF Told
  <2> QED BY <2>1, RetractClaimedTyped DEF Accounted
<1>1. ASSUME NEW n \in Active, NEW rs \in SUBSET Place, NEW collapsed \in BOOLEAN,
             Retracted(n, Told(rs, collapsed)), Outdated(n, rs, collapsed)
      PROVE  Good(n)
  BY <1>0, <1>1 DEF Retracted, Outdated
<1>2. ASSUME NEW rs \in SUBSET Place, NEW mapped \in BOOLEAN, NEW collapsed \in BOOLEAN,
             Retract(rs, mapped, collapsed)
      PROVE  Accounted'
  <2>1. Active' = Active /\ \A n \in Active : Good(n)
    BY <1>1, <1>2, RetractStep DEF Active
  <2> QED BY <2>1 DEF Accounted
<1>3. ASSUME NEW a \in Active, NEW batch \in SUBSET queue[a], NEW more \in BOOLEAN,
             NEW rs \in SUBSET Place, NEW mapped \in BOOLEAN, NEW collapsed \in BOOLEAN,
             Run(a, batch, more, rs, mapped, collapsed)
      PROVE  Accounted'
  <2>0. conf' = conf /\ Ran(a, rs, collapsed)
    BY <1>3, RunStep
  <2>1. Active' = Active /\ \A n \in Active \ {a} : Good(n)
    <3> HIDE DEF Good
    <3> QED BY <2>0, <1>1 DEF Active, Ran
  <2>2. PICK own \in SUBSET Place : Claiming(a, own, rs, collapsed)
    BY <2>0 DEF Ran
  <2>3. Good(a)
    BY <1>0, <2>2 DEF Claiming
  <2> QED BY <2>1, <2>3 DEF Accounted
<1>4. ASSUME NEW a \in Active, NEW rs \in SUBSET Place, Schedule(a, rs) \/ GiveUp(a, rs)
      PROVE  Accounted'
  BY <1>4, QueueStep DEF Active, Accounted
<1>5. ASSUME NEW new \in Configs, Reopen(new) PROVE Accounted'
  <2>1. Active' = DOMAIN new /\ cov' = Configured(cov, new)
    BY <1>5 DEF Reopen, Active
  <2>2. \A n \in DOMAIN new :
          done'[n] = IF n \in Arriving(cov, new) THEN {} ELSE done[n] \cap cov[n].ranges
    <3>1. DOMAIN new \subseteq Name
      BY CoverageAssumption
    <3> QED BY <1>5, <3>1 DEF Reopen
  <2>3. ASSUME NEW n \in DOMAIN new PROVE Good(n)
    <3>1. CASE n \in Arriving(cov, new)
      <4>1. cov'[n].ranges = {} /\ done'[n] = {}
        BY <2>1, <2>2, <3>1, ConfiguredEntries
      <4> QED BY <4>1
    <3>2. CASE n \notin Arriving(cov, new)
      <4>1. n \in Active /\ cov'[n] = cov[n]
        BY <2>1, <3>2, ConfiguredEntries
      <4>2. done'[n] \subseteq cov[n].ranges
        BY <2>2, <3>2
      <4> QED BY <4>1, <4>2 DEF Accounted
    <3> QED BY <3>1, <3>2
  <2> QED BY <2>1, <2>3 DEF Accounted
<1>6. ASSUME UNCHANGED coverage PROVE Accounted'
  BY <1>6 DEF coverage, history, Active, Accounted
<1> QED BY Steps, <1>2, <1>3, <1>4, <1>5, <1>6

\* An opening queues for an analyser that stays nothing it has processed, but what was
\* claimed or yielded.
LEMMA NotRepeatedStep ==
  ASSUME Typed, Accounted, [Next]_coverage, opened' # opened,
         NEW a \in DOMAIN conf' \ Arriving(cov, conf')
  PROVE  queue'[a] \cap done[a] \subseteq claimed[a] \cup yielded[a]
<1>1. PICK new \in Configs : Reopen(new)
  <2>1. ASSUME UNCHANGED coverage PROVE FALSE
    BY <2>1 DEF coverage
  <2> QED BY Steps, RetractStep, RunStep, QueueStep, <2>1
<1>2. conf' = new /\ cov' = Configured(cov, new)
        /\ queue'[a] \cap cov'[a].ranges \subseteq cov'[a].pending
  BY <1>1, ReopenStep
<1>3. a \in Active /\ cov'[a] = cov[a]
  BY <1>2, ConfiguredEntries
<1> QED BY <1>2, <1>3 DEF Accounted

\* A new engine does not repeat what an analyser has processed, but for what it had claimed
\* and not yet marked when the last engine ended and for what it left to another analyser of
\* its phase (mark_covered, configure, schedule_uncovered_hints).
THEOREM ProcessedNotRepeated == Spec => NotRepeated
<1>1. Init => Typed /\ Accounted
  <2>1. Init => Accounted
    BY CoverageAssumption DEF Init, Accounted, Active, Uncovered
  <2> QED BY <2>1, TypedInit
<1>2. Typed /\ Accounted /\ [Next]_coverage => (Typed /\ Accounted)'
  BY TypedStep, AccountedStep
<1>3. Typed /\ Accounted /\ [Next]_coverage =>
        [opened' # opened =>
           \A a \in DOMAIN conf' \ Arriving(cov, conf') :
             queue'[a] \cap done[a] \subseteq claimed[a] \cup yielded[a]]_coverage
  BY NotRepeatedStep
<1> QED BY <1>1, <1>2, <1>3, PTL DEF Spec, NotRepeated
================================================================================
