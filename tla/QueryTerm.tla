----------------------------- MODULE QueryTerm -----------------------------
(***************************************************************************)
(* Cached computations over the project, fugue-core's queries/term.rs,     *)
(* with the locks of queries/reader.rs and the change index of ChangeIndex *)
(* underneath.                                                             *)
(*                                                                         *)
(* Term::evaluate asks the index once per clause of its dependency, each   *)
(* time under a read lock of its own, and compares the answer with the     *)
(* watermark of the cached value.  On a mismatch it computes the value     *)
(* again under another read lock.  The worker commits whenever no reader   *)
(* holds the publication lock, so also between any two of these steps; a   *)
(* worker that waits for the lock keeps new readers out.                   *)
(***************************************************************************)
EXTENDS ChangeIndex, Sequences

CONSTANTS
    Agent,    \* the threads that own a term
    Clauses,  \* per agent: the clauses of its dependency, kinds and region
    ReadSets, \* what a computation may read
    Never     \* Option::None for a watermark

\* A read: a kind, and the addresses or (no addresses) everything of that kind.
Read == [kind : Kind, cells : SUBSET Address]

ASSUME TermAssumption ==
    /\ Clauses \in [Agent -> Seq([kinds : SUBSET Kind, region : SUBSET Address])]
    /\ ReadSets \subseteq SUBSET Read
    /\ Never \notin Nat

VARIABLES
    wanted,     \* the worker waits for the publication lock
    pc,         \* per agent: what evaluate is doing
    clause,     \* per agent: the clause to ask about next
    latest,     \* per agent: the latest change found so far
    watermark,  \* per term: the latest change its value was stored under
    stored,     \* per term: the reads of the value and the revision it was computed at
    began       \* history, per agent: the revision at which evaluate was called

termVars == <<pc, clause, latest, watermark, stored, began>>
vars     == <<indexVars, wanted, termVars>>
-----------------------------------------------------------------------------
\* ChangeIndex::latest_change, the largest of the revisions that count.
LatestChange(kinds, region) ==
    CHOOSE n \in 0..MaxRevision :
        /\ \A since \in n..MaxRevision : ~ChangedSince(since, kinds, region)
        /\ n = 0 \/ ChangedSince(n - 1, kinds, region)

\* The publication lock is free for readers.
MayEnter == todo = {} /\ ~wanted

\* Dependency::covers: each read kind is declared by one clause that is wide enough.
Covers(a, reads) ==
    \A r \in reads : \E n \in DOMAIN Clauses[a] :
        /\ r.kind \in Clauses[a][n].kinds
        /\ \/ Clauses[a][n].region = {}
           \/ r.cells # {} /\ r.cells \subseteq Clauses[a][n].region
-----------------------------------------------------------------------------
(* Term::evaluate *)

Evaluate(a) ==
    /\ pc[a] = "idle"
    /\ pc' = [pc EXCEPT ![a] = "asking"]
    /\ clause' = [clause EXCEPT ![a] = 1]
    /\ latest' = [latest EXCEPT ![a] = 0]
    /\ began' = [began EXCEPT ![a] = revision]
    /\ UNCHANGED <<indexVars, wanted, watermark, stored>>

\* Faulty form of Ask: evaluate starts over whenever a clause has another answer.
AskUntilStable(a) ==
    /\ pc[a] = "asking"
    /\ clause[a] \in DOMAIN Clauses[a]
    /\ MayEnter
    /\ LET c == Clauses[a][clause[a]]
           n == LatestChange(c.kinds, c.region)
       IN  /\ latest' = [latest EXCEPT ![a] = n]
           /\ clause' = [clause EXCEPT ![a] = IF latest[a] = n THEN @ + 1 ELSE 1]
    /\ UNCHANGED <<indexVars, wanted, pc, watermark, stored, began>>

\* Dependency::latest, one clause of it.
Ask(a) ==
    /\ pc[a] = "asking"
    /\ clause[a] \in DOMAIN Clauses[a]
    /\ MayEnter
    /\ LET c == Clauses[a][clause[a]]
       IN  latest' = [latest EXCEPT ![a] = Larger(@, LatestChange(c.kinds, c.region))]
    /\ clause' = [clause EXCEPT ![a] = @ + 1]
    /\ UNCHANGED <<indexVars, wanted, pc, watermark, stored, began>>

Asked(a) == pc[a] = "asking" /\ clause[a] \notin DOMAIN Clauses[a]

\* The cached value is returned.
Hit(a) ==
    /\ Asked(a)
    /\ watermark[a] = latest[a]
    /\ pc' = [pc EXCEPT ![a] = "idle"]
    /\ UNCHANGED <<indexVars, wanted, clause, latest, watermark, stored, began>>

\* QueryReader::project: the handle keeps both locks while the closure runs.
Open(a) ==
    /\ Asked(a)
    /\ watermark[a] # latest[a]
    /\ MayEnter
    /\ pc' = [pc EXCEPT ![a] = "computing"]
    /\ UNCHANGED <<indexVars, wanted, clause, latest, watermark, stored, began>>

\* The closure has read something.  An undeclared read, or a failure, stores nothing.
Abandon(a) ==
    /\ pc[a] = "computing"
    /\ pc' = [pc EXCEPT ![a] = "idle"]
    /\ UNCHANGED <<indexVars, wanted, clause, latest, watermark, stored, began>>

\* Faulty forms of Store: undeclared reads pass; the value is filed under the present revision.
StoreUnchecked(a, reads) ==
    /\ pc[a] = "computing"
    /\ watermark' = [watermark EXCEPT ![a] = latest[a]]
    /\ stored' = [stored EXCEPT ![a] = [reads |-> reads, at |-> revision]]
    /\ pc' = [pc EXCEPT ![a] = "idle"]
    /\ UNCHANGED <<indexVars, wanted, clause, latest, began>>
StoreRegardless(a, reads) ==
    /\ pc[a] = "computing"
    /\ Covers(a, reads)
    /\ watermark' = [watermark EXCEPT ![a] = revision + 1]
    /\ stored' = [stored EXCEPT ![a] = [reads |-> reads, at |-> revision]]
    /\ pc' = [pc EXCEPT ![a] = "idle"]
    /\ UNCHANGED <<indexVars, wanted, clause, latest, began>>

Store(a, reads) ==
    /\ pc[a] = "computing"
    /\ Covers(a, reads)
    /\ watermark' = [watermark EXCEPT ![a] = latest[a]]
    /\ stored' = [stored EXCEPT ![a] = [reads |-> reads, at |-> revision]]
    /\ pc' = [pc EXCEPT ![a] = "idle"]
    /\ UNCHANGED <<indexVars, wanted, clause, latest, began>>
-----------------------------------------------------------------------------
(* The worker *)

\* begin_publication: the worker queues for the write lock.
Want ==
    /\ ~wanted
    /\ todo = {}
    /\ revision < MaxRevision
    /\ wanted' = TRUE
    /\ UNCHANGED <<indexVars, termVars>>

\* It gets the lock once the readers inside have left, and commits.
Publish(chosen) ==
    /\ wanted
    /\ \A a \in Agent : pc[a] # "computing"
    /\ Commit(chosen)
    /\ wanted' = FALSE
    /\ UNCHANGED termVars

\* A transaction that is rejected, or changes nothing, gives the lock back.
GiveUp ==
    /\ wanted
    /\ \A a \in Agent : pc[a] # "computing"
    /\ wanted' = FALSE
    /\ UNCHANGED <<indexVars, termVars>>

Apply == ApplyNext /\ UNCHANGED <<wanted, termVars>>

Init ==
    /\ IndexInit
    /\ wanted = FALSE
    /\ pc = [a \in Agent |-> "idle"]
    /\ clause = [a \in Agent |-> 1]
    /\ latest = [a \in Agent |-> 0]
    /\ watermark = [a \in Agent |-> Never]
    /\ stored = [a \in Agent |-> [reads |-> {}, at |-> 0]]
    /\ began = [a \in Agent |-> 0]

Finish(a) == Abandon(a) \/ \E reads \in ReadSets : Store(a, reads)

Next ==
    \/ \E a \in Agent : Evaluate(a) \/ Ask(a) \/ Hit(a) \/ Open(a) \/ Finish(a)
    \/ Want
    \/ \E chosen \in SUBSET Record : Publish(chosen)
    \/ GiveUp
    \/ Apply

(***************************************************************************)
(* The worker's thread and the agents' threads run, a closure ends, and    *)
(* parking_lot's locks are eventually fair.  Nobody has to call evaluate   *)
(* or to want a transaction.                                               *)
(***************************************************************************)
Fairness ==
    /\ WF_vars(Apply)
    /\ WF_vars(GiveUp \/ \E chosen \in SUBSET Record : Publish(chosen))
    /\ \A a \in Agent : /\ SF_vars(Ask(a))
                        /\ WF_vars(Hit(a))
                        /\ SF_vars(Open(a))
                        /\ WF_vars(Finish(a))

Spec     == Init /\ [][Next]_vars
FairSpec == Spec /\ Fairness
-----------------------------------------------------------------------------
(* Properties *)

\* The values that the terms and their evaluations range over.
TypeOK ==
    /\ IndexTypeOK
    /\ wanted \in BOOLEAN
    /\ pc \in [Agent -> {"idle", "asking", "computing"}]
    /\ \A a \in Agent : clause[a] \in 1..(Len(Clauses[a]) + 1)
    /\ latest \in [Agent -> 0..revision]
    /\ watermark \in [Agent -> (0..revision) \cup {Never}]
    /\ stored \in [Agent -> [reads : SUBSET Read, at : 0..revision]]
    /\ began \in [Agent -> 0..revision]

\* A read has seen a change that was committed between two revisions.
Disturbed(r, from, to) ==
    \E x \in Place : /\ truth[r.kind][x] > from
                     /\ truth[r.kind][x] <= to
                     /\ r.cells = {} \/ x \in r.cells \cup {Nowhere}

(***************************************************************************)
(* A cached value is never stale when it is returned: nothing that its     *)
(* computation read changed between its computation and the call of        *)
(* evaluate that returns it, although watermark, clauses and value are     *)
(* taken under different locks with commits in between.                    *)
(***************************************************************************)
HitFresh ==
    \A a \in Agent : (Asked(a) /\ watermark[a] = latest[a]) =>
        \A r \in stored[a].reads :
            r.kind \in Located => ~Disturbed(r, stored[a].at, began[a])

(***************************************************************************)
(* A call of evaluate returns, even if the worker always has another       *)
(* transaction waiting for the lock.                                       *)
(***************************************************************************)
Returns == \A a \in Agent : pc[a] = "asking" ~> pc[a] = "idle"
=============================================================================
