---------------------------- MODULE Subscription ----------------------------
(***************************************************************************)
(* Change subscriptions: fugue-core's engine/subscription.rs, the filter   *)
(* of engine/change.rs and the worker's finish_publish and subscribe.      *)
(*                                                                         *)
(* The worker thread sends every committed change set to a bounded channel *)
(* per subscriber and never blocks: a channel that is full is emptied by   *)
(* the worker itself, through a receiver of its own, and gets one          *)
(* Resynchronise record instead.  The consumer's thread receives from the  *)
(* same channel all the while.                                             *)
(*                                                                         *)
(* The consumer is the agent of tests/engine_resynchronisation.rs: it      *)
(* applies detailed records one by one and reads the whole project again   *)
(* when it meets a Resynchronise.  It keeps of every thing the last change *)
(* it was told of, which is more than the agent of the test, whose set of  *)
(* symbols a SymbolChanged only adds to.                                   *)
(***************************************************************************)
EXTENDS Integers, FiniteSets, Sequences

CONSTANTS
    Record,        \* the things a change record can name
    Kind,          \* change kinds, RESYNCHRONISE excepted
    KindOf,        \* the kind of a record about each thing
    Cell,          \* addresses
    Where,         \* the addresses a record about each thing names
    Source,        \* provenances of a transaction
    Subscriber,    \* subscriptions
    KindsOf,       \* per subscription: the kinds of its filter
    RegionOf,      \* per subscription: the region of its filter, or None
    SourcesOf,     \* per subscription: the sources of its filter, {} for any
    Capacity,      \* per subscription: the capacity asked for
    MaxDetailed,   \* MAX_DETAILED_CHANGE_RECORDS
    MaxRevision,   \* bound: how many transactions commit
    Resync,        \* the Resynchronise record
    None           \* Option::None

ResyncKind == Resync  \* ChangeKinds::RESYNCHRONISE

ASSUME SubscriptionAssumption ==
    /\ IsFiniteSet(Record)
    /\ Resync \notin Record \cup Kind
    /\ KindOf \in [Record -> Kind]
    /\ Where \in [Record -> SUBSET Cell]
    /\ KindsOf \in [Subscriber -> SUBSET (Kind \cup {ResyncKind})]
    /\ \A s \in Subscriber : RegionOf[s] = None \/ RegionOf[s] \subseteq Cell
    /\ SourcesOf \in [Subscriber -> SUBSET Source]
    /\ Capacity \in [Subscriber -> Nat]
    /\ MaxDetailed \in Nat \ {0}
    /\ MaxRevision \in Nat
    /\ None \notin Subscriber
    /\ None \notin [revision : 0..MaxRevision, source : Source,
                    records : SUBSET (Record \cup {Resync})]

ChangeSet == [revision : 0..MaxRevision, records : SUBSET (Record \cup {Resync})]

VARIABLES
    revision,     \* the project's revision
    facts,        \* per thing: the revision that last changed it
    publishing,   \* the change set being sent out and its source, or None
    waiting,      \* subscribers it has still to be offered to
    draining,     \* the subscriber whose full channel is being emptied, or None
    registered,   \* the worker's list of subscribers
    origin,       \* history, per thing: the source of its last change
    pending,      \* Subscribe requests in the worker's intake
    handle,       \* per subscription: what its owner has done with it
    queue,        \* per subscription: the change sets in its channel
    hand,         \* per subscription: change sets received and not yet applied
    seen,         \* per subscription: the largest revision received
    view          \* per subscription: the agent's copy of facts

project == <<revision, facts, origin>>
worker  == <<project, publishing, waiting, draining, registered>>
agent   == <<pending, handle, hand, seen, view>>
vars    == <<worker, agent, queue>>
-----------------------------------------------------------------------------
(* Filters *)

\* ChangeFilter::matches: the kind, and some address unless the record has none.
Matches(s, r) ==
    IF r = Resync THEN ResyncKind \in KindsOf[s]
    ELSE /\ KindOf[r] \in KindsOf[s]
         /\ \/ RegionOf[s] = None
            \/ Where[r] = {}
            \/ Where[r] \cap RegionOf[s] # {}

\* ChangeSourceFilter::matches
FromSource(s, source) == SourcesOf[s] = {} \/ source \in SourcesOf[s]

\* ChangeFilter::apply: the records of the set that concern the subscriber.
Scoped(s, p) ==
    IF FromSource(s, p.source) THEN {r \in p.records : Matches(s, r)} ELSE {}

\* ChangeStaging::finish: a transaction with too many records keeps no detail.
Staged(touched) == IF Cardinality(touched) > MaxDetailed THEN {Resync} ELSE touched

\* open_subscription never makes a channel without room.
Room(s) == IF Capacity[s] > 1 THEN Capacity[s] ELSE 1

Idle == publishing = None
-----------------------------------------------------------------------------
(* The worker *)

\* with_transaction: the project changes before anybody is told.
Commit(touched, source) ==
    /\ Idle
    /\ revision < MaxRevision
    /\ revision' = revision + 1
    /\ facts' = [r \in Record |-> IF r \in touched THEN revision' ELSE facts[r]]
    /\ origin' = [r \in Record |-> IF r \in touched THEN source ELSE origin[r]]
    /\ publishing' = [revision |-> revision', records |-> Staged(touched), source |-> source]
    /\ waiting' = registered
    /\ UNCHANGED <<draining, registered, queue, agent>>

\* Subscriber::materialise finds that only the worker's own receiver is left.
Prune(s) ==
    /\ draining = None
    /\ s \in waiting
    /\ handle[s] = "dropped"
    /\ registered' = registered \ {s}
    /\ waiting' = waiting \ {s}
    /\ queue' = [queue EXCEPT ![s] = <<>>]
    /\ UNCHANGED <<project, publishing, draining, agent>>

\* Nothing in the set concerns the subscriber.
Skip(s) ==
    /\ draining = None
    /\ s \in waiting
    /\ handle[s] # "dropped"
    /\ Cardinality(publishing.records) <= MaxDetailed
    /\ Scoped(s, publishing) = {}
    /\ waiting' = waiting \ {s}
    /\ UNCHANGED <<project, publishing, draining, registered, queue, agent>>

\* Faulty form of Send: the channel has no bound.
SendUnbounded(s) ==
    /\ draining = None
    /\ s \in waiting
    /\ handle[s] # "dropped"
    /\ Scoped(s, publishing) # {}
    /\ queue' = [queue EXCEPT ![s] = Append(@, [revision |-> publishing.revision,
                                                records |-> Scoped(s, publishing)])]
    /\ waiting' = waiting \ {s}
    /\ UNCHANGED <<project, publishing, draining, registered, agent>>

\* try_send, when there is room.
Send(s) ==
    /\ draining = None
    /\ s \in waiting
    /\ handle[s] # "dropped"
    /\ Cardinality(publishing.records) <= MaxDetailed
    /\ Scoped(s, publishing) # {}
    /\ Len(queue[s]) < Room(s)
    /\ queue' = [queue EXCEPT ![s] = Append(@, [revision |-> publishing.revision,
                                                records |-> Scoped(s, publishing)])]
    /\ waiting' = waiting \ {s}
    /\ UNCHANGED <<project, publishing, draining, registered, agent>>

\* Faulty form of Lag: the change set is dropped for a subscriber that lags.
LagDrops(s) ==
    /\ draining = None
    /\ s \in waiting
    /\ handle[s] # "dropped"
    /\ waiting' = waiting \ {s}
    /\ Scoped(s, publishing) # {} /\ Len(queue[s]) >= Room(s)
    /\ UNCHANGED <<project, publishing, draining, registered, queue, agent>>

\* try_send, when the channel is full: the subscriber has lagged.
Lag(s) ==
    /\ draining = None
    /\ s \in waiting
    /\ handle[s] # "dropped"
    /\ \/ Cardinality(publishing.records) > MaxDetailed
       \/ Scoped(s, publishing) # {} /\ Len(queue[s]) >= Room(s)
    /\ draining' = s
    /\ UNCHANGED <<project, publishing, waiting, registered, queue, agent>>

\* Subscriber::resync takes out what the consumer has not taken ...
DrainOne ==
    /\ draining # None
    /\ queue[draining] # <<>>
    /\ queue' = [queue EXCEPT ![draining] = Tail(@)]
    /\ UNCHANGED <<worker, agent>>

\* Faulty form of SendResync: the record carries the revision before this one.
SendResyncStale ==
    /\ draining # None
    /\ queue[draining] = <<>>
    /\ queue' = [queue EXCEPT ![draining] =
                    Append(@, [revision |-> publishing.revision - 1, records |-> {Resync}])]
    /\ waiting' = waiting \ {draining}
    /\ draining' = None
    /\ UNCHANGED <<project, publishing, registered, agent>>

\* ... and then sends the one record that stands for all of it.
SendResync ==
    /\ draining # None
    /\ queue[draining] = <<>>
    /\ queue' = [queue EXCEPT ![draining] =
                    Append(@, [revision |-> publishing.revision, records |-> {Resync}])]
    /\ waiting' = waiting \ {draining}
    /\ draining' = None
    /\ UNCHANGED <<project, publishing, registered, agent>>

Published ==
    /\ publishing # None
    /\ waiting = {}
    /\ publishing' = None
    /\ UNCHANGED <<project, waiting, draining, registered, queue, agent>>

\* Faulty form of Register: a late subscriber is told nothing.
RegisterSilently(s) ==
    /\ Idle
    /\ s \in pending
    /\ pending' = pending \ {s}
    /\ registered' = registered \cup {s}
    /\ UNCHANGED <<project, publishing, waiting, draining, queue, handle, hand, seen, view>>

\* subscribe: a subscriber that comes late starts with a resynchronisation.
Register(s) ==
    /\ Idle
    /\ s \in pending
    /\ pending' = pending \ {s}
    /\ registered' = registered \cup {s}
    /\ queue' = IF revision = 0 THEN queue
                ELSE [queue EXCEPT ![s] =
                         Append(@, [revision |-> revision, records |-> {Resync}])]
    /\ UNCHANGED <<project, publishing, waiting, draining, handle, hand, seen, view>>
-----------------------------------------------------------------------------
(* The consumer *)

\* open_subscription returns once the request is in the worker's intake.
Subscribe(s) ==
    /\ handle[s] = "closed"
    /\ handle' = [handle EXCEPT ![s] = "open"]
    /\ pending' = pending \cup {s}
    /\ UNCHANGED <<worker, queue, hand, seen, view>>

\* recv and try_recv, and each round of drain_merged.
Receive(s) ==
    /\ handle[s] = "open"
    /\ queue[s] # <<>>
    /\ hand' = [hand EXCEPT ![s] = Append(@, Head(queue[s]))]
    /\ seen' = [seen EXCEPT ![s] = Head(queue[s]).revision]
    /\ queue' = [queue EXCEPT ![s] = Tail(@)]
    /\ UNCHANGED <<worker, pending, handle, view>>

\* The change sets of a channel or of a batch.
Contents(q) == {q[n] : n \in DOMAIN q}
Flagged(q)  == \E c \in Contents(q) : Resync \in c.records

\* The last change set of a batch that names a thing decides what is known of it.
Replayed(known, batch, r) ==
    LET naming == {n \in DOMAIN batch : r \in batch[n].records}
    IN  IF naming = {} THEN known
        ELSE batch[CHOOSE n \in naming : \A m \in naming : m <= n].revision

\* The agent acts on everything it has received, as one merged batch.
Apply(s) ==
    /\ handle[s] = "open"
    /\ hand[s] # <<>>
    /\ view' = [view EXCEPT ![s] = IF Flagged(hand[s]) THEN facts
                   ELSE [r \in Record |-> Replayed(@[r], hand[s], r)]]
    /\ hand' = [hand EXCEPT ![s] = <<>>]
    /\ UNCHANGED <<worker, pending, handle, queue, seen>>

DropHandle(s) ==
    /\ handle[s] = "open"
    /\ handle' = [handle EXCEPT ![s] = "dropped"]
    /\ hand' = [hand EXCEPT ![s] = <<>>]
    /\ UNCHANGED <<worker, pending, queue, seen, view>>
-----------------------------------------------------------------------------
Init ==
    /\ revision = 0
    /\ facts = [r \in Record |-> 0]
    /\ origin \in {[r \in Record |-> source] : source \in Source}
    /\ publishing = None
    /\ waiting = {}
    /\ draining = None
    /\ registered = {}
    /\ pending = {}
    /\ handle = [s \in Subscriber |-> "closed"]
    /\ queue = [s \in Subscriber |-> <<>>]
    /\ hand = [s \in Subscriber |-> <<>>]
    /\ seen = [s \in Subscriber |-> 0]
    /\ view = [s \in Subscriber |-> [r \in Record |-> 0]]

Deliver(s) == Prune(s) \/ Skip(s) \/ Send(s) \/ Lag(s)

\* Everybody waits: the worker for requests, the agents for changes.
Quiet ==
    /\ Idle
    /\ revision = MaxRevision
    /\ pending = {}
    /\ \A s \in Subscriber :
          \/ handle[s] = "dropped"
          \/ handle[s] = "open" /\ queue[s] = <<>> /\ hand[s] = <<>>
    /\ UNCHANGED vars

Next ==
    \/ \E touched \in (SUBSET Record) \ {{}}, source \in Source : Commit(touched, source)
    \/ \E s \in Subscriber : \/ Deliver(s)
                             \/ Register(s)
                             \/ Subscribe(s)
                             \/ Receive(s)
                             \/ Apply(s)
                             \/ DropHandle(s)
    \/ DrainOne
    \/ SendResync
    \/ Published
    \/ Quiet

(***************************************************************************)
(* The worker's loop always goes on with a publication and with the        *)
(* requests in its intake, and an agent that holds its subscription keeps  *)
(* receiving.  Nobody has to commit, to subscribe or to drop a handle.     *)
(***************************************************************************)
WorkerGoesOn == DrainOne \/ SendResync \/ Published \/ \E s \in Subscriber : Deliver(s)

Fairness ==
    /\ WF_vars(WorkerGoesOn)
    /\ \A s \in Subscriber : /\ WF_vars(Register(s))
                             /\ WF_vars(Receive(s))
                             /\ WF_vars(Apply(s))

Spec     == Init /\ [][Next]_vars
FairSpec == Spec /\ Fairness
-----------------------------------------------------------------------------
(* Properties *)

\* The values that the worker's list, the channels and the agents range over.
TypeOK ==
    /\ revision \in 0..MaxRevision
    /\ facts \in [Record -> 0..MaxRevision]
    /\ origin \in [Record -> Source]
    /\ \/ publishing = None
       \/ publishing \in [revision : 0..MaxRevision, source : Source,
                         records : SUBSET (Record \cup {Resync})]
    /\ waiting \subseteq registered
    /\ draining \in waiting \cup {None}
    /\ registered \subseteq Subscriber
    /\ pending \subseteq Subscriber
    /\ handle \in [Subscriber -> {"closed", "open", "dropped"}]
    /\ queue \in [Subscriber -> Seq(ChangeSet)]
    /\ hand \in [Subscriber -> Seq(ChangeSet)]
    /\ seen \in [Subscriber -> 0..MaxRevision]
    /\ view \in [Subscriber -> [Record -> 0..MaxRevision]]
    /\ \A s \in Subscriber : Len(queue[s]) <= Room(s)

\* What a subscription is to be told about a thing: its last change, if it passes the filter.
Concerns(s, r) == Matches(s, r) /\ FromSource(s, origin[r])

\* A change set in a batch that tells of the last change of a thing, or to start over.
Tells(q, r) ==
    \E c \in Contents(q) : Resync \in c.records \/ (r \in c.records /\ c.revision = facts[r])

(***************************************************************************)
(* No silent gap: whenever an agent's copy of something its filter selects *)
(* is out of date, word of it is on the way, as the change itself or as a  *)
(* Resynchronise, in its hands, in its channel or still with the worker.   *)
(* It holds whatever Subscriber::materialise and resync throw away while   *)
(* the consumer takes from the same channel, for the subscriptions whose   *)
(* filters take RESYNCHRONISE (SubscriptionKinds has one that does not).   *)
(***************************************************************************)
NoSilentGap ==
    \A s \in Subscriber : handle[s] = "open" =>
        \A r \in Record : \/ ~Concerns(s, r)
                          \/ view[s][r] = facts[r]
                          \/ Tells(hand[s], r)
                          \/ Tells(queue[s], r)
                          \/ s \in waiting \cup pending

(***************************************************************************)
(* Change sets arrive in commit order, each at most once: the revisions in *)
(* a channel increase, all after what the consumer has received and none   *)
(* after the project's own, also when materialise has replaced some of     *)
(* them by a resynchronisation.                                            *)
(***************************************************************************)
InOrder ==
    \A s \in Subscriber : \A n \in DOMAIN queue[s] :
        /\ queue[s][n].revision > seen[s]
        /\ queue[s][n].revision <= revision
        /\ \A m \in DOMAIN queue[s] : m < n => queue[s][m].revision < queue[s][n].revision

(***************************************************************************)
(* Agents converge, as incremental_and_resynchronised_agents_converge in   *)
(* tests/engine_resynchronisation.rs has it: once transactions stop, every *)
(* agent that keeps its subscription ends up with what the project says,   *)
(* however often it lagged.                                                *)
(***************************************************************************)
Converges ==
    \A s \in Subscriber :
        <>[](handle[s] = "open" => \A r \in Record : Concerns(s, r) => view[s][r] = facts[r])
=============================================================================
