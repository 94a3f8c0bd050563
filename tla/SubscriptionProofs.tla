-------------------------- MODULE SubscriptionProofs --------------------------
(***************************************************************************)
(* What Subscription promises holds for any number of things, commits,     *)
(* subscriptions and any capacities: change sets arrive in commit order,   *)
(* each at most once, and no agent is left with an outdated copy and no    *)
(* word of it under way.                                                   *)
(*                                                                         *)
(* The second needs the filter to take RESYNCHRONISE: the records of a     *)
(* collapsed transaction are filtered like any others.  It also needs more *)
(* than the property says of the present: an agent whose copy is up to     *)
(* date because it has just read the project again may still have older    *)
(* change sets in its channel, and applying them makes the copy old.  So   *)
(* the invariant (GapFree) says of every change set under way that names a *)
(* thing that a later one, or the worker, has the last word on it.         *)
(***************************************************************************)
EXTENDS Subscription, WellFoundedInduction, TLAPS

\* What the worker may be sending out.
Publication == [revision : 0..MaxRevision, source : Source, records : SUBSET (Record \cup {Resync})]

\* The project, and the publication under way: it tells exactly of what changed last.
ProjectInv ==
  /\ revision \in 0..MaxRevision
  /\ facts \in [Record -> 0..MaxRevision]
  /\ origin \in [Record -> Source]
  /\ \A r \in Record : facts[r] <= revision
  /\ publishing # None =>
       /\ publishing \in Publication
       /\ publishing.revision = revision
       /\ \A r \in Record :
            /\ r \in publishing.records => facts[r] = revision
            /\ facts[r] = revision =>
                 /\ origin[r] = publishing.source
                 /\ r \in publishing.records \/ Resync \in publishing.records

\* Who is on the worker's list, who waits for the publication and whose request is queued.
ListsInv ==
  /\ waiting \subseteq registered /\ registered \subseteq Subscriber
  /\ pending \subseteq Subscriber /\ pending \cap registered = {}
  /\ draining \in waiting \cup {None}
  /\ handle \in [Subscriber -> {"closed", "open", "dropped"}]
  /\ publishing = None => waiting = {}
  /\ \A s \in Subscriber :
       /\ handle[s] = "closed" => s \notin pending \cup registered
       /\ handle[s] = "open" => s \in pending \cup registered

\* A channel is empty until its subscriber is registered, and so are the consumer's hands.
ChannelsInv ==
  /\ queue \in [Subscriber -> Seq(ChangeSet)]
  /\ hand \in [Subscriber -> Seq(ChangeSet)]
  /\ seen \in [Subscriber -> 0..MaxRevision]
  /\ \A s \in Subscriber :
       /\ s \notin registered => queue[s] = <<>>
       /\ handle[s] = "closed" \/ s \in pending => seen[s] = 0 /\ hand[s] = <<>>

\* The agent's copy, before anything was received.
ViewInv ==
  /\ view \in [Subscriber -> [Record -> 0..MaxRevision]]
  /\ \A s \in Subscriber : handle[s] = "closed" \/ s \in pending =>
       \A r \in Record : view[s][r] = 0

\* No channel holds more than its room.
RoomInv == \A s \in Subscriber : Len(queue[s]) <= Room(s)

\* Revisions that increase along a channel or a batch.
Ascending(q) == \A n \in DOMAIN q, m \in DOMAIN q : m < n => q[m].revision < q[n].revision

\* Everything received is older than everything in the channel, and all of it is older than
\* what is still to be offered.
Ordered(s) ==
  /\ Ascending(queue[s]) /\ Ascending(hand[s])
  /\ seen[s] <= revision
  /\ \A n \in DOMAIN hand[s] : hand[s][n].revision <= seen[s]
  /\ \A n \in DOMAIN queue[s] : seen[s] < queue[s][n].revision /\ queue[s][n].revision <= revision
  /\ s \in waiting => /\ seen[s] < revision
                      /\ \A n \in DOMAIN queue[s] : queue[s][n].revision < revision

\* It holds for every subscription.
OrderInv == \A s \in Subscriber : Ordered(s)

\* A change set that names a thing is not younger than its last change.
NotAhead(q) ==
  \A n \in DOMAIN q, r \in Record : r \in q[n].records => q[n].revision <= facts[r]

\* It holds of every channel and of every batch.
NamesInv == \A s \in Subscriber : NotAhead(queue[s]) /\ NotAhead(hand[s])

\* The n-th change set of q tells of the last change of r, or to start over.
TellsAt(q, n, r) ==
  Resync \in q[n].records \/ (r \in q[n].records /\ q[n].revision = facts[r])

\* Word of the last change is still to come from the worker.
Coming(s, r) == s = draining \/ (s \in waiting /\ facts[r] = revision)

\* An outdated copy has word under way; so has a copy that what is in hand, or what is in
\* the channel, would make outdated, and there behind the change set that would.
GapFree(s, r) ==
  /\ \/ view[s][r] = facts[r]
     \/ \E n \in DOMAIN hand[s] : TellsAt(hand[s], n, r)
     \/ \E n \in DOMAIN queue[s] : TellsAt(queue[s], n, r)
     \/ Coming(s, r)
  /\ (\E n \in DOMAIN hand[s] : r \in hand[s][n].records) =>
       \/ \E n \in DOMAIN hand[s] : TellsAt(hand[s], n, r)
       \/ \E n \in DOMAIN queue[s] : TellsAt(queue[s], n, r)
       \/ Coming(s, r)
  /\ \A n \in DOMAIN queue[s] : r \in queue[s][n].records =>
       \/ \E m \in DOMAIN queue[s] : n <= m /\ TellsAt(queue[s], m, r)
       \/ Coming(s, r)

\* Every filter takes Resynchronise records.
ResyncTaken == \A s \in Subscriber : ResyncKind \in KindsOf[s]

\* No gap for a registered agent in what concerns it.
GapInv ==
  \A s \in Subscriber, r \in Record :
    handle[s] = "open" /\ s \notin pending /\ Concerns(s, r) => GapFree(s, r)

-----------------------------------------------------------------------------
(* Channels and batches. *)

\* What is appended comes last and leaves the rest where it was.
LEMMA AppendFacts ==
  ASSUME NEW q \in Seq(ChangeSet), NEW c \in ChangeSet
  PROVE  /\ Append(q, c) \in Seq(ChangeSet) /\ Len(q) \in Nat /\ DOMAIN q = 1..Len(q)
         /\ DOMAIN Append(q, c) = DOMAIN q \cup {Len(q) + 1} /\ Len(q) + 1 \notin DOMAIN q
         /\ Append(q, c)[Len(q) + 1] = c /\ Len(Append(q, c)) = Len(q) + 1
         /\ \A i \in DOMAIN q : Append(q, c)[i] = q[i]
         /\ \A i \in DOMAIN q : q[i] \in ChangeSet
OBVIOUS

\* The tail is the channel moved up by one.
LEMMA TailFacts ==
  ASSUME NEW q \in Seq(ChangeSet), q # <<>>
  PROVE  /\ 1 \in DOMAIN q /\ Head(q) = q[1] /\ DOMAIN q = 1..Len(q) /\ Tail(q) \in Seq(ChangeSet)
         /\ Len(q) \in Nat
         /\ Head(q) \in ChangeSet
         /\ \A i \in DOMAIN Tail(q) : i \in Nat \ {0} /\ i + 1 \in DOMAIN q /\ Tail(q)[i] = q[i + 1]
         /\ \A i \in DOMAIN q : i = 1 \/ (i - 1 \in DOMAIN Tail(q) /\ Tail(q)[i - 1] = q[i])
         /\ \A i \in DOMAIN q : q[i] \in ChangeSet
OBVIOUS

\* The empty channel.
LEMMA EmptyFacts == <<>> \in Seq(ChangeSet) /\ DOMAIN <<>> = {} /\ Len(<<>>) = 0
OBVIOUS

\* A tail is no longer than what it is the tail of.
LEMMA LengthFacts ==
  ASSUME NEW q \in Seq(ChangeSet), q # <<>>
  PROVE  Len(q) \in Nat /\ Len(Tail(q)) \in Nat /\ Len(Tail(q)) <= Len(q)
OBVIOUS

\* There is room for one change set at least.
LEMMA RoomFacts == \A s \in Subscriber : Room(s) \in Nat /\ Room(s) >= 1
BY SubscriptionAssumption DEF Room

\* What a transaction touched is staged, or collapsed to a Resynchronise.
LEMMA StagedFacts ==
  ASSUME NEW touched \in SUBSET Record
  PROVE  /\ Staged(touched) \in SUBSET (Record \cup {Resync})
         /\ \A r \in Record : r \in Staged(touched) => r \in touched
         /\ \A r \in touched : r \in Staged(touched) \/ Resync \in Staged(touched)
BY SubscriptionAssumption DEF Staged

\* A subscriber is offered what its filter selects of the publication.
LEMMA ScopedFacts ==
  ASSUME NEW s \in Subscriber, NEW p \in Publication
  PROVE  /\ Scoped(s, p) \subseteq p.records
         /\ Scoped(s, p) \in SUBSET (Record \cup {Resync})
         /\ \A r \in p.records : FromSource(s, p.source) /\ Matches(s, r) => r \in Scoped(s, p)
BY DEF Scoped, Publication

\* A channel with one change set.
LEMMA SingleFacts ==
  ASSUME NEW c \in ChangeSet
  PROVE  LET q == Append(<<>>, c) IN q \in Seq(ChangeSet) /\ DOMAIN q = {1} /\ q[1] = c /\ Len(q) = 1
OBVIOUS

\* The change sets of channels and batches have revisions.
LEMMA ElementFacts ==
  ASSUME ChannelsInv, NEW s \in Subscriber
  PROVE  /\ \A n \in DOMAIN queue[s] : queue[s][n] \in ChangeSet /\ queue[s][n].revision \in Nat
         /\ \A n \in DOMAIN hand[s] : hand[s][n] \in ChangeSet /\ hand[s][n].revision \in Nat
         /\ seen[s] \in Nat
<1>1. \A q \in Seq(ChangeSet) : \A n \in DOMAIN q : q[n] \in ChangeSet
  OBVIOUS
<1>2. \A c \in ChangeSet : c.revision \in Nat
  BY DEF ChangeSet
<1> QED BY <1>1, <1>2 DEF ChannelsInv

\* Appending a younger change set keeps the order.
LEMMA AscendingAppend ==
  ASSUME NEW q \in Seq(ChangeSet), NEW c \in ChangeSet, Ascending(q),
         \A n \in DOMAIN q : q[n].revision < c.revision
  PROVE  Ascending(Append(q, c))
BY AppendFacts DEF Ascending

\* Taking the first leaves younger ones, in order.
LEMMA AscendingTail ==
  ASSUME NEW q \in Seq(ChangeSet), q # <<>>, Ascending(q)
  PROVE  /\ Ascending(Tail(q))
         /\ \A n \in DOMAIN Tail(q) : q[1].revision < Tail(q)[n].revision
BY TailFacts DEF Ascending

\* Appending a change set that is not ahead of what it names.
LEMMA NotAheadAppend ==
  ASSUME NEW q \in Seq(ChangeSet), NEW c \in ChangeSet, NotAhead(q),
         \A r \in Record : r \in c.records => c.revision <= facts[r]
  PROVE  NotAhead(Append(q, c))
BY AppendFacts DEF NotAhead

\* Taking the first one.
LEMMA NotAheadTail ==
  ASSUME NEW q \in Seq(ChangeSet), q # <<>>, NotAhead(q)
  PROVE  NotAhead(Tail(q))
BY TailFacts DEF NotAhead

\* A non-empty set of positions has a last one.
LEMMA LastExists ==
  ASSUME NEW N \in Nat, NEW T \in SUBSET (1..N), T # {}
  PROVE  \E n \in T : \A m \in T : m <= n
<1> DEFINE D == {N - m : m \in T}
<1>0. \A m \in T : m \in Nat /\ m <= N
  OBVIOUS
<1>1. D \subseteq Nat /\ D # {}
  <2>1. \A m \in T : N - m \in Nat /\ N - m \in D
    BY <1>0
  <2> QED BY <2>1
<1>2. PICK d \in D : \A e \in D : ~(<<e, d>> \in OpToRel(<, Nat))
  BY <1>1, WFMin, NatLessThanWellFounded
<1>3. \A e \in D : ~(e < d)
  BY <1>1, <1>2 DEF OpToRel
<1>4. PICK n \in T : d = N - n
  OBVIOUS
<1>5. ASSUME NEW m \in T PROVE m <= n
  <2>1. N - m \in D
    OBVIOUS
  <2>2. ~(N - m < N - n)
    BY <1>3, <1>4, <2>1
  <2> QED BY <1>0, <2>2
<1> QED BY <1>5

\* A replay yields a revision.
LEMMA ReplayedTyped ==
  ASSUME NEW q \in Seq(ChangeSet), NEW r \in Record, NEW known \in 0..MaxRevision
  PROVE  Replayed(known, q, r) \in 0..MaxRevision
<1> DEFINE naming == {n \in DOMAIN q : r \in q[n].records}
<1>1. CASE naming = {}
  BY <1>1 DEF Replayed
<1>2. CASE naming # {}
  <2>1. Len(q) \in Nat /\ naming \in SUBSET (1..Len(q))
    OBVIOUS
  <2>2. \E n \in naming : \A m \in naming : m <= n
    BY <1>2, <2>1, LastExists
  <2> DEFINE last == CHOOSE n \in naming : \A m \in naming : m <= n
  <2>3. last \in naming
    BY <2>2
  <2>4. q[last] \in ChangeSet
    BY <2>3
  <2> QED BY <1>2, <2>4 DEF Replayed, ChangeSet
<1> QED BY <1>1, <1>2

\* Where a batch tells of the last change of a thing, a replay yields that change: change
\* sets after it would be younger than the last change.
LEMMA ReplayedLast ==
  ASSUME NEW q \in Seq(ChangeSet), NEW r \in Record, NotAhead(q), Ascending(q),
         NEW n \in DOMAIN q, r \in q[n].records, q[n].revision = facts[r], NEW known
  PROVE  Replayed(known, q, r) = facts[r]
<1> DEFINE naming == {m \in DOMAIN q : r \in q[m].records}
           last == CHOOSE m \in naming : \A k \in naming : k <= m
<1>1. DOMAIN q \subseteq Nat /\ \A m \in DOMAIN q : q[m].revision \in Nat
  <2>1. DOMAIN q \subseteq Nat /\ \A m \in DOMAIN q : q[m] \in ChangeSet
    OBVIOUS
  <2> QED BY <2>1 DEF ChangeSet
<1>2. \A m \in naming : m <= n
  BY <1>1 DEF NotAhead, Ascending
<1>3. last \in naming /\ \A k \in naming : k <= last
  BY <1>2
<1>4. last = n
  BY <1>1, <1>2, <1>3
<1> QED BY <1>4 DEF Replayed

\* Where no change set names a thing, a replay leaves it.
LEMMA ReplayedNone ==
  ASSUME NEW q, NEW r, ~\E n \in DOMAIN q : r \in q[n].records, NEW known
  PROVE  Replayed(known, q, r) = known
BY DEF Replayed

\* What concerns a subscriber and changed last is in what it is offered.
LEMMA DueIsScoped ==
  ASSUME ProjectInv, ResyncTaken, publishing # None, NEW s \in Subscriber, NEW r \in Record,
         Concerns(s, r), facts[r] = revision
  PROVE  Resync \in Scoped(s, publishing) \/ r \in Scoped(s, publishing)
<1>1. FromSource(s, publishing.source) /\ Matches(s, r)
  BY DEF ProjectInv, Concerns
<1>2. Matches(s, Resync)
  BY DEF ResyncTaken, Matches
<1> QED BY <1>1, <1>2 DEF ProjectInv, Scoped

\* What a step leaves alone for a subscriber stays free of gaps.
LEMMA GapFrame ==
  ASSUME NEW s \in Subscriber, NEW r \in Record, GapFree(s, r),
         UNCHANGED <<facts, revision>>,
         view'[s] = view[s], hand'[s] = hand[s], queue'[s] = queue[s],
         s = draining => s = draining', s \in waiting => s \in waiting'
  PROVE  GapFree(s, r)'
BY DEF GapFree, TellsAt, Coming

-----------------------------------------------------------------------------
(* What each action does to the channels and to the consumers' hands. *)

\* What is sent: the part of the publication for s, and a Resynchronise of revision v.
Offered(s) == [revision |-> publishing.revision, records |-> Scoped(s, publishing)]
Restart(v) == [revision |-> v, records |-> {Resync}]

\* Send appends what is offered to the channel of s.
LEMMA SendStep ==
  ASSUME ProjectInv, ListsInv, ChannelsInv, NEW s \in Subscriber, Send(s)
  PROVE  /\ publishing # None /\ publishing \in Publication /\ publishing.revision = revision
         /\ Offered(s) \in ChangeSet /\ Offered(s).revision = revision
         /\ Offered(s).records = Scoped(s, publishing)
         /\ queue' \in [Subscriber -> Seq(ChangeSet)]
         /\ queue[s] \in Seq(ChangeSet) /\ queue'[s] = Append(queue[s], Offered(s))
         /\ \A t \in Subscriber : t # s => queue'[t] = queue[t]
         /\ s \in waiting /\ waiting' = waiting \ {s} /\ draining = None
         /\ UNCHANGED <<revision, facts, origin, publishing, draining, registered, pending, handle,
                        hand, seen, view>>
<1>1. publishing # None /\ publishing \in Publication /\ publishing.revision = revision
  BY DEF Send, ListsInv, ProjectInv
<1>2. /\ Offered(s) \in ChangeSet /\ Offered(s).revision = revision
      /\ Offered(s).records = Scoped(s, publishing)
  BY <1>1, ScopedFacts DEF Offered, ChangeSet, Publication
<1>3. /\ queue' \in [Subscriber -> Seq(ChangeSet)]
      /\ queue[s] \in Seq(ChangeSet) /\ queue'[s] = Append(queue[s], Offered(s))
      /\ \A t \in Subscriber : t # s => queue'[t] = queue[t]
  BY <1>2, AppendFacts DEF Send, ChannelsInv, Offered
<1> QED BY <1>1, <1>2, <1>3 DEF Send, agent, project

\* SendResync leaves the one Resynchronise in the channel that was emptied.
LEMMA ResyncStep ==
  ASSUME ProjectInv, ListsInv, ChannelsInv, SendResync
  PROVE  /\ draining \in Subscriber /\ draining \in waiting
         /\ Restart(revision) \in ChangeSet /\ Restart(revision).revision = revision
         /\ Restart(revision).records = {Resync}
         /\ queue' \in [Subscriber -> Seq(ChangeSet)]
         /\ queue'[draining] = Append(<<>>, Restart(revision))
         /\ \A t \in Subscriber : t # draining => queue'[t] = queue[t]
         /\ waiting' = waiting \ {draining} /\ draining' = None
         /\ UNCHANGED <<revision, facts, origin, publishing, registered, pending, handle,
                        hand, seen, view>>
<1>1. draining \in Subscriber /\ draining \in waiting /\ publishing.revision = revision
  BY DEF SendResync, ListsInv, ProjectInv
<1>2. /\ Restart(revision) \in ChangeSet /\ Restart(revision).revision = revision
      /\ Restart(revision).records = {Resync}
  BY DEF Restart, ChangeSet, ProjectInv
<1>3. /\ queue' \in [Subscriber -> Seq(ChangeSet)]
      /\ queue'[draining] = Append(<<>>, Restart(revision))
      /\ \A t \in Subscriber : t # draining => queue'[t] = queue[t]
  BY <1>1, <1>2, SingleFacts DEF SendResync, ChannelsInv, Restart
<1> QED BY <1>1, <1>2, <1>3 DEF SendResync, agent, project

\* Register puts a Resynchronise in the empty channel, unless nothing was ever committed.
LEMMA RegisterStep ==
  ASSUME ProjectInv, ListsInv, ChannelsInv, NEW s \in Subscriber, Register(s)
  PROVE  /\ s \in pending /\ s \notin registered /\ publishing = None
         /\ Restart(revision) \in ChangeSet /\ Restart(revision).revision = revision
         /\ Restart(revision).records = {Resync}
         /\ queue' \in [Subscriber -> Seq(ChangeSet)]
         /\ queue'[s] = IF revision = 0 THEN <<>> ELSE Append(<<>>, Restart(revision))
         /\ \A t \in Subscriber : t # s => queue'[t] = queue[t]
         /\ pending' = pending \ {s} /\ registered' = registered \cup {s}
         /\ UNCHANGED <<revision, facts, origin, publishing, waiting, draining, handle,
                        hand, seen, view>>
<1>1. s \in pending /\ s \notin registered /\ publishing = None /\ queue[s] = <<>>
  BY DEF Register, ListsInv, ChannelsInv, Idle
<1>2. /\ Restart(revision) \in ChangeSet /\ Restart(revision).revision = revision
      /\ Restart(revision).records = {Resync}
  BY DEF Restart, ChangeSet, ProjectInv
<1>3. /\ queue' \in [Subscriber -> Seq(ChangeSet)]
      /\ queue'[s] = IF revision = 0 THEN <<>> ELSE Append(<<>>, Restart(revision))
      /\ \A t \in Subscriber : t # s => queue'[t] = queue[t]
  BY <1>1, <1>2, SingleFacts DEF Register, ChannelsInv, Restart
<1> QED BY <1>1, <1>2, <1>3 DEF Register, project

\* Receive moves the first change set from the channel to the hands.
LEMMA ReceiveStep ==
  ASSUME ProjectInv, ListsInv, ChannelsInv, NEW s \in Subscriber, Receive(s)
  PROVE  /\ handle[s] = "open"
         /\ queue[s] # <<>> /\ queue[s] \in Seq(ChangeSet) /\ hand[s] \in Seq(ChangeSet)
         /\ Head(queue[s]) \in ChangeSet
         /\ queue' \in [Subscriber -> Seq(ChangeSet)] /\ queue'[s] = Tail(queue[s])
         /\ hand' \in [Subscriber -> Seq(ChangeSet)] /\ hand'[s] = Append(hand[s], Head(queue[s]))
         /\ seen' \in [Subscriber -> 0..MaxRevision] /\ seen'[s] = Head(queue[s]).revision
         /\ \A t \in Subscriber : t # s => /\ queue'[t] = queue[t]
                                           /\ hand'[t] = hand[t] /\ seen'[t] = seen[t]
         /\ UNCHANGED <<revision, facts, origin, publishing, waiting, draining, registered,
                        pending, handle, view>>
<1>1. /\ handle[s] = "open" /\ queue[s] # <<>>
      /\ queue[s] \in Seq(ChangeSet) /\ hand[s] \in Seq(ChangeSet)
  BY DEF Receive, ChannelsInv
<1>2. Head(queue[s]) \in ChangeSet /\ Head(queue[s]).revision \in 0..MaxRevision
  BY <1>1, TailFacts DEF ChangeSet
<1>3. /\ queue' \in [Subscriber -> Seq(ChangeSet)] /\ queue'[s] = Tail(queue[s])
      /\ \A t \in Subscriber : t # s => queue'[t] = queue[t]
  BY <1>1, TailFacts DEF Receive, ChannelsInv
<1>4. /\ hand' \in [Subscriber -> Seq(ChangeSet)] /\ hand'[s] = Append(hand[s], Head(queue[s]))
      /\ \A t \in Subscriber : t # s => hand'[t] = hand[t]
  BY <1>1, <1>2, AppendFacts DEF Receive, ChannelsInv
<1>5. /\ seen' \in [Subscriber -> 0..MaxRevision] /\ seen'[s] = Head(queue[s]).revision
      /\ \A t \in Subscriber : t # s => seen'[t] = seen[t]
  BY <1>2 DEF Receive, ChannelsInv
<1> QED BY <1>1, <1>2, <1>3, <1>4, <1>5 DEF Receive, worker, project

\* DrainOne takes the first change set out of the channel of who lags.
LEMMA DrainStep ==
  ASSUME ProjectInv, ListsInv, ChannelsInv, DrainOne
  PROVE  /\ draining \in Subscriber /\ draining \in waiting
         /\ queue[draining] # <<>> /\ queue[draining] \in Seq(ChangeSet)
         /\ queue' \in [Subscriber -> Seq(ChangeSet)] /\ queue'[draining] = Tail(queue[draining])
         /\ \A t \in Subscriber : t # draining => queue'[t] = queue[t]
         /\ UNCHANGED <<revision, facts, origin, publishing, waiting, draining, registered,
                        pending, handle, hand, seen, view>>
<1>1. /\ draining \in Subscriber /\ draining \in waiting
      /\ queue[draining] # <<>> /\ queue[draining] \in Seq(ChangeSet)
  BY DEF DrainOne, ListsInv, ChannelsInv
<1>2. /\ queue' \in [Subscriber -> Seq(ChangeSet)] /\ queue'[draining] = Tail(queue[draining])
      /\ \A t \in Subscriber : t # draining => queue'[t] = queue[t]
  BY <1>1, TailFacts DEF DrainOne, ChannelsInv
<1> QED BY <1>1, <1>2 DEF DrainOne, worker, project, agent

\* Prune empties the channel of a dropped subscription and takes it off the list.
LEMMA PruneStep ==
  ASSUME ChannelsInv, NEW s \in Subscriber, Prune(s)
  PROVE  /\ queue' \in [Subscriber -> Seq(ChangeSet)] /\ queue'[s] = <<>>
         /\ \A t \in Subscriber : t # s => queue'[t] = queue[t]
         /\ handle[s] = "dropped" /\ registered' = registered \ {s} /\ waiting' = waiting \ {s}
         /\ draining = None
         /\ UNCHANGED <<revision, facts, origin, publishing, draining, pending, handle,
                        hand, seen, view>>
<1>1. /\ queue' \in [Subscriber -> Seq(ChangeSet)] /\ queue'[s] = <<>>
      /\ \A t \in Subscriber : t # s => queue'[t] = queue[t]
  BY EmptyFacts DEF Prune, ChannelsInv
<1> QED BY <1>1 DEF Prune, project, agent

\* Apply empties the hands.
LEMMA ApplyStep ==
  ASSUME ChannelsInv, NEW s \in Subscriber, Apply(s)
  PROVE  /\ hand' \in [Subscriber -> Seq(ChangeSet)] /\ hand'[s] = <<>>
         /\ \A t \in Subscriber : t # s => hand'[t] = hand[t]
         /\ handle[s] = "open"
         /\ UNCHANGED <<revision, facts, origin, publishing, waiting, draining, registered,
                        pending, handle, queue, seen>>
<1>1. /\ hand' \in [Subscriber -> Seq(ChangeSet)] /\ hand'[s] = <<>>
      /\ \A t \in Subscriber : t # s => hand'[t] = hand[t]
  BY EmptyFacts DEF Apply, ChannelsInv
<1> QED BY <1>1 DEF Apply, worker, project

\* DropHandle drops what was in hand.
LEMMA DropStep ==
  ASSUME ChannelsInv, ListsInv, NEW s \in Subscriber, DropHandle(s)
  PROVE  /\ hand' \in [Subscriber -> Seq(ChangeSet)] /\ hand'[s] = <<>>
         /\ \A t \in Subscriber : t # s => hand'[t] = hand[t] /\ handle'[t] = handle[t]
         /\ handle[s] = "open" /\ handle'[s] = "dropped"
         /\ UNCHANGED <<revision, facts, origin, publishing, waiting, draining, registered,
                        pending, queue, seen, view>>
<1>1. /\ hand' \in [Subscriber -> Seq(ChangeSet)] /\ hand'[s] = <<>>
      /\ \A t \in Subscriber : t # s => hand'[t] = hand[t]
  BY EmptyFacts DEF DropHandle, ChannelsInv
<1> QED BY <1>1 DEF DropHandle, worker, project, ListsInv

\* A commit stages what it touched; until it is published nothing else commits.
LEMMA ProjectKept ==
  ASSUME ProjectInv, [Next]_vars
  PROVE  ProjectInv'
<1>1. ASSUME NEW touched \in SUBSET Record, NEW source \in Source, Commit(touched, source)
      PROVE  ProjectInv'
  <2>1. revision' = revision + 1 /\ revision' \in 0..MaxRevision /\ revision \in 0..MaxRevision
    BY <1>1, SubscriptionAssumption DEF Commit, ProjectInv
  <2>2. /\ facts' \in [Record -> 0..MaxRevision]
        /\ \A r \in Record : facts'[r] = IF r \in touched THEN revision' ELSE facts[r]
    BY <1>1, <2>1 DEF Commit, ProjectInv
  <2>3. /\ origin' \in [Record -> Source]
        /\ \A r \in Record : r \in touched => origin'[r] = source
    BY <1>1 DEF Commit, ProjectInv
  <2>4. /\ publishing' \in Publication
        /\ publishing'.revision = revision' /\ publishing'.source = source
        /\ publishing'.records = Staged(touched)
    BY <1>1, <2>1, StagedFacts DEF Commit, Publication
  <2>5. \A r \in Record : facts'[r] <= revision' /\ (facts'[r] = revision' => r \in touched)
    BY <2>1, <2>2 DEF ProjectInv
  <2> QED BY <2>1, <2>2, <2>3, <2>4, <2>5, StagedFacts DEF ProjectInv
<1>2. ASSUME NEW s \in Subscriber, Prune(s) PROVE ProjectInv'
  BY <1>2 DEF Prune, ProjectInv, project
<1>3. ASSUME NEW s \in Subscriber, Skip(s) PROVE ProjectInv'
  BY <1>3 DEF Skip, ProjectInv, project
<1>4. ASSUME NEW s \in Subscriber, Send(s) PROVE ProjectInv'
  BY <1>4 DEF Send, ProjectInv, project
<1>5. ASSUME NEW s \in Subscriber, Lag(s) PROVE ProjectInv'
  BY <1>5 DEF Lag, ProjectInv, project
<1>6. ASSUME NEW s \in Subscriber, Register(s) PROVE ProjectInv'
  BY <1>6 DEF Register, ProjectInv, project
<1>7. ASSUME NEW s \in Subscriber, Subscribe(s) PROVE ProjectInv'
  BY <1>7 DEF Subscribe, ProjectInv, project, worker
<1>8. ASSUME NEW s \in Subscriber, Receive(s) PROVE ProjectInv'
  BY <1>8 DEF Receive, ProjectInv, project, worker
<1>9. ASSUME NEW s \in Subscriber, Apply(s) PROVE ProjectInv'
  BY <1>9 DEF Apply, ProjectInv, project, worker
<1>10. ASSUME NEW s \in Subscriber, DropHandle(s) PROVE ProjectInv'
  BY <1>10 DEF DropHandle, ProjectInv, project, worker
<1>11. CASE DrainOne
  BY <1>11 DEF DrainOne, ProjectInv, project, worker
<1>12. CASE SendResync
  BY <1>12 DEF SendResync, ProjectInv, project
<1>13. CASE Published
  BY <1>13 DEF Published, ProjectInv, project
<1>14. CASE Quiet
  BY <1>14 DEF Quiet, vars, worker, ProjectInv, project
<1>15. CASE UNCHANGED vars
  BY <1>15 DEF vars, worker, ProjectInv, project
<1> QED BY <1>1, <1>2, <1>3, <1>4, <1>5, <1>6, <1>7, <1>8, <1>9, <1>10, <1>11, <1>12,
          <1>13, <1>14, <1>15 DEF Next, Deliver

\* Only what is registered is offered the publication, and only one lagging subscriber
\* is emptied at a time.
LEMMA ListsKept ==
  ASSUME ProjectInv, ListsInv, [Next]_vars
  PROVE  ListsInv'
<1>1. ASSUME NEW touched \in SUBSET Record, NEW source \in Source, Commit(touched, source)
      PROVE  ListsInv'
  <2>1. publishing' # None
    <3>1. revision' \in 0..MaxRevision
      BY <1>1, SubscriptionAssumption DEF Commit, ProjectInv
    <3>2. publishing' \in Publication
      BY <1>1, <3>1, StagedFacts DEF Commit, Publication
    <3> QED BY <3>2, SubscriptionAssumption DEF Publication
  <2> QED BY <1>1, <2>1 DEF Commit, ListsInv, Idle, agent
<1>2. ASSUME NEW s \in Subscriber, Prune(s) PROVE ListsInv'
  BY <1>2 DEF Prune, ListsInv, agent
<1>3. ASSUME NEW s \in Subscriber, Skip(s) PROVE ListsInv'
  BY <1>3 DEF Skip, ListsInv, agent
<1>4. ASSUME NEW s \in Subscriber, Send(s) PROVE ListsInv'
  BY <1>4 DEF Send, ListsInv, agent
<1>5. ASSUME NEW s \in Subscriber, Lag(s) PROVE ListsInv'
  BY <1>5 DEF Lag, ListsInv, agent
<1>6. ASSUME NEW s \in Subscriber, Register(s) PROVE ListsInv'
  BY <1>6 DEF Register, ListsInv
<1>7. ASSUME NEW s \in Subscriber, Subscribe(s) PROVE ListsInv'
  BY <1>7 DEF Subscribe, ListsInv, worker
<1>8. ASSUME NEW s \in Subscriber, Receive(s) PROVE ListsInv'
  BY <1>8 DEF Receive, ListsInv, worker
<1>9. ASSUME NEW s \in Subscriber, Apply(s) PROVE ListsInv'
  BY <1>9 DEF Apply, ListsInv, worker
<1>10. ASSUME NEW s \in Subscriber, DropHandle(s) PROVE ListsInv'
  BY <1>10 DEF DropHandle, ListsInv, worker
<1>11. CASE DrainOne
  BY <1>11 DEF DrainOne, ListsInv, agent, worker
<1>12. CASE SendResync
  BY <1>12 DEF SendResync, ListsInv, agent
<1>13. CASE Published
  BY <1>13 DEF Published, ListsInv, agent
<1>14. CASE Quiet
  BY <1>14 DEF Quiet, vars, worker, ListsInv, agent
<1>15. CASE UNCHANGED vars
  BY <1>15 DEF vars, worker, ListsInv, agent
<1> QED BY <1>1, <1>2, <1>3, <1>4, <1>5, <1>6, <1>7, <1>8, <1>9, <1>10, <1>11, <1>12,
          <1>13, <1>14, <1>15 DEF Next, Deliver

\* Only a registered subscriber's channel is written, and only an open handle's read.
LEMMA ChannelsKept ==
  ASSUME ProjectInv, ListsInv, ChannelsInv, [Next]_vars
  PROVE  ChannelsInv'
<1>1. ASSUME NEW touched \in SUBSET Record, NEW source \in Source, Commit(touched, source)
      PROVE  ChannelsInv'
  BY <1>1 DEF Commit, ChannelsInv, agent
<1>2. ASSUME NEW s \in Subscriber, Prune(s) PROVE ChannelsInv'
  BY <1>2, PruneStep DEF ChannelsInv, ListsInv
<1>3. ASSUME NEW s \in Subscriber, Skip(s) PROVE ChannelsInv'
  BY <1>3 DEF Skip, ChannelsInv, agent
<1>4. ASSUME NEW s \in Subscriber, Send(s) PROVE ChannelsInv'
  BY <1>4, SendStep DEF ChannelsInv, ListsInv
<1>5. ASSUME NEW s \in Subscriber, Lag(s) PROVE ChannelsInv'
  BY <1>5 DEF Lag, ChannelsInv, agent
<1>6. ASSUME NEW s \in Subscriber, Register(s) PROVE ChannelsInv'
  BY <1>6, RegisterStep DEF ChannelsInv, ListsInv
<1>7. ASSUME NEW s \in Subscriber, Subscribe(s) PROVE ChannelsInv'
  BY <1>7 DEF Subscribe, ChannelsInv, worker
<1>8. ASSUME NEW s \in Subscriber, Receive(s) PROVE ChannelsInv'
  BY <1>8, ReceiveStep DEF ChannelsInv, ListsInv
<1>9. ASSUME NEW s \in Subscriber, Apply(s) PROVE ChannelsInv'
  BY <1>9, ApplyStep DEF ChannelsInv, ListsInv
<1>10. ASSUME NEW s \in Subscriber, DropHandle(s) PROVE ChannelsInv'
  BY <1>10, DropStep DEF ChannelsInv, ListsInv
<1>11. CASE DrainOne
  BY <1>11, DrainStep DEF ChannelsInv, ListsInv
<1>12. CASE SendResync
  BY <1>12, ResyncStep DEF ChannelsInv, ListsInv
<1>13. CASE Published
  BY <1>13 DEF Published, ChannelsInv, agent
<1>14. CASE Quiet
  BY <1>14 DEF Quiet, vars, worker, ChannelsInv, agent
<1>15. CASE UNCHANGED vars
  BY <1>15 DEF vars, worker, ChannelsInv, agent
<1> QED BY <1>1, <1>2, <1>3, <1>4, <1>5, <1>6, <1>7, <1>8, <1>9, <1>10, <1>11, <1>12,
          <1>13, <1>14, <1>15 DEF Next, Deliver

\* What is offered is younger than everything in the channel and than everything seen.
LEMMA OrderKept ==
  ASSUME ProjectInv, ListsInv, ChannelsInv, OrderInv, [Next]_vars
  PROVE  OrderInv'
<1>1. ASSUME NEW touched \in SUBSET Record, NEW source \in Source, Commit(touched, source)
      PROVE  OrderInv'
  <2>1. revision' = revision + 1 /\ revision \in Nat /\ UNCHANGED <<queue, hand, seen>>
    BY <1>1 DEF Commit, ProjectInv, agent
  <2> QED BY <2>1, ElementFacts DEF OrderInv, Ordered, ChannelsInv
<1>2. ASSUME NEW s \in Subscriber, Prune(s) PROVE OrderInv'
  BY <1>2, PruneStep, EmptyFacts, SMTT(30) DEF OrderInv, Ordered, Ascending, ListsInv
<1>3. ASSUME NEW s \in Subscriber, Skip(s) PROVE OrderInv'
  BY <1>3 DEF Skip, OrderInv, Ordered, project, agent
<1>4. ASSUME NEW s \in Subscriber, Send(s) PROVE OrderInv'
  <2> SUFFICES ASSUME NEW t \in Subscriber PROVE Ordered(t)'
    BY DEF OrderInv
  <2>1. CASE t # s
    BY <1>4, SendStep, <2>1 DEF OrderInv, Ordered
  <2>2. CASE t = s
    <3>1. /\ queue[s] \in Seq(ChangeSet) /\ Offered(s) \in ChangeSet
          /\ Offered(s).revision = revision /\ revision \in Nat
          /\ queue'[s] = Append(queue[s], Offered(s)) /\ s \in waiting /\ s \notin waiting'
          /\ UNCHANGED <<revision, hand, seen>>
      BY <1>4, SendStep DEF ProjectInv
    <3>2. Ascending(queue[s]) /\ \A n \in DOMAIN queue[s] : queue[s][n].revision < Offered(s).revision
      BY <3>1 DEF OrderInv, Ordered
    <3>3. Ascending(queue'[s])
      BY <3>1, <3>2, AscendingAppend
    <3>4. \A n \in DOMAIN queue'[s] : seen[s] < queue'[s][n].revision /\ queue'[s][n].revision <= revision
      BY <3>1, <3>2, AppendFacts, ElementFacts DEF OrderInv, Ordered
    <3> QED BY <2>2, <3>1, <3>3, <3>4 DEF OrderInv, Ordered
  <2> QED BY <2>1, <2>2
<1>5. ASSUME NEW s \in Subscriber, Lag(s) PROVE OrderInv'
  BY <1>5 DEF Lag, OrderInv, Ordered, project, agent
<1>6. ASSUME NEW s \in Subscriber, Register(s) PROVE OrderInv'
  <2> SUFFICES ASSUME NEW t \in Subscriber PROVE Ordered(t)'
    BY DEF OrderInv
  <2>1. CASE t # s
    BY <1>6, RegisterStep, <2>1 DEF OrderInv, Ordered
  <2>2. CASE t = s
    <3>1. s \notin waiting /\ seen[s] = 0 /\ hand[s] = <<>>
      BY <1>6 DEF Register, ListsInv, ChannelsInv, Idle
    <3> QED BY <1>6, RegisterStep, <2>2, <3>1, SingleFacts, EmptyFacts DEF OrderInv,
               Ordered, Ascending, ProjectInv
  <2> QED BY <2>1, <2>2
<1>7. ASSUME NEW s \in Subscriber, Subscribe(s) PROVE OrderInv'
  BY <1>7 DEF Subscribe, OrderInv, Ordered, project, worker
<1>8. ASSUME NEW s \in Subscriber, Receive(s) PROVE OrderInv'
  <2> SUFFICES ASSUME NEW t \in Subscriber PROVE Ordered(t)'
    BY DEF OrderInv
  <2>1. CASE t # s
    BY <1>8, ReceiveStep, <2>1, ZenonT(30) DEF OrderInv, Ordered
  <2>2. CASE t = s
    <3>1. /\ queue[s] \in Seq(ChangeSet) /\ queue[s] # <<>> /\ hand[s] \in Seq(ChangeSet)
          /\ Head(queue[s]) \in ChangeSet /\ UNCHANGED <<revision, waiting>>
          /\ queue'[s] = Tail(queue[s]) /\ hand'[s] = Append(hand[s], Head(queue[s]))
          /\ seen'[s] = Head(queue[s]).revision
      BY <1>8, ReceiveStep
    <3>2. 1 \in DOMAIN queue[s] /\ Head(queue[s]) = queue[s][1]
      BY <3>1, TailFacts
    <3>3. /\ Ascending(queue'[s])
          /\ \A n \in DOMAIN queue'[s] : seen'[s] < queue'[s][n].revision
      BY <3>1, <3>2, AscendingTail DEF OrderInv, Ordered
    <3>4. \A n \in DOMAIN hand[s] : hand[s][n].revision < Head(queue[s]).revision
      BY <3>2, ElementFacts DEF OrderInv, Ordered
    <3>5. Ascending(hand'[s])
      BY <3>1, <3>4, AscendingAppend DEF OrderInv, Ordered
    <3>6. \A n \in DOMAIN hand'[s] : hand'[s][n].revision <= seen'[s]
      BY <3>1, <3>2, <3>4, AppendFacts, ElementFacts
    <3>7. \A n \in DOMAIN queue'[s] : queue'[s][n].revision <= revision
                                      /\ (s \in waiting => queue'[s][n].revision < revision)
      BY <3>1, TailFacts DEF OrderInv, Ordered
    <3>8. seen'[s] <= revision /\ (s \in waiting => seen'[s] < revision)
      BY <3>1, <3>2 DEF OrderInv, Ordered
    <3> QED BY <2>2, <3>1, <3>3, <3>5, <3>6, <3>7, <3>8 DEF Ordered
  <2> QED BY <2>1, <2>2
<1>9. ASSUME NEW s \in Subscriber, Apply(s) PROVE OrderInv'
  BY <1>9, ApplyStep, EmptyFacts DEF OrderInv, Ordered, Ascending
<1>10. ASSUME NEW s \in Subscriber, DropHandle(s) PROVE OrderInv'
  BY <1>10, DropStep, EmptyFacts DEF OrderInv, Ordered, Ascending
<1>11. CASE DrainOne
  <2> SUFFICES ASSUME NEW t \in Subscriber PROVE Ordered(t)'
    BY DEF OrderInv
  <2>1. CASE t # draining
    BY <1>11, DrainStep, <2>1 DEF OrderInv, Ordered
  <2>2. CASE t = draining
    <3>1. /\ queue[t] \in Seq(ChangeSet) /\ queue[t] # <<>> /\ queue'[t] = Tail(queue[t])
          /\ UNCHANGED <<revision, waiting, hand, seen>>
      BY <1>11, DrainStep, <2>2
    <3>2. Ascending(queue'[t])
      BY <3>1, AscendingTail DEF OrderInv, Ordered
    <3> QED BY <3>1, <3>2, TailFacts DEF OrderInv, Ordered
  <2> QED BY <2>1, <2>2
<1>12. CASE SendResync
  <2> SUFFICES ASSUME NEW t \in Subscriber PROVE Ordered(t)'
    BY DEF OrderInv
  <2>1. CASE t # draining
    BY <1>12, ResyncStep, <2>1 DEF OrderInv, Ordered
  <2>2. CASE t = draining
    BY <1>12, ResyncStep, <2>2, SingleFacts DEF OrderInv, Ordered, Ascending, ProjectInv, ListsInv
  <2> QED BY <2>1, <2>2
<1>13. CASE Published
  BY <1>13 DEF Published, OrderInv, Ordered, project, agent
<1>14. CASE Quiet
  BY <1>14 DEF Quiet, vars, worker, OrderInv, Ordered, project, agent
<1>15. CASE UNCHANGED vars
  BY <1>15 DEF vars, worker, OrderInv, Ordered, project, agent
<1> QED BY <1>1, <1>2, <1>3, <1>4, <1>5, <1>6, <1>7, <1>8, <1>9, <1>10, <1>11, <1>12,
          <1>13, <1>14, <1>15 DEF Next, Deliver

\* A publication names what changed in it, and later changes only raise the facts.
LEMMA NamesKept ==
  ASSUME ProjectInv, ListsInv, ChannelsInv, NamesInv, [Next]_vars
  PROVE  NamesInv'
<1>1. ASSUME NEW touched \in SUBSET Record, NEW source \in Source, Commit(touched, source)
      PROVE  NamesInv'
  <2>1. /\ UNCHANGED <<queue, hand>> /\ revision' = revision + 1 /\ revision \in Nat
        /\ \A r \in Record : facts'[r] = IF r \in touched THEN revision' ELSE facts[r]
        /\ \A r \in Record : facts[r] \in Nat /\ facts[r] <= revision
    BY <1>1 DEF Commit, ProjectInv, agent
  <2>2. \A r \in Record : facts[r] <= facts'[r] /\ facts'[r] \in Nat
    BY <2>1
  <2> QED BY <2>1, <2>2, ElementFacts DEF NamesInv, NotAhead
<1>2. ASSUME NEW s \in Subscriber, Prune(s) PROVE NamesInv'
  BY <1>2, PruneStep, EmptyFacts DEF NamesInv, NotAhead
<1>3. ASSUME NEW s \in Subscriber, Skip(s) PROVE NamesInv'
  BY <1>3 DEF Skip, NamesInv, NotAhead, project, agent
<1>4. ASSUME NEW s \in Subscriber, Send(s) PROVE NamesInv'
  <2>1. \A r \in Record : r \in Offered(s).records => Offered(s).revision <= facts[r]
    BY <1>4, SendStep, ScopedFacts DEF ProjectInv
  <2>2. NotAhead(queue'[s])
    BY <1>4, SendStep, <2>1, NotAheadAppend DEF NamesInv
  <2> QED BY <1>4, SendStep, <2>2 DEF NamesInv, NotAhead
<1>5. ASSUME NEW s \in Subscriber, Lag(s) PROVE NamesInv'
  BY <1>5 DEF Lag, NamesInv, NotAhead, project, agent
<1>6. ASSUME NEW s \in Subscriber, Register(s) PROVE NamesInv'
  <2>1. NotAhead(queue'[s])
    BY <1>6, RegisterStep, SingleFacts, EmptyFacts, SubscriptionAssumption DEF NotAhead
  <2> QED BY <1>6, RegisterStep, <2>1 DEF NamesInv, NotAhead
<1>7. ASSUME NEW s \in Subscriber, Subscribe(s) PROVE NamesInv'
  BY <1>7 DEF Subscribe, NamesInv, NotAhead, project, worker
<1>8. ASSUME NEW s \in Subscriber, Receive(s) PROVE NamesInv'
  <2>1. NotAhead(queue'[s])
    BY <1>8, ReceiveStep, NotAheadTail DEF NamesInv
  <2>2. \A r \in Record : r \in Head(queue[s]).records => Head(queue[s]).revision <= facts[r]
    BY <1>8, ReceiveStep, TailFacts DEF NamesInv, NotAhead
  <2>3. NotAhead(hand'[s])
    BY <1>8, ReceiveStep, <2>2, NotAheadAppend DEF NamesInv
  <2>4. facts' = facts /\ \A t \in Subscriber : t # s => queue'[t] = queue[t] /\ hand'[t] = hand[t]
    BY <1>8, ReceiveStep
  <2>5. \A t \in Subscriber : t # s => NotAhead(queue'[t]) /\ NotAhead(hand'[t])
    BY <2>4 DEF NamesInv
  <2>6. \A t \in Subscriber : NotAhead(queue'[t]) /\ NotAhead(hand'[t])
    BY <2>1, <2>3, <2>5
  <2> QED BY <2>4, <2>6 DEF NamesInv, NotAhead
<1>9. ASSUME NEW s \in Subscriber, Apply(s) PROVE NamesInv'
  BY <1>9, ApplyStep, EmptyFacts DEF NamesInv, NotAhead
<1>10. ASSUME NEW s \in Subscriber, DropHandle(s) PROVE NamesInv'
  BY <1>10, DropStep, EmptyFacts DEF NamesInv, NotAhead
<1>11. CASE DrainOne
  <2>1. NotAhead(queue'[draining])
    BY <1>11, DrainStep, NotAheadTail DEF NamesInv
  <2> QED BY <1>11, DrainStep, <2>1 DEF NamesInv, NotAhead
<1>12. CASE SendResync
  <2>1. NotAhead(queue'[draining])
    BY <1>12, ResyncStep, SingleFacts, SubscriptionAssumption DEF NotAhead
  <2> QED BY <1>12, ResyncStep, <2>1 DEF NamesInv, NotAhead
<1>13. CASE Published
  BY <1>13 DEF Published, NamesInv, NotAhead, project, agent
<1>14. CASE Quiet
  BY <1>14 DEF Quiet, vars, worker, NamesInv, NotAhead, project, agent
<1>15. CASE UNCHANGED vars
  BY <1>15 DEF vars, worker, NamesInv, NotAhead, project, agent
<1> QED BY <1>1, <1>2, <1>3, <1>4, <1>5, <1>6, <1>7, <1>8, <1>9, <1>10, <1>11, <1>12,
          <1>13, <1>14, <1>15 DEF Next, Deliver

\* What is replayed or read again are revisions of the project.
LEMMA ViewKept ==
  ASSUME ProjectInv, ListsInv, ChannelsInv, ViewInv, [Next]_vars
  PROVE  ViewInv'
<1>1. ASSUME NEW touched \in SUBSET Record, NEW source \in Source, Commit(touched, source)
      PROVE  ViewInv'
  BY <1>1 DEF Commit, ViewInv, agent
<1>2. ASSUME NEW s \in Subscriber, Prune(s) PROVE ViewInv'
  BY <1>2 DEF Prune, ViewInv, agent
<1>3. ASSUME NEW s \in Subscriber, Skip(s) PROVE ViewInv'
  BY <1>3 DEF Skip, ViewInv, agent
<1>4. ASSUME NEW s \in Subscriber, Send(s) PROVE ViewInv'
  BY <1>4, SendStep DEF ViewInv
<1>5. ASSUME NEW s \in Subscriber, Lag(s) PROVE ViewInv'
  BY <1>5 DEF Lag, ViewInv, agent
<1>6. ASSUME NEW s \in Subscriber, Register(s) PROVE ViewInv'
  BY <1>6, RegisterStep DEF ViewInv
<1>7. ASSUME NEW s \in Subscriber, Subscribe(s) PROVE ViewInv'
  BY <1>7 DEF Subscribe, ViewInv
<1>8. ASSUME NEW s \in Subscriber, Receive(s) PROVE ViewInv'
  BY <1>8, ReceiveStep DEF ViewInv
<1>9. ASSUME NEW s \in Subscriber, Apply(s) PROVE ViewInv'
  <2> DEFINE replayed == [r \in Record |-> Replayed(view[s][r], hand[s], r)]
  <2>1. handle[s] = "open" /\ hand[s] # <<>> /\ hand[s] \in Seq(ChangeSet)
        /\ UNCHANGED <<facts, handle, pending>>
    BY <1>9 DEF Apply, ChannelsInv, worker, project
  <2>2. replayed \in [Record -> 0..MaxRevision]
    BY <2>1, ReplayedTyped DEF ViewInv
  <2>3. view' = [view EXCEPT ![s] = IF Flagged(hand[s]) THEN facts ELSE replayed]
    BY <1>9 DEF Apply, ViewInv
  <2>4. s \notin pending
    BY <2>1 DEF ChannelsInv
  <2> HIDE DEF replayed
  <2> QED BY <2>1, <2>2, <2>3, <2>4 DEF ViewInv, ProjectInv
<1>10. ASSUME NEW s \in Subscriber, DropHandle(s) PROVE ViewInv'
  BY <1>10, DropStep, ZenonT(30) DEF ViewInv
<1>11. CASE DrainOne
  BY <1>11 DEF DrainOne, ViewInv, agent
<1>12. CASE SendResync
  BY <1>12, ResyncStep DEF ViewInv
<1>13. CASE Published
  BY <1>13 DEF Published, ViewInv, agent
<1>14. CASE Quiet
  BY <1>14 DEF Quiet, vars, ViewInv, agent
<1>15. CASE UNCHANGED vars
  BY <1>15 DEF vars, ViewInv, agent
<1> QED BY <1>1, <1>2, <1>3, <1>4, <1>5, <1>6, <1>7, <1>8, <1>9, <1>10, <1>11, <1>12,
          <1>13, <1>14, <1>15 DEF Next, Deliver

\* A send needs room, and a Resynchronise is sent to an empty channel.
LEMMA RoomKept ==
  ASSUME ProjectInv, ListsInv, ChannelsInv, RoomInv, [Next]_vars
  PROVE  RoomInv'
<1>1. ASSUME NEW touched \in SUBSET Record, NEW source \in Source, Commit(touched, source)
      PROVE  RoomInv'
  BY <1>1 DEF Commit, RoomInv
<1>2. ASSUME NEW s \in Subscriber, Prune(s) PROVE RoomInv'
  BY <1>2, PruneStep, RoomFacts, EmptyFacts DEF RoomInv
<1>3. ASSUME NEW s \in Subscriber, Skip(s) PROVE RoomInv'
  BY <1>3 DEF Skip, RoomInv
<1>4. ASSUME NEW s \in Subscriber, Send(s) PROVE RoomInv'
  BY <1>4, SendStep, RoomFacts, AppendFacts DEF RoomInv, Send
<1>5. ASSUME NEW s \in Subscriber, Lag(s) PROVE RoomInv'
  BY <1>5 DEF Lag, RoomInv
<1>6. ASSUME NEW s \in Subscriber, Register(s) PROVE RoomInv'
  <2>1. /\ Len(queue'[s]) = 1 \/ Len(queue'[s]) = 0
        /\ \A t \in Subscriber : t # s => queue'[t] = queue[t]
    BY <1>6, RegisterStep, SingleFacts, EmptyFacts
  <2>2. Len(queue'[s]) <= Room(s)
    <3>1. Room(s) \in Nat /\ Room(s) >= 1
      BY RoomFacts
    <3>2. CASE Len(queue'[s]) = 1
      BY <3>1, <3>2
    <3>3. CASE Len(queue'[s]) = 0
      BY <3>1, <3>3
    <3> QED BY <2>1, <3>2, <3>3
  <2> QED BY <2>1, <2>2 DEF RoomInv, Room
<1>7. ASSUME NEW s \in Subscriber, Subscribe(s) PROVE RoomInv'
  BY <1>7 DEF Subscribe, RoomInv
<1>8. ASSUME NEW s \in Subscriber, Receive(s) PROVE RoomInv'
  <2>1. /\ Len(queue[s]) \in Nat /\ Len(queue'[s]) \in Nat /\ Len(queue'[s]) <= Len(queue[s])
        /\ \A t \in Subscriber : t # s => queue'[t] = queue[t]
    BY <1>8, ReceiveStep, LengthFacts
  <2> QED BY <2>1, RoomFacts DEF RoomInv, Room
<1>9. ASSUME NEW s \in Subscriber, Apply(s) PROVE RoomInv'
  BY <1>9, ApplyStep DEF RoomInv, Room
<1>10. ASSUME NEW s \in Subscriber, DropHandle(s) PROVE RoomInv'
  BY <1>10, DropStep DEF RoomInv, Room
<1>11. CASE DrainOne
  <2>1. /\ Len(queue[draining]) \in Nat /\ Len(queue'[draining]) \in Nat
        /\ Len(queue'[draining]) <= Len(queue[draining]) /\ draining \in Subscriber
        /\ \A t \in Subscriber : t # draining => queue'[t] = queue[t]
    BY <1>11, DrainStep, LengthFacts
  <2> QED BY <2>1, RoomFacts DEF RoomInv, Room
<1>12. CASE SendResync
  <2>1. Len(queue'[draining]) = 1 /\ draining \in Subscriber
        /\ \A t \in Subscriber : t # draining => queue'[t] = queue[t]
    BY <1>12, ResyncStep, SingleFacts
  <2> QED BY <2>1, RoomFacts DEF RoomInv, Room
<1>13. CASE Published
  BY <1>13 DEF Published, RoomInv
<1>14. CASE Quiet
  BY <1>14 DEF Quiet, vars, RoomInv
<1>15. CASE UNCHANGED vars
  BY <1>15 DEF vars, RoomInv
<1> QED BY <1>1, <1>2, <1>3, <1>4, <1>5, <1>6, <1>7, <1>8, <1>9, <1>10, <1>11, <1>12,
          <1>13, <1>14, <1>15 DEF Next, Deliver

\* No step opens a gap: a commit is offered to everybody registered, what is dropped is
\* replaced by a Resynchronise, and what is applied has the last word behind it.
LEMMA GapKept ==
  ASSUME ResyncTaken, ProjectInv, ListsInv, ChannelsInv, OrderInv, NamesInv, ViewInv,
     GapInv, [Next]_vars
  PROVE  GapInv'
<1>1. ASSUME NEW touched \in SUBSET Record, NEW source \in Source, Commit(touched, source)
      PROVE  GapInv'
  <2> SUFFICES ASSUME NEW t \in Subscriber, NEW r \in Record,
                      (handle[t] = "open" /\ t \notin pending /\ Concerns(t, r))'
               PROVE  GapFree(t, r)'
    BY DEF GapInv

  <2>1. /\ publishing = None /\ waiting = {} /\ draining = None /\ t \in registered
        /\ waiting' = registered
        /\ UNCHANGED <<queue, hand, view, handle, pending>>
    BY <1>1 DEF Commit, ListsInv, Idle, agent
  <2>2. /\ facts'[r] = IF r \in touched THEN revision' ELSE facts[r]
        /\ origin'[r] = IF r \in touched THEN source ELSE origin[r]
    BY <1>1 DEF Commit
  <2>3. CASE r \in touched
    BY <2>1, <2>2, <2>3 DEF GapFree, Coming
  <2>4. CASE r \notin touched
    <3>1. GapFree(t, r) /\ ~Coming(t, r)
      BY <2>1, <2>2, <2>4, SubscriptionAssumption DEF GapInv, Concerns, Coming
    <3> QED BY <2>1, <2>2, <2>4, <3>1 DEF GapFree, TellsAt
  <2> QED BY <2>3, <2>4
<1>2. ASSUME NEW s \in Subscriber, Prune(s) PROVE GapInv'
  <2> SUFFICES ASSUME NEW t \in Subscriber, NEW r \in Record,
                      (handle[t] = "open" /\ t \notin pending /\ Concerns(t, r))'
               PROVE  GapFree(t, r)'
    BY DEF GapInv

  <2>1. t # s
    BY <1>2, PruneStep
  <2>2. GapFree(t, r)
    BY <1>2, PruneStep DEF GapInv, Concerns
  <2> QED BY <1>2, PruneStep, <2>1, <2>2, GapFrame
<1>3. ASSUME NEW s \in Subscriber, Skip(s) PROVE GapInv'
  <2> SUFFICES ASSUME NEW t \in Subscriber, NEW r \in Record,
                      (handle[t] = "open" /\ t \notin pending /\ Concerns(t, r))'
               PROVE  GapFree(t, r)'
    BY DEF GapInv

  <2>1. /\ UNCHANGED <<revision, facts, origin, publishing, draining, queue, hand, view,
                       handle, pending>>
        /\ draining = None /\ s \in waiting /\ waiting' = waiting \ {s}
        /\ Scoped(s, publishing) = {} /\ publishing # None
    BY <1>3 DEF Skip, project, agent, ListsInv
  <2>2. GapFree(t, r) /\ Concerns(t, r)
    BY <2>1 DEF GapInv, Concerns
  <2>3. CASE t # s
    BY <2>1, <2>2, <2>3, GapFrame
  <2>4. CASE t = s
    <3>1. ~Coming(t, r)
      BY <2>1, <2>2, <2>4, DueIsScoped, SubscriptionAssumption DEF Coming
    <3> QED BY <2>1, <2>2, <3>1 DEF GapFree, TellsAt
  <2> QED BY <2>3, <2>4
<1>4. ASSUME NEW s \in Subscriber, Send(s) PROVE GapInv'
  <2> SUFFICES ASSUME NEW t \in Subscriber, NEW r \in Record,
                      (handle[t] = "open" /\ t \notin pending /\ Concerns(t, r))'
               PROVE  GapFree(t, r)'
    BY DEF GapInv

  <2>1. GapFree(t, r) /\ Concerns(t, r)
    BY <1>4, SendStep DEF GapInv, Concerns
  <2>2. CASE t # s
    BY <1>4, SendStep, <2>1, <2>2, GapFrame
  <2>3. CASE t = s
    <3> DEFINE k == Len(queue[s]) + 1
    <3>1. /\ queue[s] \in Seq(ChangeSet) /\ Offered(s) \in ChangeSet
          /\ Offered(s).revision = revision /\ Offered(s).records = Scoped(s, publishing)
          /\ queue'[s] = Append(queue[s], Offered(s)) /\ publishing # None
          /\ publishing \in Publication
          /\ draining = None /\ UNCHANGED <<revision, facts, hand, view>>
      BY <1>4, SendStep
    <3>2. /\ k \in DOMAIN queue'[s] /\ queue'[s][k] = Offered(s)
          /\ \A n \in DOMAIN queue[s] : n \in DOMAIN queue'[s] /\ queue'[s][n] = queue[s][n]
          /\ \A n \in DOMAIN queue'[s] : n <= k /\ (n \in DOMAIN queue[s] \/ n = k)
      BY <3>1, AppendFacts
    <3> HIDE DEF k
    <3>3. CASE facts[r] = revision
      <4>1. TellsAt(queue'[s], k, r)
        BY <2>1, <2>3, <3>1, <3>2, <3>3, DueIsScoped DEF TellsAt
      <4> QED BY <2>3, <3>1, <3>2, <4>1 DEF GapFree, TellsAt
    <3>4. CASE facts[r] # revision
      <4>1. ~Coming(s, r) /\ r \notin Offered(s).records
        BY <3>1, <3>4, ScopedFacts, SubscriptionAssumption DEF Coming, ProjectInv
      <4> QED BY <2>1, <2>3, <3>1, <3>2, <4>1 DEF GapFree, TellsAt
    <3> QED BY <3>3, <3>4
  <2> QED BY <2>2, <2>3
<1>5. ASSUME NEW s \in Subscriber, Lag(s) PROVE GapInv'
  <2> SUFFICES ASSUME NEW t \in Subscriber, NEW r \in Record,
                      (handle[t] = "open" /\ t \notin pending /\ Concerns(t, r))'
               PROVE  GapFree(t, r)'
    BY DEF GapInv

  <2>1. /\ UNCHANGED <<revision, facts, origin, publishing, waiting, queue, hand, view,
                       handle, pending>>
        /\ draining = None /\ draining' = s
    BY <1>5 DEF Lag, project, agent
  <2>2. GapFree(t, r)
    BY <2>1 DEF GapInv, Concerns
  <2> QED BY <2>1, <2>2, GapFrame, SubscriptionAssumption
<1>6. ASSUME NEW s \in Subscriber, Register(s) PROVE GapInv'
  <2> SUFFICES ASSUME NEW t \in Subscriber, NEW r \in Record,
                      (handle[t] = "open" /\ t \notin pending /\ Concerns(t, r))'
               PROVE  GapFree(t, r)'
    BY DEF GapInv

  <2>1. CASE t # s
    <3>1. GapFree(t, r)
      BY <1>6, RegisterStep, <2>1 DEF GapInv, Concerns
    <3> QED BY <1>6, RegisterStep, <2>1, <3>1, GapFrame
  <2>2. CASE t = s
    <3>1. /\ s \in pending /\ hand'[s] = <<>> /\ view'[s][r] = 0
          /\ UNCHANGED <<revision, facts>>
      BY <1>6, RegisterStep DEF ChannelsInv, ViewInv
    <3>2. CASE revision = 0
      <4>1. facts'[r] = 0 /\ queue'[s] = <<>>
        BY <1>6, RegisterStep, <3>1, <3>2 DEF ProjectInv
      <4> QED BY <2>2, <3>1, <4>1, EmptyFacts DEF GapFree
    <3>3. CASE revision # 0
      <4>1. DOMAIN queue'[s] = {1} /\ Resync \in queue'[s][1].records
        BY <1>6, RegisterStep, <3>3, SingleFacts
      <4> QED BY <2>2, <3>1, <4>1, EmptyFacts DEF GapFree, TellsAt
    <3> QED BY <3>2, <3>3
  <2> QED BY <2>1, <2>2
<1>7. ASSUME NEW s \in Subscriber, Subscribe(s) PROVE GapInv'
  <2> SUFFICES ASSUME NEW t \in Subscriber, NEW r \in Record,
                      (handle[t] = "open" /\ t \notin pending /\ Concerns(t, r))'
               PROVE  GapFree(t, r)'
    BY DEF GapInv

  <2>1. /\ UNCHANGED <<revision, facts, origin, publishing, waiting, draining, queue, hand, view>>
        /\ pending' = pending \cup {s} /\ handle' = [handle EXCEPT ![s] = "open"]
    BY <1>7 DEF Subscribe, worker, project
  <2>2. GapFree(t, r)
    BY <2>1 DEF GapInv, Concerns, ListsInv
  <2> QED BY <2>1, <2>2, GapFrame
<1>8. ASSUME NEW s \in Subscriber, Receive(s) PROVE GapInv'
  <2> SUFFICES ASSUME NEW t \in Subscriber, NEW r \in Record,
                      (handle[t] = "open" /\ t \notin pending /\ Concerns(t, r))'
               PROVE  GapFree(t, r)'
    BY DEF GapInv

  <2>1. GapFree(t, r)
    BY <1>8, ReceiveStep DEF GapInv, Concerns
  <2>2. CASE t # s
    BY <1>8, ReceiveStep, <2>1, <2>2, GapFrame
  <2>3. CASE t = s
    <3> DEFINE k == Len(hand[s]) + 1
    <3>1. /\ queue[s] # <<>> /\ queue[s] \in Seq(ChangeSet) /\ hand[s] \in Seq(ChangeSet)
          /\ Head(queue[s]) \in ChangeSet
          /\ queue'[s] = Tail(queue[s]) /\ hand'[s] = Append(hand[s], Head(queue[s]))
          /\ UNCHANGED <<revision, facts, waiting, draining, view>>
      BY <1>8, ReceiveStep
    <3>2. /\ k \in DOMAIN hand'[s] /\ hand'[s][k] = queue[s][1]
          /\ \A n \in DOMAIN hand[s] : n \in DOMAIN hand'[s] /\ hand'[s][n] = hand[s][n]
          /\ \A n \in DOMAIN hand'[s] : n \in DOMAIN hand[s] \/ n = k
      BY <3>1, AppendFacts, TailFacts
    <3>3. /\ 1 \in DOMAIN queue[s] /\ DOMAIN queue[s] \subseteq Nat
          /\ \A n \in DOMAIN queue'[s] : /\ n \in Nat \ {0} /\ n + 1 \in DOMAIN queue[s]
                                         /\ queue'[s][n] = queue[s][n + 1]
          /\ \A n \in DOMAIN queue[s] :
               n = 1 \/ (n - 1 \in DOMAIN queue'[s] /\ queue'[s][n - 1] = queue[s][n])
      BY <3>1, TailFacts
    <3> HIDE DEF k
    <3>4. (\E n \in DOMAIN queue[s] : TellsAt(queue[s], n, r)) =>
            \/ \E n \in DOMAIN hand'[s] : TellsAt(hand'[s], n, r)
            \/ \E n \in DOMAIN queue'[s] : TellsAt(queue'[s], n, r)
      <4> SUFFICES ASSUME NEW n \in DOMAIN queue[s], TellsAt(queue[s], n, r)
                   PROVE  \/ \E m \in DOMAIN hand'[s] : TellsAt(hand'[s], m, r)
                          \/ \E m \in DOMAIN queue'[s] : TellsAt(queue'[s], m, r)
        OBVIOUS
      <4>1. CASE n = 1
        BY <3>2, <4>1 DEF TellsAt
      <4>2. CASE n # 1
        <5>1. n - 1 \in DOMAIN queue'[s] /\ TellsAt(queue'[s], n - 1, r)
          BY <3>3, <4>2 DEF TellsAt
        <5> QED BY <5>1
      <4> QED BY <4>1, <4>2
    <3>5. (\E n \in DOMAIN hand[s] : TellsAt(hand[s], n, r)) =>
            \E n \in DOMAIN hand'[s] : TellsAt(hand'[s], n, r)
      BY <3>2 DEF TellsAt
    <3>6. \A n \in DOMAIN queue'[s] : r \in queue'[s][n].records =>
            \/ \E m \in DOMAIN queue'[s] : n <= m /\ TellsAt(queue'[s], m, r)
            \/ Coming(s, r)
      <4> SUFFICES ASSUME NEW n \in DOMAIN queue'[s], r \in queue'[s][n].records, ~Coming(s, r)
                   PROVE  \E m \in DOMAIN queue'[s] : n <= m /\ TellsAt(queue'[s], m, r)
        OBVIOUS
      <4>1. PICK m \in DOMAIN queue[s] : n + 1 <= m /\ TellsAt(queue[s], m, r)
        BY <2>1, <2>3, <3>3 DEF GapFree
      <4>2. m - 1 \in DOMAIN queue'[s] /\ n <= m - 1 /\ TellsAt(queue'[s], m - 1, r)
        BY <3>3, <4>1 DEF TellsAt
      <4> QED BY <4>2
    <3>7. (\E n \in DOMAIN hand'[s] : r \in hand'[s][n].records) =>
            \/ \E n \in DOMAIN hand'[s] : TellsAt(hand'[s], n, r)
            \/ \E n \in DOMAIN queue'[s] : TellsAt(queue'[s], n, r)
            \/ Coming(s, r)
      <4>1. CASE \E n \in DOMAIN hand[s] : r \in hand[s][n].records
        BY <2>1, <2>3, <3>4, <3>5, <4>1 DEF GapFree
      <4>2. CASE r \in queue[s][1].records
        BY <2>1, <2>3, <3>3, <3>4, <4>2 DEF GapFree
      <4> QED BY <3>2, <4>1, <4>2
    <3>8. Coming(s, r) => Coming(s, r)'
      BY <3>1 DEF Coming
    <3>9. view'[s][r] = facts'[r] <=> view[s][r] = facts[r]
      BY <3>1
    <3> QED BY <2>1, <2>3, <3>1, <3>4, <3>5, <3>6, <3>7, <3>8, <3>9, ZenonT(30) DEF GapFree, TellsAt
  <2> QED BY <2>2, <2>3
<1>9. ASSUME NEW s \in Subscriber, Apply(s) PROVE GapInv'
  <2> SUFFICES ASSUME NEW t \in Subscriber, NEW r \in Record,
                      (handle[t] = "open" /\ t \notin pending /\ Concerns(t, r))'
               PROVE  GapFree(t, r)'
    BY DEF GapInv

  <2>1. GapFree(t, r)
    BY <1>9, ApplyStep DEF GapInv, Concerns
  <2>2. CASE t # s
    <3>1. view'[t] = view[t]
      BY <1>9, <2>2 DEF Apply, ViewInv
    <3> QED BY <1>9, ApplyStep, <2>1, <2>2, <3>1, GapFrame
  <2>3. CASE t = s
    <3>1. /\ hand[s] \in Seq(ChangeSet) /\ hand'[s] = <<>> /\ NotAhead(hand[s])
          /\ UNCHANGED <<facts, revision, waiting, draining, queue>> /\ Ascending(hand[s])
      BY <1>9, ApplyStep DEF ChannelsInv, NamesInv, OrderInv, Ordered
    <3>2. view'[s][r] = IF Flagged(hand[s]) THEN facts[r] ELSE Replayed(view[s][r], hand[s], r)
      BY <1>9 DEF Apply, ViewInv
    <3>3. \/ view'[s][r] = facts[r]
          \/ \E n \in DOMAIN queue[s] : TellsAt(queue[s], n, r)
          \/ Coming(s, r)
      <4>1. CASE Flagged(hand[s])
        BY <3>2, <4>1
      <4>2. CASE ~Flagged(hand[s])
        <5>1. \A n \in DOMAIN hand[s] : Resync \notin hand[s][n].records
          BY <4>2 DEF Flagged, Contents
        <5>2. CASE \E n \in DOMAIN hand[s] : TellsAt(hand[s], n, r)
          <6>1. PICK n \in DOMAIN hand[s] :
                  r \in hand[s][n].records /\ hand[s][n].revision = facts[r]
            BY <5>1, <5>2 DEF TellsAt
          <6> QED BY <3>1, <3>2, <4>2, <6>1, ReplayedLast
        <5>3. CASE ~\E n \in DOMAIN hand[s] : TellsAt(hand[s], n, r)
          <6>1. CASE \E n \in DOMAIN hand[s] : r \in hand[s][n].records
            BY <2>1, <2>3, <5>3, <6>1 DEF GapFree
          <6>2. CASE ~\E n \in DOMAIN hand[s] : r \in hand[s][n].records
            <7>1. view'[s][r] = view[s][r]
              BY <3>2, <4>2, <6>2, ReplayedNone
            <7> QED BY <2>1, <2>3, <5>3, <7>1 DEF GapFree
          <6> QED BY <6>1, <6>2
        <5> QED BY <5>2, <5>3
      <4> QED BY <4>1, <4>2
    <3> QED BY <2>1, <2>3, <3>1, <3>3, EmptyFacts DEF GapFree, TellsAt, Coming
  <2> QED BY <2>2, <2>3
<1>10. ASSUME NEW s \in Subscriber, DropHandle(s) PROVE GapInv'
  <2> SUFFICES ASSUME NEW t \in Subscriber, NEW r \in Record,
                      (handle[t] = "open" /\ t \notin pending /\ Concerns(t, r))'
               PROVE  GapFree(t, r)'
    BY DEF GapInv

  <2>1. t # s /\ GapFree(t, r)
    BY <1>10, DropStep DEF GapInv, Concerns
  <2> QED BY <1>10, DropStep, <2>1, GapFrame
<1>11. CASE DrainOne
  <2> SUFFICES ASSUME NEW t \in Subscriber, NEW r \in Record,
                      (handle[t] = "open" /\ t \notin pending /\ Concerns(t, r))'
               PROVE  GapFree(t, r)'
    BY DEF GapInv

  <2>1. GapFree(t, r)
    BY <1>11, DrainStep DEF GapInv, Concerns
  <2>2. CASE t # draining
    BY <1>11, DrainStep, <2>1, <2>2, GapFrame
  <2>3. CASE t = draining
    BY <1>11, DrainStep, <2>3 DEF GapFree, Coming
  <2> QED BY <2>2, <2>3
<1>12. CASE SendResync
  <2> SUFFICES ASSUME NEW t \in Subscriber, NEW r \in Record,
                      (handle[t] = "open" /\ t \notin pending /\ Concerns(t, r))'
               PROVE  GapFree(t, r)'
    BY DEF GapInv

  <2>1. GapFree(t, r)
    BY <1>12, ResyncStep DEF GapInv, Concerns
  <2>2. CASE t # draining
    BY <1>12, ResyncStep, <2>1, <2>2, GapFrame
  <2>3. CASE t = draining
    <3>1. DOMAIN queue'[t] = {1} /\ Resync \in queue'[t][1].records
      BY <1>12, ResyncStep, <2>3, SingleFacts
    <3> QED BY <3>1 DEF GapFree, TellsAt
  <2> QED BY <2>2, <2>3
<1>13. CASE Published
  <2> SUFFICES ASSUME NEW t \in Subscriber, NEW r \in Record,
                      (handle[t] = "open" /\ t \notin pending /\ Concerns(t, r))'
               PROVE  GapFree(t, r)'
    BY DEF GapInv

  <2>1. UNCHANGED <<revision, facts, origin, waiting, draining, queue, hand, view, handle, pending>>
    BY <1>13 DEF Published, project, agent
  <2> QED BY <2>1, GapFrame DEF GapInv, Concerns
<1>14. CASE Quiet
  <2> SUFFICES ASSUME NEW t \in Subscriber, NEW r \in Record,
                      (handle[t] = "open" /\ t \notin pending /\ Concerns(t, r))'
               PROVE  GapFree(t, r)'
    BY DEF GapInv

  <2>1. UNCHANGED <<revision, facts, origin, waiting, draining, queue, hand, view, handle, pending>>
    BY <1>14 DEF Quiet, vars, worker, project, agent
  <2> QED BY <2>1, GapFrame DEF GapInv, Concerns
<1>15. CASE UNCHANGED vars
  <2> SUFFICES ASSUME NEW t \in Subscriber, NEW r \in Record,
                      (handle[t] = "open" /\ t \notin pending /\ Concerns(t, r))'
               PROVE  GapFree(t, r)'
    BY DEF GapInv

  <2>1. UNCHANGED <<revision, facts, origin, waiting, draining, queue, hand, view, handle, pending>>
    BY <1>15 DEF vars, worker, project, agent
  <2> QED BY <2>1, GapFrame DEF GapInv, Concerns
<1> QED BY <1>1, <1>2, <1>3, <1>4, <1>5, <1>6, <1>7, <1>8, <1>9, <1>10, <1>11, <1>12,
          <1>13, <1>14, <1>15 DEF Next, Deliver

-----------------------------------------------------------------------------
\* Everything that holds whatever the filters take.
SubInv ==
  /\ ProjectInv /\ ListsInv /\ ChannelsInv /\ ViewInv /\ RoomInv /\ OrderInv /\ NamesInv

\* Initially nothing is committed, queued or subscribed to.
LEMMA InitEstablishes == Init => SubInv /\ GapInv
<1> SUFFICES ASSUME Init PROVE SubInv /\ GapInv
  OBVIOUS
<1>1. ProjectInv
  BY SubscriptionAssumption DEF Init, ProjectInv
<1>2. ListsInv
  BY DEF Init, ListsInv
<1>3. ChannelsInv
  BY EmptyFacts, SubscriptionAssumption DEF Init, ChannelsInv
<1>4. ViewInv
  BY SubscriptionAssumption DEF Init, ViewInv
<1>5. \A s \in Subscriber : queue[s] = <<>> /\ hand[s] = <<>> /\ seen[s] = 0 /\ s \notin waiting
  BY DEF Init
<1>6. RoomInv
  BY <1>5, EmptyFacts, RoomFacts DEF RoomInv
<1>7. OrderInv
  BY <1>5, EmptyFacts DEF Init, OrderInv, Ordered, Ascending
<1>8. NamesInv
  BY <1>5, EmptyFacts DEF NamesInv, NotAhead
<1>9. GapInv
  BY DEF Init, GapInv
<1> QED BY <1>1, <1>2, <1>3, <1>4, <1>6, <1>7, <1>8, <1>9 DEF SubInv

\* The parts that hold for any filters are inductive together.
LEMMA SubInvKept == SubInv /\ [Next]_vars => SubInv'
BY ProjectKept, ListsKept, ChannelsKept, ViewKept, RoomKept, OrderKept, NamesKept DEF SubInv

\* The worker's lists, the channels and the agents' copies keep their types, and no channel
\* holds more than the room that open_subscription gave it.
THEOREM TypeCorrect == Spec => []TypeOK
<1>1. SubInv => TypeOK
  BY DEF SubInv, ProjectInv, ListsInv, ChannelsInv, ViewInv, RoomInv, TypeOK, Publication
<1> QED BY <1>1, InitEstablishes, SubInvKept, PTL DEF Spec

\* Change sets arrive in commit order, each at most once, whatever Subscriber::materialise
\* has taken out of the channel meanwhile.
THEOREM DeliveredInOrder == Spec => []InOrder
<1>1. SubInv => InOrder
  BY ElementFacts DEF SubInv, OrderInv, Ordered, Ascending, InOrder
<1> QED BY <1>1, InitEstablishes, SubInvKept, PTL DEF Spec

\* No agent whose filter takes RESYNCHRONISE is left with an outdated copy of something its
\* filter selects and no word of it under way (Subscriber::materialise, resync, subscribe).
THEOREM NoGapUnnoticed ==
  ASSUME ResyncTaken
  PROVE  Spec => []NoSilentGap
<1>1. SubInv /\ GapInv => NoSilentGap
  <2> SUFFICES ASSUME SubInv, GapInv, NEW s \in Subscriber, handle[s] = "open", NEW r \in Record,
                      Concerns(s, r), s \notin pending
               PROVE  \/ view[s][r] = facts[r] \/ Tells(hand[s], r) \/ Tells(queue[s], r)
                      \/ s \in waiting
    BY DEF NoSilentGap
  <2>1. GapFree(s, r)
    BY DEF GapInv
  <2>2. \A q : (\E n \in DOMAIN q : TellsAt(q, n, r)) => Tells(q, r)
    BY DEF TellsAt, Tells, Contents
  <2>3. Coming(s, r) => s \in waiting
    BY SubscriptionAssumption DEF Coming, SubInv, ListsInv
  <2> QED BY <2>1, <2>2, <2>3 DEF GapFree
<1>2. SubInv /\ GapInv /\ [Next]_vars => GapInv'
  BY GapKept DEF SubInv
<1> QED BY <1>1, <1>2, InitEstablishes, SubInvKept, PTL DEF Spec
================================================================================
