------------------------------- MODULE EntityStore -------------------------------
(***************************************************************************)
(* The write-back entity store: the LRU of EntityCache, the map of pending *)
(* writes of WriteBackWorker, the channel to its worker thread, and the    *)
(* backing provider.  The project's lock keeps writers and readers apart;  *)
(* the worker thread and the eviction of the LRU interleave with all of    *)
(* them.  A commit flushes the worker, writes its batch to the provider    *)
(* and publishes it into the LRU.                                          *)
(***************************************************************************)
EXTENDS Integers, Sequences, FiniteSets

CONSTANTS
  Key, Value, Reader,
  Project,     \* the client that writes and commits
  Absent,      \* no entity is stored under the key
  Clean,       \* no write of the key is pending
  Empty,       \* the LRU does not hold the key
  Unset,       \* a caller has no value for the key
  NoClient, Closing,  \* whom the worker answers: nobody, the drop of the store
  NoAnswer,
  Span,        \* the sets of keys that range iterations cover
  Capacity,    \* messages the channel holds
  MaxBatch,    \* keys that make the worker commit
  MaxOps, MaxFailures, MaxEpochs  \* bounds of the instance

VARIABLES
  provider,    \* whether the backing provider supports write transactions
  backing,     \* what the provider stores
  cache,       \* the LRU
  pending,     \* WriteBackWorker::pending
  seq,         \* WriteBackWorker::seq
  channel,
  poison,
  at, batch, left, snap, for,      \* the worker thread
  client, staged,                  \* the project as a writer
  reply,                           \* the answers to flush requests
  reader, todo, span, got, lru,    \* the readers
  ops, failures, epoch

store == <<provider, backing, cache, pending, seq, channel, poison>>
worker == <<at, batch, left, snap, for>>
writing == <<client, staged>>
reading == <<reader, todo, span, got, lru>>
counts == <<ops, failures, epoch>>
vars == <<store, worker, writing, reply, reading, counts>>

Stored == Value \cup {Absent}
Entry == [value : Stored, seq : Nat]
Client == Reader \cup {Project}
Message == [kind : {"write"}, key : Key] \cup [kind : {"flush"}, by : Client]
             \cup {[kind |-> "shutdown"]}

\* The values that stand for the absence of something are no entities and no clients.
ASSUME StoreConstants ==
  /\ Absent \notin Value /\ Empty \notin Value /\ Unset \notin Stored
  /\ Clean \notin Entry
  /\ Project \notin Reader
  /\ NoClient \notin Client /\ Closing \notin Client /\ NoClient # Closing
  /\ Span \subseteq SUBSET Key

Write(k) == [kind |-> "write", key |-> k]
Flush(c) == [kind |-> "flush", by |-> c]
Shutdown == [kind |-> "shutdown"]

NoWrites == [k \in Key |-> Clean]
NoValues == [k \in Key |-> Unset]

\* What a key holds for a caller: its pending write, or else what is stored.
View(k) == IF pending[k] # Clean THEN pending[k].value ELSE backing[k]

\* The project's lock: a writer waits for the readers, a reader for the writer.
NoReaders == \A r \in Reader : reader[r] = "idle"
Exclusive == client = "idle" /\ NoReaders
Shared(r) == client = "idle" /\ reader[r] = "idle"

Init ==
  /\ provider \in {"transactional", "direct"}
  /\ backing = [k \in Key |-> Absent]
  /\ cache = [k \in Key |-> Empty]
  /\ pending = NoWrites
  /\ seq = 0
  /\ channel = <<>>
  /\ poison = FALSE
  /\ at = "recv" /\ batch = {} /\ left = {} /\ snap = NoWrites /\ for = NoClient
  /\ client = "idle" /\ staged = NoValues
  /\ reply = [c \in Client |-> "none"]
  /\ reader = [r \in Reader |-> "idle"]
  /\ todo = [r \in Reader |-> {}] /\ span = [r \in Reader |-> {}]
  /\ got = [r \in Reader |-> NoValues] /\ lru = [r \in Reader |-> FALSE]
  /\ ops = 0 /\ failures = 0 /\ epoch = 0

--------------------------------------------------------------------------------
\* Mutant: a key that is pending already is not announced again.
EnqueueCoalesced(k, v) ==
  /\ Exclusive /\ ~poison /\ ops < MaxOps
  /\ pending' = [pending EXCEPT ![k] = [value |-> v, seq |-> seq]]
  /\ seq' = seq + 1
  /\ staged' = [staged EXCEPT ![k] = v]
  /\ client' = IF pending[k] = Clean THEN "send" ELSE "fill"
  /\ ops' = ops + 1
  /\ UNCHANGED <<provider, backing, cache, channel, poison, worker, reply, reading,
                 failures, epoch>>

\* EntityCache::try_insert and try_remove, through WriteBackWorker::enqueue.
Enqueue(k, v) ==
  /\ Exclusive /\ ~poison /\ ops < MaxOps
  /\ pending' = [pending EXCEPT ![k] = [value |-> v, seq |-> seq]]
  /\ seq' = seq + 1
  /\ staged' = [staged EXCEPT ![k] = v]
  /\ client' = "send"
  /\ ops' = ops + 1
  /\ UNCHANGED <<provider, backing, cache, channel, poison, worker, reply, reading,
                 failures, epoch>>

Announce ==
  /\ client = "send" /\ Len(channel) < Capacity
  /\ \E k \in Key : staged[k] # Unset /\ channel' = Append(channel, Write(k))
  /\ client' = "fill"
  /\ UNCHANGED <<provider, backing, cache, pending, seq, poison, worker, staged, reply,
                 reading, counts>>

\* The write lands in the LRU last: EntityCache::cache, publish_insert, publish_remove.
PublishedLru ==
  [k \in Key |-> CASE staged[k] = Unset -> cache[k]
                   [] staged[k] = Absent -> Empty
                   [] OTHER -> staged[k]]

Publish ==
  /\ client \in {"fill", "publish"}
  /\ cache' = PublishedLru
  /\ client' = "idle" /\ staged' = NoValues
  /\ UNCHANGED <<provider, backing, pending, seq, channel, poison, worker, reply, reading,
                 counts>>

\* ProjectTransaction::commit with a batch of writes: flush first.
Commit(writes) ==
  /\ Exclusive /\ ~poison /\ ops < MaxOps
  /\ \E k \in Key : writes[k] # Unset
  /\ staged' = writes
  /\ client' = "flush"
  /\ ops' = ops + 1
  /\ UNCHANGED <<store, worker, reply, reading, failures, epoch>>

\* EntityStorage::write_batch: one write transaction, all or nothing.
Admit ==
  /\ client = "admit" /\ provider = "transactional"
  /\ backing' = [k \in Key |-> IF staged[k] = Unset THEN backing[k] ELSE staged[k]]
  /\ client' = "publish"
  /\ UNCHANGED <<provider, cache, pending, seq, channel, poison, worker, staged, reply,
                 reading, counts>>

\* It fails, always so when the provider has no write transactions.
AdmitFails ==
  /\ client = "admit"
  /\ client' = "idle" /\ staged' = NoValues
  /\ UNCHANGED <<store, worker, reply, reading, counts>>

\* The drop of the last handle of the WriteBackWorker.
Close ==
  /\ Exclusive
  /\ client' = "closing"
  /\ UNCHANGED <<store, worker, staged, reply, reading, counts>>

CloseSend ==
  /\ client = "closing" /\ Len(channel) < Capacity
  /\ channel' = Append(channel, Shutdown)
  /\ client' = "closed"
  /\ UNCHANGED <<provider, backing, cache, pending, seq, poison, worker, staged, reply,
                 reading, counts>>

--------------------------------------------------------------------------------
\* WriteBackWorker::flush by the project and by an iteration of a reader.
FlushSend(c) ==
  /\ Len(channel) < Capacity
  /\ channel' = Append(channel, Flush(c))
  /\ \/ /\ c = Project /\ client = "flush"
        /\ client' = "wait"
        /\ UNCHANGED reader
     \/ /\ c \in Reader /\ reader[c] = "flush"
        /\ reader' = [reader EXCEPT ![c] = "wait"]
        /\ UNCHANGED client
  /\ UNCHANGED <<provider, backing, cache, pending, seq, poison, worker, staged, reply,
                 todo, span, got, lru, counts>>

\* The commit goes on, or ends with the error of the flush.
CommitFlushed ==
  /\ client = "wait" /\ reply[Project] # "none"
  /\ reply' = [reply EXCEPT ![Project] = "none"]
  /\ IF reply[Project] = "ok"
       THEN client' = "admit" /\ UNCHANGED staged
       ELSE client' = "idle" /\ staged' = NoValues
  /\ UNCHANGED <<store, worker, reading, counts>>

IterFlushed(r) ==
  /\ reader[r] = "wait" /\ reply[r] # "none"
  /\ reply' = [reply EXCEPT ![r] = "none"]
  /\ IF reply[r] = "ok"
       THEN /\ reader' = [reader EXCEPT ![r] = "rest"]
            /\ todo' = [todo EXCEPT ![r] = span[r]]
            /\ UNCHANGED span
       ELSE /\ reader' = [reader EXCEPT ![r] = "idle"]
            /\ span' = [span EXCEPT ![r] = {}]
            /\ UNCHANGED todo
  /\ UNCHANGED <<store, worker, writing, got, lru, counts>>

--------------------------------------------------------------------------------
\* EntityCache::try_get: the LRU, then the pending writes, then the provider.
GetCached(r, k) ==
  /\ Shared(r) /\ cache[k] # Empty
  /\ reader' = [reader EXCEPT ![r] = "done"]
  /\ got' = [got EXCEPT ![r] = [NoValues EXCEPT ![k] = cache[k]]]
  /\ UNCHANGED <<store, worker, writing, reply, todo, span, lru, counts>>

\* A miss; and StorageContainer::entity, which leaves the LRU out.
GetMiss(r, k, filling) ==
  /\ Shared(r) /\ (filling => cache[k] = Empty)
  /\ reader' = [reader EXCEPT ![r] = "pending"]
  /\ todo' = [todo EXCEPT ![r] = {k}]
  /\ lru' = [lru EXCEPT ![r] = filling]
  /\ got' = [got EXCEPT ![r] = NoValues]
  /\ UNCHANGED <<store, worker, writing, reply, span, counts>>

GetPending(r, k) ==
  /\ reader[r] = "pending" /\ k \in todo[r]
  /\ IF pending[k] = Clean
       THEN /\ reader' = [reader EXCEPT ![r] = "backing"]
            /\ UNCHANGED <<got, cache>>
       ELSE /\ reader' = [reader EXCEPT ![r] = "done"]
            /\ got' = [got EXCEPT ![r][k] = pending[k].value]
            /\ cache' = IF lru[r] /\ pending[k].value # Absent
                          THEN [cache EXCEPT ![k] = pending[k].value] ELSE cache
  /\ UNCHANGED <<provider, backing, pending, seq, channel, poison, worker, writing, reply,
                 todo, span, lru, counts>>

GetBacking(r, k) ==
  /\ reader[r] = "backing" /\ k \in todo[r]
  /\ got' = [got EXCEPT ![r][k] = backing[k]]
  /\ reader' = [reader EXCEPT ![r] = IF lru[r] /\ backing[k] # Absent THEN "fill" ELSE "done"]
  /\ UNCHANGED <<store, worker, writing, reply, todo, span, lru, counts>>

GetFill(r, k) ==
  /\ reader[r] = "fill" /\ k \in todo[r]
  /\ cache' = [cache EXCEPT ![k] = got[r][k]]
  /\ reader' = [reader EXCEPT ![r] = "done"]
  /\ UNCHANGED <<provider, backing, pending, seq, channel, poison, worker, writing, reply,
                 todo, span, got, lru, counts>>

\* EntityCache::try_iter_range: the pending writes of the range, then the provider.
IterRange(r, keys) ==
  /\ Shared(r) /\ ~poison
  /\ reader' = [reader EXCEPT ![r] = "walk"]
  /\ span' = [span EXCEPT ![r] = keys] /\ todo' = [todo EXCEPT ![r] = keys]
  /\ got' = [got EXCEPT ![r] = NoValues]
  /\ UNCHANGED <<store, worker, writing, reply, lru, counts>>

\* EntityCache::try_iter flushes and walks the provider alone.
Iter(r) ==
  /\ Shared(r) /\ ~poison
  /\ reader' = [reader EXCEPT ![r] = "flush"]
  /\ span' = [span EXCEPT ![r] = Key] /\ todo' = [todo EXCEPT ![r] = {}]
  /\ got' = [got EXCEPT ![r] = NoValues]
  /\ UNCHANGED <<store, worker, writing, reply, lru, counts>>

\* WriteBackWorker::pending_range visits the map while the worker prunes it.
WalkPending(r, k) ==
  /\ reader[r] = "walk" /\ k \in todo[r]
  /\ todo' = [todo EXCEPT ![r] = @ \ {k}]
  /\ got' = IF pending[k] = Clean THEN got ELSE [got EXCEPT ![r][k] = pending[k].value]
  /\ UNCHANGED <<store, worker, writing, reply, reader, span, lru, counts>>

\* EntityCache::cached_ref: the LRU's value of a stored entity is preferred.
CachedRef(k, v) == IF v \in {Unset, Absent} \/ cache[k] = Empty THEN v ELSE cache[k]

\* decode_pending_range, and the iterator over the provider is opened.
WalkDone(r) ==
  /\ reader[r] = "walk" /\ todo[r] = {}
  /\ reader' = [reader EXCEPT ![r] = "rest"]
  /\ todo' = [todo EXCEPT ![r] = span[r]]
  /\ got' = [got EXCEPT ![r] = [k \in Key |-> CachedRef(k, got[r][k])]]
  /\ UNCHANGED <<store, worker, writing, reply, span, lru, counts>>

\* merge_pending_range: a pending write hides what the provider stores.
Rest(r, k) ==
  /\ reader[r] = "rest" /\ k \in todo[r]
  /\ todo' = [todo EXCEPT ![r] = @ \ {k}]
  /\ got' = IF got[r][k] # Unset THEN got
            ELSE [got EXCEPT ![r][k] = CachedRef(k, backing[k])]
  /\ reader' = [reader EXCEPT ![r] = IF todo[r] = {k} THEN "done" ELSE "rest"]
  /\ UNCHANGED <<store, worker, writing, reply, span, lru, counts>>

\* The call returns and the lock is released.
Return(r) ==
  /\ reader[r] = "done"
  /\ reader' = [reader EXCEPT ![r] = "idle"]
  /\ got' = [got EXCEPT ![r] = NoValues]
  /\ todo' = [todo EXCEPT ![r] = {}]
  /\ span' = [span EXCEPT ![r] = {}]
  /\ lru' = [lru EXCEPT ![r] = FALSE]
  /\ UNCHANGED <<store, worker, writing, reply, counts>>

\* The LRU may give up an entry at any time.
Evict(k) ==
  /\ cache[k] # Empty
  /\ cache' = [cache EXCEPT ![k] = Empty]
  /\ UNCHANGED <<provider, backing, pending, seq, channel, poison, worker, writing, reply,
                 reading, counts>>

--------------------------------------------------------------------------------
\* Worker::run on a write: the key joins the batch, which is committed when full.
RecvWrite ==
  /\ at = "recv" /\ channel # <<>> /\ Head(channel).kind = "write"
  /\ channel' = Tail(channel)
  /\ LET grown == batch \cup {Head(channel).key} IN
       IF Cardinality(grown) >= MaxBatch
         THEN at' = "gather" /\ batch' = {} /\ left' = grown
         ELSE batch' = grown /\ UNCHANGED <<at, left>>
  /\ UNCHANGED <<provider, backing, cache, pending, seq, poison, snap, for, writing, reply,
                 reading, counts>>

\* Mutant: only a full batch is committed, also when the wait runs out.
TimeoutFull ==
  /\ at = "recv" /\ channel = <<>> /\ Cardinality(batch) >= MaxBatch
  /\ at' = "gather" /\ batch' = {} /\ left' = batch
  /\ UNCHANGED <<store, snap, for, writing, reply, reading, counts>>

\* recv_timeout runs out with nothing in the channel.
Timeout ==
  /\ at = "recv" /\ channel = <<>> /\ batch # {}
  /\ at' = "gather" /\ batch' = {} /\ left' = batch
  /\ UNCHANGED <<store, snap, for, writing, reply, reading, counts>>

\* commit_batch takes a snapshot of one key after the other.
Gather(k) ==
  /\ at = "gather" /\ k \in left
  /\ snap' = [snap EXCEPT ![k] = pending[k]]
  /\ left' = left \ {k}
  /\ UNCHANGED <<store, at, batch, for, writing, reply, reading, counts>>

Taken == {k \in Key : snap[k] # Clean}

\* Mutant: a commit that failed is not answered.
DoneSilent(result) ==
  /\ at' = IF for = Closing THEN "stopped" ELSE "recv"
  /\ left' = {} /\ snap' = NoWrites /\ for' = NoClient
  /\ reply' = IF for \in Client /\ result = "ok" THEN [reply EXCEPT ![for] = result] ELSE reply
  /\ UNCHANGED batch

\* The worker is done with a commit and answers whom it was for.
Done(result) ==
  /\ at' = IF for = Closing THEN "stopped" ELSE "recv"
  /\ left' = {} /\ snap' = NoWrites /\ for' = NoClient
  /\ reply' = IF for \in Client THEN [reply EXCEPT ![for] = result] ELSE reply
  /\ UNCHANGED batch

Gathered ==
  /\ at = "gather" /\ left = {}
  /\ IF Taken = {} THEN Done("ok")
     ELSE /\ at' = "write" /\ left' = Taken
          /\ UNCHANGED <<batch, snap, for, reply>>
  /\ UNCHANGED <<store, writing, reading, counts>>

\* Mutant: a flush commits the batch gathered so far and not every pending write.
RecvAllOfBatch ==
  /\ at = "recv" /\ channel # <<>> /\ Head(channel).kind # "write"
  /\ channel' = Tail(channel)
  /\ batch' = IF Head(channel).kind = "flush" THEN {} ELSE batch
  /\ snap' = [k \in Key |-> IF k \in batch THEN pending[k] ELSE Clean]
  /\ for' = IF Head(channel).kind = "flush" THEN Head(channel).by ELSE Closing
  /\ at' = "gather" /\ left' = {}
  /\ UNCHANGED <<provider, backing, cache, pending, seq, poison, writing, reply, reading,
                 counts>>

\* A flush or the shutdown: commit_all takes every pending write.  No writer runs
\* meanwhile: whoever flushes holds the lock.
RecvAll ==
  /\ at = "recv" /\ channel # <<>> /\ Head(channel).kind # "write"
  /\ channel' = Tail(channel)
  /\ batch' = IF Head(channel).kind = "flush" THEN {} ELSE batch
  /\ snap' = pending
  /\ for' = IF Head(channel).kind = "flush" THEN Head(channel).by ELSE Closing
  /\ at' = "gather" /\ left' = {}
  /\ UNCHANGED <<provider, backing, cache, pending, seq, poison, writing, reply, reading,
                 counts>>

\* Worker::write_batch, in one transaction.
WriteBatch ==
  /\ at = "write" /\ provider = "transactional"
  /\ backing' = [k \in Key |-> IF k \in Taken THEN snap[k].value ELSE backing[k]]
  /\ at' = "prune" /\ left' = Taken
  /\ UNCHANGED <<provider, cache, pending, seq, channel, poison, batch, snap, for, writing,
                 reply, reading, counts>>

\* write_batch_direct: one write after the other.
WriteDirect(k) ==
  /\ at = "write" /\ provider = "direct" /\ k \in left
  /\ backing' = [backing EXCEPT ![k] = snap[k].value]
  /\ IF left = {k} THEN at' = "prune" /\ left' = Taken
     ELSE left' = left \ {k} /\ UNCHANGED at
  /\ UNCHANGED <<provider, cache, pending, seq, channel, poison, batch, snap, for, writing,
                 reply, reading, counts>>

\* The provider fails: the worker is poisoned and the writes stay pending.
WriteFails ==
  /\ at = "write" /\ failures < MaxFailures
  /\ poison' = TRUE
  /\ failures' = failures + 1
  /\ Done("err")
  /\ UNCHANGED <<provider, backing, cache, pending, seq, channel, writing, reading, ops,
                 epoch>>

\* Mutant: whatever is pending for a committed key is dropped.
PrunedPendingAny(k) ==
  [pending EXCEPT ![k] = Clean]

\* remove_if: only the very write that was committed is dropped.
PrunedPending(k) ==
  IF pending[k] # Clean /\ pending[k].seq = snap[k].seq
    THEN [pending EXCEPT ![k] = Clean] ELSE pending

Prune(k) ==
  /\ at = "prune" /\ k \in left
  /\ pending' = PrunedPending(k)
  /\ left' = left \ {k}
  /\ UNCHANGED <<provider, backing, cache, seq, channel, poison, at, batch, snap, for,
                 writing, reply, reading, counts>>

Pruned ==
  /\ at = "prune" /\ left = {}
  /\ Done("ok")
  /\ UNCHANGED <<store, writing, reading, counts>>

--------------------------------------------------------------------------------
\* The process ends, or crashes, and the store is opened again on what is stored.
Reopen ==
  /\ epoch < MaxEpochs
  /\ epoch' = epoch + 1
  /\ cache' = [k \in Key |-> Empty]
  /\ pending' = NoWrites
  /\ seq' = 0
  /\ channel' = <<>>
  /\ poison' = FALSE
  /\ at' = "recv" /\ batch' = {} /\ left' = {} /\ snap' = NoWrites /\ for' = NoClient
  /\ client' = "idle" /\ staged' = NoValues
  /\ reply' = [c \in Client |-> "none"]
  /\ reader' = [r \in Reader |-> "idle"]
  /\ todo' = [r \in Reader |-> {}] /\ span' = [r \in Reader |-> {}]
  /\ got' = [r \in Reader |-> NoValues] /\ lru' = [r \in Reader |-> FALSE]
  /\ UNCHANGED <<provider, backing, ops, failures>>

ClientStep ==
  \/ \E k \in Key, v \in Stored : Enqueue(k, v)
  \/ Announce
  \/ Publish
  \/ \E writes \in [Key -> Stored \cup {Unset}] : Commit(writes)
  \/ Admit
  \/ AdmitFails
  \/ Close
  \/ CloseSend
  \/ CommitFlushed

ReaderStep(r) ==
  \/ \E k \in Key : \/ GetCached(r, k)
                    \/ \E filling \in BOOLEAN : GetMiss(r, k, filling)
                    \/ GetPending(r, k)
                    \/ GetBacking(r, k)
                    \/ GetFill(r, k)
                    \/ WalkPending(r, k)
                    \/ Rest(r, k)
  \/ \E keys \in Span : IterRange(r, keys)
  \/ Iter(r)
  \/ WalkDone(r)
  \/ IterFlushed(r)
  \/ Return(r)

WorkerStep ==
  \/ RecvWrite
  \/ Timeout
  \/ \E k \in Key : Gather(k)
  \/ Gathered
  \/ RecvAll
  \/ WriteBatch
  \/ \E k \in Key : WriteDirect(k)
  \/ WriteFails
  \/ \E k \in Key : Prune(k)
  \/ Pruned

Next ==
  \/ ClientStep
  \/ \E c \in Client : FlushSend(c)
  \/ \E r \in Reader : ReaderStep(r)
  \/ WorkerStep
  \/ \E k \in Key : Evict(k)
  \/ Reopen

\* The worker thread keeps running, and a call that has begun goes on: a sender that
\* waits for room in the channel is served in turn.
Fairness ==
  /\ WF_vars(WorkerStep)
  /\ WF_vars(Announce)
  /\ WF_vars(CommitFlushed)
  /\ \A c \in Client : SF_vars(FlushSend(c))
  /\ \A r \in Reader : WF_vars(IterFlushed(r))

Spec == Init /\ [][Next]_vars /\ Fairness
--------------------------------------------------------------------------------
(***************************************************************************)
(* Properties                                                              *)
(***************************************************************************)

\* Every variable keeps to its type: what the store, the worker thread and the calls
\* in progress hold.
StoreTypeOK ==
  /\ provider \in {"transactional", "direct"}
  /\ backing \in [Key -> Stored]
  /\ cache \in [Key -> Value \cup {Empty}]
  /\ pending \in [Key -> Entry \cup {Clean}]
  /\ seq \in Nat
  /\ channel \in Seq(Message)
  /\ poison \in BOOLEAN
  /\ at \in {"recv", "gather", "write", "prune", "stopped"}
  /\ batch \in SUBSET Key /\ left \in SUBSET Key
  /\ snap \in [Key -> Entry \cup {Clean}]
  /\ for \in Client \cup {NoClient, Closing}
  /\ client \in {"idle", "send", "fill", "flush", "wait", "admit", "publish", "closing",
                  "closed"}
  /\ staged \in [Key -> Stored \cup {Unset}]
  /\ reply \in [Client -> {"none", "ok", "err"}]
  /\ reader \in [Reader -> {"idle", "pending", "backing", "fill", "walk", "rest", "flush",
                            "wait", "done"}]
  /\ todo \in [Reader -> SUBSET Key] /\ span \in [Reader -> SUBSET Key]
  /\ got \in [Reader -> [Key -> Stored \cup {Unset}]]
  /\ lru \in [Reader -> BOOLEAN]
  /\ ops \in Nat /\ failures \in Nat /\ epoch \in Nat

\* The LRU never holds an older value than the pending writes and the provider: only
\* the writer's own step into the LRU is outstanding, and it holds the lock meanwhile.
LruFresh ==
  \A k \in Key : cache[k] # Empty /\ staged[k] = Unset => cache[k] = View(k)

\* A flush that answers ok, and a store that was closed without a failure, has put
\* every write so far into the provider (WriteBackWorker::flush, Drop).
FlushDurable ==
  (\E c \in Client : reply[c] = "ok") \/ (at = "stopped" /\ ~poison) => pending = NoWrites

Queued(k) ==
  \E i \in 1..Len(channel) : channel[i].kind # "write" \/ channel[i].key = k

\* No pending write is forgotten: unless the worker is poisoned, a key that is pending
\* is still to be announced, in the channel, in the batch, or in the commit that runs,
\* in its newest form.
NothingStranded ==
  \A k \in Key : pending[k] # Clean /\ ~poison =>
    \/ client = "send" /\ staged[k] # Unset
    \/ Queued(k)
    \/ k \in batch
    \/ at = "gather" /\ k \in left
    \/ snap[k] = pending[k] /\ (at = "prune" => k \in left)

\* What a crash may leave of a key: what is stored, what is pending, and what the
\* worker is about to store.
Surviving(k) ==
  {View(k), backing[k]} \cup {snap[j].value : j \in Taken \cap {k}}

AnswerOf(r) ==
  IF reader[r] = "done" THEN [k \in {j \in Key : got[r][j] # Unset} |-> got[r][k]]
  ELSE NoAnswer

\* What the writer is at, as its callers know it.
PhaseOf ==
  CASE client \in {"send", "fill"} -> "put"
    [] client \in {"flush", "wait", "admit"} -> "batch"
    [] client = "publish" -> "admitted"
    [] OTHER -> "idle"

Map == INSTANCE EntityMap WITH
  map <- [k \in Key |-> View(k)],
  since <- [k \in Key |-> Surviving(k)],
  phase <- PhaseOf,
  writes <- staged,
  answer <- [r \in Reader |-> AnswerOf(r)]

\* The store implements the plain map of EntityMap: whatever the worker, the LRU and
\* the provider do, what a key reads as changes only with a write of it, to the value
\* written, a read answers the latest write, a commit is visible and durable at once with
\* everything before it or not at all, and a crash leaves each key with a value it had
\* since it was last on storage.  A worker that drops a newer pending write than the one
\* it stored, such as a removal, breaks it.
ImplementsMap == Map!MapSpec

\* A pending write is settled, unless another write or commit is begun: its key is
\* committed or overwritten, or the worker is poisoned.  The worker's timeout picks up what
\* no full batch commits, but recv_timeout begins anew with every message, so that a
\* steady stream of writes to fewer than max_batch keys can keep a key pending.
WriteSettles ==
  \A k \in Key, n \in 0..(MaxOps - 1), m \in 0..MaxOps :
    (pending[k] # Clean /\ pending[k].seq = n /\ ops = m)
      ~> (poison \/ pending[k] = Clean \/ pending[k].seq # n \/ ops # m)

\* Whoever flushes, an iteration of a reader or a commit of the project, gets an answer,
\* also from a poisoned worker: the worker never waits for a client.
FlushReturns ==
  /\ (client = "flush") ~> (client \notin {"flush", "wait"})
  /\ \A r \in Reader : (reader[r] = "flush") ~> (reader[r] \notin {"flush", "wait"})
================================================================================
