--------------------------- MODULE StorageProofs ----------------------------
(***************************************************************************)
(* The two storages of a project.                                          *)
(*                                                                         *)
(* EntityStore: the write-back store implements the plain map of EntityMap,*)
(* for any keys, values and readers; a flush that answers ok has stored    *)
(* every write, and no pending write is stranded.                          *)
(*                                                                         *)
(* AddressSpaces: the three indexes of every space agree with each other   *)
(* and with the mappings, a synthetic mapping takes bytes of its own, and  *)
(* the cache of views is as fresh as the submaps are apart.                *)
(***************************************************************************)
EXTENDS EntityStore, AddressSpaces, FiniteSetTheorems, WellFoundedInduction, TLAPS

-----------------------------------------------------------------------------
(* EntityStore. *)


\* The project's lock: while a writer is at work there are no readers.
Locked == client # "idle" => NoReaders

\* Whom a flush has to answer.
Owed(c) == (c = Project /\ client = "wait") \/ (c \in Reader /\ reader[c] = "wait")

\* A flush in the channel, or served by the worker, is owed to a client that has no
\* answer yet; the shutdown comes from a closed store.
FlushesOwed ==
  /\ \A i \in 1..Len(channel) :
       /\ channel[i].kind = "flush" =>
            Owed(channel[i].by) /\ reply[channel[i].by] = "none" /\ for # channel[i].by
       /\ channel[i].kind = "shutdown" => client = "closed"
  /\ \A i, j \in 1..Len(channel) :
       channel[i].kind = "flush" /\ channel[j].kind = "flush" /\ channel[i].by = channel[j].by
         => i = j
  /\ for \in Client => Owed(for) /\ reply[for] = "none"
  /\ for = Closing => client = "closed"
  /\ at = "stopped" => client = "closed"

\* An answer is owed, and an ok means that nothing is pending or being written.
RepliesTrue ==
  \A c \in Client :
    /\ reply[c] # "none" => Owed(c)
    /\ reply[c] = "ok" => pending = NoWrites /\ snap = NoWrites

\* Sequence numbers tell the writes of a key apart.
SeqUnique ==
  \A k \in Key :
    /\ pending[k] # Clean => pending[k].seq < seq
    /\ snap[k] # Clean => snap[k].seq < seq
    /\ pending[k] # Clean /\ snap[k] # Clean /\ pending[k].seq = snap[k].seq
         => pending[k] = snap[k]

\* What the worker has taken is pending until it is stored, and is stored before it is
\* pruned.
WorkerTrue ==
  /\ at \in {"recv", "stopped"} => snap = NoWrites /\ for = NoClient
  /\ at \in {"gather", "write"} => \A k \in Key : snap[k] # Clean => pending[k] # Clean
  /\ at = "write" => left \subseteq Taken /\ Taken # {}
  /\ at = "write" => \A k \in Taken \ left : backing[k] = snap[k].value
  /\ at = "prune" => left \subseteq Taken /\ Taken # {}
  /\ at = "prune" => \A k \in left : backing[k] = snap[k].value
  /\ at = "stopped" /\ ~poison => pending = NoWrites

\* A commit of everything covers every pending write.
AllTaken ==
  for # NoClient =>
    \A k \in Key : pending[k] # Clean => snap[k] = pending[k] /\ (at = "prune" => k \in left)

\* What the writer has staged, and that it is alone with a clean store when it admits.
WriterTrue ==
  /\ client \in {"idle", "closing", "closed"} => staged = NoValues
  /\ client = "admit" => pending = NoWrites /\ snap = NoWrites
  /\ client \in {"send", "fill", "publish"} =>
       \A k \in Key : staged[k] # Unset => View(k) = staged[k]

\* The LRU is behind only for the keys of a write that is on its way into it.
CacheTrue ==
  \A k \in Key :
    cache[k] # Empty /\ ~(client \in {"send", "fill", "publish"} /\ staged[k] # Unset)
      => cache[k] = View(k)

\* What a reader has found so far, and where it has ruled out a pending write.
ReadersTrue ==
  \A r \in Reader, k \in Key :
    /\ got[r][k] # Unset =>
         got[r][k] = View(k) /\ reader[r] \in {"walk", "rest", "fill", "done"}
    /\ reader[r] = "backing" /\ k \in todo[r] => pending[k] = Clean
    /\ reader[r] = "fill" /\ k \in todo[r] => got[r][k] \in Value
    /\ reader[r] \in {"pending", "backing", "fill"} /\ k \in todo[r] => todo[r] = {k}
    /\ reader[r] = "walk" /\ k \in span[r] \ todo[r] /\ got[r][k] = Unset
         => pending[k] = Clean
    /\ reader[r] = "rest" /\ k \in todo[r] /\ got[r][k] = Unset => pending[k] = Clean

\* The inductive invariant.
StoreInv ==
  /\ StoreTypeOK /\ Locked /\ FlushesOwed /\ RepliesTrue /\ SeqUnique /\ WorkerTrue
  /\ AllTaken /\ WriterTrue /\ CacheTrue /\ ReadersTrue

\* A write is made only while no flush is under way, and gets a number of its own.
LEMMA EnqueueKeeps ==
  ASSUME StoreInv, NEW k \in Key, NEW v \in Stored, Enqueue(k, v)
  PROVE  StoreInv'
<1>1. StoreTypeOK'
  BY DEF StoreInv, StoreTypeOK, Enqueue, Entry, worker, reading
<1>2. Locked'
  BY DEF StoreInv, Locked, Enqueue, NoReaders, Exclusive, reading
<1>3. FlushesOwed'
  BY DEF StoreInv, FlushesOwed, Enqueue, Owed, Exclusive, worker, reading
<1>4. RepliesTrue'
  BY DEF StoreInv, RepliesTrue, Enqueue, Owed, Exclusive, NoReaders
<1>5. SeqUnique'
  BY DEF StoreInv, StoreTypeOK, SeqUnique, Enqueue, worker, Entry
<1>6. WorkerTrue'
  BY StoreConstants DEF StoreInv, StoreTypeOK, WorkerTrue, Enqueue, FlushesOwed, Taken,
     Exclusive, worker, Entry
<1>7. AllTaken'
  BY DEF StoreInv, StoreTypeOK, AllTaken, Enqueue, FlushesOwed, Exclusive, worker, Owed,
     NoReaders
<1>8. WriterTrue'
  BY StoreConstants DEF StoreInv, StoreTypeOK, WriterTrue, Enqueue, NoValues, View,
     Exclusive, Entry
<1>9. CacheTrue'
  BY StoreConstants DEF StoreInv, StoreTypeOK, CacheTrue, Enqueue, View
<1>10. ReadersTrue'
  BY DEF StoreInv, ReadersTrue, Enqueue, Exclusive, reading, NoReaders
<1> QED BY <1>1, <1>2, <1>3, <1>4, <1>5, <1>6, <1>7, <1>8, <1>9, <1>10 DEF StoreInv

\* The key is put into the channel: nothing that the invariant speaks of but the channel.
LEMMA AnnounceKeeps ==
  ASSUME StoreInv, Announce
  PROVE  StoreInv'
<1>1. StoreTypeOK'
  BY DEF StoreInv, StoreTypeOK, Announce, Message, Write, worker, reading, counts
<1>2. Locked'
  BY DEF StoreInv, Locked, Announce, NoReaders, reading
<1>3. FlushesOwed'
  BY DEF StoreInv, FlushesOwed, Announce, Owed, Write, worker, reading
<1>4. RepliesTrue'
  BY DEF StoreInv, RepliesTrue, Announce, Owed, worker, reading
<1>5. WriterTrue'
  BY DEF StoreInv, WriterTrue, Announce, View
<1>6. CacheTrue'
  BY DEF StoreInv, CacheTrue, Announce, View
<1>7. SeqUnique' /\ WorkerTrue' /\ AllTaken' /\ ReadersTrue'
  BY DEF StoreInv, SeqUnique, WorkerTrue, AllTaken, ReadersTrue, Announce, Taken, View,
     worker, reading
<1> QED BY <1>1, <1>2, <1>3, <1>4, <1>5, <1>6, <1>7 DEF StoreInv

\* The write lands in the LRU, which then agrees with the view for its keys.
LEMMA PublishKeeps ==
  ASSUME StoreInv, Publish
  PROVE  StoreInv'
<1>1. StoreTypeOK'
  BY DEF StoreInv, StoreTypeOK, Publish, Stored, PublishedLru, NoValues, worker,
     reading, counts
<1>2. Locked'
  BY DEF StoreInv, Locked, Publish
<1>3. FlushesOwed'
  BY DEF StoreInv, FlushesOwed, Publish, Owed, worker, reading
<1>4. RepliesTrue'
  BY DEF StoreInv, RepliesTrue, Publish, Owed, worker, reading
<1>5. WriterTrue'
  BY DEF StoreInv, WriterTrue, Publish
<1>6. CacheTrue'
  BY DEF StoreInv, CacheTrue, Publish, WriterTrue, View, PublishedLru
<1>7. SeqUnique' /\ WorkerTrue' /\ AllTaken' /\ ReadersTrue'
  BY DEF StoreInv, SeqUnique, WorkerTrue, AllTaken, ReadersTrue, Publish, Taken, View,
     worker, reading
<1> QED BY <1>1, <1>2, <1>3, <1>4, <1>5, <1>6, <1>7 DEF StoreInv

\* A commit stages its writes before anything is shown.
LEMMA CommitKeeps ==
  ASSUME StoreInv, NEW writes \in [Key -> Stored \cup {Unset}], Commit(writes)
  PROVE  StoreInv'
<1>1. StoreTypeOK'
  BY DEF StoreInv, StoreTypeOK, Commit, store, worker, reading
<1>2. Locked'
  BY DEF StoreInv, Locked, Commit, NoReaders, Exclusive, reading
<1>3. FlushesOwed'
  BY DEF StoreInv, FlushesOwed, Commit, Owed, Exclusive, store, worker, NoReaders
<1>4. RepliesTrue'
  BY DEF StoreInv, RepliesTrue, Commit, Owed, Exclusive, NoReaders
<1>5. WriterTrue'
  BY DEF StoreInv, WriterTrue, Commit
<1>6. CacheTrue'
  BY DEF StoreInv, CacheTrue, Commit, View, Exclusive, store
<1>7. SeqUnique' /\ WorkerTrue' /\ AllTaken' /\ ReadersTrue'
  BY DEF StoreInv, SeqUnique, WorkerTrue, AllTaken, ReadersTrue, Commit, Taken,
     Exclusive, store, worker, reading, NoReaders
<1> QED BY <1>1, <1>2, <1>3, <1>4, <1>5, <1>6, <1>7 DEF StoreInv

\* The batch is written to a store without pending writes.
LEMMA AdmitKeeps ==
  ASSUME StoreInv, Admit
  PROVE  StoreInv'
<1>1. StoreTypeOK'
  BY DEF StoreInv, StoreTypeOK, Admit, worker, reading, counts
<1>2. Locked'
  BY DEF StoreInv, Locked, Admit, NoReaders, reading
<1>3. FlushesOwed'
  BY DEF StoreInv, FlushesOwed, Admit, Owed, worker, reading
<1>4. RepliesTrue'
  BY DEF StoreInv, RepliesTrue, Admit, Owed, worker, reading
<1>5. WorkerTrue'
  BY DEF StoreInv, WorkerTrue, Admit, WriterTrue, NoWrites, Taken, worker
<1>6. WriterTrue'
  BY DEF StoreInv, WriterTrue, Admit, NoWrites, View
<1>7. CacheTrue'
  BY DEF StoreInv, CacheTrue, Admit, View
<1>8. ReadersTrue'
  BY DEF StoreInv, Locked, NoReaders, ReadersTrue, Admit, reading
<1>9. SeqUnique' /\ AllTaken'
  BY DEF StoreInv, SeqUnique, AllTaken, Admit, worker
<1> QED BY <1>1, <1>2, <1>3, <1>4, <1>5, <1>6, <1>7, <1>8, <1>9 DEF StoreInv

\* A refused batch leaves the store as it was.
LEMMA AdmitFailsKeeps ==
  ASSUME StoreInv, AdmitFails
  PROVE  StoreInv'
<1>1. StoreTypeOK'
  BY DEF StoreInv, StoreTypeOK, AdmitFails, NoValues, store, worker, reading, counts
<1>2. Locked'
  BY DEF StoreInv, Locked, AdmitFails
<1>3. FlushesOwed'
  BY DEF StoreInv, FlushesOwed, AdmitFails, Owed, store, worker, reading
<1>4. RepliesTrue'
  BY DEF StoreInv, RepliesTrue, AdmitFails, Owed, store, worker, reading
<1>5. WriterTrue'
  BY DEF StoreInv, WriterTrue, AdmitFails
<1>6. CacheTrue'
  BY DEF StoreInv, CacheTrue, AdmitFails, View, store
<1>7. SeqUnique' /\ WorkerTrue' /\ AllTaken' /\ ReadersTrue'
  BY DEF StoreInv, SeqUnique, WorkerTrue, AllTaken, ReadersTrue, AdmitFails, Taken,
     View, store, worker, reading
<1> QED BY <1>1, <1>2, <1>3, <1>4, <1>5, <1>6, <1>7 DEF StoreInv

\* The store is closed by its only user.
LEMMA CloseKeeps ==
  ASSUME StoreInv, Close
  PROVE  StoreInv'
<1>1. StoreTypeOK'
  BY DEF StoreInv, StoreTypeOK, Close, store, worker, reading, counts
<1>2. Locked'
  BY DEF StoreInv, Locked, Close, NoReaders, Exclusive, reading
<1>3. FlushesOwed'
  BY DEF StoreInv, FlushesOwed, Close, Owed, Exclusive, store, worker, NoReaders
<1>4. RepliesTrue'
  BY DEF StoreInv, RepliesTrue, Close, Owed, Exclusive, NoReaders
<1>5. WriterTrue'
  BY DEF StoreInv, WriterTrue, Close, Exclusive
<1>6. CacheTrue'
  BY DEF StoreInv, CacheTrue, Close, View, Exclusive, store
<1>7. SeqUnique' /\ WorkerTrue' /\ AllTaken' /\ ReadersTrue'
  BY DEF StoreInv, SeqUnique, WorkerTrue, AllTaken, ReadersTrue, Close, Taken,
     Exclusive, store, worker, reading, NoReaders
<1> QED BY <1>1, <1>2, <1>3, <1>4, <1>5, <1>6, <1>7 DEF StoreInv

\* The shutdown is sent by a closed store.
LEMMA CloseSendKeeps ==
  ASSUME StoreInv, CloseSend
  PROVE  StoreInv'
<1>1. StoreTypeOK'
  BY DEF StoreInv, StoreTypeOK, CloseSend, Message, Shutdown, worker, reading, counts
<1>2. Locked'
  BY DEF StoreInv, Locked, CloseSend, NoReaders, reading
<1>3. FlushesOwed'
  BY DEF StoreInv, FlushesOwed, CloseSend, Owed, Shutdown, worker, reading
<1>4. RepliesTrue'
  BY DEF StoreInv, RepliesTrue, CloseSend, Owed, worker, reading
<1>5. WriterTrue'
  BY DEF StoreInv, WriterTrue, CloseSend
<1>6. CacheTrue'
  BY DEF StoreInv, CacheTrue, CloseSend, View
<1>7. SeqUnique' /\ WorkerTrue' /\ AllTaken' /\ ReadersTrue'
  BY DEF StoreInv, SeqUnique, WorkerTrue, AllTaken, ReadersTrue, CloseSend, Taken, View,
     worker, reading
<1> QED BY <1>1, <1>2, <1>3, <1>4, <1>5, <1>6, <1>7 DEF StoreInv

\* The answer to the flush of a commit is taken.
LEMMA CommitFlushedKeeps ==
  ASSUME StoreInv, CommitFlushed
  PROVE  StoreInv'
<1>1. StoreTypeOK'
  BY DEF StoreInv, StoreTypeOK, CommitFlushed, Client, NoValues, store, worker, reading,
     counts
<1>2. Locked'
  BY DEF StoreInv, Locked, CommitFlushed, NoReaders, reading
<1>3. FlushesOwed'
  BY DEF StoreInv, FlushesOwed, CommitFlushed, Owed, store, worker, reading
<1>4. RepliesTrue'
  BY DEF StoreInv, StoreTypeOK, RepliesTrue, CommitFlushed, Owed, store, worker, reading
<1>5. WriterTrue'
  BY DEF StoreInv, WriterTrue, CommitFlushed, RepliesTrue, store, worker, Client
<1>6. CacheTrue'
  BY DEF StoreInv, CacheTrue, CommitFlushed, View, store
<1>7. SeqUnique' /\ WorkerTrue' /\ AllTaken' /\ ReadersTrue'
  BY DEF StoreInv, SeqUnique, WorkerTrue, AllTaken, ReadersTrue, CommitFlushed, Taken,
     View, store, worker, reading
<1> QED BY <1>1, <1>2, <1>3, <1>4, <1>5, <1>6, <1>7 DEF StoreInv

\* A flush in the channel is owed to whoever sent it.
LEMMA FlushSendKeeps ==
  ASSUME StoreInv, NEW c \in Client, FlushSend(c)
  PROVE  StoreInv'
<1>0. /\ channel' = Append(channel, Flush(c)) /\ Flush(c) \in Message
      /\ UNCHANGED <<reply, for, at>>
      /\ \A d \in Client : Owed(d) => Owed(d)' /\ d # c
      /\ Owed(c)' /\ client # "closed"
  BY StoreConstants DEF StoreInv, StoreTypeOK, Locked, NoReaders, FlushSend, Flush, Message,
     Client, Owed, worker
<1>1. StoreTypeOK'
  <2>1. channel' \in Seq(Message)
    BY <1>0 DEF StoreInv, StoreTypeOK
  <2> QED
    BY <1>0, <2>1, StoreConstants
    DEF StoreInv, StoreTypeOK, FlushSend, Client, worker, counts
<1>2. Locked'
  BY DEF StoreInv, Locked, FlushSend, NoReaders
<1>3. FlushesOwed'
  <2>1. /\ Len(channel) \in Nat /\ Len(channel') = Len(channel) + 1
        /\ channel'[Len(channel) + 1] = Flush(c)
        /\ \A i \in 1..Len(channel) : channel'[i] = channel[i] /\ channel[i] \in Message
    BY <1>0 DEF StoreInv, StoreTypeOK
  <2>2. \A i \in 1..Len(channel) : channel[i].kind = "flush" => channel[i].by \in Client
    BY <2>1 DEF Message
  <2>3. reply[c] = "none" /\ for # c
    BY <1>0 DEF StoreInv, StoreTypeOK, RepliesTrue, FlushesOwed
  <2> QED BY <1>0, <2>1, <2>2, <2>3 DEF StoreInv, FlushesOwed, Flush
<1>4. RepliesTrue'
  BY DEF StoreInv, StoreTypeOK, RepliesTrue, FlushSend, Owed, worker
<1>5. WriterTrue'
  BY DEF StoreInv, WriterTrue, FlushSend, View, worker
<1>6. CacheTrue'
  BY DEF StoreInv, CacheTrue, FlushSend, View
<1>7. ReadersTrue'
  BY DEF StoreInv, StoreTypeOK, ReadersTrue, FlushSend, View
<1>8. SeqUnique' /\ WorkerTrue' /\ AllTaken'
  BY DEF StoreInv, SeqUnique, WorkerTrue, AllTaken, FlushSend, Taken, worker
<1> QED BY <1>1, <1>2, <1>3, <1>4, <1>5, <1>6, <1>7, <1>8 DEF StoreInv

\* A read from the LRU.
LEMMA GetCachedKeeps ==
  ASSUME StoreInv, NEW r \in Reader, NEW k \in Key, GetCached(r, k)
  PROVE  StoreInv'
<1>1. StoreTypeOK'
  BY DEF StoreInv, StoreTypeOK, GetCached, Stored, NoValues, store, worker, writing,
     counts
<1>2. Locked'
  BY DEF StoreInv, Locked, GetCached, Shared, writing
<1>3. FlushesOwed'
  BY DEF StoreInv, FlushesOwed, GetCached, Owed, Shared, store, worker
<1>4. RepliesTrue'
  BY DEF StoreInv, RepliesTrue, GetCached, Owed, Shared, store, worker
<1>5. ReadersTrue'
  BY DEF StoreInv, StoreTypeOK, ReadersTrue, GetCached, CacheTrue, View, Shared,
     NoValues, store
<1>6. SeqUnique' /\ WorkerTrue' /\ AllTaken' /\ WriterTrue' /\ CacheTrue'
  BY DEF StoreInv, SeqUnique, WorkerTrue, AllTaken, WriterTrue, CacheTrue, GetCached,
     Taken, View, store, worker, writing
<1> QED BY <1>1, <1>2, <1>3, <1>4, <1>5, <1>6 DEF StoreInv

\* A read that has to look further begins with nothing found.
LEMMA GetMissKeeps ==
  ASSUME StoreInv, NEW r \in Reader, NEW k \in Key, NEW filling \in BOOLEAN, GetMiss(r,
         k, filling)
  PROVE  StoreInv'
<1>1. StoreTypeOK'
  BY DEF StoreInv, StoreTypeOK, GetMiss, NoValues, store, worker, writing, counts
<1>2. Locked'
  BY DEF StoreInv, Locked, GetMiss, Shared, writing
<1>3. FlushesOwed'
  BY DEF StoreInv, FlushesOwed, GetMiss, Owed, Shared, store, worker
<1>4. RepliesTrue'
  BY DEF StoreInv, RepliesTrue, GetMiss, Owed, Shared, store, worker
<1>5. ReadersTrue'
  BY DEF StoreInv, StoreTypeOK, ReadersTrue, GetMiss, View, NoValues, store
<1>6. SeqUnique' /\ WorkerTrue' /\ AllTaken' /\ WriterTrue' /\ CacheTrue'
  BY DEF StoreInv, SeqUnique, WorkerTrue, AllTaken, WriterTrue, CacheTrue, GetMiss,
     Taken, View, store, worker, writing
<1> QED BY <1>1, <1>2, <1>3, <1>4, <1>5, <1>6 DEF StoreInv

\* A read looks at the pending writes.
LEMMA GetPendingKeeps ==
  ASSUME StoreInv, NEW r \in Reader, NEW k \in Key, GetPending(r, k)
  PROVE  StoreInv'
<1>1. StoreTypeOK'
  <2>1. CASE pending[k] = Clean
    BY <2>1 DEF StoreInv, StoreTypeOK, GetPending, worker, writing, counts
  <2>2. CASE pending[k] # Clean
    <3>1. pending[k].value \in Stored
      BY <2>2 DEF StoreInv, StoreTypeOK, Entry
    <3>2. cache' \in [Key -> Value \cup {Empty}]
      BY <2>2, <3>1 DEF StoreInv, StoreTypeOK, GetPending, Stored
    <3>3. got' \in [Reader -> [Key -> Stored \cup {Unset}]]
      <4>1. /\ got \in [Reader -> [Key -> Stored \cup {Unset}]]
            /\ got[r] \in [Key -> Stored \cup {Unset}]
        BY DEF StoreInv, StoreTypeOK
      <4>2. got' = [got EXCEPT ![r][k] = pending[k].value]
        BY <2>2 DEF GetPending
      <4> QED BY <3>1, <4>1, <4>2
    <3> QED BY <2>2, <3>2, <3>3, ZenonT(30) DEF StoreInv, StoreTypeOK, GetPending, worker, writing,
         counts
  <2> QED BY <2>1, <2>2
<1>2. Locked'
  BY DEF StoreInv, Locked, GetPending, NoReaders, writing
<1>3. FlushesOwed'
  BY DEF StoreInv, StoreTypeOK, FlushesOwed, GetPending, Owed, worker, writing
<1>4. RepliesTrue'
  BY DEF StoreInv, StoreTypeOK, RepliesTrue, GetPending, Owed, worker, writing
<1>5. CacheTrue'
  BY DEF StoreInv, StoreTypeOK, CacheTrue, GetPending, View, writing
<1>6. ReadersTrue'
  <2> SUFFICES ASSUME NEW q \in Reader, NEW j \in Key
                PROVE  ReadersTrue!(q, j)'
    BY DEF ReadersTrue
  <2>1. CASE pending[k] = Clean
    BY <2>1 DEF StoreInv, StoreTypeOK, GetPending, ReadersTrue, View
  <2>2. CASE pending[k] # Clean
    BY <2>2 DEF StoreInv, StoreTypeOK, GetPending, ReadersTrue, View
  <2> QED BY <2>1, <2>2
<1>7. SeqUnique' /\ WorkerTrue' /\ AllTaken' /\ WriterTrue'
  BY DEF StoreInv, SeqUnique, WorkerTrue, AllTaken, WriterTrue, GetPending, Taken, View,
     worker, writing
<1> QED BY <1>1, <1>2, <1>3, <1>4, <1>5, <1>6, <1>7 DEF StoreInv

\* A read looks at the provider, after it found no pending write.
LEMMA GetBackingKeeps ==
  ASSUME StoreInv, NEW r \in Reader, NEW k \in Key, GetBacking(r, k)
  PROVE  StoreInv'
<1>1. StoreTypeOK'
  BY DEF StoreInv, StoreTypeOK, GetBacking, store, worker, writing, counts
<1>2. Locked'
  BY DEF StoreInv, Locked, GetBacking, NoReaders, writing
<1>3. FlushesOwed'
  BY DEF StoreInv, FlushesOwed, GetBacking, Owed, store, worker, writing
<1>4. RepliesTrue'
  BY DEF StoreInv, RepliesTrue, GetBacking, Owed, store, worker, writing
<1>5. ReadersTrue'
  BY StoreConstants DEF StoreInv, StoreTypeOK, GetBacking, ReadersTrue, View, Stored,
       store
<1>6. SeqUnique' /\ WorkerTrue' /\ AllTaken' /\ WriterTrue' /\ CacheTrue'
  BY DEF StoreInv, SeqUnique, WorkerTrue, AllTaken, WriterTrue, CacheTrue, GetBacking,
     Taken, View, store, worker, writing
<1> QED BY <1>1, <1>2, <1>3, <1>4, <1>5, <1>6 DEF StoreInv

\* What was read from the provider fills the LRU.
LEMMA GetFillKeeps ==
  ASSUME StoreInv, NEW r \in Reader, NEW k \in Key, GetFill(r, k)
  PROVE  StoreInv'
<1>1. StoreTypeOK'
  BY DEF StoreInv, StoreTypeOK, GetFill, ReadersTrue, worker, writing, counts
<1>2. Locked'
  BY DEF StoreInv, Locked, GetFill, NoReaders, writing
<1>3. FlushesOwed'
  BY DEF StoreInv, FlushesOwed, GetFill, Owed, worker, writing
<1>4. RepliesTrue'
  BY DEF StoreInv, RepliesTrue, GetFill, Owed, worker, writing
<1>5. CacheTrue'
  <2>1. \A j \in Key : View(j)' = View(j)
    BY DEF GetFill, View
  <2>2. cache' = [cache EXCEPT ![k] = got[r][k]] /\ got[r][k] = View(k)
    BY StoreConstants DEF StoreInv, ReadersTrue, GetFill, Stored
  <2> QED BY <2>1, <2>2 DEF StoreInv, StoreTypeOK, CacheTrue, GetFill, writing
<1>6. ReadersTrue'
  BY DEF StoreInv, ReadersTrue, GetFill, View
<1>7. SeqUnique' /\ WorkerTrue' /\ AllTaken' /\ WriterTrue'
  BY DEF StoreInv, SeqUnique, WorkerTrue, AllTaken, WriterTrue, GetFill, Taken, View,
     worker, writing
<1> QED BY <1>1, <1>2, <1>3, <1>4, <1>5, <1>6, <1>7 DEF StoreInv

\* A range iteration visits one key of the pending map.
LEMMA WalkPendingKeeps ==
  ASSUME StoreInv, NEW r \in Reader, NEW k \in Key, WalkPending(r, k)
  PROVE  StoreInv'
<1>1. StoreTypeOK'
  BY DEF StoreInv, StoreTypeOK, WalkPending, Entry, store, worker, writing, counts
<1>2. ReadersTrue'
  BY StoreConstants DEF StoreInv, StoreTypeOK, ReadersTrue, WalkPending, View, store,
     Entry
<1>3. Locked' /\ FlushesOwed' /\ RepliesTrue' /\ SeqUnique' /\ WorkerTrue' /\ AllTaken'
       /\ WriterTrue' /\ CacheTrue'
  BY DEF StoreInv, Locked, FlushesOwed, RepliesTrue, SeqUnique, WorkerTrue, AllTaken,
     WriterTrue, CacheTrue, WalkPending, NoReaders, Owed, Taken, View, store, worker,
     writing
<1> QED BY <1>1, <1>2, <1>3 DEF StoreInv

\* An iteration visits one key of the provider.
LEMMA RestKeeps ==
  ASSUME StoreInv, NEW r \in Reader, NEW k \in Key, Rest(r, k)
  PROVE  StoreInv'
<1>1. StoreTypeOK'
  BY DEF StoreInv, StoreTypeOK, Rest, Stored, CachedRef, store, worker, writing, counts
<1>2. Locked'
  BY DEF StoreInv, Locked, Rest, NoReaders, writing
<1>3. FlushesOwed'
  BY DEF StoreInv, FlushesOwed, Rest, Owed, store, worker, writing
<1>4. RepliesTrue'
  BY DEF StoreInv, RepliesTrue, Rest, Owed, store, worker, writing
<1>5. ReadersTrue'
  <2>1. \A j \in Key : View(j)' = View(j) /\ pending' = pending
    BY DEF Rest, View, store
  <2>2. got[r][k] = Unset => CachedRef(k, backing[k]) = View(k)
    BY DEF StoreInv, StoreTypeOK, ReadersTrue, CacheTrue, WriterTrue, Locked, NoReaders,
         Rest, CachedRef, View
  <2>3. /\ \A q \in Reader \ {r} :
             got'[q] = got[q] /\ reader'[q] = reader[q] /\ todo'[q] = todo[q]
        /\ reader'[r] \in {"rest", "done"} /\ todo'[r] = todo[r] \ {k} /\ span' = span
        /\ \A j \in Key : got'[r][j] = IF j = k /\ got[r][k] = Unset
                                          THEN CachedRef(k, backing[k]) ELSE got[r][j]
    BY DEF StoreInv, StoreTypeOK, Rest
  <2> QED BY <2>1, <2>2, <2>3 DEF StoreInv, ReadersTrue, Rest
<1>6. SeqUnique' /\ WorkerTrue' /\ AllTaken' /\ WriterTrue' /\ CacheTrue'
  BY DEF StoreInv, SeqUnique, WorkerTrue, AllTaken, WriterTrue, CacheTrue, Rest, Taken,
     View, store, worker, writing
<1> QED BY <1>1, <1>2, <1>3, <1>4, <1>5, <1>6 DEF StoreInv

\* A range iteration begins with nothing found.
LEMMA RangeKeeps ==
  ASSUME StoreInv, NEW r \in Reader, NEW keys \in Span, IterRange(r, keys)
  PROVE  StoreInv'
<1>1. StoreTypeOK'
  BY StoreConstants DEF StoreInv, StoreTypeOK, IterRange, NoValues, store, worker, writing,
     counts
<1>2. Locked'
  BY DEF StoreInv, Locked, IterRange, Shared, writing
<1>3. FlushesOwed'
  BY DEF StoreInv, FlushesOwed, IterRange, Owed, Shared, store, worker
<1>4. RepliesTrue'
  BY DEF StoreInv, RepliesTrue, IterRange, Owed, Shared, store, worker
<1>5. ReadersTrue'
  BY DEF StoreInv, StoreTypeOK, ReadersTrue, IterRange, View, NoValues, store
<1>6. SeqUnique' /\ WorkerTrue' /\ AllTaken' /\ WriterTrue' /\ CacheTrue'
  BY DEF StoreInv, SeqUnique, WorkerTrue, AllTaken, WriterTrue, CacheTrue, IterRange, Taken,
     View, store, worker, writing
<1> QED BY <1>1, <1>2, <1>3, <1>4, <1>5, <1>6 DEF StoreInv

\* A whole iteration begins with a flush.
LEMMA IterKeeps ==
  ASSUME StoreInv, NEW r \in Reader, Iter(r)
  PROVE  StoreInv'
<1>1. StoreTypeOK'
  BY DEF StoreInv, StoreTypeOK, Iter, NoValues, store, worker, writing, counts
<1>2. Locked'
  BY DEF StoreInv, Locked, Iter, Shared, writing
<1>3. FlushesOwed'
  BY DEF StoreInv, FlushesOwed, Iter, Owed, Shared, store, worker
<1>4. RepliesTrue'
  BY DEF StoreInv, RepliesTrue, Iter, Owed, Shared, store, worker
<1>5. ReadersTrue'
  BY DEF StoreInv, ReadersTrue, Iter, View, Shared, NoValues, store
<1>6. SeqUnique' /\ WorkerTrue' /\ AllTaken' /\ WriterTrue' /\ CacheTrue'
  BY DEF StoreInv, SeqUnique, WorkerTrue, AllTaken, WriterTrue, CacheTrue, Iter, Taken,
     View, store, worker, writing
<1> QED BY <1>1, <1>2, <1>3, <1>4, <1>5, <1>6 DEF StoreInv

\* A range iteration has seen all pending writes of its keys.
LEMMA WalkDoneKeeps ==
  ASSUME StoreInv, NEW r \in Reader, WalkDone(r)
  PROVE  StoreInv'
<1>1. StoreTypeOK'
  BY DEF StoreInv, StoreTypeOK, WalkDone, Stored, CachedRef, store, worker, writing,
     counts
<1>2. Locked'
  BY DEF StoreInv, Locked, WalkDone, NoReaders, writing
<1>3. FlushesOwed'
  BY DEF StoreInv, FlushesOwed, WalkDone, Owed, store, worker, writing
<1>4. RepliesTrue'
  BY DEF StoreInv, RepliesTrue, WalkDone, Owed, store, worker, writing
<1>5. ReadersTrue'
  <2>1. \A j \in Key : View(j)' = View(j) /\ pending' = pending
    BY DEF WalkDone, View, store
  <2>2. \A j \in Key : got[r][j] # Unset => CachedRef(j, got[r][j]) = got[r][j]
    BY DEF StoreInv, StoreTypeOK, ReadersTrue, CacheTrue, WriterTrue, Locked, NoReaders,
         WalkDone, CachedRef
  <2>3. \A j \in Key : got[r][j] = Unset => CachedRef(j, got[r][j]) = Unset
    BY DEF CachedRef
  <2>4. /\ \A q \in Reader \ {r} :
             got'[q] = got[q] /\ reader'[q] = reader[q] /\ todo'[q] = todo[q]
        /\ reader[r] = "walk" /\ todo[r] = {} /\ span' = span
        /\ reader'[r] = "rest" /\ todo'[r] = span[r]
        /\ \A j \in Key : got'[r][j] = CachedRef(j, got[r][j])
    BY DEF StoreInv, StoreTypeOK, WalkDone
  <2> QED BY <2>1, <2>2, <2>3, <2>4 DEF StoreInv, ReadersTrue
<1>6. SeqUnique' /\ WorkerTrue' /\ AllTaken' /\ WriterTrue' /\ CacheTrue'
  BY DEF StoreInv, SeqUnique, WorkerTrue, AllTaken, WriterTrue, CacheTrue, WalkDone,
     Taken, View, store, worker, writing
<1> QED BY <1>1, <1>2, <1>3, <1>4, <1>5, <1>6 DEF StoreInv

\* After its flush a whole iteration finds nothing pending.
LEMMA IterFlushedKeeps ==
  ASSUME StoreInv, NEW r \in Reader, IterFlushed(r)
  PROVE  StoreInv'
<1>1. StoreTypeOK'
  <2>1. CASE reply[r] = "ok"
    BY <2>1, ZenonT(30) DEF StoreInv, StoreTypeOK, IterFlushed, Client, store, worker, writing, counts
  <2>2. CASE reply[r] # "ok"
    BY <2>2, ZenonT(30) DEF StoreInv, StoreTypeOK, IterFlushed, Client, store, worker, writing, counts
  <2> QED BY <2>1, <2>2
<1>2. Locked'
  BY DEF StoreInv, Locked, IterFlushed, NoReaders, writing
<1>3. FlushesOwed'
  <2>1. /\ reply[r] # "none" /\ UNCHANGED <<channel, for, client, at>>
        /\ \A c : c # r => reply'[c] = reply[c] /\ (Owed(c) => Owed(c)')
    BY DEF StoreInv, StoreTypeOK, IterFlushed, Owed, store, worker, writing
  <2>2. /\ \A i \in 1..Len(channel) : channel[i].kind = "flush" => channel[i].by # r
        /\ for \in Client => for # r
    BY <2>1 DEF StoreInv, FlushesOwed
  <2> QED BY <2>1, <2>2 DEF StoreInv, FlushesOwed
<1>4. RepliesTrue'
  BY DEF StoreInv, StoreTypeOK, RepliesTrue, IterFlushed, Owed, store, worker, writing
<1>5. ReadersTrue'
  <2>1. CASE reply[r] = "ok"
    BY <2>1, SMTT(30) DEF StoreInv, StoreTypeOK, IterFlushed, ReadersTrue, RepliesTrue, Client,
         View, NoWrites, store
  <2>2. CASE reply[r] # "ok"
    BY <2>2 DEF StoreInv, StoreTypeOK, IterFlushed, ReadersTrue, View, store
  <2> QED BY <2>1, <2>2
<1>6. SeqUnique' /\ WorkerTrue' /\ AllTaken' /\ WriterTrue' /\ CacheTrue'
  BY DEF StoreInv, SeqUnique, WorkerTrue, AllTaken, WriterTrue, CacheTrue, IterFlushed,
     Taken, View, store, worker, writing
<1> QED BY <1>1, <1>2, <1>3, <1>4, <1>5, <1>6 DEF StoreInv

\* A reader that has returned holds nothing.
LEMMA ReturnKeeps ==
  ASSUME StoreInv, NEW r \in Reader, Return(r)
  PROVE  StoreInv'
<1>1. StoreTypeOK'
  BY DEF StoreInv, StoreTypeOK, Return, NoValues, store, worker, writing, counts
<1>2. Locked'
  BY DEF StoreInv, Locked, Return, NoReaders, writing
<1>3. FlushesOwed'
  BY DEF StoreInv, FlushesOwed, Return, Owed, store, worker, writing
<1>4. RepliesTrue'
  BY DEF StoreInv, RepliesTrue, Return, Owed, store, worker, writing
<1>5. ReadersTrue'
  BY DEF StoreInv, StoreTypeOK, ReadersTrue, Return, View, NoValues, store
<1>6. SeqUnique' /\ WorkerTrue' /\ AllTaken' /\ WriterTrue' /\ CacheTrue'
  BY DEF StoreInv, SeqUnique, WorkerTrue, AllTaken, WriterTrue, CacheTrue, Return,
     Taken, View, store, worker, writing
<1> QED BY <1>1, <1>2, <1>3, <1>4, <1>5, <1>6 DEF StoreInv

\* The worker takes the key of a write out of the channel.
LEMMA RecvWriteKeeps ==
  ASSUME StoreInv, RecvWrite
  PROVE  StoreInv'
<1>1. StoreTypeOK'
  BY SMTT(30) DEF StoreInv, StoreTypeOK, RecvWrite, Entry, Message, writing, reading, counts
<1>2. FlushesOwed'
  BY DEF StoreInv, FlushesOwed, RecvWrite, Owed, writing, reading
<1>3. WorkerTrue'
  BY DEF StoreInv, WorkerTrue, RecvWrite, NoWrites
<1>4. AllTaken'
  BY DEF StoreInv, AllTaken, RecvWrite
<1>5. Locked' /\ RepliesTrue' /\ SeqUnique' /\ WriterTrue' /\ CacheTrue' /\ ReadersTrue'
  BY DEF StoreInv, Locked, RepliesTrue, SeqUnique, WriterTrue, CacheTrue, ReadersTrue,
     RecvWrite, NoReaders, Owed, View, writing, reading
<1> QED BY <1>1, <1>2, <1>3, <1>4, <1>5 DEF StoreInv

\* The worker begins a commit of what it has.
LEMMA TimeoutKeeps ==
  ASSUME StoreInv, Timeout
  PROVE  StoreInv'
<1>1. StoreTypeOK'
  BY DEF StoreInv, StoreTypeOK, Timeout, store, writing, reading, counts
<1>2. FlushesOwed'
  BY DEF StoreInv, FlushesOwed, Timeout, Owed, store, writing, reading
<1>3. WorkerTrue'
  BY DEF StoreInv, WorkerTrue, Timeout, NoWrites
<1>4. AllTaken'
  BY DEF StoreInv, AllTaken, Timeout, store
<1>5. Locked' /\ RepliesTrue' /\ SeqUnique' /\ WriterTrue' /\ CacheTrue' /\ ReadersTrue'
  BY DEF StoreInv, Locked, RepliesTrue, SeqUnique, WriterTrue, CacheTrue, ReadersTrue,
     Timeout, NoReaders, Owed, View, store, writing, reading
<1> QED BY <1>1, <1>2, <1>3, <1>4, <1>5 DEF StoreInv

\* The worker takes the pending write of one key.
LEMMA GatherKeeps ==
  ASSUME StoreInv, NEW k \in Key, Gather(k)
  PROVE  StoreInv'
<1>1. StoreTypeOK'
  BY DEF StoreInv, StoreTypeOK, Gather, store, writing, reading, counts
<1>2. RepliesTrue'
  <2>1. pending = NoWrites /\ snap = NoWrites => snap' = NoWrites
    BY DEF Gather, NoWrites
  <2> QED BY <2>1 DEF StoreInv, RepliesTrue, Gather, Owed, store, writing, reading
<1>3. SeqUnique'
  BY DEF StoreInv, SeqUnique, Gather, store
<1>4. WorkerTrue'
  BY DEF StoreInv, WorkerTrue, Gather, store
<1>5. AllTaken'
  BY DEF StoreInv, AllTaken, Gather, store
<1>6. WriterTrue'
  <2>1. pending = NoWrites /\ snap = NoWrites => snap' = NoWrites
    BY DEF Gather, NoWrites
  <2> QED BY <2>1 DEF StoreInv, WriterTrue, Gather, View, store, writing
<1>7. Locked' /\ FlushesOwed' /\ CacheTrue' /\ ReadersTrue'
  BY DEF StoreInv, Locked, FlushesOwed, CacheTrue, ReadersTrue, Gather, NoReaders, Owed,
     View, store, writing, reading
<1> QED BY <1>1, <1>2, <1>3, <1>4, <1>5, <1>6, <1>7 DEF StoreInv

\* The worker has its snapshot; an empty one ends the commit.
LEMMA GatheredKeeps ==
  ASSUME StoreInv, Gathered
  PROVE  StoreInv'
<1>1. StoreTypeOK'
  <2>1. snap' \in [Key -> Entry \cup {Clean}]
    BY DEF StoreInv, StoreTypeOK, Gathered, Done, NoWrites
  <2>2. reply' \in [Client -> {"none", "ok", "err"}]
    BY DEF StoreInv, StoreTypeOK, Gathered, Done
  <2> QED BY <2>1, <2>2 DEF StoreInv, StoreTypeOK, Gathered, Done, Taken, store,
       writing, reading, counts
<1>2. FlushesOwed'
  BY StoreConstants DEF StoreInv, StoreTypeOK, FlushesOwed, Gathered, Owed, Client,
     Done, store, writing, reading
<1>3. RepliesTrue'
  BY StoreConstants DEF StoreInv, StoreTypeOK, RepliesTrue, Gathered, AllTaken,
     FlushesOwed, Owed, NoWrites, Taken, Done, store, writing, reading
<1>4. SeqUnique'
  BY DEF StoreInv, SeqUnique, Gathered, Done, store, NoWrites
<1>5. WorkerTrue'
  BY StoreConstants DEF StoreInv, StoreTypeOK, WorkerTrue, Gathered, AllTaken, NoWrites,
     Taken, Done, store
<1>6. AllTaken'
  BY DEF StoreInv, AllTaken, Gathered, Done, store
<1>7. WriterTrue'
  BY DEF StoreInv, WriterTrue, Gathered, View, Done, store, writing
<1>8. Locked' /\ CacheTrue' /\ ReadersTrue'
  BY DEF StoreInv, Locked, CacheTrue, ReadersTrue, Gathered, NoReaders, View, store,
     writing, reading
<1> QED BY <1>1, <1>2, <1>3, <1>4, <1>5, <1>6, <1>7, <1>8 DEF StoreInv

\* The worker takes all that is pending, for a flush or the shutdown.
LEMMA RecvAllKeeps ==
  ASSUME StoreInv, RecvAll
  PROVE  StoreInv'
<1>1. StoreTypeOK'
  BY DEF StoreInv, StoreTypeOK, RecvAll, Message, writing, reading, counts
<1>2. FlushesOwed'
  <2>1. /\ Len(channel') + 1 = Len(channel)
        /\ \A i \in 1..Len(channel') : channel'[i] = channel[i + 1]
    BY DEF StoreInv, StoreTypeOK, RecvAll
  <2>2. channel[1] = Head(channel) /\ 1 \in 1..Len(channel)
    BY DEF StoreInv, StoreTypeOK, RecvAll
  <2>3. \A i \in 1..Len(channel) : channel[i] \in Message
    BY DEF StoreInv, StoreTypeOK
  <2>4. CASE Head(channel).kind = "flush"
    <3>1. for' = channel[1].by /\ Owed(for') /\ reply[for'] = "none" /\ for' \in Client
      BY <2>2, <2>3, <2>4 DEF StoreInv, FlushesOwed, RecvAll, Message
    <3>2. \A i \in 1..Len(channel') : channel'[i].kind = "flush" => channel'[i].by # for'
      BY <2>1, <2>2, <2>3, <2>4, <3>1 DEF StoreInv, StoreTypeOK, FlushesOwed, Message
    <3> QED BY <2>1, <2>2, <3>1, <3>2, StoreConstants DEF StoreInv, StoreTypeOK,
         FlushesOwed, RecvAll, Owed, writing, reading
  <2>5. CASE Head(channel).kind # "flush"
    <3>1. Head(channel).kind = "shutdown"
      BY <2>2, <2>3, <2>5 DEF RecvAll, Message
    <3>2. for' = Closing /\ client = "closed"
      BY <2>2, <3>1, <2>5 DEF StoreInv, FlushesOwed, RecvAll
    <3> QED BY <2>1, <2>2, <3>2, StoreConstants DEF StoreInv, StoreTypeOK, FlushesOwed,
         RecvAll, Owed, writing, reading, Client
  <2> QED BY <2>4, <2>5
<1>3. RepliesTrue'
  BY DEF StoreInv, RepliesTrue, RecvAll, Owed, writing, reading
<1>4. SeqUnique'
  BY DEF StoreInv, SeqUnique, RecvAll
<1>5. WorkerTrue'
  BY DEF StoreInv, WorkerTrue, RecvAll
<1>6. AllTaken'
  BY DEF StoreInv, AllTaken, RecvAll
<1>7. WriterTrue'
  BY DEF StoreInv, WriterTrue, RecvAll, View, writing
<1>8. Locked' /\ CacheTrue' /\ ReadersTrue'
  BY DEF StoreInv, Locked, CacheTrue, ReadersTrue, RecvAll, NoReaders, View, writing,
     reading
<1> QED BY <1>1, <1>2, <1>3, <1>4, <1>5, <1>6, <1>7, <1>8 DEF StoreInv

\* The snapshot is stored at once: no view changes.
LEMMA WriteBatchKeeps ==
  ASSUME StoreInv, WriteBatch
  PROVE  StoreInv'
<1>1. StoreTypeOK'
  BY DEF StoreInv, StoreTypeOK, WriteBatch, Entry, Taken, writing, reading, counts
<1>2. FlushesOwed'
  BY DEF StoreInv, FlushesOwed, WriteBatch, Owed, writing, reading
<1>3. WorkerTrue'
  BY DEF StoreInv, WorkerTrue, WriteBatch, Taken
<1>4. AllTaken'
  BY DEF StoreInv, AllTaken, WriteBatch, Taken
<1>5. WriterTrue'
  BY DEF StoreInv, WriterTrue, WriteBatch, WorkerTrue, View, Taken, writing
<1>6. CacheTrue'
  BY DEF StoreInv, CacheTrue, WriteBatch, WorkerTrue, View, Taken, writing
<1>7. ReadersTrue'
  BY DEF StoreInv, ReadersTrue, WriteBatch, WorkerTrue, View, Taken, reading
<1>8. Locked' /\ RepliesTrue' /\ SeqUnique'
  BY DEF StoreInv, Locked, RepliesTrue, SeqUnique, WriteBatch, NoReaders, Owed, writing,
     reading
<1> QED BY <1>1, <1>2, <1>3, <1>4, <1>5, <1>6, <1>7, <1>8 DEF StoreInv

\* One write of the snapshot is stored: no view changes.
LEMMA WriteDirectKeeps ==
  ASSUME StoreInv, NEW k \in Key, WriteDirect(k)
  PROVE  StoreInv'
<1>1. StoreTypeOK'
  BY DEF StoreInv, StoreTypeOK, WriteDirect, WorkerTrue, Entry, Taken, writing, reading,
     counts
<1>2. FlushesOwed'
  BY DEF StoreInv, FlushesOwed, WriteDirect, Owed, writing, reading
<1>3. WorkerTrue'
  BY DEF StoreInv, StoreTypeOK, WorkerTrue, WriteDirect, Taken
<1>4. AllTaken'
  BY DEF StoreInv, AllTaken, WriteDirect, Taken
<1>5. WriterTrue'
  <2>1. \A j \in Key : View(j)' = View(j)
    BY DEF StoreInv, StoreTypeOK, WorkerTrue, SeqUnique, WriteDirect, PrunedPending,
         View, Entry, Taken, store
  <2> QED BY <2>1 DEF StoreInv, StoreTypeOK, WriteDirect, WriterTrue, PrunedPending,
       NoReaders, NoWrites, NoValues, WorkerTrue, Taken, writing, reading, store,
       worker, counts
<1>6. CacheTrue'
  <2>1. \A j \in Key : View(j)' = View(j)
    BY DEF StoreInv, StoreTypeOK, WorkerTrue, SeqUnique, WriteDirect, PrunedPending,
         View, Entry, Taken, store
  <2> QED BY <2>1 DEF StoreInv, StoreTypeOK, WriteDirect, CacheTrue, PrunedPending,
       NoReaders, NoWrites, NoValues, WorkerTrue, Taken, writing, reading, store,
       worker, counts
<1>7. ReadersTrue'
  <2>1. \A j \in Key : View(j)' = View(j)
    BY DEF StoreInv, StoreTypeOK, WorkerTrue, SeqUnique, WriteDirect, PrunedPending,
         View, Entry, Taken, store
  <2> QED BY <2>1 DEF StoreInv, StoreTypeOK, WriteDirect, ReadersTrue, PrunedPending,
       NoReaders, NoWrites, NoValues, WorkerTrue, Taken, writing, reading, store,
       worker, counts
<1>8. Locked' /\ RepliesTrue' /\ SeqUnique'
  BY DEF StoreInv, Locked, RepliesTrue, SeqUnique, WriteDirect, NoReaders, Owed,
     writing, reading
<1> QED BY <1>1, <1>2, <1>3, <1>4, <1>5, <1>6, <1>7, <1>8 DEF StoreInv

\* A write that fails leaves everything pending and poisons the worker.
LEMMA WriteFailsKeeps ==
  ASSUME StoreInv, WriteFails
  PROVE  StoreInv'
<1>1. StoreTypeOK'
  BY DEF StoreInv, StoreTypeOK, WriteFails, Done, writing, reading, NoWrites
<1>2. FlushesOwed'
  BY StoreConstants DEF StoreInv, FlushesOwed, WriteFails, Owed, Client, Done, writing,
     reading
<1>3. RepliesTrue'
  BY DEF StoreInv, RepliesTrue, WriteFails, FlushesOwed, Owed, Done, writing, reading
<1>4. SeqUnique'
  BY DEF StoreInv, SeqUnique, WriteFails, Done, NoWrites
<1>5. WorkerTrue'
  BY DEF StoreInv, WorkerTrue, WriteFails, Done
<1>6. AllTaken'
  BY DEF StoreInv, AllTaken, WriteFails, Done
<1>7. WriterTrue'
  BY DEF StoreInv, WriterTrue, WriteFails, View, Done, writing
<1>8. Locked' /\ CacheTrue' /\ ReadersTrue'
  BY DEF StoreInv, Locked, CacheTrue, ReadersTrue, WriteFails, NoReaders, View, writing,
     reading
<1> QED BY <1>1, <1>2, <1>3, <1>4, <1>5, <1>6, <1>7, <1>8 DEF StoreInv

\* What is pruned has been stored: no view changes.
LEMMA PruneKeeps ==
  ASSUME StoreInv, NEW k \in Key, Prune(k)
  PROVE  StoreInv'
<1>1. StoreTypeOK'
  BY DEF StoreInv, StoreTypeOK, Prune, PrunedPending, writing, reading, counts
<1>2. RepliesTrue'
  BY DEF StoreInv, RepliesTrue, Prune, Owed, NoWrites, PrunedPending, writing, reading
<1>3. SeqUnique'
  BY DEF StoreInv, SeqUnique, Prune, PrunedPending
<1>4. WorkerTrue'
  BY DEF StoreInv, WorkerTrue, Prune, Taken
<1>5. AllTaken'
  BY DEF StoreInv, StoreTypeOK, AllTaken, Prune, PrunedPending
<1>6. WriterTrue'
  <2>1. \A j \in Key : View(j)' = View(j)
    BY DEF StoreInv, StoreTypeOK, WorkerTrue, SeqUnique, Prune, PrunedPending, View,
         Entry, Taken, store
  <2> QED BY <2>1 DEF StoreInv, StoreTypeOK, Prune, WriterTrue, PrunedPending,
       NoReaders, NoWrites, NoValues, WorkerTrue, Taken, writing, reading, store,
       worker, counts
<1>7. CacheTrue'
  <2>1. \A j \in Key : View(j)' = View(j)
    BY DEF StoreInv, StoreTypeOK, WorkerTrue, SeqUnique, Prune, PrunedPending, View,
         Entry, Taken, store
  <2> QED BY <2>1 DEF StoreInv, StoreTypeOK, Prune, CacheTrue, PrunedPending, NoReaders,
       NoWrites, NoValues, WorkerTrue, Taken, writing, reading, store, worker, counts
<1>8. ReadersTrue'
  <2>1. \A j \in Key : View(j)' = View(j)
    BY DEF StoreInv, StoreTypeOK, WorkerTrue, SeqUnique, Prune, PrunedPending, View,
         Entry, Taken, store
  <2> QED BY <2>1 DEF StoreInv, StoreTypeOK, Prune, ReadersTrue, PrunedPending,
       NoReaders, NoWrites, NoValues, WorkerTrue, Taken, writing, reading, store,
       worker, counts
<1>9. Locked' /\ FlushesOwed'
  BY DEF StoreInv, Locked, FlushesOwed, Prune, NoReaders, Owed, writing, reading
<1> QED BY <1>1, <1>2, <1>3, <1>4, <1>5, <1>6, <1>7, <1>8, <1>9 DEF StoreInv

\* The worker has pruned its snapshot and answers.
LEMMA PrunedKeeps ==
  ASSUME StoreInv, Pruned
  PROVE  StoreInv'
<1>1. StoreTypeOK'
  BY DEF StoreInv, StoreTypeOK, Pruned, Done, store, writing, reading, counts, NoWrites
<1>2. FlushesOwed'
  BY StoreConstants DEF StoreInv, FlushesOwed, Pruned, Owed, Client, Done, store,
     writing, reading
<1>3. RepliesTrue'
  BY StoreConstants DEF StoreInv, StoreTypeOK, RepliesTrue, Pruned, AllTaken,
     FlushesOwed, Owed, NoWrites, Done, store, writing, reading
<1>4. SeqUnique'
  BY DEF StoreInv, SeqUnique, Pruned, Done, store, NoWrites
<1>5. WorkerTrue'
  BY StoreConstants DEF StoreInv, StoreTypeOK, WorkerTrue, Pruned, AllTaken, NoWrites,
     Done, store
<1>6. AllTaken'
  BY DEF StoreInv, AllTaken, Pruned, Done
<1>7. WriterTrue'
  BY DEF StoreInv, WriterTrue, Pruned, View, Done, store, writing
<1>8. Locked' /\ CacheTrue' /\ ReadersTrue'
  BY DEF StoreInv, Locked, CacheTrue, ReadersTrue, Pruned, NoReaders, View, store,
     writing, reading
<1> QED BY <1>1, <1>2, <1>3, <1>4, <1>5, <1>6, <1>7, <1>8 DEF StoreInv

\* An entry leaves the LRU.
LEMMA EvictKeeps ==
  ASSUME StoreInv, NEW k \in Key, Evict(k)
  PROVE  StoreInv'
<1>1. StoreTypeOK'
  BY DEF StoreInv, StoreTypeOK, Evict, worker, writing, reading, counts
<1>2. CacheTrue'
  BY DEF StoreInv, CacheTrue, Evict, View, writing
<1>3. Locked' /\ FlushesOwed' /\ RepliesTrue' /\ SeqUnique' /\ WorkerTrue' /\ AllTaken'
       /\ WriterTrue' /\ ReadersTrue'
  BY DEF StoreInv, Locked, FlushesOwed, RepliesTrue, SeqUnique, WorkerTrue, AllTaken,
     WriterTrue, ReadersTrue, Evict, NoReaders, Owed, Taken, View, worker, writing,
     reading
<1> QED BY <1>1, <1>2, <1>3 DEF StoreInv

\* A store that is opened again starts from what is stored.
LEMMA ReopenKeeps ==
  ASSUME StoreInv, Reopen
  PROVE  StoreInv'
<1>1. StoreTypeOK'
  <2>1. poison' \in BOOLEAN /\ lru' \in [Reader -> BOOLEAN]
    BY Zenon DEF Reopen
  <2>2. NoWrites \in [Key -> Entry \cup {Clean}] /\ NoValues \in [Key -> Stored \cup {Unset}]
    BY DEF NoWrites, NoValues
  <2>3. got' \in [Reader -> [Key -> Stored \cup {Unset}]]
    BY <2>2 DEF Reopen
  <2>4. cache' \in [Key -> Value \cup {Empty}]
    BY DEF Reopen
  <2>5. channel' \in Seq(Message)
    BY DEF Reopen
  <2> QED BY <2>1, <2>2, <2>3, <2>4, <2>5 DEF StoreInv, StoreTypeOK, Reopen
<1>2. Locked'
  BY DEF StoreInv, Locked, Reopen
<1>3. FlushesOwed'
  BY StoreConstants DEF StoreInv, FlushesOwed, Reopen
<1>4. RepliesTrue'
  BY DEF StoreInv, RepliesTrue, Reopen
<1>5. SeqUnique'
  BY DEF StoreInv, SeqUnique, Reopen, NoWrites
<1>6. WorkerTrue'
  BY DEF StoreInv, WorkerTrue, Reopen
<1>7. AllTaken'
  BY DEF StoreInv, AllTaken, Reopen
<1>8. WriterTrue'
  BY DEF StoreInv, WriterTrue, Reopen
<1>9. CacheTrue'
  BY DEF StoreInv, CacheTrue, Reopen
<1>10. ReadersTrue'
  BY DEF StoreInv, ReadersTrue, Reopen, NoValues
<1> QED BY <1>1, <1>2, <1>3, <1>4, <1>5, <1>6, <1>7, <1>8, <1>9, <1>10 DEF StoreInv

\* The invariant holds at first.
LEMMA InitHolds == Init => StoreInv
<1> SUFFICES ASSUME Init PROVE StoreInv
  OBVIOUS
<1>1. poison \in BOOLEAN /\ lru \in [Reader -> BOOLEAN]
  BY Zenon DEF Init
<1>2. NoWrites \in [Key -> Entry \cup {Clean}] /\ NoValues \in [Key -> Stored \cup {Unset}]
  BY DEF NoWrites, NoValues
<1>3. got \in [Reader -> [Key -> Stored \cup {Unset}]] /\ channel \in Seq(Message)
  BY <1>2 DEF Init
<1>4. StoreTypeOK
  BY <1>1, <1>2, <1>3 DEF Init, StoreTypeOK, Stored
<1>5. FlushesOwed /\ Locked
  BY StoreConstants DEF Init, FlushesOwed, Locked
<1> QED BY <1>4, <1>5, StoreConstants DEF Init, StoreInv, RepliesTrue, SeqUnique,
        WorkerTrue, AllTaken, WriterTrue, CacheTrue, ReadersTrue, NoWrites, NoValues,
        Client

\* A stuttering step keeps it.
LEMMA StutterKeeps == ASSUME StoreInv, UNCHANGED vars PROVE StoreInv'
<1> USE DEF vars, store, worker, writing, reading, counts
<1>1. StoreTypeOK' /\ Locked' /\ SeqUnique' /\ AllTaken'
  BY DEF StoreInv, StoreTypeOK, Locked, NoReaders, SeqUnique, AllTaken
<1>2. FlushesOwed' /\ RepliesTrue'
  BY DEF StoreInv, FlushesOwed, RepliesTrue, Owed
<1>3. WorkerTrue' /\ WriterTrue' /\ CacheTrue' /\ ReadersTrue'
  BY DEF StoreInv, WorkerTrue, Taken, WriterTrue, CacheTrue, ReadersTrue, View
<1> QED BY <1>1, <1>2, <1>3 DEF StoreInv

\* Every step keeps the invariant: one lemma for each action.
LEMMA StoreInvKept == StoreInv /\ [Next]_vars => StoreInv'
<1> SUFFICES ASSUME StoreInv, [Next]_vars PROVE StoreInv'
  OBVIOUS
<1>1. CASE ClientStep
  BY <1>1, EnqueueKeeps, AnnounceKeeps, PublishKeeps, CommitKeeps, AdmitKeeps,
     AdmitFailsKeeps, CloseKeeps, CloseSendKeeps, CommitFlushedKeeps DEF ClientStep
<1>2. CASE \E c \in Client : FlushSend(c)
  BY <1>2, FlushSendKeeps
<1>3. ASSUME NEW r \in Reader, ReaderStep(r)
      PROVE  StoreInv'
  BY <1>3, GetCachedKeeps, GetMissKeeps, GetPendingKeeps, GetBackingKeeps, GetFillKeeps,
     WalkPendingKeeps, RestKeeps, RangeKeeps, IterKeeps, WalkDoneKeeps, IterFlushedKeeps,
     ReturnKeeps DEF ReaderStep
<1>4. CASE WorkerStep
  BY <1>4, RecvWriteKeeps, TimeoutKeeps, GatherKeeps, GatheredKeeps, RecvAllKeeps,
     WriteBatchKeeps, WriteDirectKeeps, WriteFailsKeeps, PruneKeeps, PrunedKeeps
  DEF WorkerStep
<1>5. CASE \E k \in Key : Evict(k)
  BY <1>5, EvictKeeps
<1> QED BY <1>1, <1>2, <1>3, <1>4, <1>5, ReopenKeeps, StutterKeeps DEF Next

\* The copies of an entity in the LRU, the pending writes, the worker's snapshot and the
\* provider agree as StoreInv says, through every step of the writer, the readers, the
\* worker thread, the eviction and a crash (EntityCache, WriteBackWorker, Worker::run).
THEOREM StoreInvariant == Spec => []StoreInv
<1> QED BY InitHolds, StoreInvKept, PTL DEF Spec

\* A flush that answers ok, and a store closed without a failure, has left no write
\* pending (WriteBackWorker::flush, commit_all, Drop).
THEOREM FlushesDurable == Spec => []FlushDurable
<1>1. StoreInv => FlushDurable
  BY DEF StoreInv, RepliesTrue, WorkerTrue, FlushDurable
<1> QED BY <1>1, StoreInvariant, PTL

--------------------------------------------------------------------------------
(***************************************************************************)
(* No pending write is stranded.                                           *)
(***************************************************************************)

\* A single write announces its own key.
OneStaged ==
  client = "send" => \A j, k \in Key : staged[j] # Unset /\ staged[k] # Unset => j = k

\* Only Enqueue begins an announcement, and it stages one key.
LEMMA OneStagedKept == ASSUME StoreInv, OneStaged, Next PROVE OneStaged'
<1>1. CASE \E k \in Key, v \in Stored : Enqueue(k, v)
  BY <1>1 DEF OneStaged, Enqueue, StoreInv, StoreTypeOK, WriterTrue, NoValues, Exclusive
<1>2. CASE ~\E k \in Key, v \in Stored : Enqueue(k, v)
  <2>1. client' = "send" => client = "send" /\ staged' = staged
    BY <1>2 DEF Next, ClientStep, ReaderStep, WorkerStep, Announce, Publish, Commit,
       Admit, AdmitFails, Close, CloseSend, CommitFlushed, FlushSend, GetCached, GetMiss,
       GetPending, GetBacking, GetFill, WalkPending, Rest, IterRange, Iter, WalkDone,
       IterFlushed, Return, RecvWrite, Timeout, Gather, Gathered, RecvAll, WriteBatch,
       WriteDirect, WriteFails, Prune, Pruned, Evict, Reopen, writing
  <2> QED BY <2>1 DEF OneStaged
<1> QED BY <1>1, <1>2

\* A message put at the end of the channel leaves every key in it that was there.
LEMMA AppendKeepsQueued ==
  ASSUME channel \in Seq(Message), NEW m \in Message, channel' = Append(channel, m)
  PROVE  /\ \A k \in Key : Queued(k) => Queued(k)'
         /\ \A k \in Key : m = Write(k) => Queued(k)'
<1>1. /\ Len(channel) \in Nat /\ Len(channel') = Len(channel) + 1
      /\ channel'[Len(channel) + 1] = m
      /\ \A i \in 1..Len(channel) : channel'[i] = channel[i]
  OBVIOUS
<1> QED BY <1>1 DEF Queued, Write

\* The worker takes out of the channel the one key that it puts into its batch.
LEMMA RecvWriteStrandsNone ==
  ASSUME StoreInv, NothingStranded, RecvWrite
  PROVE  NothingStranded'
<1>1. /\ Len(channel') + 1 = Len(channel)
      /\ \A i \in 1..Len(channel') : channel'[i] = channel[i + 1]
  BY DEF StoreInv, StoreTypeOK, RecvWrite
<1>2. /\ channel[1] = Head(channel) /\ Head(channel).kind = "write"
      /\ Len(channel) \in Nat /\ Len(channel') \in Nat
  BY DEF StoreInv, StoreTypeOK, RecvWrite
<1>3. ASSUME NEW k \in Key, Queued(k)
      PROVE  k = Head(channel).key \/ Queued(k)'
  <2>1. PICK i \in 1..Len(channel) : channel[i].kind # "write" \/ channel[i].key = k
    BY <1>3 DEF Queued
  <2>2. CASE i = 1
    BY <2>1, <2>2, <1>2
  <2>3. CASE i # 1
    <3>1. i - 1 \in 1..Len(channel') /\ channel'[i - 1] = channel[i]
      BY <2>3, <1>1, <1>2
    <3> QED BY <2>1, <3>1 DEF Queued
  <2> QED BY <2>2, <2>3
<1>4. at = "recv" /\ snap = NoWrites
  BY DEF RecvWrite, StoreInv, WorkerTrue
<1>5. batch \cup {Head(channel).key} \subseteq (IF at' = "gather" THEN left' ELSE batch')
  BY <1>4 DEF RecvWrite
<1> QED BY <1>3, <1>4, <1>5 DEF RecvWrite, NothingStranded, NoWrites, writing

\* The other steps of the worker: what leaves one of its places is in the next.
LEMMA WorkerStrandsNone ==
  ASSUME StoreInv, NothingStranded, WorkerStep
  PROVE  NothingStranded'
<1>1. CASE RecvWrite
  BY <1>1, RecvWriteStrandsNone
<1>2. CASE Timeout
  BY <1>2 DEF Timeout, NothingStranded, Queued, StoreInv, WorkerTrue, NoWrites, store, writing
<1>3. ASSUME NEW k \in Key, Gather(k) PROVE NothingStranded'
  BY <1>3 DEF Gather, NothingStranded, Queued, StoreInv, StoreTypeOK, store, writing
<1>4. CASE Gathered
  BY <1>4 DEF Gathered, Done, NothingStranded, Queued, Taken, NoWrites, store, writing
<1>5. CASE RecvAll
  BY <1>5 DEF RecvAll, NothingStranded
<1>6. CASE WriteBatch
  BY <1>6, StoreConstants DEF WriteBatch, NothingStranded, Queued, Taken, StoreInv,
     StoreTypeOK, writing
<1>7. ASSUME NEW k \in Key, WriteDirect(k) PROVE NothingStranded'
  BY <1>7, StoreConstants DEF WriteDirect, NothingStranded, Queued, Taken, StoreInv,
     StoreTypeOK, writing
<1>8. CASE WriteFails
  BY <1>8 DEF WriteFails, NothingStranded
<1>9. ASSUME NEW k \in Key, Prune(k) PROVE NothingStranded'
  BY <1>9 DEF Prune, PrunedPending, NothingStranded, Queued, StoreInv, StoreTypeOK, writing
<1>10. CASE Pruned
  BY <1>10
  DEF Pruned, Done, NothingStranded, Queued, NoWrites, StoreInv, WorkerTrue, store, writing
<1> QED BY <1>1, <1>2, <1>3, <1>4, <1>5, <1>6, <1>7, <1>8, <1>9, <1>10 DEF WorkerStep

\* Every step keeps each pending write in one of the places that lead to a commit.
LEMMA StrandsNone ==
  ASSUME StoreInv, OneStaged, NothingStranded, Next
  PROVE  NothingStranded'
<1>1. ASSUME NEW k \in Key, NEW v \in Stored, Enqueue(k, v) PROVE NothingStranded'
  BY <1>1, StoreConstants DEF Enqueue, NothingStranded, Queued, Stored, Exclusive,
     StoreInv, StoreTypeOK, worker
<1>2. CASE Announce
  <2>1. PICK j \in Key : staged[j] # Unset /\ channel' = Append(channel, Write(j))
    BY <1>2 DEF Announce
  <2>2. Queued(j)' /\ \A k \in Key : Queued(k) => Queued(k)'
    BY <2>1, AppendKeepsQueued DEF StoreInv, StoreTypeOK, Message, Write
  <2> QED BY <1>2, <2>1, <2>2 DEF NothingStranded, OneStaged, Announce, worker
<1>3. CASE CloseSend \/ \E c \in Client : FlushSend(c)
  <2>1. PICK m \in Message : channel' = Append(channel, m)
    BY <1>3 DEF CloseSend, FlushSend, Message, Shutdown, Flush
  <2>2. \A k \in Key : Queued(k) => Queued(k)'
    BY <2>1, AppendKeepsQueued DEF StoreInv, StoreTypeOK
  <2>3. client # "send" \/ client' = client
    BY <1>3 DEF CloseSend, FlushSend
  <2>4. UNCHANGED <<pending, poison, worker, staged>>
    BY <1>3 DEF CloseSend, FlushSend
  <2> QED BY <2>2, <2>3, <2>4 DEF NothingStranded, worker
<1>4. CASE Reopen
  BY <1>4 DEF Reopen, NothingStranded, NoWrites
<1>5. CASE ~(ClientStep \/ (\E c \in Client : FlushSend(c)) \/ WorkerStep \/ Reopen)
           \/ Publish \/ (\E writes \in [Key -> Stored \cup {Unset}] : Commit(writes))
           \/ Admit \/ AdmitFails \/ Close \/ CommitFlushed
  <2>1. /\ UNCHANGED <<pending, channel, poison, worker>>
        /\ client = "send" => UNCHANGED writing
    BY <1>5 DEF Next, ReaderStep, Publish, Commit, Admit, AdmitFails, Close,
       CommitFlushed, GetCached, GetMiss, GetPending, GetBacking, GetFill, WalkPending,
       Rest, IterRange, Iter, WalkDone, IterFlushed, Return, Evict, Exclusive, store
  <2> QED BY <2>1 DEF NothingStranded, Queued, worker, writing
<1> QED BY <1>1, <1>2, <1>3, <1>4, <1>5, WorkerStrandsNone DEF Next, ClientStep

\* No pending write is forgotten: it is still to be announced, in the channel, in the
\* batch or in the commit that runs, in its newest form, unless the worker is poisoned
\* (WriteBackWorker::enqueue, Worker::run, commit_batch, remove_if).
THEOREM NothingIsStranded == Spec => []NothingStranded
<1>1. Init => OneStaged /\ NothingStranded
  BY DEF Init, OneStaged, NothingStranded, NoWrites
<1>2. StoreInv /\ OneStaged /\ NothingStranded /\ [Next]_vars
        => (OneStaged /\ NothingStranded)'
  <2>1. CASE UNCHANGED vars
    BY <2>1 DEF vars, store, worker, writing, OneStaged, NothingStranded, Queued
  <2> QED BY <2>1, OneStagedKept, StrandsNone
<1> QED BY <1>1, <1>2, StoreInvariant, PTL DEF Spec

--------------------------------------------------------------------------------
(***************************************************************************)
(* The store implements EntityMap.                                         *)
(***************************************************************************)

\* A step that leaves the views, the writer and the answers alone, and after which a crash
\* may leave no more than before, is a step of Settle.
LEMMA SettleIfQuiet ==
  ASSUME epoch' = epoch, PhaseOf' = PhaseOf, staged' = staged,
         \A k \in Key : View(k)' = View(k) /\ Surviving(k)' \subseteq Surviving(k),
         \A r \in Reader : AnswerOf(r)' = AnswerOf(r)
  PROVE  Map!Settle
BY DEF Map!Settle, Map!Settles, Map!writer, Surviving

\* So is a step of a reader that has not answered and does not answer yet.
LEMMA SettleIfReading ==
  ASSUME NEW r \in Reader, UNCHANGED <<backing, pending, snap, writing, epoch>>,
         reader[r] # "done", reader'[r] # "done",
         \A q \in Reader \ {r} : reader'[q] = reader[q] /\ got'[q] = got[q]
  PROVE  Map!Settle
<1>1. \A k \in Key : View(k)' = View(k) /\ Surviving(k)' = Surviving(k)
  BY DEF View, Surviving, Taken
<1>2. \A q \in Reader : AnswerOf(q)' = AnswerOf(q)
  BY DEF AnswerOf
<1>3. PhaseOf' = PhaseOf /\ staged' = staged
  BY DEF PhaseOf, writing
<1> QED BY <1>1, <1>2, <1>3, SettleIfQuiet

\* The step with which a reader is done answers the views of the keys it has values for.
LEMMA AnswerIfDone ==
  ASSUME StoreInv', NEW r \in Reader,
         UNCHANGED <<backing, pending, snap, writing, epoch>>,
         reader[r] # "done", reader'[r] = "done",
         \A q \in Reader \ {r} : reader'[q] = reader[q] /\ got'[q] = got[q]
  PROVE  Map!Answer(r, {k \in Key : got'[r][k] # Unset})
<1> DEFINE keys == {k \in Key : got'[r][k] # Unset}
<1>1. \A k \in Key : View(k)' = View(k) /\ Surviving(k)' = Surviving(k)
  BY DEF View, Surviving, Taken
<1>2. \A q \in Reader \ {r} : AnswerOf(q)' = AnswerOf(q)
  BY DEF AnswerOf
<1>3. AnswerOf(r) = NoAnswer
  BY DEF AnswerOf
<1>4. \A k \in keys : got'[r][k] = View(k)
  BY <1>1 DEF StoreInv, ReadersTrue
<1>5. AnswerOf(r)' = [k \in keys |-> View(k)]
  BY <1>4 DEF AnswerOf
<1>6. [k \in keys |-> [j \in Key |-> View(j)][k]] = [k \in keys |-> View(k)]
  OBVIOUS
<1>7. PhaseOf' = PhaseOf /\ staged' = staged
  BY DEF PhaseOf, writing
<1> QED BY <1>1, <1>2, <1>3, <1>5, <1>6, <1>7 DEF Map!Answer, Map!writer

\* A single write is a Put of the map.
LEMMA EnqueueMaps ==
  ASSUME StoreInv, NEW k \in Key, NEW v \in Stored, Enqueue(k, v)
  PROVE  Map!Put(k, v)
<1>1. \A j \in Key : View(j)' = IF j = k THEN v ELSE View(j)
  BY StoreConstants DEF StoreInv, StoreTypeOK, Enqueue, View, Entry, Stored
<1>2. \A j \in Key : Surviving(j)' \subseteq
                       (IF j = k THEN Surviving(j) \cup {v} ELSE Surviving(j))
  BY <1>1 DEF Enqueue, Surviving, Taken, worker
<1>3. \A j \in Key : View(j)' \in Surviving(j)'
  BY DEF Surviving
<1>4. epoch' = epoch /\ \A q \in Reader : AnswerOf(q)' = AnswerOf(q)
  BY DEF Enqueue, AnswerOf, reading
<1>5. PhaseOf = "idle" /\ PhaseOf' = "put"
  BY DEF Enqueue, Exclusive, PhaseOf
<1>6. staged' = [Map!NoWrite EXCEPT ![k] = v]
  BY DEF Enqueue, Exclusive, StoreInv, WriterTrue, NoValues, Map!NoWrite
<1> QED BY <1>1, <1>2, <1>3, <1>4, <1>5, <1>6 DEF Map!Put, Map!Settles

\* The batch of a commit is an Admit of the map: nothing is left that a crash could undo.
LEMMA AdmitMaps == ASSUME StoreInv, StoreInv', Admit PROVE Map!Admit
<1>1. \A j \in Key : View(j)' = IF staged[j] = Unset THEN View(j) ELSE staged[j]
  BY DEF StoreInv, WriterTrue, Admit, View, NoWrites
<1>2. \A j \in Key : Surviving(j)' = {View(j)'}
  BY DEF StoreInv, StoreTypeOK, WriterTrue, Admit, Surviving, View, Taken, NoWrites, worker
<1>3. epoch' = epoch /\ \A q \in Reader : AnswerOf(q)' = AnswerOf(q)
  BY DEF Admit, AnswerOf, reading, counts
<1>4. PhaseOf = "batch" /\ PhaseOf' = "admitted" /\ staged' = staged
  BY DEF Admit, PhaseOf
<1> QED BY <1>1, <1>2, <1>3, <1>4 DEF Map!Admit

\* A crash leaves one of the values that may survive.
LEMMA ReopenMaps == ASSUME StoreInv, Reopen PROVE Map!Reopen
<1>1. \A j \in Key : /\ View(j)' = backing[j] /\ backing[j] \in Stored
                     /\ backing[j] \in Surviving(j)
  BY DEF StoreInv, StoreTypeOK, Reopen, View, NoWrites, Surviving
<1>2. \A j \in Key : Surviving(j)' = {View(j)'}
  BY DEF StoreInv, StoreTypeOK, Reopen, View, NoWrites, Surviving, Taken
<1>3. epoch' = epoch + 1 /\ \A q \in Reader : AnswerOf(q)' = NoAnswer
  BY DEF Reopen, AnswerOf
<1>4. PhaseOf' = "idle" /\ staged' = Map!NoWrite
  BY DEF Reopen, PhaseOf, NoValues, Map!NoWrite
<1> QED BY <1>1, <1>2, <1>3, <1>4 DEF Map!Reopen, Map!Stored, Stored

\* The caller takes its answer.
LEMMA ReturnMaps == ASSUME StoreInv, NEW r \in Reader, Return(r) PROVE Map!Take(r)
<1>1. \A j \in Key : View(j)' = View(j) /\ Surviving(j)' = Surviving(j)
  BY DEF Return, View, Surviving, Taken, store, worker
<1>2. /\ AnswerOf(r)' = NoAnswer
      /\ \A q \in Reader \ {r} : reader'[q] = reader[q] /\ got'[q] = got[q]
  BY DEF StoreInv, StoreTypeOK, Return, AnswerOf
<1>3. \A q \in Reader \ {r} : AnswerOf(q)' = AnswerOf(q)
  BY <1>2 DEF AnswerOf
<1>4. epoch' = epoch
  BY DEF Return, counts
<1>5. PhaseOf' = PhaseOf /\ staged' = staged
  BY DEF Return, PhaseOf, writing
<1> QED BY <1>1, <1>2, <1>3, <1>4, <1>5 DEF Map!Take, Map!writer

\* A read ends with an answer or goes on.
LEMMA ReaderMaps ==
  ASSUME StoreInv, StoreInv', NEW r \in Reader, ReaderStep(r)
  PROVE  Map!MapNext
<1>1. CASE Return(r)
  BY <1>1, ReturnMaps DEF Map!MapNext
<1>2. CASE ~Return(r)
  <2>1. UNCHANGED <<backing, pending, snap, writing, epoch>> /\ reader[r] # "done"
    BY <1>2 DEF ReaderStep, GetCached, GetMiss, GetPending, GetBacking, GetFill,
       WalkPending, Rest, IterRange, Iter, WalkDone, IterFlushed, Shared, store, worker,
       writing, counts
  <2>2. \A q \in Reader \ {r} : reader'[q] = reader[q] /\ got'[q] = got[q]
    BY <1>2 DEF StoreInv, StoreTypeOK, ReaderStep, GetCached, GetMiss, GetPending,
       GetBacking, GetFill, WalkPending, Rest, IterRange, Iter, WalkDone, IterFlushed
  <2>3. CASE reader'[r] = "done"
    BY <2>1, <2>2, <2>3, AnswerIfDone DEF Map!MapNext
  <2>4. CASE reader'[r] # "done"
    BY <2>1, <2>2, <2>4, SettleIfReading DEF Map!MapNext
  <2> QED BY <2>3, <2>4
<1> QED BY <1>1, <1>2

\* A step of the writer, a flush and an eviction that touch neither the pending writes nor
\* the provider show nothing to a reader.
LEMMA QuietViews ==
  ASSUME StoreInv,
         \/ Announce \/ Publish \/ AdmitFails \/ Close \/ CloseSend \/ CommitFlushed
         \/ \E writes \in [Key -> Stored \cup {Unset}] : Commit(writes)
         \/ \E c \in Client : FlushSend(c)
         \/ \E k \in Key : Evict(k)
  PROVE  /\ epoch' = epoch
         /\ \A k \in Key : View(k)' = View(k) /\ Surviving(k)' = Surviving(k)
         /\ \A r \in Reader : AnswerOf(r)' = AnswerOf(r)
<1>1. UNCHANGED <<backing, pending, snap, got, epoch>>
  BY DEF Announce, Publish, AdmitFails, Close, CloseSend, CommitFlushed, Commit, FlushSend,
     Evict, store, worker, reading, counts
<1>2. \A k \in Key : View(k)' = View(k) /\ Surviving(k)' = Surviving(k)
  BY <1>1 DEF View, Surviving, Taken
<1>3. \A r \in Reader : reader'[r] = "done" <=> reader[r] = "done"
  BY DEF Announce, Publish, AdmitFails, Close, CloseSend, CommitFlushed, Commit, FlushSend,
     Evict, reading, StoreInv, StoreTypeOK
<1>4. \A r \in Reader : AnswerOf(r)' = AnswerOf(r)
  BY <1>1, <1>3 DEF AnswerOf
<1> QED BY <1>1, <1>2, <1>4

\* Announcing a write, waiting for a flush, closing and evicting are no steps of a writer
\* of the map.
LEMMA QuietMaps ==
  ASSUME StoreInv,
         \/ Announce \/ Close \/ CloseSend
         \/ CommitFlushed /\ reply[Project] = "ok"
         \/ \E c \in Client : FlushSend(c)
         \/ \E k \in Key : Evict(k)
  PROVE  Map!Settle
<1>1. PhaseOf' = PhaseOf /\ staged' = staged
  BY DEF Announce, Close, CloseSend, CommitFlushed, FlushSend, Evict, Exclusive, writing,
     PhaseOf
<1> QED BY <1>1, QuietViews, SettleIfQuiet

\* A commit begins a batch.
LEMMA CommitMaps ==
  ASSUME StoreInv, NEW w \in [Key -> Stored \cup {Unset}], Commit(w)
  PROVE  Map!Begin
<1>1. PhaseOf = "idle" /\ PhaseOf' = "batch" /\ staged' = w
  BY DEF Commit, Exclusive, PhaseOf
<1> QED BY <1>1, QuietViews DEF Map!Begin, Map!Stored, Stored

\* A write ends when it is in the LRU; a commit likewise, or with an error and no trace.
LEMMA EndMaps ==
  ASSUME StoreInv, Publish \/ AdmitFails \/ (CommitFlushed /\ reply[Project] # "ok")
  PROVE  Map!End
<1>1. PhaseOf # "idle" /\ PhaseOf' = "idle" /\ staged' = Map!NoWrite
  BY DEF Publish, AdmitFails, CommitFlushed, PhaseOf, NoValues, Map!NoWrite
<1> QED BY <1>1, QuietViews DEF Map!End

\* Whatever the worker does, no view changes, and it brings nothing to storage that was
\* not pending.
LEMMA WorkerMaps == ASSUME StoreInv, WorkerStep PROVE Map!Settle
<1> DEFINE Shows == \A k \in Key : View(k)' = View(k) /\ Surviving(k)' \subseteq Surviving(k)
<1>1. UNCHANGED <<reader, got, writing, epoch>>
  BY DEF WorkerStep, RecvWrite, Timeout, Gather, Gathered, RecvAll, WriteBatch, WriteDirect,
     WriteFails, Prune, Pruned, reading, counts
<1>2. \A r \in Reader : AnswerOf(r)' = AnswerOf(r)
  BY <1>1 DEF AnswerOf
<1>3. RecvWrite \/ Timeout \/ Gathered \/ RecvAll \/ WriteFails \/ Pruned => Shows
  BY DEF RecvWrite, Timeout, Gathered, RecvAll, WriteFails, Pruned, Done, View, Surviving,
     Taken, NoWrites, store, StoreInv, WorkerTrue
<1>4. ASSUME NEW j \in Key, Gather(j) PROVE Shows
  BY <1>4 DEF Gather, View, Surviving, Taken, store, StoreInv, StoreTypeOK
<1>5. WriteBatch => Shows
  BY DEF WriteBatch, View, Surviving, Taken, StoreInv, StoreTypeOK, WorkerTrue
<1>6. ASSUME NEW j \in Key, WriteDirect(j) PROVE Shows
  BY <1>6 DEF WriteDirect, View, Surviving, Taken, StoreInv, StoreTypeOK, WorkerTrue
<1>7. ASSUME NEW j \in Key, Prune(j) PROVE Shows
  BY <1>7, StoreConstants DEF Prune, PrunedPending, View, Surviving, Taken, StoreInv,
     StoreTypeOK, WorkerTrue, SeqUnique
<1>8. Shows
  BY <1>3, <1>4, <1>5, <1>6, <1>7 DEF WorkerStep
<1>9. PhaseOf' = PhaseOf /\ staged' = staged
  BY <1>1 DEF PhaseOf, writing
<1> QED BY <1>1, <1>2, <1>8, <1>9, SettleIfQuiet

\* Every step of the store is a step of the map, or none.
LEMMA NextMaps == ASSUME StoreInv, StoreInv', Next PROVE Map!MapNext
<1>1. CASE ClientStep
  <2>1. ASSUME NEW k \in Key, NEW v \in Stored, Enqueue(k, v) PROVE Map!MapNext
    BY <2>1, EnqueueMaps DEF Map!MapNext, Map!Stored, Stored
  <2>2. ASSUME NEW w \in [Key -> Stored \cup {Unset}], Commit(w) PROVE Map!MapNext
    BY <2>2, CommitMaps DEF Map!MapNext
  <2>3. CASE Announce \/ Close \/ CloseSend \/ CommitFlushed \/ Publish \/ AdmitFails
    BY <2>3, QuietMaps, EndMaps DEF Map!MapNext
  <2> QED BY <1>1, <2>1, <2>2, <2>3, AdmitMaps DEF ClientStep, Map!MapNext
<1>2. CASE (\E c \in Client : FlushSend(c)) \/ (\E k \in Key : Evict(k))
  BY <1>2, QuietMaps DEF Map!MapNext
<1>3. CASE WorkerStep
  BY <1>3, WorkerMaps DEF Map!MapNext
<1>4. CASE Reopen
  BY <1>4, ReopenMaps DEF Map!MapNext
<1> QED BY <1>1, <1>2, <1>3, <1>4, ReaderMaps DEF Next

\* The write-back store implements the plain map: whatever the worker thread, the LRU, a
\* failing provider and a crash do, only a write changes what its keys read as, a read
\* answers the latest write, a commit is visible and durable at once or not at all, and a
\* crash leaves each key with a value it had since it was last stored (EntityCache,
\* WriteBackWorker, EntityStorage::write_batch).
THEOREM StoreImplementsMap == Spec => ImplementsMap
<1>1. Init => Map!MapInit
  BY DEF Init, Map!MapInit, Map!Stored, Stored, View, Surviving, AnswerOf, Taken, NoWrites,
     PhaseOf, NoValues, Map!NoWrite
<1>2. StoreInv /\ StoreInv' /\ [Next]_vars => [Map!MapNext]_(Map!mapVars)
  <2>1. CASE UNCHANGED vars
    BY <2>1 DEF vars, store, worker, writing, reading, counts, Map!mapVars, Map!writer,
       View, Surviving, Taken, AnswerOf, PhaseOf
  <2> QED BY <2>1, NextMaps
<1> QED BY <1>1, <1>2, StoreInvariant, PTL DEF Spec, ImplementsMap, Map!MapSpec


-----------------------------------------------------------------------------
(* AddressSpaces: the greatest of finitely many numbers. *)

\* A set of natural numbers has a least one.
LEMMA LeastNumber ==
  ASSUME NEW T \in SUBSET Nat, T # {}
  PROVE  \E x \in T : \A y \in T : x <= y
<1> DEFINE R == OpToRel(<, Nat)
<1>1. IsWellFoundedOn(R, Nat)
  BY NatLessThanWellFounded
<1>2. \A x, y \in Nat : <<x, y>> \in R <=> x < y
  BY DEF OpToRel
<1> HIDE DEF R
<1>3. \E x \in T : \A y \in T : ~(<<y, x>> \in R)
  BY <1>1, WFMin
<1>4. \E x \in T : \A y \in T : ~(y < x)
  BY <1>2, <1>3, Zenon
<1>5. PICK x \in T : \A y \in T : ~(y < x)
  BY <1>4
<1>6. \A y \in T : x <= y
  BY <1>5
<1> QED BY <1>6

\* Finitely many natural numbers are bounded: a smallest set that is not would still not be with one
\* number less.
LEMMA FinitelyManyBounded ==
  ASSUME NEW S \in SUBSET Nat, IsFiniteSet(S)
  PROVE  \E m \in Nat : \A x \in S : x <= m
<1> DEFINE Bounded(T) == \E m \in Nat : \A x \in T : x <= m
           B == { n \in Nat : \E T \in SUBSET Nat : IsFiniteSet(T) /\ Cardinality(T) = n /\ ~Bounded(T) }
<1> SUFFICES ASSUME ~Bounded(S) PROVE FALSE
  OBVIOUS
<1>1. Cardinality(S) \in Nat
  BY FS_CardinalityType
<1>2. B # {} /\ B \in SUBSET Nat
  BY <1>1
<1>3. PICK n \in B : \A k \in B : n <= k
  <2> HIDE DEF B
  <2> QED BY <1>2, LeastNumber
<1>4. PICK T \in SUBSET Nat : IsFiniteSet(T) /\ Cardinality(T) = n /\ ~Bounded(T)
  BY <1>3
<1>5. T # {}
  BY <1>4
<1>6. PICK x \in T : TRUE
  BY <1>5
<1>7. IsFiniteSet(T \ {x}) /\ Cardinality(T \ {x}) = n - 1 /\ n - 1 \in Nat
  <2>1. IsFiniteSet(T \ {x}) /\ Cardinality(T \ {x}) = n - 1
    BY <1>4, <1>6, FS_RemoveElement
  <2>2. n - 1 \in Nat
    BY <2>1, FS_CardinalityType
  <2> QED BY <2>1, <2>2
<1>8. n - 1 \notin B
  BY <1>3, <1>7
<1>9. Bounded(T \ {x})
  BY <1>7, <1>8
<1>10. PICK m \in Nat : \A y \in T \ {x} : y <= m
  BY <1>9
<1>11. \A y \in T : y <= m + x
  BY <1>4, <1>6, <1>10
<1>12. m + x \in Nat
  BY <1>4, <1>6, <1>10
<1> QED BY <1>4, <1>11, <1>12

\* Max of finitely many natural numbers.
LEMMA GreatestNumber ==
  ASSUME NEW S \in SUBSET Nat, IsFiniteSet(S), S # {}
  PROVE  Max(S) \in S /\ \A x \in S : Max(S) >= x
<1> DEFINE U == { m \in Nat : \A x \in S : x <= m }
<1>1. U # {} /\ U \in SUBSET Nat
  BY FinitelyManyBounded
<1>2. PICK m \in U : \A k \in U : m <= k
  <2> HIDE DEF U
  <2> QED BY <1>1, LeastNumber
<1>3. m \in Nat /\ \A x \in S : x <= m
  BY <1>2
<1>4. m \in S
  <2> SUFFICES ASSUME m \notin S PROVE FALSE
    OBVIOUS
  <2>1. PICK x \in S : TRUE
    OBVIOUS
  <2>2. m - 1 \in Nat /\ \A y \in S : y <= m - 1
    BY <1>3, <2>1
  <2> QED BY <1>2, <1>3, <2>2
<1>5. \E y \in S : \A x \in S : y >= x
  BY <1>3, <1>4
<1> QED BY <1>5 DEF Max

-----------------------------------------------------------------------------
(* AddressSpaces: the three indexes of a space. *)

\* The indexes of a space agree with each other and with the mappings of a storage, and the
\* priorities lie between two bounds.
Agree(placements, byPriority, extents, maps, lowest, highest) ==
  /\ DOMAIN placements \subseteq DOMAIN maps
  /\ DOMAIN byPriority = {placements[id].priority : id \in DOMAIN placements}
  /\ extents = {placements[id].extent : id \in DOMAIN placements}
  /\ \A id \in DOMAIN placements :
       /\ DOMAIN placements[id] = {"priority", "extent"}
       /\ placements[id].priority \in lowest..highest
       /\ placements[id].extent = Extent(id, maps[id].start, maps[id].size)
       /\ byPriority[placements[id].priority] = RefOf(id, maps[id])

\* Different mappings have different priorities and different extents.
LEMMA PlacementsApart ==
  ASSUME NEW pl, NEW by, NEW ex, NEW maps, NEW lo, NEW hi, Agree(pl, by, ex, maps, lo, hi),
         NEW i \in DOMAIN pl, NEW j \in DOMAIN pl, i # j
  PROVE  pl[i].priority # pl[j].priority /\ pl[i].extent # pl[j].extent
<1>1. by[pl[i].priority] = RefOf(i, maps[i]) /\ by[pl[j].priority] = RefOf(j, maps[j])
  BY DEF Agree
<1>2. RefOf(i, maps[i]).id = i /\ RefOf(j, maps[j]).id = j
  BY DEF RefOf
<1>3. pl[i].extent = Extent(i, maps[i].start, maps[i].size) /\ pl[j].extent = Extent(j, maps[j].start, maps[j].size)
  BY DEF Agree
<1>4. pl[i].extent.id = i /\ pl[j].extent.id = j
  BY <1>3 DEF Extent
<1> QED BY <1>1, <1>2, <1>4

\* How the indexes change when a mapping is put at a priority, in place of where it was before.
PlacedAt(pl, by, ex, pl2, by2, ex2, id, priority, extent, ref) ==
  /\ DOMAIN pl2 = DOMAIN pl \cup {id}
  /\ \A i \in DOMAIN pl \ {id} : pl2[i] = pl[i]
  /\ DOMAIN pl2[id] = {"priority", "extent"}
  /\ pl2[id].priority = priority /\ pl2[id].extent = extent
  /\ DOMAIN by2 = (DOMAIN by \ {pl[i].priority : i \in DOMAIN pl \cap {id}}) \cup {priority}
  /\ by2[priority] = ref
  /\ \A k \in DOMAIN by2 \ {priority} : by2[k] = by[k]
  /\ ex2 = (ex \ {pl[i].extent : i \in DOMAIN pl \cap {id}}) \cup {extent}

\* A mapping is put at a priority that no other mapping has, in place of where it was before if it
\* was placed.  The other mappings are as they were.
LEMMA PlacedAgree ==
  ASSUME NEW pl, NEW by, NEW ex, NEW maps, NEW lo \in Int, NEW hi \in Int, Agree(pl, by, ex, maps, lo, hi),
         NEW id, NEW pl2, NEW by2, NEW ex2, NEW maps2, NEW lo2 \in Int, NEW hi2 \in Int,
         NEW priority \in lo2..hi2, lo2 <= lo, hi <= hi2,
         id \in DOMAIN maps2,
         \A i \in DOMAIN pl \ {id} : i \in DOMAIN maps2 /\ maps2[i] = maps[i] /\ pl[i].priority # priority,
         PlacedAt(pl, by, ex, pl2, by2, ex2, id, priority, Extent(id, maps2[id].start, maps2[id].size), RefOf(id, maps2[id]))
  PROVE  Agree(pl2, by2, ex2, maps2, lo2, hi2)
<1> DEFINE extent == Extent(id, maps2[id].start, maps2[id].size)
           ref == RefOf(id, maps2[id])
<1> HIDE DEF extent, ref
<1>p. PlacedAt(pl, by, ex, pl2, by2, ex2, id, priority, extent, ref)
  BY DEF extent, ref
<1>a. /\ DOMAIN pl2 = DOMAIN pl \cup {id}
      /\ \A i \in DOMAIN pl \ {id} : pl2[i] = pl[i]
      /\ DOMAIN pl2[id] = {"priority", "extent"}
      /\ pl2[id].priority = priority /\ pl2[id].extent = extent
  BY <1>p DEF PlacedAt
<1>b. /\ DOMAIN by2 = (DOMAIN by \ {pl[i].priority : i \in DOMAIN pl \cap {id}}) \cup {priority}
      /\ by2[priority] = ref
      /\ \A k \in DOMAIN by2 \ {priority} : by2[k] = by[k]
  BY <1>p DEF PlacedAt
<1>c. ex2 = (ex \ {pl[i].extent : i \in DOMAIN pl \cap {id}}) \cup {extent}
  BY <1>p DEF PlacedAt
<1>0. \A i, j \in DOMAIN pl : i # j => pl[i].priority # pl[j].priority /\ pl[i].extent # pl[j].extent
  BY PlacementsApart
<1>1. DOMAIN pl2 \subseteq DOMAIN maps2
  BY <1>a
<1>2. DOMAIN by2 = {pl2[i].priority : i \in DOMAIN pl2}
  <2>1. \A i \in DOMAIN pl2 : pl2[i].priority \in DOMAIN by2
    <3> SUFFICES ASSUME NEW i \in DOMAIN pl2 PROVE pl2[i].priority \in DOMAIN by2
      OBVIOUS
    <3>1. CASE i = id
      BY <3>1, <1>a, <1>b
    <3>2. CASE i # id
      BY <3>2, <1>0, <1>a, <1>b DEF Agree
    <3> QED BY <3>1, <3>2
  <2>2. \A k \in DOMAIN by2 : \E i \in DOMAIN pl2 : pl2[i].priority = k
    <3> SUFFICES ASSUME NEW k \in DOMAIN by2 PROVE \E i \in DOMAIN pl2 : pl2[i].priority = k
      OBVIOUS
    <3>1. CASE k = priority
      BY <3>1, <1>a
    <3>2. CASE k # priority
      <4>1. PICK i \in DOMAIN pl : pl[i].priority = k
        BY <3>2, <1>b DEF Agree
      <4> QED BY <3>2, <4>1, <1>a, <1>b
    <3> QED BY <3>1, <3>2
  <2> QED BY <2>1, <2>2
<1>3. ex2 = {pl2[i].extent : i \in DOMAIN pl2}
  <2>1. \A i \in DOMAIN pl2 : pl2[i].extent \in ex2
    BY <1>0, <1>a, <1>c DEF Agree
  <2>2. \A e \in ex2 : \E i \in DOMAIN pl2 : pl2[i].extent = e
    BY <1>a, <1>c DEF Agree
  <2> QED BY <2>1, <2>2
<1>4. \A i \in DOMAIN pl2 :
       /\ DOMAIN pl2[i] = {"priority", "extent"}
       /\ pl2[i].priority \in lo2..hi2
       /\ pl2[i].extent = Extent(i, maps2[i].start, maps2[i].size)
       /\ by2[pl2[i].priority] = RefOf(i, maps2[i])
  <2> SUFFICES ASSUME NEW i \in DOMAIN pl2, i # id
      PROVE  /\ DOMAIN pl2[i] = {"priority", "extent"}
             /\ pl2[i].priority \in lo2..hi2
             /\ pl2[i].extent = Extent(i, maps2[i].start, maps2[i].size)
             /\ by2[pl2[i].priority] = RefOf(i, maps2[i])
    BY <1>a, <1>b DEF extent, ref
  <2>1. i \in DOMAIN pl /\ pl2[i] = pl[i] /\ maps2[i] = maps[i] /\ pl[i].priority # priority
    BY <1>a
  <2>2. pl[i].priority \in DOMAIN by2
    BY <1>2, <2>1
  <2> QED BY <2>1, <2>2, <1>b DEF Agree
<1> QED BY <1>1, <1>2, <1>3, <1>4 DEF Agree

\* A mapping is taken out of the indexes.
LEMMA RemovedAgree ==
  ASSUME NEW pl, NEW by, NEW ex, NEW maps, NEW lo \in Int, NEW hi \in Int, Agree(pl, by, ex, maps, lo, hi),
         NEW id \in DOMAIN pl, NEW pl2, NEW by2, NEW ex2, NEW maps2,
         \A i \in DOMAIN pl \ {id} : i \in DOMAIN maps2 /\ maps2[i] = maps[i],
         DOMAIN pl2 = DOMAIN pl \ {id},
         \A i \in DOMAIN pl2 : pl2[i] = pl[i],
         DOMAIN by2 = DOMAIN by \ {pl[id].priority},
         \A k \in DOMAIN by2 : by2[k] = by[k],
         ex2 = ex \ {pl[id].extent}
  PROVE  Agree(pl2, by2, ex2, maps2, lo, hi)
<1>0. \A i, j \in DOMAIN pl : i # j => pl[i].priority # pl[j].priority /\ pl[i].extent # pl[j].extent
  BY PlacementsApart
<1>1. DOMAIN pl2 \subseteq DOMAIN maps2
  OBVIOUS
<1>2. DOMAIN by2 = {pl2[i].priority : i \in DOMAIN pl2}
  <2>1. \A i \in DOMAIN pl2 : pl2[i].priority \in DOMAIN by2
    BY <1>0 DEF Agree
  <2>2. \A k \in DOMAIN by2 : \E i \in DOMAIN pl2 : pl2[i].priority = k
    BY DEF Agree
  <2> QED BY <2>1, <2>2
<1>3. ex2 = {pl2[i].extent : i \in DOMAIN pl2}
  <2>1. \A i \in DOMAIN pl2 : pl2[i].extent \in ex2
    BY <1>0 DEF Agree
  <2>2. \A e \in ex2 : \E i \in DOMAIN pl2 : pl2[i].extent = e
    BY DEF Agree
  <2> QED BY <2>1, <2>2
<1>4. \A i \in DOMAIN pl2 :
       /\ DOMAIN pl2[i] = {"priority", "extent"}
       /\ pl2[i].priority \in lo..hi
       /\ pl2[i].extent = Extent(i, maps2[i].start, maps2[i].size)
       /\ by2[pl2[i].priority] = RefOf(i, maps2[i])
  BY <1>0 DEF Agree
<1> QED BY <1>1, <1>2, <1>3, <1>4 DEF Agree

\* Mappings that are not placed may change.
LEMMA UntouchedAgree ==
  ASSUME NEW pl, NEW by, NEW ex, NEW maps, NEW lo, NEW hi, Agree(pl, by, ex, maps, lo, hi),
         NEW maps2, \A i \in DOMAIN pl : i \in DOMAIN maps2 /\ maps2[i] = maps[i]
  PROVE  Agree(pl, by, ex, maps2, lo, hi)
  BY DEF Agree

\* A space whose indexes agree with the mappings.
SpaceFields == {"base", "submaps", "extents", "byPriority", "placements", "highest", "lowest", "revision"}
WellIndexed(sp, maps) ==
  /\ DOMAIN sp = SpaceFields
  /\ sp.lowest \in Int /\ sp.highest \in Int /\ sp.lowest <= sp.highest
  /\ Agree(sp.placements, sp.byPriority, sp.extents, maps, sp.lowest, sp.highest)

\* The mappings of a space other than one are the same in two storages.
OthersSame(sp, id, maps, maps2) ==
  \A i \in DOMAIN sp.placements \ {id} : i \in DOMAIN maps2 /\ maps2[i] = maps[i]

\* AddressSpace::new_with.
LEMMA EmptyIndexed ==
  ASSUME NEW base, NEW maps
  PROVE  WellIndexed(EmptySpace(base), maps)
  BY DEF WellIndexed, EmptySpace, NoEntries, Agree, SpaceFields

\* AddressSpace::rebuild_range changes what the space shows, not where mappings are placed.
LEMMA RebuiltKeeps ==
  ASSUME NEW sp, DOMAIN sp = SpaceFields, NEW maps, NEW lo, NEW hi
  PROVE  /\ DOMAIN Rebuilt(sp, maps, lo, hi) = SpaceFields
         /\ Rebuilt(sp, maps, lo, hi).placements = sp.placements
         /\ Rebuilt(sp, maps, lo, hi).byPriority = sp.byPriority
         /\ Rebuilt(sp, maps, lo, hi).extents = sp.extents
         /\ Rebuilt(sp, maps, lo, hi).lowest = sp.lowest
         /\ Rebuilt(sp, maps, lo, hi).highest = sp.highest
  BY DEF Rebuilt, SpaceFields

\* So the indexes still agree.
LEMMA RebuiltIndexed ==
  ASSUME NEW sp, NEW maps, WellIndexed(sp, maps), NEW shown, NEW lo, NEW hi
  PROVE  WellIndexed(Rebuilt(sp, shown, lo, hi), maps)
<1> DEFINE r == Rebuilt(sp, shown, lo, hi)
<1>1. /\ DOMAIN r = SpaceFields /\ r.placements = sp.placements /\ r.byPriority = sp.byPriority
      /\ r.extents = sp.extents /\ r.lowest = sp.lowest /\ r.highest = sp.highest
  BY RebuiltKeeps DEF WellIndexed
<1> HIDE DEF r
<1>2. WellIndexed(r, maps)
  BY <1>1 DEF WellIndexed
<1> QED BY <1>2 DEF r

\* Placement of a mapping, field by field.
LEMMA PlacementFields ==
  ASSUME NEW sp, DOMAIN sp = SpaceFields, NEW ref, NEW priority, NEW extent,
         NEW new, new = UpdateMappingPlacement(sp, ref, priority, extent)
  PROVE  /\ DOMAIN new = SpaceFields
         /\ new.lowest = sp.lowest /\ new.highest = sp.highest
         /\ DOMAIN new.placements = DOMAIN sp.placements \cup {ref.id}
         /\ new.placements[ref.id] = [priority |-> priority, extent |-> extent]
         /\ \A i \in DOMAIN sp.placements \ {ref.id} : new.placements[i] = sp.placements[i]
         /\ DOMAIN new.byPriority =
              (DOMAIN sp.byPriority \ {sp.placements[i].priority : i \in DOMAIN sp.placements \cap {ref.id}})
                \cup {priority}
         /\ new.byPriority[priority] = ref
         /\ \A k \in DOMAIN new.byPriority \ {priority} : new.byPriority[k] = sp.byPriority[k]
         /\ new.extents = (sp.extents \ {sp.placements[i].extent : i \in DOMAIN sp.placements \cap {ref.id}})
                            \cup {extent}
<1> DEFINE gone == {sp.placements[id] : id \in DOMAIN sp.placements \cap {ref.id}}
           before == {sp.placements[i].priority : i \in DOMAIN sp.placements \cap {ref.id}}
<1>1. {p.priority : p \in gone} = before
  OBVIOUS
<1>2. {p.extent : p \in gone} = {sp.placements[i].extent : i \in DOMAIN sp.placements \cap {ref.id}}
  OBVIOUS
<1>3. new = [sp EXCEPT
        !.byPriority = Assign(Without(sp.byPriority, {p.priority : p \in gone}), priority, ref),
        !.extents = (sp.extents \ {p.extent : p \in gone}) \cup {extent},
        !.placements = Assign(sp.placements, ref.id, [priority |-> priority, extent |-> extent])]
  BY DEF UpdateMappingPlacement
<1>4. /\ DOMAIN new = SpaceFields
      /\ new.lowest = sp.lowest /\ new.highest = sp.highest
      /\ new.byPriority = Assign(Without(sp.byPriority, {p.priority : p \in gone}), priority, ref)
      /\ new.extents = (sp.extents \ {p.extent : p \in gone}) \cup {extent}
      /\ new.placements = Assign(sp.placements, ref.id, [priority |-> priority, extent |-> extent])
  <2> HIDE DEF gone
  <2> QED BY <1>3 DEF SpaceFields
<1> HIDE DEF gone, before
<1>5. /\ DOMAIN new.placements = DOMAIN sp.placements \cup {ref.id}
      /\ new.placements[ref.id] = [priority |-> priority, extent |-> extent]
      /\ \A i \in DOMAIN sp.placements \ {ref.id} : new.placements[i] = sp.placements[i]
  BY <1>4 DEF Assign
<1>6. /\ DOMAIN new.byPriority = (DOMAIN sp.byPriority \ before) \cup {priority}
      /\ new.byPriority[priority] = ref
      /\ \A k \in DOMAIN new.byPriority \ {priority} : new.byPriority[k] = sp.byPriority[k]
  BY <1>1, <1>4 DEF Assign, Without
<1> QED BY <1>2, <1>4, <1>5, <1>6 DEF before

\* The same for a mapping of the storage: the indexes agree again.
LEMMA PlacementIndexed ==
  ASSUME NEW sp, NEW maps, WellIndexed(sp, maps), NEW id, NEW maps2, id \in DOMAIN maps2,
         OthersSame(sp, id, maps, maps2),
         NEW lo \in Int, NEW hi \in Int, lo <= sp.lowest, sp.highest <= hi, NEW priority \in lo..hi,
         \A i \in DOMAIN sp.placements \ {id} : sp.placements[i].priority # priority,
         NEW new,
         new = UpdateMappingPlacement(sp, RefOf(id, maps2[id]), priority, Extent(id, maps2[id].start, maps2[id].size))
  PROVE  /\ DOMAIN new = SpaceFields
         /\ new.lowest = sp.lowest /\ new.highest = sp.highest
         /\ Agree(new.placements, new.byPriority, new.extents, maps2, lo, hi)
<1> DEFINE ref == RefOf(id, maps2[id])
           extent == Extent(id, maps2[id].start, maps2[id].size)
<1>1. ref.id = id
  BY DEF RefOf
<1> HIDE DEF ref, extent
<1>2. DOMAIN sp = SpaceFields
  BY DEF WellIndexed
<1>3. new = UpdateMappingPlacement(sp, ref, priority, extent)
  BY DEF ref, extent
<1>4. /\ DOMAIN new = SpaceFields
      /\ new.lowest = sp.lowest /\ new.highest = sp.highest
      /\ DOMAIN new.placements = DOMAIN sp.placements \cup {id}
      /\ new.placements[id] = [priority |-> priority, extent |-> extent]
      /\ \A i \in DOMAIN sp.placements \ {id} : new.placements[i] = sp.placements[i]
      /\ DOMAIN new.byPriority =
           (DOMAIN sp.byPriority \ {sp.placements[i].priority : i \in DOMAIN sp.placements \cap {id}})
             \cup {priority}
      /\ new.byPriority[priority] = ref
      /\ \A k \in DOMAIN new.byPriority \ {priority} : new.byPriority[k] = sp.byPriority[k]
      /\ new.extents = (sp.extents \ {sp.placements[i].extent : i \in DOMAIN sp.placements \cap {id}})
                         \cup {extent}
  BY <1>1, <1>2, <1>3, PlacementFields
<1>5. /\ DOMAIN new.placements[id] = {"priority", "extent"}
      /\ new.placements[id].priority = priority /\ new.placements[id].extent = extent
  BY <1>4
<1>6. sp.lowest \in Int /\ sp.highest \in Int
      /\ Agree(sp.placements, sp.byPriority, sp.extents, maps, sp.lowest, sp.highest)
  BY DEF WellIndexed
<1>7. \A i \in DOMAIN sp.placements \ {id} :
        i \in DOMAIN maps2 /\ maps2[i] = maps[i] /\ sp.placements[i].priority # priority
  BY DEF OthersSame
<1>8. Agree(new.placements, new.byPriority, new.extents, maps2, lo, hi)
  <2>1. PlacedAt(sp.placements, sp.byPriority, sp.extents, new.placements, new.byPriority, new.extents,
                 id, priority, extent, ref)
    BY <1>4, <1>5 DEF PlacedAt
  <2> QED BY <1>6, <1>7, <2>1, PlacedAgree DEF extent, ref
<1> QED BY <1>4, <1>8

\* AddressSpace::add_mapping_top: above everything there is.
LEMMA TopIndexed ==
  ASSUME NEW sp, NEW maps, WellIndexed(sp, maps), NEW id, NEW maps2, id \in DOMAIN maps2,
         OthersSame(sp, id, maps, maps2)
  PROVE  WellIndexed(AddMappingTop(sp, RefOf(id, maps2[id]), Extent(id, maps2[id].start, maps2[id].size)), maps2)
<1> DEFINE ref == RefOf(id, maps2[id])
           extent == Extent(id, maps2[id].start, maps2[id].size)
           placed == UpdateMappingPlacement(sp, ref, sp.highest + 1, extent)
           new == AddMappingTop(sp, ref, extent)
<1>1. /\ sp.lowest \in Int /\ sp.highest \in Int /\ sp.lowest <= sp.highest
      /\ \A i \in DOMAIN sp.placements : sp.placements[i].priority \in sp.lowest..sp.highest
  BY DEF WellIndexed, Agree
<1>2. /\ sp.highest + 1 \in Int /\ sp.highest + 1 \in sp.lowest..(sp.highest + 1)
      /\ sp.lowest <= sp.lowest /\ sp.highest <= sp.highest + 1
      /\ \A i \in DOMAIN sp.placements \ {id} : sp.placements[i].priority # sp.highest + 1
  BY <1>1
<1>3. /\ DOMAIN placed = SpaceFields
      /\ placed.lowest = sp.lowest /\ placed.highest = sp.highest
      /\ Agree(placed.placements, placed.byPriority, placed.extents, maps2, sp.lowest, sp.highest + 1)
  BY <1>1, <1>2, PlacementIndexed
<1>4. new = [placed EXCEPT !.highest = placed.highest + 1, !.revision = placed.revision + 1,
                           !.submaps = InsertSubmapTop(placed.submaps, ref, extent.lo, extent.hi)]
  BY DEF AddMappingTop
<1> HIDE DEF placed, new, ref, extent
<1>5. /\ DOMAIN new = SpaceFields
      /\ new.placements = placed.placements /\ new.byPriority = placed.byPriority
      /\ new.extents = placed.extents /\ new.lowest = placed.lowest /\ new.highest = placed.highest + 1
  BY <1>3, <1>4 DEF SpaceFields
<1>6. WellIndexed(new, maps2)
  BY <1>1, <1>3, <1>5 DEF WellIndexed
<1> QED BY <1>6 DEF new, ref, extent

\* AddressSpace::add_mapping_bottom: below everything there is.
LEMMA BottomIndexed ==
  ASSUME NEW sp, NEW maps, WellIndexed(sp, maps), NEW id, NEW maps2, id \in DOMAIN maps2,
         OthersSame(sp, id, maps, maps2)
  PROVE  WellIndexed(AddMappingBottom(sp, RefOf(id, maps2[id]), Extent(id, maps2[id].start, maps2[id].size)), maps2)
<1> DEFINE ref == RefOf(id, maps2[id])
           extent == Extent(id, maps2[id].start, maps2[id].size)
           placed == UpdateMappingPlacement(sp, ref, sp.lowest - 1, extent)
           new == AddMappingBottom(sp, ref, extent)
           shown == placed.submaps \cup {[lo |-> g.lo, hi |-> g.hi, ref |-> ref] : g \in Gaps(placed.submaps, extent.lo, extent.hi)}
<1>1. /\ sp.lowest \in Int /\ sp.highest \in Int /\ sp.lowest <= sp.highest
      /\ \A i \in DOMAIN sp.placements : sp.placements[i].priority \in sp.lowest..sp.highest
  BY DEF WellIndexed, Agree
<1>2. /\ sp.lowest - 1 \in Int /\ sp.lowest - 1 \in (sp.lowest - 1)..sp.highest
      /\ sp.lowest - 1 <= sp.lowest /\ sp.highest <= sp.highest
      /\ \A i \in DOMAIN sp.placements \ {id} : sp.placements[i].priority # sp.lowest - 1
  BY <1>1
<1>3. /\ DOMAIN placed = SpaceFields
      /\ placed.lowest = sp.lowest /\ placed.highest = sp.highest
      /\ Agree(placed.placements, placed.byPriority, placed.extents, maps2, sp.lowest - 1, sp.highest)
  BY <1>1, <1>2, PlacementIndexed
<1>4. new = [placed EXCEPT !.lowest = placed.lowest - 1, !.revision = placed.revision + 1, !.submaps = shown]
  BY DEF AddMappingBottom
<1> HIDE DEF placed, new, ref, extent, shown
<1>5. /\ DOMAIN new = SpaceFields
      /\ new.placements = placed.placements /\ new.byPriority = placed.byPriority
      /\ new.extents = placed.extents /\ new.lowest = placed.lowest - 1 /\ new.highest = placed.highest
  BY <1>3, <1>4 DEF SpaceFields
<1>6. WellIndexed(new, maps2)
  BY <1>1, <1>3, <1>5 DEF WellIndexed
<1> QED BY <1>6 DEF new, ref, extent

\* AddressSpace::update_mapping_ref: the mapping keeps its priority.
LEMMA RefIndexed ==
  ASSUME NEW sp, NEW maps, WellIndexed(sp, maps), NEW id \in DOMAIN sp.placements, NEW maps2, id \in DOMAIN maps2,
         OthersSame(sp, id, maps, maps2)
  PROVE  WellIndexed(UpdateMappingRef(sp, RefOf(id, maps2[id]), Extent(id, maps2[id].start, maps2[id].size)), maps2)
<1> DEFINE ref == RefOf(id, maps2[id])
           extent == Extent(id, maps2[id].start, maps2[id].size)
           priority == sp.placements[id].priority
           placed == UpdateMappingPlacement(sp, ref, priority, extent)
           new == UpdateMappingRef(sp, ref, extent)
<1>1. /\ sp.lowest \in Int /\ sp.highest \in Int /\ sp.lowest <= sp.highest
      /\ priority \in sp.lowest..sp.highest
      /\ Agree(sp.placements, sp.byPriority, sp.extents, maps, sp.lowest, sp.highest)
  BY DEF WellIndexed, Agree
<1>2. \A i \in DOMAIN sp.placements \ {id} : sp.placements[i].priority # priority
  BY <1>1, PlacementsApart
<1>3. /\ DOMAIN placed = SpaceFields
      /\ placed.lowest = sp.lowest /\ placed.highest = sp.highest
      /\ Agree(placed.placements, placed.byPriority, placed.extents, maps2, sp.lowest, sp.highest)
  <2> HIDE DEF priority
  <2>1. sp.lowest <= sp.lowest /\ sp.highest <= sp.highest
    BY <1>1
  <2> QED BY <1>1, <1>2, <2>1, PlacementIndexed
<1>4. new = [placed EXCEPT !.revision = placed.revision + 1]
  <2>1. ref.id = id
    BY DEF RefOf
  <2> HIDE DEF ref
  <2> QED BY <2>1 DEF UpdateMappingRef
<1> HIDE DEF placed, new, ref, extent
<1>5. /\ DOMAIN new = SpaceFields
      /\ new.placements = placed.placements /\ new.byPriority = placed.byPriority
      /\ new.extents = placed.extents /\ new.lowest = placed.lowest /\ new.highest = placed.highest
  BY <1>3, <1>4 DEF SpaceFields
<1>6. WellIndexed(new, maps2)
  BY <1>1, <1>3, <1>5 DEF WellIndexed
<1> QED BY <1>6 DEF new, ref, extent

\* AddressSpace::deprioritise.
LEMMA LoweredIndexed ==
  ASSUME NEW sp, NEW maps, WellIndexed(sp, maps), NEW id \in DOMAIN sp.placements
  PROVE  WellIndexed(Deprioritise(sp, id), maps)
<1> DEFINE old == sp.placements[id].priority
           low == sp.lowest - 1
           by2 == Assign(Without(sp.byPriority, {old}), low, sp.byPriority[old])
           pl2 == [sp.placements EXCEPT ![id] = [sp.placements[id] EXCEPT !.priority = low]]
           new == Deprioritise(sp, id)
<1>1. /\ sp.lowest \in Int /\ sp.highest \in Int /\ sp.lowest <= sp.highest
      /\ \A i \in DOMAIN sp.placements : sp.placements[i].priority \in sp.lowest..sp.highest
      /\ DOMAIN sp.placements \subseteq DOMAIN maps
      /\ Agree(sp.placements, sp.byPriority, sp.extents, maps, sp.lowest, sp.highest)
      /\ DOMAIN sp = SpaceFields
  BY DEF WellIndexed, Agree
<1>2. /\ low \in Int /\ low \in low..sp.highest /\ low <= sp.lowest /\ sp.highest <= sp.highest
      /\ \A i \in DOMAIN sp.placements \ {id} : sp.placements[i].priority # low
  BY <1>1
<1>3. /\ DOMAIN sp.placements[id] = {"priority", "extent"}
      /\ sp.placements[id].extent = Extent(id, maps[id].start, maps[id].size)
      /\ sp.placements[id].extent \in sp.extents
      /\ sp.byPriority[old] = RefOf(id, maps[id])
  BY <1>1 DEF Agree
<1>4. new = [sp EXCEPT !.byPriority = by2, !.placements = pl2, !.lowest = low, !.revision = sp.revision + 1]
  BY DEF Deprioritise
<1> HIDE DEF low, by2, pl2, new
<1>5. /\ DOMAIN new = SpaceFields
      /\ new.placements = pl2 /\ new.byPriority = by2 /\ new.extents = sp.extents
      /\ new.lowest = low /\ new.highest = sp.highest
  BY <1>1, <1>4 DEF SpaceFields
<1>6. PlacedAt(sp.placements, sp.byPriority, sp.extents, pl2, by2, sp.extents, id, low,
               Extent(id, maps[id].start, maps[id].size), RefOf(id, maps[id]))
  <2>1. /\ DOMAIN pl2 = DOMAIN sp.placements \cup {id}
        /\ \A i \in DOMAIN sp.placements \ {id} : pl2[i] = sp.placements[i]
        /\ DOMAIN pl2[id] = {"priority", "extent"}
        /\ pl2[id].priority = low /\ pl2[id].extent = sp.placements[id].extent
    BY <1>3 DEF pl2
  <2>2. {sp.placements[i].priority : i \in DOMAIN sp.placements \cap {id}} = {old}
    OBVIOUS
  <2>3. /\ DOMAIN by2 = (DOMAIN sp.byPriority \ {old}) \cup {low}
        /\ by2[low] = sp.byPriority[old]
        /\ \A k \in DOMAIN by2 \ {low} : by2[k] = sp.byPriority[k]
    <3> HIDE DEF old
    <3> QED BY DEF by2, Assign, Without
  <2>4. sp.extents = (sp.extents \ {sp.placements[i].extent : i \in DOMAIN sp.placements \cap {id}})
                       \cup {sp.placements[id].extent}
    BY <1>3
  <2> QED BY <1>3, <2>1, <2>2, <2>3, <2>4 DEF PlacedAt
<1>7. Agree(pl2, by2, sp.extents, maps, low, sp.highest)
  <2>1. \A i \in DOMAIN sp.placements \ {id} :
          i \in DOMAIN maps /\ maps[i] = maps[i] /\ sp.placements[i].priority # low
    BY <1>1, <1>2
  <2>2. id \in DOMAIN maps
    BY <1>1
  <2> QED BY <1>1, <1>2, <1>6, <2>1, <2>2, PlacedAgree
<1>8. low <= sp.highest
  BY <1>1, <1>2
<1>9. WellIndexed(new, maps)
  BY <1>1, <1>2, <1>5, <1>7, <1>8 DEF WellIndexed
<1> QED BY <1>9 DEF new

\* AddressSpace::remove_mapping_ref.
LEMMA RefRemoved ==
  ASSUME NEW sp, NEW maps, WellIndexed(sp, maps), NEW id \in DOMAIN sp.placements, NEW maps2,
         OthersSame(sp, id, maps, maps2)
  PROVE  WellIndexed(RemoveMappingRef(sp, id), maps2)
<1> DEFINE old == sp.placements[id].priority
           by2 == Without(sp.byPriority, {old})
           ex2 == sp.extents \ {sp.placements[id].extent}
           pl2 == Without(sp.placements, {id})
           new == RemoveMappingRef(sp, id)
<1>1. /\ sp.lowest \in Int /\ sp.highest \in Int /\ sp.lowest <= sp.highest
      /\ Agree(sp.placements, sp.byPriority, sp.extents, maps, sp.lowest, sp.highest)
      /\ DOMAIN sp = SpaceFields
  BY DEF WellIndexed
<1>2. new = [sp EXCEPT !.byPriority = by2, !.extents = ex2, !.placements = pl2]
  BY DEF RemoveMappingRef
<1>3. DOMAIN pl2 = DOMAIN sp.placements \ {id} /\ \A i \in DOMAIN pl2 : pl2[i] = sp.placements[i]
  BY DEF Without
<1>4. DOMAIN by2 = DOMAIN sp.byPriority \ {old} /\ \A k \in DOMAIN by2 : by2[k] = sp.byPriority[k]
  <2> HIDE DEF old
  <2> QED BY DEF Without
<1>5. \A i \in DOMAIN sp.placements \ {id} : i \in DOMAIN maps2 /\ maps2[i] = maps[i]
  BY DEF OthersSame
<1>e. ex2 = sp.extents \ {sp.placements[id].extent}
  OBVIOUS
<1> HIDE DEF by2, pl2, new, ex2
<1>6. Agree(pl2, by2, ex2, maps2, sp.lowest, sp.highest)
  BY <1>1, <1>3, <1>4, <1>5, <1>e, RemovedAgree, SMTT(30)
<1>7. /\ DOMAIN new = SpaceFields
      /\ new.placements = pl2 /\ new.byPriority = by2 /\ new.extents = ex2
      /\ new.lowest = sp.lowest /\ new.highest = sp.highest
  BY <1>1, <1>2 DEF SpaceFields
<1>8. WellIndexed(new, maps2)
  BY <1>1, <1>6, <1>7 DEF WellIndexed
<1> QED BY <1>8 DEF new

\* SegmentStorage::update_mapping_in_space.
LEMMA UpdatedIndexed ==
  ASSUME NEW sp, NEW maps, WellIndexed(sp, maps), NEW id \in DOMAIN sp.placements, NEW maps2, id \in DOMAIN maps2,
         OthersSame(sp, id, maps, maps2), NEW old
  PROVE  WellIndexed(UpdateMappingInSpace(sp, maps2, id, old), maps2)
  BY RefIndexed, RebuiltIndexed DEF UpdateMappingInSpace

\* SegmentStorage::remove_mapping_from_space.
LEMMA SpaceRemoved ==
  ASSUME NEW sp, NEW maps, WellIndexed(sp, maps), NEW id \in DOMAIN sp.placements, NEW maps2,
         OthersSame(sp, id, maps, maps2)
  PROVE  WellIndexed(RemoveMappingFromSpace(sp, maps, id), maps2)
  BY RefRemoved, RebuiltIndexed DEF RemoveMappingFromSpace

\* A mapping put at either end.
LEMMA AddedIndexed ==
  ASSUME NEW sp, NEW maps, WellIndexed(sp, maps), NEW id, NEW maps2, id \in DOMAIN maps2,
         OthersSame(sp, id, maps, maps2), NEW end
  PROVE  WellIndexed(AddedAt(sp, RefOf(id, maps2[id]), Extent(id, maps2[id].start, maps2[id].size), end), maps2)
  BY TopIndexed, BottomIndexed DEF AddedAt

\* A space that the mapping is not in.
LEMMA UntouchedIndexed ==
  ASSUME NEW sp, NEW maps, WellIndexed(sp, maps), NEW id, id \notin DOMAIN sp.placements, NEW maps2,
         OthersSame(sp, id, maps, maps2)
  PROVE  WellIndexed(sp, maps2)
  BY UntouchedAgree DEF WellIndexed, OthersSame

-----------------------------------------------------------------------------
(* AddressSpaces: the indexes of every space of the storage. *)

AllIndexed(sps, maps) == \A s \in DOMAIN sps : WellIndexed(sps[s], maps)

\* A placement is of a mapping that there is.
LEMMA PlacedKnown ==
  ASSUME NEW sps, NEW maps, AllIndexed(sps, maps), NEW s \in DOMAIN sps
  PROVE  WellIndexed(sps[s], maps) /\ DOMAIN sps[s].placements \subseteq DOMAIN maps
  BY DEF AllIndexed, WellIndexed, Agree

\* A mapping with a new id leaves the spaces alone.
LEMMA NewMappingIndexed ==
  ASSUME NEW sps, NEW maps, AllIndexed(sps, maps), NEW id, id \notin DOMAIN maps, NEW m
  PROVE  AllIndexed(sps, Assign(maps, id, m))
<1> DEFINE maps2 == Assign(maps, id, m)
<1>1. \A i \in DOMAIN maps : i \in DOMAIN maps2 /\ maps2[i] = maps[i]
  BY DEF Assign
<1> HIDE DEF maps2
<1>2. ASSUME NEW s \in DOMAIN sps PROVE WellIndexed(sps[s], maps2)
  <2>1. WellIndexed(sps[s], maps) /\ DOMAIN sps[s].placements \subseteq DOMAIN maps
    BY PlacedKnown
  <2>2. OthersSame(sps[s], id, maps, maps2) /\ id \notin DOMAIN sps[s].placements
    BY <1>1, <2>1 DEF OthersSame
  <2> QED BY <2>1, <2>2, UntouchedIndexed
<1>3. AllIndexed(sps, maps2)
  BY <1>2 DEF AllIndexed
<1> QED BY <1>3 DEF maps2

\* A mapping put at an end of one space.
LEMMA AddedAllIndexed ==
  ASSUME NEW sps, NEW maps, AllIndexed(sps, maps), NEW id \in DOMAIN maps, NEW s, NEW end
  PROVE  AllIndexed([sps EXCEPT ![s] = AddedAt(@, RefOf(id, maps[id]), Extent(id, maps[id].start, maps[id].size), end)], maps)
<1> DEFINE new == AddedAt(sps[s], RefOf(id, maps[id]), Extent(id, maps[id].start, maps[id].size), end)
           sps2 == [sps EXCEPT ![s] = new]
<1>1. s \in DOMAIN sps => WellIndexed(new, maps)
  <2> SUFFICES ASSUME s \in DOMAIN sps PROVE WellIndexed(new, maps)
    OBVIOUS
  <2>1. WellIndexed(sps[s], maps) /\ DOMAIN sps[s].placements \subseteq DOMAIN maps
    BY PlacedKnown
  <2>2. OthersSame(sps[s], id, maps, maps)
    BY <2>1 DEF OthersSame
  <2> QED BY <2>1, <2>2, AddedIndexed
<1> HIDE DEF new
<1>2. AllIndexed(sps2, maps)
  BY <1>1 DEF AllIndexed
<1> QED BY <1>2 DEF new

\* A mapping is altered, and updated where it is placed.
Altered(sps, sps2, maps, maps2, id, old) ==
  /\ DOMAIN maps2 = DOMAIN maps /\ \A i \in DOMAIN maps \ {id} : maps2[i] = maps[i]
  /\ DOMAIN sps2 = DOMAIN sps
  /\ \A s \in DOMAIN sps : sps2[s] = IF id \in DOMAIN sps[s].placements
                                      THEN UpdateMappingInSpace(sps[s], maps2, id, old) ELSE sps[s]

\* The spaces agree with the mappings again.
LEMMA AlteredAllIndexed ==
  ASSUME NEW sps, NEW maps, AllIndexed(sps, maps), NEW id \in DOMAIN maps, NEW old,
         NEW maps2, NEW sps2, Altered(sps, sps2, maps, maps2, id, old)
  PROVE  AllIndexed(sps2, maps2)
<1> SUFFICES ASSUME NEW s \in DOMAIN sps PROVE WellIndexed(sps2[s], maps2)
  BY DEF AllIndexed, Altered
<1>1. WellIndexed(sps[s], maps) /\ DOMAIN sps[s].placements \subseteq DOMAIN maps
  BY PlacedKnown
<1>2. id \in DOMAIN maps2
  BY DEF Altered
<1>3. OthersSame(sps[s], id, maps, maps2)
  BY <1>1 DEF OthersSame, Altered
<1>4. CASE id \in DOMAIN sps[s].placements
  <2>1. WellIndexed(UpdateMappingInSpace(sps[s], maps2, id, old), maps2)
    BY <1>1, <1>2, <1>3, <1>4, UpdatedIndexed
  <2>2. sps2[s] = UpdateMappingInSpace(sps[s], maps2, id, old)
    BY <1>4 DEF Altered
  <2> QED BY <2>1, <2>2
<1>5. CASE id \notin DOMAIN sps[s].placements
  <2>1. WellIndexed(sps[s], maps2)
    BY <1>1, <1>3, <1>5, UntouchedIndexed
  <2>2. sps2[s] = sps[s]
    BY <1>5 DEF Altered
  <2> QED BY <2>1, <2>2
<1> QED BY <1>4, <1>5

\* A mapping is removed from every space and from the storage.
LEMMA DroppedAllIndexed ==
  ASSUME NEW sps, NEW maps, AllIndexed(sps, maps), NEW id \in DOMAIN maps,
         NEW maps2, maps2 = Without(maps, {id}),
         NEW sps2, DOMAIN sps2 = DOMAIN sps,
         \A s \in DOMAIN sps : sps2[s] = IF id \in DOMAIN sps[s].placements
                                         THEN RemoveMappingFromSpace(sps[s], maps, id) ELSE sps[s]
  PROVE  AllIndexed(sps2, maps2)
<1> SUFFICES ASSUME NEW s \in DOMAIN sps PROVE WellIndexed(sps2[s], maps2)
  BY DEF AllIndexed
<1>1. WellIndexed(sps[s], maps) /\ DOMAIN sps[s].placements \subseteq DOMAIN maps
  BY PlacedKnown
<1>3. OthersSame(sps[s], id, maps, maps2)
  BY <1>1 DEF OthersSame, Without
<1>4. CASE id \in DOMAIN sps[s].placements
  <2>1. WellIndexed(RemoveMappingFromSpace(sps[s], maps, id), maps2)
    BY <1>1, <1>3, <1>4, SpaceRemoved
  <2>2. sps2[s] = RemoveMappingFromSpace(sps[s], maps, id)
    BY <1>4
  <2> QED BY <2>1, <2>2
<1>5. CASE id \notin DOMAIN sps[s].placements
  <2>1. WellIndexed(sps[s], maps2)
    BY <1>1, <1>3, <1>5, UntouchedIndexed
  <2>2. sps2[s] = sps[s]
    BY <1>5
  <2> QED BY <2>1, <2>2
<1> QED BY <1>4, <1>5

\* prioritise_mapping and deprioritise_mapping.
LEMMA MovedAllIndexed ==
  ASSUME NEW sps, NEW maps, AllIndexed(sps, maps), NEW s \in DOMAIN sps, NEW id \in DOMAIN sps[s].placements,
         NEW lo, NEW hi, NEW end
  PROVE  AllIndexed([sps EXCEPT ![s] =
           IF end = "top" THEN AddMappingTop(@, RefOf(id, maps[id]), Extent(id, maps[id].start, maps[id].size))
           ELSE Rebuilt(Deprioritise(@, id), maps, lo, hi)], maps)
<1> DEFINE new == IF end = "top" THEN AddMappingTop(sps[s], RefOf(id, maps[id]), Extent(id, maps[id].start, maps[id].size))
                  ELSE Rebuilt(Deprioritise(sps[s], id), maps, lo, hi)
           sps2 == [sps EXCEPT ![s] = new]
<1>0. WellIndexed(sps[s], maps) /\ DOMAIN sps[s].placements \subseteq DOMAIN maps
  BY PlacedKnown
<1>1. OthersSame(sps[s], id, maps, maps) /\ id \in DOMAIN maps
  BY <1>0 DEF OthersSame
<1>2. WellIndexed(AddMappingTop(sps[s], RefOf(id, maps[id]), Extent(id, maps[id].start, maps[id].size)), maps)
  BY <1>0, <1>1, TopIndexed
<1>3. WellIndexed(Rebuilt(Deprioritise(sps[s], id), maps, lo, hi), maps)
  BY <1>0, LoweredIndexed, RebuiltIndexed
<1>4. WellIndexed(new, maps)
  BY <1>2, <1>3
<1> HIDE DEF new
<1>5. AllIndexed(sps2, maps)
  BY <1>4 DEF AllIndexed
<1> QED BY <1>5 DEF new

-----------------------------------------------------------------------------
(* AddressSpaces: the inductive invariant. *)

\* A mapping as the storage keeps it.
MappingFields == {"space", "start", "size", "offset", "provider", "meta", "writable", "revision"}
MappingOK(m) ==
  /\ DOMAIN m = MappingFields
  /\ m.start \in Nat /\ m.size \in Nat /\ m.offset \in Nat

\* Mappings are numbered from zero, and the segments still to be loaded are mappings too.
MapsOK(maps, ctr) ==
  /\ ctr \in Nat
  /\ \A id \in DOMAIN maps : id \in Nat /\ id < ctr /\ MappingOK(maps[id])

SegmentsInv ==
  /\ MapsOK(mappings, mappingCtr)
  /\ loading \in Seq(Mapping)
  /\ AllIndexed(spaces, mappings)

\* SegmentMapping::from_builder.
LEMMA BuiltOK ==
  ASSUME NEW b \in Mapping
  PROVE  MappingOK(FromBuilder(b))
  BY SegmentAssumption DEF MappingOK, FromBuilder, MappingFields, Mapping, Addr

\* A new mapping takes the counter, or an id below it.
LEMMA StoredOK ==
  ASSUME NEW maps, NEW ctr, MapsOK(maps, ctr), NEW m, MappingOK(m)
  PROVE  ctr \notin DOMAIN maps /\ MapsOK(Assign(maps, ctr, m), ctr + 1)
  BY DEF MapsOK, Assign

\* A mapping is altered.
LEMMA AlteredOK ==
  ASSUME NEW maps, NEW ctr, MapsOK(maps, ctr), NEW id \in DOMAIN maps, NEW m, MappingOK(m)
  PROVE  MapsOK([maps EXCEPT ![id] = m], ctr)
  BY DEF MapsOK

\* A mapping is removed.
LEMMA DroppedOK ==
  ASSUME NEW maps, NEW ctr, MapsOK(maps, ctr), NEW gone
  PROVE  MapsOK(Without(maps, gone), ctr)
  BY DEF MapsOK, Without

\* The larger of two numbers.
LEMMA LargerOfTwo ==
  ASSUME NEW a \in Nat, NEW b \in Nat
  PROVE  Max({a, b}) = IF a >= b THEN a ELSE b
  BY DEF Max

\* An empty storage and an image to load.
LEMMA SegmentsInitInv == SegmentsInit => SegmentsInv
<1> SUFFICES ASSUME SegmentsInit PROVE SegmentsInv
  OBVIOUS
<1>1. MapsOK(mappings, mappingCtr)
  BY DEF SegmentsInit, NoEntries, MapsOK
<1>2. loading \in Seq(Mapping)
  BY SegmentAssumption DEF SegmentsInit
<1>3. AllIndexed(spaces, mappings)
  BY EmptyIndexed DEF SegmentsInit, AllIndexed
<1> QED BY <1>1, <1>2, <1>3 DEF SegmentsInv

\* from_loadable.
LEMMA LoadSegmentKeeps ==
  ASSUME SegmentsInv, LoadSegment
  PROVE  SegmentsInv'
<1> DEFINE m == FromBuilder(Head(loading))
<1>1. Head(loading) \in Mapping /\ loading' \in Seq(Mapping)
  BY DEF SegmentsInv, LoadSegment
<1>2. MappingOK(m)
  BY <1>1, BuiltOK
<1>3. /\ mappings' = Assign(mappings, mappingCtr, m) /\ mappingCtr' = mappingCtr + 1
      /\ spaces' = [spaces EXCEPT ![m.space] =
             AddedAt(@, RefOf(mappingCtr, m), Extent(mappingCtr, m.start, m.size), DefaultEnd(m.meta))]
  BY DEF LoadSegment
<1> HIDE DEF m
<1>4. MapsOK(mappings, mappingCtr) /\ AllIndexed(spaces, mappings)
  BY DEF SegmentsInv
<1>5. mappingCtr \notin DOMAIN mappings /\ MapsOK(mappings', mappingCtr')
  BY <1>2, <1>3, <1>4, StoredOK
<1>6. AllIndexed(spaces, mappings')
  BY <1>3, <1>4, <1>5, NewMappingIndexed
<1>7. mappingCtr \in DOMAIN mappings' /\ mappings'[mappingCtr] = m
  BY <1>3 DEF Assign
<1>8. AllIndexed(spaces', mappings')
  BY <1>3, <1>6, <1>7, AddedAllIndexed
<1> QED BY <1>1, <1>5, <1>8 DEF SegmentsInv

\* create_synthetic_mapping.
LEMMA SyntheticKeeps ==
  ASSUME SegmentsInv, NEW s \in DOMAIN spaces, NEW a \in Addr, NEW data \in Data, CreateSyntheticMapping(s, a, data),
         SyntheticOffset \in Nat
  PROVE  SegmentsInv'
<1> DEFINE m == [space |-> s, start |-> a, size |-> Len(data), offset |-> SyntheticOffset,
                 provider |-> SyntheticProvider, meta |-> Synthetic, writable |-> TRUE, revision |-> 0]
<1>1. /\ mappings' = Assign(mappings, mappingCtr, m) /\ mappingCtr' = mappingCtr + 1
      /\ spaces' = [spaces EXCEPT ![s] =
             AddedAt(@, RefOf(mappingCtr, m), Extent(mappingCtr, a, Len(data)), DefaultEnd(Synthetic))]
      /\ loading' = loading
  BY DEF CreateSyntheticMapping, Edit, Operation
<1>2. MappingOK(m) /\ m.start = a /\ m.size = Len(data)
  BY SegmentAssumption DEF MappingOK, MappingFields, Addr
<1> HIDE DEF m
<1>4. MapsOK(mappings, mappingCtr) /\ AllIndexed(spaces, mappings)
  BY DEF SegmentsInv
<1>5. mappingCtr \notin DOMAIN mappings /\ MapsOK(mappings', mappingCtr')
  BY <1>1, <1>2, <1>4, StoredOK
<1>6. AllIndexed(spaces, mappings')
  BY <1>1, <1>4, <1>5, NewMappingIndexed
<1>7. mappingCtr \in DOMAIN mappings' /\ mappings'[mappingCtr] = m
  BY <1>1 DEF Assign
<1>8. AllIndexed(spaces', mappings')
  BY <1>1, <1>2, <1>6, <1>7, AddedAllIndexed
<1> QED BY <1>1, <1>5, <1>8 DEF SegmentsInv

\* create_mapping_with_id, for the id that the counter says.
LEMMA StoreMappingKeeps ==
  ASSUME SegmentsInv, NEW b \in Builder, CreateMapping(b)
  PROVE  SegmentsInv'
<1>1. /\ mappings' = Assign(mappings, mappingCtr, FromBuilder(b)) /\ mappingCtr' = Max({mappingCtr, mappingCtr + 1})
      /\ spaces' = spaces /\ loading' = loading
  BY DEF CreateMapping, StoreMapping, Edit, Operation
<1>2. MappingOK(FromBuilder(b))
  BY SegmentAssumption, BuiltOK
<1>4. MapsOK(mappings, mappingCtr) /\ AllIndexed(spaces, mappings)
  BY DEF SegmentsInv
<1>3. mappingCtr' = mappingCtr + 1
  BY <1>1, <1>4, LargerOfTwo DEF MapsOK
<1>5. mappingCtr \notin DOMAIN mappings /\ MapsOK(mappings', mappingCtr')
  BY <1>1, <1>2, <1>3, <1>4, StoredOK
<1>6. AllIndexed(spaces, mappings')
  BY <1>1, <1>4, <1>5, NewMappingIndexed
<1> QED BY <1>1, <1>5, <1>6 DEF SegmentsInv

\* remap_mapping, resize_mapping, update_mapping_metadata.
LEMMA AlterMappingKeeps ==
  ASSUME SegmentsInv, NEW id \in DOMAIN mappings, NEW m, MappingOK(m), Edit, AlterMapping(id, m)
  PROVE  SegmentsInv'
<1> DEFINE new == [m EXCEPT !.revision = @ + 1]
<1>1. MappingOK(new)
  BY DEF MappingOK, MappingFields
<1>2. /\ mappings' = [mappings EXCEPT ![id] = new] /\ mappingCtr' = mappingCtr /\ loading' = loading
      /\ DOMAIN spaces' = DOMAIN spaces
      /\ \A s \in DOMAIN spaces : spaces'[s] =
           IF id \in DOMAIN spaces[s].placements
           THEN UpdateMappingInSpace(spaces[s], mappings', id, mappings[id]) ELSE spaces[s]
  BY DEF AlterMapping, Placed, Edit, Operation
<1> HIDE DEF new
<1>3. MapsOK(mappings, mappingCtr) /\ AllIndexed(spaces, mappings)
  BY DEF SegmentsInv
<1>4. MapsOK(mappings', mappingCtr')
  BY <1>1, <1>2, <1>3, AlteredOK
<1>5. AllIndexed(spaces', mappings')
  <2>1. Altered(spaces, spaces', mappings, mappings', id, mappings[id])
    BY <1>2 DEF Altered
  <2> QED BY <1>3, <2>1, AlteredAllIndexed
<1> QED BY <1>2, <1>4, <1>5 DEF SegmentsInv

\* remove_mapping.
LEMMA DropMappingKeeps ==
  ASSUME SegmentsInv, NEW id \in DOMAIN mappings, DropMapping(id), UNCHANGED loading
  PROVE  SegmentsInv'
<1>2. /\ mappings' = Without(mappings, {id}) /\ mappingCtr' = mappingCtr /\ loading' = loading
      /\ DOMAIN spaces' = DOMAIN spaces
      /\ \A s \in DOMAIN spaces : spaces'[s] =
           IF id \in DOMAIN spaces[s].placements
           THEN RemoveMappingFromSpace(spaces[s], mappings, id) ELSE spaces[s]
  BY DEF DropMapping, Placed
<1>3. MapsOK(mappings, mappingCtr) /\ AllIndexed(spaces, mappings)
  BY DEF SegmentsInv
<1>4. MapsOK(mappings', mappingCtr')
  BY <1>2, <1>3, DroppedOK
<1>5. AllIndexed(spaces', mappings')
  BY <1>2, <1>3, DroppedAllIndexed
<1> QED BY <1>2, <1>4, <1>5 DEF SegmentsInv

\* The ends of the mappings of a provider are finitely many numbers, and the new offset is past them.
LEMMA OffsetPastEnds ==
  ASSUME MapsOK(mappings, mappingCtr)
  PROVE  /\ SyntheticOffset \in Nat
         /\ \A id \in DOMAIN mappings : mappings[id].provider = SyntheticProvider =>
              mappings[id].offset + mappings[id].size <= SyntheticOffset
<1> DEFINE p == SyntheticProvider
           D == {x \in DOMAIN mappings : mappings[x].provider = p}
           E == {mappings[id].offset + mappings[id].size : id \in D}
           f == [id \in D |-> mappings[id].offset + mappings[id].size]
<1> HIDE DEF p
<1>1. IsFiniteSet(D)
  <2>1. IsFiniteSet(0..mappingCtr)
    BY FS_Interval DEF MapsOK
  <2>2. D \in SUBSET (0..mappingCtr)
    BY DEF MapsOK
  <2> HIDE DEF D
  <2> QED BY <2>1, <2>2, FS_Subset
<1>2. f \in Surjection(D, E)
  <2> HIDE DEF D
  <2> QED BY DEF Surjection
<1>3. IsFiniteSet(E)
  <2> HIDE DEF D, E, f
  <2> QED BY <1>1, <1>2, FS_Surjection
<1>4. E \in SUBSET Nat
  BY DEF MapsOK, MappingOK
<1>5. EndsIn(mappings, p) = E \cup {0}
  BY DEF EndsIn
<1>6. IsFiniteSet(E \cup {0})
  <2> HIDE DEF E
  <2> QED BY <1>3, FS_AddElement
<1>7. (E \cup {0}) \in SUBSET Nat /\ E \cup {0} # {}
  BY <1>4
<1>8. SyntheticOffset = Max(E \cup {0})
  BY <1>5 DEF SyntheticOffset, p
<1>9. Max(E \cup {0}) \in E \cup {0} /\ \A x \in E \cup {0} : Max(E \cup {0}) >= x
  <2> DEFINE S == E \cup {0}
  <2>1. S \in SUBSET Nat /\ IsFiniteSet(S) /\ S # {}
    BY <1>6, <1>7
  <2> HIDE DEF S
  <2>2. Max(S) \in S /\ \A x \in S : Max(S) >= x
    BY <2>1, GreatestNumber
  <2> QED BY <2>2 DEF S
<1>10. SyntheticOffset \in Nat
  BY <1>7, <1>8, <1>9
<1>11. ASSUME NEW id \in DOMAIN mappings, mappings[id].provider = p
       PROVE  mappings[id].offset + mappings[id].size <= SyntheticOffset
  <2>1. mappings[id].offset + mappings[id].size \in E
    BY <1>11
  <2> HIDE DEF E
  <2> QED BY <1>4, <1>8, <1>9, <1>10, <2>1
<1> QED BY <1>10, <1>11 DEF p

\* The smallest id of a nonempty set of mappings.
LEMMA LeastOwn ==
  ASSUME NEW T \in SUBSET Nat, T # {}
  PROVE  Min(T) \in T
<1>1. \E x \in T : \A y \in T : x <= y
  BY LeastNumber
<1> QED BY <1>1 DEF Min

\* Steps that change neither the mappings nor the spaces.
LEMMA UntouchedKeeps ==
  ASSUME SegmentsInv, UNCHANGED <<mappings, spaces, mappingCtr, loading>>
  PROVE  SegmentsInv'
  BY DEF SegmentsInv

\* close_provider, one mapping at a time.
LEMMA CloseNextKeeps ==
  ASSUME SegmentsInv, CloseNext
  PROVE  SegmentsInv'
<1> DEFINE own == {id \in DOMAIN mappings : mappings[id].provider = closing}
<1>1. CASE own # {} /\ DropMapping(Min(own))
  <2>1. own \in SUBSET Nat
    BY DEF SegmentsInv, MapsOK
  <2>2. Min(own) \in DOMAIN mappings
    <3>1. Min(own) \in own
      <4> HIDE DEF own
      <4> QED BY <1>1, <2>1, LeastOwn
    <3> QED BY <3>1
  <2>3. UNCHANGED loading
    BY DEF CloseNext
  <2> HIDE DEF own
  <2> QED BY <1>1, <2>2, <2>3, DropMappingKeeps
<1>2. CASE UNCHANGED <<mappings, spaces, mappingCtr>>
  <2>1. UNCHANGED loading
    BY DEF CloseNext
  <2> QED BY <1>2, <2>1, UntouchedKeeps
<1> QED BY <1>1, <1>2 DEF CloseNext

\* create_space.
LEMMA CreateSpaceKeeps ==
  ASSUME SegmentsInv, NEW base, CreateSpace(base)
  PROVE  SegmentsInv'
<1> DEFINE s == Cardinality(DOMAIN spaces)
<1>1. /\ spaces' = Assign(spaces, s, EmptySpace(base))
      /\ UNCHANGED <<mappings, mappingCtr, loading>>
  BY DEF CreateSpace, StoreSpace, Edit, Operation
<1> HIDE DEF s
<1>2. DOMAIN spaces' = DOMAIN spaces \cup {s}
      /\ \A t \in DOMAIN spaces' : spaces'[t] = IF t = s THEN EmptySpace(base) ELSE spaces[t]
  BY <1>1 DEF Assign
<1>3. AllIndexed(spaces', mappings')
  BY <1>1, <1>2, EmptyIndexed DEF AllIndexed, SegmentsInv
<1> QED BY <1>1, <1>3 DEF SegmentsInv

\* add_mapping_to_space_at.
LEMMA PlaceMappingKeeps ==
  ASSUME SegmentsInv, NEW s, NEW id \in DOMAIN mappings, NEW end, Edit, PlaceMapping(s, id, end)
  PROVE  SegmentsInv'
<1>1. /\ spaces' = [spaces EXCEPT ![s] =
           AddedAt(@, RefOf(id, mappings[id]), Extent(id, mappings[id].start, mappings[id].size), end)]
      /\ UNCHANGED <<mappings, mappingCtr, loading>>
  BY DEF PlaceMapping, ExtentOf, Edit, Operation
<1>2. AllIndexed(spaces', mappings)
  BY <1>1, AddedAllIndexed DEF SegmentsInv
<1> QED BY <1>1, <1>2 DEF SegmentsInv

\* prioritise_mapping and deprioritise_mapping.
LEMMA MovePriorityKeeps ==
  ASSUME SegmentsInv, NEW s \in DOMAIN spaces, NEW id \in DOMAIN mappings, NEW end, Edit, MovePriority(s, id, end)
  PROVE  SegmentsInv'
<1> DEFINE lo == ExtentOf(id).lo
           hi == ExtentOf(id).hi
<1>1. /\ spaces' = [spaces EXCEPT ![s] =
           IF end = "top" THEN AddMappingTop(@, RefOf(id, mappings[id]), Extent(id, mappings[id].start, mappings[id].size))
           ELSE Rebuilt(Deprioritise(@, id), mappings, lo, hi)]
      /\ UNCHANGED <<mappings, mappingCtr, loading>>
      /\ id \in DOMAIN spaces[s].placements
  BY DEF MovePriority, ExtentOf, Placed, Edit, Operation
<1> HIDE DEF lo, hi
<1>2. AllIndexed(spaces', mappings)
  BY <1>1, MovedAllIndexed DEF SegmentsInv
<1> QED BY <1>1, <1>2 DEF SegmentsInv

\* The operations on one mapping.
LEMMA OnMappingKeeps ==
  ASSUME SegmentsInv, OnMapping
  PROVE  SegmentsInv'
<1>1. PICK id \in DOMAIN mappings :
    \/ RemoveMapping(id)
    \/ \E s \in HomeSpace, a \in Addr : RemapMapping(id, s, a)
    \/ \E size \in Size : ResizeMapping(id, size)
    \/ \E meta \in Metadata : UpdateMappingMetadata(id, meta)
    \/ \E s \in DOMAIN spaces :
         \/ AddMappingToSpace(s, id)
         \/ \E end \in {"top", "bottom"} : AddMappingToSpaceAt(s, id, end) \/ Reprioritise(s, id, end)
  BY DEF OnMapping
<1>2. MappingOK(mappings[id])
  BY DEF SegmentsInv, MapsOK
<1>3. CASE RemoveMapping(id)
  BY <1>3, DropMappingKeeps DEF RemoveMapping, Edit, Operation
<1>4. ASSUME NEW s \in HomeSpace, NEW a \in Addr, RemapMapping(id, s, a) PROVE SegmentsInv'
  <2>1. MappingOK([mappings[id] EXCEPT !.space = s, !.start = a])
    BY <1>2, SegmentAssumption DEF MappingOK, MappingFields, Addr
  <2> QED BY <1>4, <2>1, AlterMappingKeeps DEF RemapMapping
<1>5. ASSUME NEW size \in Size, ResizeMapping(id, size) PROVE SegmentsInv'
  <2>1. MappingOK([mappings[id] EXCEPT !.size = size])
    BY <1>2, SegmentAssumption DEF MappingOK, MappingFields
  <2> QED BY <1>5, <2>1, AlterMappingKeeps DEF ResizeMapping
<1>6. ASSUME NEW meta \in Metadata, UpdateMappingMetadata(id, meta) PROVE SegmentsInv'
  <2>1. MappingOK([mappings[id] EXCEPT !.meta = meta])
    BY <1>2 DEF MappingOK, MappingFields
  <2> QED BY <1>6, <2>1, AlterMappingKeeps DEF UpdateMappingMetadata
<1>7. ASSUME NEW s \in DOMAIN spaces, AddMappingToSpace(s, id) PROVE SegmentsInv'
  BY <1>7, PlaceMappingKeeps DEF AddMappingToSpace
<1>8. ASSUME NEW s \in DOMAIN spaces, NEW end, AddMappingToSpaceAt(s, id, end) PROVE SegmentsInv'
  BY <1>8, PlaceMappingKeeps DEF AddMappingToSpaceAt
<1>9. ASSUME NEW s \in DOMAIN spaces, NEW end, Reprioritise(s, id, end) PROVE SegmentsInv'
  BY <1>9, MovePriorityKeeps DEF Reprioritise
<1> QED BY <1>1, <1>3, <1>4, <1>5, <1>6, <1>7, <1>8, <1>9

\* The operations on the storage.
LEMMA OnStorageKeeps ==
  ASSUME SegmentsInv, OnStorage
  PROVE  SegmentsInv'
<1>1. ASSUME NEW size \in ProviderSize, OpenProvider(size) PROVE SegmentsInv'
  BY <1>1, UntouchedKeeps DEF OpenProvider, Edit, Operation
<1>2. ASSUME NEW p \in DOMAIN providers, CloseProvider(p) PROVE SegmentsInv'
  BY <1>2, UntouchedKeeps DEF CloseProvider, Operation, storage
<1>3. ASSUME NEW b \in Builder, CreateMapping(b) PROVE SegmentsInv'
  BY <1>3, StoreMappingKeeps
<1>4. ASSUME NEW base, CreateSpace(base) PROVE SegmentsInv'
  BY <1>4, CreateSpaceKeeps
<1>5. ASSUME NEW s, NEW a, CacheLookup(s, a) PROVE SegmentsInv'
  BY <1>5, UntouchedKeeps DEF CacheLookup, storage
<1>6. ASSUME NEW s \in DOMAIN spaces, NEW a \in Addr, NEW data \in Data, CreateSyntheticMapping(s, a, data)
      PROVE  SegmentsInv'
  BY <1>6, OffsetPastEnds, SyntheticKeeps DEF SegmentsInv
<1>7. ASSUME NEW s, NEW a, NEW data, WriteBytes(s, a, data) PROVE SegmentsInv'
  BY <1>7, UntouchedKeeps DEF WriteBytes, Edit, Operation
<1> QED BY <1>1, <1>2, <1>3, <1>4, <1>5, <1>6, <1>7 DEF OnStorage

\* Every step keeps the invariant.
LEMMA SegmentsStep ==
  ASSUME SegmentsInv, [SegmentsNext]_segments
  PROVE  SegmentsInv'
<1>1. CASE LoadSegment
  BY <1>1, LoadSegmentKeeps
<1>2. CASE FinishLoading
  BY <1>2, UntouchedKeeps DEF FinishLoading
<1>3. CASE CloseNext
  BY <1>3, CloseNextKeeps
<1>4. CASE PersistStorage
  BY <1>4, UntouchedKeeps DEF PersistStorage, Operation
<1>5. CASE OnMapping
  BY <1>5, OnMappingKeeps
<1>6. CASE OnStorage
  BY <1>6, OnStorageKeeps
<1>7. CASE UNCHANGED segments
  BY <1>7, UntouchedKeeps DEF segments, storage
<1> QED BY <1>1, <1>2, <1>3, <1>4, <1>5, <1>6, <1>7 DEF SegmentsNext

\* In every space the indexes by priority, by mapping and by extent say the same, and say it of the
\* mappings as they are now, whatever was created, moved, resized, reprioritised or removed before:
\* what the expects and asserts of space.rs rest on.
THEOREM SpacesStayIndexed == SegmentsSpec => []IndexesAgree
<1>1. SegmentsInv => IndexesAgree
  BY DEF SegmentsInv, AllIndexed, WellIndexed, Agree, IndexesAgree, SpaceIndexed, ExtentOf
<1> QED BY <1>1, SegmentsInitInv, SegmentsStep, PTL DEF SegmentsSpec

\* No mapping finds other bytes behind it when a synthetic mapping is created.
LEMMA SyntheticStep ==
  ASSUME SegmentsInv, [SegmentsNext]_segments, mappingCtr' > mappingCtr,
         NEW id \in DOMAIN mappings, NEW i \in 0..(mappings[id].size - 1)
  PROVE  ByteOf(bytes', mappings[id], i) = ByteOf(bytes, mappings[id], i)
<1>0. mappingCtr \in Nat /\ MapsOK(mappings, mappingCtr) /\ MappingOK(mappings[id])
  BY DEF SegmentsInv, MapsOK
<1>1. CASE UNCHANGED bytes
  BY <1>1 DEF ByteOf
<1>2. CASE UNCHANGED mappingCtr
  BY <1>0, <1>2
<1>3. ASSUME NEW s, NEW a, NEW data \in Data, CreateSyntheticMapping(s, a, data)
      PROVE  ByteOf(bytes', mappings[id], i) = ByteOf(bytes, mappings[id], i)
  <2> DEFINE p == SyntheticProvider
             offset == SyntheticOffset
             x == <<mappings[id].provider, mappings[id].offset + i>>
             put == {<<p, offset + k - 1>> : k \in Fitting(providers', p, offset, data)}
  <2>1. offset \in Nat /\ (mappings[id].provider = p => mappings[id].offset + mappings[id].size <= offset)
    BY <1>0, OffsetPastEnds
  <2>2. bytes' = [y \in DOMAIN bytes \cup put |-> IF y \in put THEN data[y[2] - offset + 1] ELSE bytes[y]]
    BY <1>3 DEF CreateSyntheticMapping, Written
  <2>3. Fitting(providers', p, offset, data) \subseteq 1..Len(data)
    BY DEF Fitting
  <2> HIDE DEF p, offset
  <2>4. x \notin put
    <3> SUFFICES ASSUME NEW k \in 1..Len(data), x = <<p, offset + k - 1>> PROVE FALSE
      BY <2>3
    <3>1. mappings[id].offset \in Nat /\ mappings[id].size \in Nat /\ Len(data) \in Nat
      BY <1>0, SegmentAssumption DEF MappingOK
    <3>2. mappings[id].provider = p /\ mappings[id].offset + i = offset + k - 1
      OBVIOUS
    <3> QED BY <2>1, <3>1, <3>2
  <2> HIDE DEF put
  <2>5. (x \in DOMAIN bytes' <=> x \in DOMAIN bytes) /\ (x \in DOMAIN bytes => bytes'[x] = bytes[x])
    <3> HIDE DEF x
    <3> QED BY <2>2, <2>4
  <2> QED BY <2>5 DEF ByteOf
<1>4. CASE OnStorage
  <2>1. ASSUME NEW s, NEW a, NEW data, WriteBytes(s, a, data) PROVE UNCHANGED mappingCtr
    BY <2>1 DEF WriteBytes
  <2>2. ASSUME NEW s, NEW a, CacheLookup(s, a) PROVE UNCHANGED mappingCtr
    BY <2>2 DEF CacheLookup, storage
  <2>3. ASSUME NEW base, CreateSpace(base) PROVE UNCHANGED mappingCtr
    BY <2>3 DEF CreateSpace, StoreSpace
  <2>4. ASSUME NEW b, CreateMapping(b) PROVE UNCHANGED bytes
    BY <2>4 DEF CreateMapping, StoreMapping
  <2>5. ASSUME NEW p, CloseProvider(p) PROVE UNCHANGED mappingCtr
    BY <2>5 DEF CloseProvider, storage
  <2>6. ASSUME NEW size, OpenProvider(size) PROVE UNCHANGED mappingCtr
    BY <2>6 DEF OpenProvider
  <2> QED BY <1>1, <1>2, <1>3, <1>4, <2>1, <2>2, <2>3, <2>4, <2>5, <2>6 DEF OnStorage
<1>5. CASE OnMapping
  <2>1. UNCHANGED mappingCtr
    BY <1>5 DEF OnMapping, RemoveMapping, RemapMapping, ResizeMapping, UpdateMappingMetadata, AddMappingToSpace,
                AddMappingToSpaceAt, Reprioritise, DropMapping, AlterMapping, PlaceMapping, MovePriority
  <2> QED BY <1>2, <2>1
<1>6. CASE LoadSegment
  BY <1>1, <1>6 DEF LoadSegment
<1>7. CASE FinishLoading \/ PersistStorage \/ CloseNext
  BY <1>2, <1>7 DEF FinishLoading, PersistStorage, CloseNext, DropMapping
<1>8. CASE UNCHANGED segments
  BY <1>2, <1>8 DEF segments, storage
<1> QED BY <1>4, <1>5, <1>6, <1>7, <1>8 DEF SegmentsNext

\* A new synthetic mapping takes provider bytes that no mapping extends over.
THEOREM SyntheticStaysApart == SegmentsSpec => SyntheticApart
<1>1. SegmentsInv /\ [SegmentsNext]_segments =>
        [mappingCtr' > mappingCtr =>
           \A id \in DOMAIN mappings : \A i \in 0..(mappings[id].size - 1) :
             ByteOf(bytes', mappings[id], i) = ByteOf(bytes, mappings[id], i)]_segments
  BY SyntheticStep
<1> QED BY <1>1, SegmentsInitInv, SegmentsStep, PTL DEF SegmentsSpec, SyntheticApart

-----------------------------------------------------------------------------
(* AddressSpaces: the revision of a space and the cache. *)

\* A space that has not a higher revision shows what it showed.
Advanced(sp, sp2) ==
  /\ sp2.revision \in Nat
  /\ sp2.revision > sp.revision \/ (sp2.revision = sp.revision /\ sp2.submaps = sp.submaps)

\* Every space has a revision, and keeps it only if it keeps its submaps.
Counted(sps) == \A s \in DOMAIN sps : sps[s].revision \in Nat
AllAdvanced(sps, sps2) == \A s \in DOMAIN sps : s \in DOMAIN sps2 /\ Advanced(sps[s], sps2[s])

\* The operations of a space that change what it shows.
LEMMA PlacementRevision ==
  ASSUME NEW sp, DOMAIN sp = SpaceFields, NEW ref, NEW priority, NEW extent
  PROVE  /\ DOMAIN UpdateMappingPlacement(sp, ref, priority, extent) = SpaceFields
         /\ UpdateMappingPlacement(sp, ref, priority, extent).revision = sp.revision
  BY DEF UpdateMappingPlacement, SpaceFields

\* A mapping put at either end gives the space the next revision.
LEMMA AddedRevision ==
  ASSUME NEW sp, DOMAIN sp = SpaceFields, NEW ref, NEW extent, NEW end
  PROVE  /\ DOMAIN AddMappingTop(sp, ref, extent) = SpaceFields
         /\ AddMappingTop(sp, ref, extent).revision = sp.revision + 1
         /\ AddedAt(sp, ref, extent, end).revision = sp.revision + 1
<1>1. /\ DOMAIN AddMappingTop(sp, ref, extent) = SpaceFields
      /\ AddMappingTop(sp, ref, extent).revision = sp.revision + 1
  <2> DEFINE placed == UpdateMappingPlacement(sp, ref, sp.highest + 1, extent)
  <2>1. DOMAIN placed = SpaceFields /\ placed.revision = sp.revision
    BY PlacementRevision
  <2>2. AddMappingTop(sp, ref, extent) =
          [placed EXCEPT !.highest = placed.highest + 1, !.revision = placed.revision + 1,
                         !.submaps = InsertSubmapTop(placed.submaps, ref, extent.lo, extent.hi)]
    BY DEF AddMappingTop
  <2> HIDE DEF placed
  <2> QED BY <2>1, <2>2 DEF SpaceFields
<1>2. AddMappingBottom(sp, ref, extent).revision = sp.revision + 1
  <2> DEFINE placed == UpdateMappingPlacement(sp, ref, sp.lowest - 1, extent)
             shown == placed.submaps \cup {[lo |-> g.lo, hi |-> g.hi, ref |-> ref] : g \in Gaps(placed.submaps, extent.lo, extent.hi)}
  <2>1. DOMAIN placed = SpaceFields /\ placed.revision = sp.revision
    BY PlacementRevision
  <2>2. AddMappingBottom(sp, ref, extent) =
          [placed EXCEPT !.lowest = placed.lowest - 1, !.revision = placed.revision + 1, !.submaps = shown]
    BY DEF AddMappingBottom
  <2> HIDE DEF placed, shown
  <2> QED BY <2>1, <2>2 DEF SpaceFields
<1> QED BY <1>1, <1>2 DEF AddedAt

\* So does a range that is rebuilt ...
LEMMA RebuiltRevision ==
  ASSUME NEW sp, DOMAIN sp = SpaceFields, NEW maps, NEW lo, NEW hi
  PROVE  Rebuilt(sp, maps, lo, hi).revision = sp.revision + 1
  BY DEF Rebuilt, SpaceFields

\* ... and a mapping moved to the bottom.
LEMMA LoweredRevision ==
  ASSUME NEW sp, DOMAIN sp = SpaceFields, NEW id
  PROVE  DOMAIN Deprioritise(sp, id) = SpaceFields /\ Deprioritise(sp, id).revision = sp.revision + 1
  BY DEF Deprioritise, SpaceFields

\* A mapping that is updated in a space raises its revision, with one range rebuilt or with two.
LEMMA UpdatedRevision ==
  ASSUME NEW sp, DOMAIN sp = SpaceFields, sp.revision \in Nat, NEW maps, NEW id, NEW old
  PROVE  Advanced(sp, UpdateMappingInSpace(sp, maps, id, old))
<1> DEFINE ref == RefOf(id, maps[id])
           extent == Extent(id, maps[id].start, maps[id].size)
           placed == UpdateMappingPlacement(sp, ref, sp.placements[ref.id].priority, extent)
           updated == UpdateMappingRef(sp, ref, extent)
           vacated == Rebuilt(updated, maps, old.start, old.start + old.size - 1)
           both == Rebuilt(vacated, maps, maps[id].start, maps[id].start + maps[id].size - 1)
<1>1. DOMAIN placed = SpaceFields /\ placed.revision = sp.revision
  BY PlacementRevision
<1>2. updated = [placed EXCEPT !.revision = placed.revision + 1]
  BY DEF UpdateMappingRef
<1>3. UpdateMappingInSpace(sp, maps, id, old) \in {vacated, both}
  BY DEF UpdateMappingInSpace
<1> HIDE DEF placed, updated
<1>4. DOMAIN updated = SpaceFields /\ updated.revision = sp.revision + 1
  BY <1>1, <1>2 DEF SpaceFields
<1>5. DOMAIN vacated = SpaceFields /\ vacated.revision = sp.revision + 1 + 1
  BY <1>4, RebuiltKeeps, RebuiltRevision
<1> HIDE DEF vacated
<1>6. both.revision = sp.revision + 1 + 1 + 1
  BY <1>5, RebuiltRevision
<1> HIDE DEF both
<1> QED BY <1>3, <1>5, <1>6 DEF Advanced

\* A mapping that is removed from a space raises its revision.
LEMMA RemovedRevision ==
  ASSUME NEW sp, DOMAIN sp = SpaceFields, sp.revision \in Nat, NEW maps, NEW id
  PROVE  Advanced(sp, RemoveMappingFromSpace(sp, maps, id))
<1> DEFINE removed == RemoveMappingRef(sp, id)
<1>1. DOMAIN removed = SpaceFields /\ removed.revision = sp.revision
  BY DEF RemoveMappingRef, SpaceFields
<1> HIDE DEF removed
<1>2. RemoveMappingFromSpace(sp, maps, id) = Rebuilt(removed, maps, maps[id].start, maps[id].start + maps[id].size - 1)
  BY DEF RemoveMappingFromSpace, removed
<1>3. RemoveMappingFromSpace(sp, maps, id).revision = sp.revision + 1
  BY <1>1, <1>2, RebuiltRevision
<1> QED BY <1>3 DEF Advanced

\* No step changes what a space shows without giving it a higher revision.
LEMMA RevisionStep ==
  ASSUME SegmentsInv, Counted(spaces), [SegmentsNext]_segments
  PROVE  AllAdvanced(spaces, spaces')
<1>0. \A s \in DOMAIN spaces : DOMAIN spaces[s] = SpaceFields /\ spaces[s].revision \in Nat
  BY DEF SegmentsInv, AllIndexed, WellIndexed, Counted
<1>1. CASE UNCHANGED spaces
  BY <1>0, <1>1 DEF AllAdvanced, Advanced
<1>2. ASSUME NEW t, NEW ref, NEW extent, NEW end, spaces' = [spaces EXCEPT ![t] = AddedAt(@, ref, extent, end)]
      PROVE  AllAdvanced(spaces, spaces')
  <2>1. \A s \in DOMAIN spaces : AddedAt(spaces[s], ref, extent, end).revision = spaces[s].revision + 1
    BY <1>0, AddedRevision
  <2> QED BY <1>0, <1>2, <2>1 DEF AllAdvanced, Advanced
<1>3. CASE LoadSegment
  BY <1>2, <1>3 DEF LoadSegment
<1>4. ASSUME NEW id, DropMapping(id) PROVE AllAdvanced(spaces, spaces')
  BY <1>0, <1>4, RemovedRevision DEF DropMapping, AllAdvanced, Advanced
<1>5. ASSUME NEW id, NEW m, AlterMapping(id, m) PROVE AllAdvanced(spaces, spaces')
  BY <1>0, <1>5, UpdatedRevision DEF AlterMapping, AllAdvanced, Advanced
<1>6. ASSUME NEW s, NEW id, NEW end, PlaceMapping(s, id, end) PROVE AllAdvanced(spaces, spaces')
  BY <1>2, <1>6 DEF PlaceMapping
<1>7. ASSUME NEW t, NEW id, NEW end, MovePriority(t, id, end) PROVE AllAdvanced(spaces, spaces')
  <2> DEFINE new == IF end = "top" THEN AddMappingTop(spaces[t], RefOf(id, mappings[id]), ExtentOf(id))
                    ELSE Rebuilt(Deprioritise(spaces[t], id), mappings, ExtentOf(id).lo, ExtentOf(id).hi)
  <2>1. spaces' = [spaces EXCEPT ![t] = new]
    BY <1>7 DEF MovePriority
  <2>2. t \in DOMAIN spaces => new.revision \in Nat /\ new.revision > spaces[t].revision
    BY <1>0, AddedRevision, LoweredRevision, RebuiltRevision
  <2> HIDE DEF new
  <2> QED BY <1>0, <2>1, <2>2 DEF AllAdvanced, Advanced
<1>8. CASE CloseNext
  BY <1>1, <1>4, <1>8 DEF CloseNext
<1>9. CASE OnMapping
  BY <1>4, <1>5, <1>6, <1>7, <1>9 DEF OnMapping, RemoveMapping, RemapMapping, ResizeMapping, UpdateMappingMetadata,
       AddMappingToSpace, AddMappingToSpaceAt, Reprioritise
<1>10. CASE OnStorage
  <2>1. ASSUME NEW s, NEW a, NEW data, WriteBytes(s, a, data) PROVE UNCHANGED spaces
    BY <2>1 DEF WriteBytes
  <2>2. ASSUME NEW s, NEW a, CacheLookup(s, a) PROVE UNCHANGED spaces
    BY <2>2 DEF CacheLookup, storage
  <2>3. ASSUME NEW base, CreateSpace(base) PROVE AllAdvanced(spaces, spaces')
    <3>1. PICK s : s \notin DOMAIN spaces /\ spaces' = Assign(spaces, s, EmptySpace(base))
      BY <2>3 DEF CreateSpace, StoreSpace
    <3> QED BY <1>0, <3>1 DEF Assign, AllAdvanced, Advanced
  <2>4. ASSUME NEW b, CreateMapping(b) PROVE UNCHANGED spaces
    BY <2>4 DEF CreateMapping, StoreMapping
  <2>5. ASSUME NEW p, CloseProvider(p) PROVE UNCHANGED spaces
    BY <2>5 DEF CloseProvider, storage
  <2>6. ASSUME NEW size, OpenProvider(size) PROVE UNCHANGED spaces
    BY <2>6 DEF OpenProvider
  <2>7. ASSUME NEW s, NEW a, NEW data, CreateSyntheticMapping(s, a, data) PROVE AllAdvanced(spaces, spaces')
    BY <1>2, <2>7 DEF CreateSyntheticMapping
  <2> QED BY <1>1, <1>10, <2>1, <2>2, <2>3, <2>4, <2>5, <2>6, <2>7 DEF OnStorage
<1>11. CASE FinishLoading \/ PersistStorage \/ UNCHANGED segments
  BY <1>1, <1>11 DEF FinishLoading, PersistStorage, segments, storage
<1> QED BY <1>3, <1>8, <1>9, <1>10, <1>11 DEF SegmentsNext

\* Which spaces there are, and what is cached, after a step.
LEMMA SpacesAndCacheStep ==
  ASSUME [SegmentsNext]_segments
  PROVE  /\ DOMAIN spaces' = DOMAIN spaces \/ \E s, base : spaces' = Assign(spaces, s, EmptySpace(base))
         /\ UNCHANGED cached \/ \E s \in DOMAIN spaces, a \in Addr : CacheLookup(s, a)
<1>1. CASE LoadSegment
  BY <1>1 DEF LoadSegment
<1>2. CASE FinishLoading \/ PersistStorage \/ UNCHANGED segments
  BY <1>2 DEF FinishLoading, PersistStorage, Operation, segments, storage
<1>3. CASE CloseNext
  BY <1>3 DEF CloseNext, DropMapping
<1>4. CASE OnMapping
  <2>1. ASSUME NEW id, DropMapping(id) PROVE DOMAIN spaces' = DOMAIN spaces
    BY <2>1 DEF DropMapping
  <2>2. ASSUME NEW id, NEW m, AlterMapping(id, m) PROVE DOMAIN spaces' = DOMAIN spaces
    BY <2>2 DEF AlterMapping
  <2>3. ASSUME NEW s, NEW id, NEW end, PlaceMapping(s, id, end) \/ MovePriority(s, id, end)
        PROVE  DOMAIN spaces' = DOMAIN spaces
    BY <2>3 DEF PlaceMapping, MovePriority
  <2>4. Edit => UNCHANGED cached
    BY DEF Edit, Operation
  <2> QED BY <1>4, <2>1, <2>2, <2>3, <2>4 DEF OnMapping, RemoveMapping, RemapMapping, ResizeMapping,
            UpdateMappingMetadata, AddMappingToSpace, AddMappingToSpaceAt, Reprioritise
<1>5. CASE OnStorage
  <2>1. ASSUME NEW s, NEW a, NEW data, WriteBytes(s, a, data) PROVE UNCHANGED <<spaces, cached>>
    BY <2>1 DEF WriteBytes, Edit, Operation
  <2>2. ASSUME NEW s, NEW a, CacheLookup(s, a) PROVE UNCHANGED spaces
    BY <2>2 DEF CacheLookup, storage
  <2>3. ASSUME NEW base, CreateSpace(base)
        PROVE  UNCHANGED cached /\ \E s : spaces' = Assign(spaces, s, EmptySpace(base))
    BY <2>3 DEF CreateSpace, StoreSpace, Edit, Operation
  <2>4. ASSUME NEW b, CreateMapping(b) PROVE UNCHANGED <<spaces, cached>>
    BY <2>4 DEF CreateMapping, StoreMapping, Edit, Operation
  <2>5. ASSUME NEW p, CloseProvider(p) PROVE UNCHANGED <<spaces, cached>>
    BY <2>5 DEF CloseProvider, storage, Operation
  <2>6. ASSUME NEW size, OpenProvider(size) PROVE UNCHANGED <<spaces, cached>>
    BY <2>6 DEF OpenProvider, Edit, Operation
  <2>7. ASSUME NEW s, NEW a, NEW data, CreateSyntheticMapping(s, a, data)
        PROVE  UNCHANGED cached /\ DOMAIN spaces' = DOMAIN spaces
    BY <2>7 DEF CreateSyntheticMapping, Edit, Operation
  <2> QED BY <1>5, <2>1, <2>2, <2>3, <2>4, <2>5, <2>6, <2>7 DEF OnStorage
<1> QED BY <1>1, <1>2, <1>3, <1>4, <1>5 DEF SegmentsNext

\* The cached view is no newer than its space, and one of its submaps if it is not older.
CachedView ==
  cached # Nothing =>
    /\ cached.space \in DOMAIN spaces
    /\ cached.revision \in Nat /\ cached.revision <= spaces[cached.space].revision
    /\ cached.revision = spaces[cached.space].revision => cached.view \in spaces[cached.space].submaps

\* Every step keeps the cached view so: the space keeps its submaps or passes the view's revision.
LEMMA CachedViewStep ==
  ASSUME SegmentsInv, Counted(spaces), CachedView, [SegmentsNext]_segments
  PROVE  Counted(spaces') /\ CachedView'
<1>1. AllAdvanced(spaces, spaces')
  BY RevisionStep
<1>2. Counted(spaces')
  <2>1. \A s \in DOMAIN spaces : spaces'[s].revision \in Nat
    BY <1>1 DEF AllAdvanced, Advanced
  <2>2. CASE DOMAIN spaces' = DOMAIN spaces
    BY <2>1, <2>2 DEF Counted
  <2>3. ASSUME NEW s, NEW base, spaces' = Assign(spaces, s, EmptySpace(base)) PROVE Counted(spaces')
    <3>1. EmptySpace(base).revision \in Nat
      BY DEF EmptySpace
    <3> QED BY <2>1, <2>3, <3>1 DEF Counted, Assign
  <2> QED BY <2>2, <2>3, SpacesAndCacheStep
<1>3. CASE UNCHANGED cached
  <2> DEFINE t == cached.space
  <2>0. cached' = cached
    BY <1>3
  <2>1. cached # Nothing =>
          /\ t \in DOMAIN spaces /\ spaces[t].revision \in Nat
          /\ cached.revision \in Nat /\ cached.revision <= spaces[t].revision
          /\ cached.revision = spaces[t].revision => cached.view \in spaces[t].submaps
    BY DEF CachedView, Counted
  <2> HIDE DEF t
  <2>2. cached # Nothing => t \in DOMAIN spaces' /\ Advanced(spaces[t], spaces'[t])
    BY <1>1, <2>1 DEF AllAdvanced
  <2>3. cached # Nothing =>
          /\ t \in DOMAIN spaces'
          /\ cached.revision \in Nat /\ cached.revision <= spaces'[t].revision
          /\ cached.revision = spaces'[t].revision => cached.view \in spaces'[t].submaps
    BY <2>1, <2>2 DEF Advanced
  <2>4. cached' # Nothing =>
          /\ cached'.space \in DOMAIN spaces'
          /\ cached'.revision \in Nat /\ cached'.revision <= spaces'[cached'.space].revision
          /\ cached'.revision = spaces'[cached'.space].revision => cached'.view \in spaces'[cached'.space].submaps
    BY <2>0, <2>3 DEF t
  <2> QED BY <1>2, <2>4 DEF CachedView
<1>4. ASSUME NEW s \in DOMAIN spaces, NEW a \in Addr, CacheLookup(s, a) PROVE CachedView'
  <2>1. UNCHANGED spaces
    BY <1>4 DEF CacheLookup, storage
  <2>2. PICK v \in FindContaining(spaces[s], a) : cached' = [space |-> s, view |-> v, revision |-> spaces[s].revision]
    BY <1>4 DEF CacheLookup
  <2>3. v \in spaces[s].submaps /\ spaces[s].revision \in Nat
    BY DEF FindContaining, Counted
  <2>4. cached'.space = s /\ cached'.view = v /\ cached'.revision = spaces[s].revision
    BY <2>2
  <2> QED BY <2>1, <2>3, <2>4 DEF CachedView
<1> QED BY <1>2, <1>3, <1>4, SpacesAndCacheStep

\* A cached view that is current is the only one that covers an address, when submaps lie apart.
LEMMA CacheHitAnswer ==
  ASSUME CachedView, SubmapsApart, cached # Nothing, NEW a \in Addr, CacheHit(cached.space, a)
  PROVE  Shown(mappings, spaces[cached.space], a) = cached.view.ref.id
<1> DEFINE sp == spaces[cached.space]
           view == cached.view
           valid == {w \in FindContaining(sp, a) : w.ref.id \in DOMAIN mappings /\ mappings[w.ref.id].revision = w.ref.revision}
           found == {v.ref.id : v \in valid}
<1>1. /\ view \in sp.submaps /\ Covers(view, a)
      /\ view.ref.id \in DOMAIN mappings /\ mappings[view.ref.id].revision = view.ref.revision
  BY DEF CachedView, CacheHit, IsValid
<1>2. \A w \in sp.submaps : Covers(w, a) => w = view
  BY <1>1 DEF SubmapsApart, CachedView
<1> HIDE DEF view
<1>3. found = {view.ref.id}
  BY <1>1, <1>2 DEF FindContaining
<1>4. Shown(mappings, sp, a) = IF found = {} THEN Nothing ELSE CHOOSE id \in found : TRUE
  BY DEF Shown
<1> HIDE DEF sp, found
<1>5. Shown(mappings, sp, a) = view.ref.id
  BY <1>3, <1>4
<1> QED BY <1>5 DEF sp, view

\* What the cache answers without asking is what the storage would answer, in every state in which
\* no two submaps of a space cover the same address.  A revision that has not moved means that the
\* space has shown the same since the view was cached.
THEOREM CacheStaysFresh == SegmentsSpec => [](SubmapsApart => CacheFresh)
<1>1. SegmentsInit => Counted(spaces) /\ CachedView
  <2> SUFFICES ASSUME SegmentsInit PROVE Counted(spaces) /\ CachedView
    OBVIOUS
  <2>1. \A base : EmptySpace(base).revision \in Nat
    BY DEF EmptySpace
  <2> QED BY <2>1 DEF SegmentsInit, Counted, CachedView
<1>2. SegmentsInv /\ Counted(spaces) /\ CachedView /\ [SegmentsNext]_segments => Counted(spaces)' /\ CachedView'
  BY CachedViewStep
<1>3. CachedView => (SubmapsApart => CacheFresh)
  BY CacheHitAnswer DEF CacheFresh
<1> QED BY <1>1, <1>2, <1>3, SegmentsInitInv, SegmentsStep, PTL DEF SegmentsSpec
=============================================================================
