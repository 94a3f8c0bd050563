--------------------------- MODULE LiftedCacheProofs ---------------------------
(***************************************************************************)
(* What LiftedCache promises holds for any number of functions, readers    *)
(* and revisions: a cached "there is none" never hides a stored artefact,  *)
(* the analysers of a function are handed an artefact of the inputs as     *)
(* they are at its turn, and, where the IL analysers leave the inputs      *)
(* alone, no call returns an artefact of inputs replaced before it.        *)
(***************************************************************************)
EXTENDS LiftedCache, TLAPS

\* The project and the cache.
Typed ==
  /\ semantic \in Revision
  /\ stored \in [Function -> Revision \cup {Absent}]
  /\ cache \in [Function -> Entry]
  /\ \/ publishing = <<>> \/ publishing = <<"inputs">>
     \/ \E f \in Function : publishing = <<"function", f>>

\* Where a reader is, what it was answered, and what it asks of the worker.
Call == [pc : {"idle", "look", "load", "put", "wait"}, functions : Requests \cup {<<>>},
         value : Entry, since : Revision]
Answered == [values : Seq(Entry), since : Revision]
Request == [reader : Reader, functions : Requests]

\* The readers and their requests.
ReadersTyped ==
  /\ reader \in [Reader -> Call]
  /\ \A r \in Reader : reader[r].pc # "idle" => reader[r].functions \in Requests
  /\ got \in [Reader -> Answered]
  /\ intake \in Seq(Request)

\* The worker's progress through a request; an answer is given per function, in order.
WorkerTyped ==
  /\ DOMAIN worker = {"pc", "for", "functions", "base", "prepared", "answer", "turn"}
  /\ worker.pc \in {"idle", "turn", "drain"}
  /\ worker.answer \in Seq(Entry)
  /\ worker.pc # "idle" =>
       /\ worker.for \in Reader /\ worker.functions \in Requests
       /\ worker.base \in Revision /\ worker.turn \in Revision
       /\ DOMAIN worker.prepared = DOMAIN worker.functions
       /\ \A i \in DOMAIN worker.prepared : worker.prepared[i] \in Entry
  /\ worker.pc = "drain" => Position <= Len(worker.functions)

\* While records are published no reader is inside cached_il and the worker is between
\* requests or drains.
Locked == publishing # <<>> => Inside = {} /\ worker.pc \in {"idle", "drain"}

\* What is still prepared for later turns was prepared from the first state, and what is in
\* hand is of the turn.
Turns ==
  worker.pc # "idle" =>
    /\ \A i \in DOMAIN worker.prepared :
         i > Position \/ (i = Position /\ worker.pc = "turn") =>
           worker.prepared[i] \in {Miss, worker.base}
    /\ worker.pc = "drain" => worker.prepared[Position] = worker.turn

\* What a reader loaded is what is current; a cached "none" hides nothing, except the one
\* artefact that is being published.
NoneTrue ==
  /\ \A r \in Reader : reader[r].pc = "put" => reader[r].value = Current(reader[r].functions[1])
  /\ \A f \in Function : cache[f] = Absent /\ publishing # <<"inputs">>
                           /\ publishing # <<"function", f>> => stored[f] # semantic

\* Where the inputs change only between requests, what is cached and what is answered is
\* of the current inputs.
Fresh ==
  ~meddling =>
    /\ publishing # <<"inputs">> =>
         \A f \in Function : cache[f] \in Revision => cache[f] = semantic
    /\ worker.pc # "idle" =>
         /\ publishing # <<"inputs">> /\ worker.base = semantic
         /\ worker.pc = "drain" => worker.turn = semantic
         /\ \A i \in DOMAIN worker.answer :
              worker.answer[i] \in Revision => worker.answer[i] = semantic
    /\ \A r \in Reader : \A i \in DOMAIN got[r].values :
         got[r].values[i] \in Revision => got[r].values[i] >= got[r].since

\* No call was made in the future.
Past == \A r \in Reader : reader[r].since <= semantic

-----------------------------------------------------------------------------
(* Requests, entries and calls. *)

\* A request is for one or more functions.
LEMMA RequestFacts ==
  ASSUME NEW fs \in Requests
  PROVE  fs \in Seq(Function) /\ 1 \in DOMAIN fs /\ fs[1] \in Function
<1>1. CASE fs \in {<<f>> : f \in Function}
  BY <1>1
<1>2. CASE fs \in Batches
  <2>1. PICK f \in Function, g \in Function : fs = <<f, g>>
    BY <1>2 DEF Batches
  <2> QED BY <2>1
<1> QED BY <1>1, <1>2 DEF Requests

\* Marks are not revisions, and all of them can be in the cache.
LEMMA EntryFacts ==
  /\ Revision \subseteq Nat /\ 0 \in Revision /\ Revision \subseteq Entry
  /\ Absent \in Entry /\ Miss \in Entry /\ Absent \notin Revision /\ Miss \notin Revision
  /\ Absent # Miss
BY LiftedAssumption DEF Revision, Entry

\* What is looked up, found and generated are entries.
LEMMA FoundFacts ==
  ASSUME Typed, NEW f \in Function
  PROVE  /\ Current(f) \in {semantic, Absent} /\ Found(f) \in Revision \cup {Absent}
         /\ Generated(f) \in {semantic, Miss}
         /\ \A fs : LookedUp(fs) \in [Function -> Entry]
BY EntryFacts DEF Typed, Current, Found, Generated, LookedUp, Entry

\* The position of the next answer, and the function whose turn it is.
LEMMA PositionFacts ==
  ASSUME WorkerTyped
  PROVE  /\ Position \in Nat \ {0} /\ Len(worker.answer) \in Nat
         /\ worker.pc # "idle" /\ Position <= Len(worker.functions) =>
              /\ Position \in DOMAIN worker.functions /\ Position \in DOMAIN worker.prepared
              /\ Turn \in Function /\ worker.prepared[Position] \in Entry
         /\ \A e \in Entry : /\ Append(worker.answer, e) \in Seq(Entry)
                             /\ Len(Append(worker.answer, e)) + 1 = Position + 1
                             /\ \A i \in DOMAIN Append(worker.answer, e) :
                                  \/ Append(worker.answer, e)[i] = e
                                  \/ i \in DOMAIN worker.answer
                                       /\ Append(worker.answer, e)[i] = worker.answer[i]
<1>1. worker.answer \in Seq(Entry)
  BY DEF WorkerTyped
<1>2. Position \in Nat \ {0} /\ Len(worker.answer) \in Nat
  BY <1>1 DEF Position
<1>3. ASSUME worker.pc # "idle", Position <= Len(worker.functions)
      PROVE  /\ Position \in DOMAIN worker.functions /\ Position \in DOMAIN worker.prepared
             /\ Turn \in Function /\ worker.prepared[Position] \in Entry
  <2>1. worker.functions \in Seq(Function) /\ DOMAIN worker.prepared = DOMAIN worker.functions
    BY <1>3, RequestFacts DEF WorkerTyped
  <2>2. Position \in DOMAIN worker.functions
    BY <1>2, <1>3, <2>1
  <2> QED BY <1>3, <2>1, <2>2 DEF WorkerTyped, Turn
<1> QED BY <1>1, <1>2, <1>3 DEF Position

\* What a turn that has something to cache hands over is of the inputs as they are.
LEMMA RecheckFacts ==
  ASSUME Typed, WorkerTyped, worker.pc = "turn", Position <= Len(worker.functions)
  PROVE  /\ Recheck(Turn) \in Entry
         /\ Turns /\ Recheck(Turn) # Miss => Recheck(Turn) = semantic
<1>1. Turn \in Function /\ Position \in DOMAIN worker.prepared /\ worker.prepared[Position] \in Entry
  BY PositionFacts
<1>2. Generated(Turn) \in {semantic, Miss}
  BY <1>1, FoundFacts
<1>3. Turns => worker.prepared[Position] \in {Miss, worker.base}
  BY <1>1 DEF Turns
<1> QED BY <1>1, <1>2, <1>3, EntryFacts DEF Recheck, Typed

\* An idle reader.
LEMMA IdleFacts == Idle \in Call /\ Idle.pc = "idle" /\ Idle.since = 0
BY EntryFacts DEF Idle, Call

\* A call that returns.
LEMMA ReturnKeeps ==
  ASSUME ReadersTyped, NEW r \in Reader, NEW values \in Seq(Entry), Return(r, values),
         UNCHANGED intake
  PROVE  ReadersTyped'
<1>1. reader' \in [Reader -> Call] /\ \A q \in Reader : reader'[q] = reader[q] \/ reader'[q] = Idle
  BY IdleFacts DEF Return, ReadersTyped
<1>2. got' \in [Reader -> Answered]
  <2>1. [values |-> values, since |-> reader[r].since] \in Answered
    BY DEF ReadersTyped, Call, Answered
  <2> QED BY <2>1 DEF Return, ReadersTyped
<1> QED BY <1>1, <1>2, IdleFacts DEF ReadersTyped

\* What a call that returns one artefact was answered.
LEMMA ReturnFresh ==
  ASSUME ReadersTyped, NEW r \in Reader, NEW v,
         got' = [got EXCEPT ![r] = [values |-> <<v>>, since |-> reader[r].since]]
  PROVE  /\ \A q \in Reader : q # r => got'[q] = got[q]
         /\ got'[r].since = reader[r].since
         /\ \A i \in DOMAIN got'[r].values : got'[r].values[i] = v
BY DEF ReadersTyped

\* A reader that turns to the worker.
LEMMA AskKeeps ==
  ASSUME ReadersTyped, NEW r \in Reader, NEW c \in Call, c.functions \in Requests,
         reader' = [reader EXCEPT ![r] = c], UNCHANGED got,
         \/ UNCHANGED intake
         \/ intake' = Append(intake, [reader |-> r, functions |-> c.functions])
  PROVE  ReadersTyped'
<1>1. [reader |-> r, functions |-> c.functions] \in Request
  BY DEF Request
<1>2. intake' \in Seq(Request)
  BY <1>1 DEF ReadersTyped
<1> QED BY <1>2 DEF ReadersTyped

\* Moving a call on.
LEMMA CallFacts ==
  ASSUME NEW c \in Call, NEW p \in {"idle", "look", "load", "put", "wait"}, NEW v \in Entry
  PROVE  /\ [c EXCEPT !.pc = p] \in Call
         /\ [c EXCEPT !.pc = p, !.value = v] \in Call
         /\ [c EXCEPT !.pc = p].functions = c.functions
         /\ [c EXCEPT !.pc = p, !.value = v].functions = c.functions
BY DEF Call

\* The project's revisions and the cache's entries stay what they are.
LEMMA TypedKept ==
  ASSUME Typed, ReadersTyped, WorkerTyped, [Next]_lifted
  PROVE  Typed'
<1>1. ASSUME NEW gone \in SUBSET Function, ChangeInputs(gone) PROVE Typed'
  <2>1. semantic' \in Revision
    BY <1>1, LiftedAssumption DEF ChangeInputs, Typed, Revision
  <2>2. stored' \in [Function -> Revision \cup {Absent}]
    BY <1>1 DEF ChangeInputs, Typed
  <2> QED BY <1>1, <2>1, <2>2 DEF ChangeInputs, Typed
<1>2. CASE ApplyChanges
  BY <1>2, EntryFacts DEF ApplyChanges, Typed
<1>3. ASSUME NEW f \in Function, Materialise(f) PROVE Typed'
  BY <1>3 DEF Materialise, Typed
<1>4. ASSUME NEW f \in Function, Evict(f) PROVE Typed'
  BY <1>4, EntryFacts DEF Evict, Typed
<1>5. ASSUME NEW r \in Reader, NEW f \in Function, Lifted(r, f) PROVE Typed'
  BY <1>5 DEF Lifted, Typed
<1>6. ASSUME NEW r \in Reader, NEW fs \in Batches, LiftedBatch(r, fs) PROVE Typed'
  BY <1>6 DEF LiftedBatch, Typed
<1>7. ASSUME NEW r \in Reader, Look(r) PROVE Typed'
  BY <1>7 DEF Look, Typed
<1>8. ASSUME NEW r \in Reader, Load(r) PROVE Typed'
  BY <1>8 DEF Load, Typed
<1>9. ASSUME NEW r \in Reader, Put(r) PROVE Typed'
  <2>1. reader[r].value \in Entry /\ reader[r].functions[1] \in Function
    BY <1>9, RequestFacts DEF Put, ReadersTyped, Call
  <2>2. cache' \in [Function -> Entry]
    BY <1>9, <2>1 DEF Put, Inserted, Typed
  <2> QED BY <1>9, <2>2 DEF Put, Typed
<1>10. CASE Prepare
  <2>1. cache' \in [Function -> Entry]
    BY <1>10, FoundFacts DEF Prepare, LookedUp, Typed
  <2> QED BY <1>10, <2>1 DEF Prepare, Typed
<1>11. CASE TakeTurn
  <2>1. cache' \in [Function -> Entry]
    BY <1>11, FoundFacts DEF TakeTurn, LookedUp, Typed
  <2> QED BY <1>11, <2>1 DEF TakeTurn, Typed
<1>12. CASE InsertGenerated
  <2>1. worker.prepared[Position] \in Entry
    BY <1>12, RequestFacts DEF InsertGenerated, WorkerTyped, Position
  <2>2. cache' \in [Function -> Entry]
    BY <1>12, <2>1 DEF InsertGenerated, Inserted, Typed
  <2> QED BY <1>12, <2>2 DEF InsertGenerated, Typed
<1>13. CASE Reply
  BY <1>13 DEF Reply, Typed
<1>14. CASE UNCHANGED lifted
  BY <1>14 DEF lifted, Typed
<1> QED BY <1>1, <1>2, <1>3, <1>4, <1>5, <1>6, <1>7, <1>8, <1>9, <1>10, <1>11, <1>12,
          <1>13, <1>14 DEF Next, Steps

\* A reader that leaves idle has a request of one or more functions.
LEMMA ReadersKept ==
  ASSUME Typed, ReadersTyped, WorkerTyped, [Next]_lifted
  PROVE  ReadersTyped'
<1>1. ASSUME NEW gone \in SUBSET Function, ChangeInputs(gone) PROVE ReadersTyped'
  BY <1>1 DEF ChangeInputs, ReadersTyped
<1>2. CASE ApplyChanges
  BY <1>2 DEF ApplyChanges, ReadersTyped
<1>3. ASSUME NEW f \in Function, Materialise(f) PROVE ReadersTyped'
  BY <1>3 DEF Materialise, ReadersTyped
<1>4. ASSUME NEW f \in Function, Evict(f) PROVE ReadersTyped'
  BY <1>4 DEF Evict, ReadersTyped
<1>5. ASSUME NEW r \in Reader, NEW f \in Function, Lifted(r, f) PROVE ReadersTyped'
  <2> DEFINE c == [pc |-> "look", functions |-> <<f>>, value |-> Miss, since |-> semantic]
  <2>1. c \in Call /\ c.functions \in Requests
    BY EntryFacts DEF Call, Requests, Typed
  <2> QED BY <1>5, <2>1, AskKeeps DEF Lifted
<1>6. ASSUME NEW r \in Reader, NEW fs \in Batches, LiftedBatch(r, fs) PROVE ReadersTyped'
  <2> DEFINE c == [pc |-> "wait", functions |-> fs, value |-> Miss, since |-> semantic]
  <2>1. c \in Call /\ c.functions \in Requests /\ c.functions = fs
    BY <1>6, EntryFacts DEF Call, Requests, Typed
  <2>2. reader' = [reader EXCEPT ![r] = c] /\ UNCHANGED got
        /\ intake' = Append(intake, [reader |-> r, functions |-> c.functions])
    BY <1>6 DEF LiftedBatch
  <2> HIDE DEF c
  <2> QED BY <2>1, <2>2, AskKeeps
<1>7. ASSUME NEW r \in Reader, Look(r) PROVE ReadersTyped'
  <2> DEFINE found == cache[reader[r].functions[1]]
             c(p) == [reader[r] EXCEPT !.pc = p]
  <2>1. reader[r] \in Call /\ reader[r].functions \in Requests
    BY <1>7 DEF Look, ReadersTyped
  <2>2. CASE Return(r, <<found>>) /\ UNCHANGED intake /\ found \in Revision
    <3>1. <<found>> \in Seq(Entry)
      <4>1. found \in Entry
        BY <2>2, EntryFacts
      <4> QED BY <4>1
    <3> QED BY <2>2, <3>1, ReturnKeeps
  <2>3. CASE RequestGenerated(r, reader[r].functions)
    <3>1. c("wait") \in Call /\ c("wait").functions = reader[r].functions
      BY <2>1, CallFacts, EntryFacts
    <3>2. reader' = [reader EXCEPT ![r] = c("wait")] /\ UNCHANGED got
          /\ intake' = Append(intake, [reader |-> r, functions |-> c("wait").functions])
      BY <2>3, <3>1 DEF RequestGenerated
    <3> HIDE DEF c
    <3> QED BY <2>1, <3>1, <3>2, AskKeeps
  <2>4. CASE reader' = [reader EXCEPT ![r].pc = "load"] /\ UNCHANGED <<got, intake>>
    <3>1. c("load") \in Call /\ c("load").functions = reader[r].functions
      BY <2>1, CallFacts, EntryFacts
    <3>2. reader' = [reader EXCEPT ![r] = c("load")] /\ UNCHANGED <<got, intake>>
      BY <2>4
    <3> HIDE DEF c
    <3> QED BY <2>1, <3>1, <3>2, AskKeeps
  <2> QED BY <1>7, <2>2, <2>3, <2>4 DEF Look
<1>8. ASSUME NEW r \in Reader, Load(r) PROVE ReadersTyped'
  <2> DEFINE c == [reader[r] EXCEPT !.pc = "put", !.value = Current(reader[r].functions[1])]
  <2>1. /\ reader[r] \in Call /\ reader[r].functions \in Requests
        /\ Current(reader[r].functions[1]) \in Entry
    BY <1>8, RequestFacts, FoundFacts, EntryFacts DEF Load, ReadersTyped, Typed
  <2>2. c \in Call /\ c.functions = reader[r].functions
    BY <2>1, CallFacts
  <2>3. reader' = [reader EXCEPT ![r] = c] /\ UNCHANGED <<got, intake>>
    BY <1>8 DEF Load
  <2> HIDE DEF c
  <2> QED BY <2>1, <2>2, <2>3, AskKeeps
<1>9. ASSUME NEW r \in Reader, Put(r) PROVE ReadersTyped'
  <2> DEFINE value == reader[r].value
             c == [reader[r] EXCEPT !.pc = "wait"]
  <2>1. reader[r] \in Call /\ reader[r].functions \in Requests
    BY <1>9 DEF Put, ReadersTyped
  <2>2. CASE Return(r, <<value>>) /\ UNCHANGED intake /\ value \in Revision
    <3>1. <<value>> \in Seq(Entry)
      <4>1. value \in Entry
        BY <2>2, EntryFacts
      <4> QED BY <4>1
    <3> QED BY <2>2, <3>1, ReturnKeeps
  <2>3. CASE RequestGenerated(r, reader[r].functions)
    <3>1. c \in Call /\ c.functions = reader[r].functions
      BY <2>1, CallFacts, EntryFacts
    <3>2. reader' = [reader EXCEPT ![r] = c] /\ UNCHANGED got
          /\ intake' = Append(intake, [reader |-> r, functions |-> c.functions])
      BY <2>3, <3>1 DEF RequestGenerated
    <3> HIDE DEF c
    <3> QED BY <2>1, <3>1, <3>2, AskKeeps
  <2> QED BY <1>9, <2>2, <2>3 DEF Put
<1>10. CASE Prepare
  <2>1. intake' \in Seq(Request)
    BY <1>10 DEF Prepare, ReadersTyped
  <2> QED BY <1>10, <2>1 DEF Prepare, ReadersTyped
<1>11. CASE TakeTurn
  BY <1>11 DEF TakeTurn, ReadersTyped
<1>12. CASE InsertGenerated
  BY <1>12 DEF InsertGenerated, ReadersTyped
<1>13. CASE Reply
  BY <1>13, ReturnKeeps DEF Reply, WorkerTyped
<1>14. CASE UNCHANGED lifted
  BY <1>14 DEF lifted, ReadersTyped
<1> QED BY <1>1, <1>2, <1>3, <1>4, <1>5, <1>6, <1>7, <1>8, <1>9, <1>10, <1>11, <1>12,
          <1>13, <1>14 DEF Next, Steps

\* A turn answers one function, and a drain belongs to a turn.
LEMMA WorkerKept ==
  ASSUME Typed, ReadersTyped, WorkerTyped, [Next]_lifted
  PROVE  WorkerTyped'
<1>1. ASSUME NEW gone \in SUBSET Function, ChangeInputs(gone) PROVE WorkerTyped'
  BY <1>1 DEF ChangeInputs, WorkerTyped, Position
<1>2. CASE ApplyChanges
  BY <1>2 DEF ApplyChanges, WorkerTyped, Position
<1>3. ASSUME NEW f \in Function, Materialise(f) PROVE WorkerTyped'
  BY <1>3 DEF Materialise, WorkerTyped
<1>4. ASSUME NEW f \in Function, Evict(f) PROVE WorkerTyped'
  BY <1>4 DEF Evict, WorkerTyped, Position
<1>5. ASSUME NEW r \in Reader, NEW f \in Function, Lifted(r, f) PROVE WorkerTyped'
  BY <1>5 DEF Lifted, WorkerTyped, Position
<1>6. ASSUME NEW r \in Reader, NEW fs \in Batches, LiftedBatch(r, fs) PROVE WorkerTyped'
  BY <1>6 DEF LiftedBatch, WorkerTyped, Position
<1>7. ASSUME NEW r \in Reader, Look(r) PROVE WorkerTyped'
  BY <1>7 DEF Look, WorkerTyped, Position
<1>8. ASSUME NEW r \in Reader, Load(r) PROVE WorkerTyped'
  BY <1>8 DEF Load, WorkerTyped, Position
<1>9. ASSUME NEW r \in Reader, Put(r) PROVE WorkerTyped'
  BY <1>9 DEF Put, WorkerTyped, Position
<1>10. CASE Prepare
  <2> DEFINE fs == Head(intake).functions
  <2>1. Head(intake) \in Request
    BY <1>10 DEF Prepare, ReadersTyped
  <2>2. fs \in Requests /\ Head(intake).reader \in Reader
    BY <2>1 DEF Request
  <2>3. \A i \in DOMAIN fs : fs[i] \in Function
    BY <2>2, RequestFacts
  <2>4. \A i \in DOMAIN fs : Generated(fs[i]) \in Entry
    BY <2>3, FoundFacts, EntryFacts DEF Typed
  <2>5. worker' = [pc |-> "turn", for |-> Head(intake).reader, functions |-> fs,
                   base |-> semantic, prepared |-> [i \in DOMAIN fs |-> Generated(fs[i])],
                   answer |-> <<>>, turn |-> semantic]
    BY <1>10 DEF Prepare
  <2> HIDE DEF fs
  <2>6. /\ DOMAIN worker' = {"pc", "for", "functions", "base", "prepared", "answer", "turn"}
        /\ worker'.pc = "turn" /\ worker'.answer = <<>> /\ worker'.for = Head(intake).reader
        /\ worker'.functions = fs /\ worker'.base = semantic /\ worker'.turn = semantic
        /\ DOMAIN worker'.prepared = DOMAIN fs
        /\ \A i \in DOMAIN fs : worker'.prepared[i] = Generated(fs[i])
    BY <2>5
  <2>7. <<>> \in Seq(Entry)
    OBVIOUS
  <2> QED BY <2>2, <2>4, <2>6, <2>7 DEF WorkerTyped, Typed
<1>11. CASE TakeTurn
  <2>1. worker.pc = "turn" /\ Position <= Len(worker.functions)
    BY <1>11 DEF TakeTurn
  <2>2. CASE worker' = [worker EXCEPT !.pc = "drain", !.prepared[Position] = Recheck(Turn),
                                      !.turn = semantic]
    <3>1. /\ DOMAIN worker' = DOMAIN worker /\ worker'.pc = "drain"
          /\ worker'.answer = worker.answer /\ worker'.for = worker.for
          /\ worker'.functions = worker.functions /\ worker'.base = worker.base
          /\ worker'.turn = semantic /\ DOMAIN worker'.prepared = DOMAIN worker.prepared
          /\ \A i \in DOMAIN worker.prepared :
               worker'.prepared[i] = IF i = Position THEN Recheck(Turn) ELSE worker.prepared[i]
      BY <2>2 DEF WorkerTyped
    <3> QED BY <2>1, <3>1, RecheckFacts DEF WorkerTyped, Position, Typed
  <2>3. ASSUME NEW e \in Entry, worker' = [worker EXCEPT !.answer = Append(@, e)]
        PROVE  WorkerTyped'
    BY <2>1, <2>3, PositionFacts DEF WorkerTyped
  <2>4. Found(Turn) \in Entry /\ Absent \in Entry
    BY <2>1, PositionFacts, FoundFacts, EntryFacts
  <2> QED BY <1>11, <2>2, <2>3, <2>4 DEF TakeTurn
<1>12. CASE InsertGenerated
  <2>1. worker.pc = "drain" /\ worker.prepared[Position] \in Entry
    BY <1>12, PositionFacts DEF InsertGenerated, WorkerTyped
  <2> QED BY <1>12, <2>1, PositionFacts DEF InsertGenerated, WorkerTyped
<1>13. CASE Reply
  <2>1. <<>> \in Seq(Entry)
    OBVIOUS
  <2> QED BY <1>13, <2>1 DEF Reply, Rest, WorkerTyped
<1>14. CASE UNCHANGED lifted
  BY <1>14 DEF lifted, WorkerTyped, Position
<1> QED BY <1>1, <1>2, <1>3, <1>4, <1>5, <1>6, <1>7, <1>8, <1>9, <1>10, <1>11, <1>12,
          <1>13, <1>14 DEF Next, Steps

\* A commit waits for the readers inside cached_il, and a reader waits for the publication;
\* the worker publishes only between requests and while it drains.
LEMMA LockedKept ==
  ASSUME Typed, ReadersTyped, WorkerTyped, Locked, [Next]_lifted
  PROVE  Locked'
<1>1. ASSUME NEW gone \in SUBSET Function, ChangeInputs(gone) PROVE Locked'
  BY <1>1 DEF ChangeInputs, Locked, Inside, MayCommit
<1>2. CASE ApplyChanges
  BY <1>2 DEF ApplyChanges, Locked
<1>3. ASSUME NEW f \in Function, Materialise(f) PROVE Locked'
  BY <1>3 DEF Materialise, Locked, Inside, MayCommit
<1>4. ASSUME NEW f \in Function, Evict(f) PROVE Locked'
  BY <1>4 DEF Evict, Locked, Inside
<1>5. ASSUME NEW r \in Reader, NEW f \in Function, Lifted(r, f) PROVE Locked'
  BY <1>5 DEF Lifted, Locked, Inside, ReadersTyped
<1>6. ASSUME NEW r \in Reader, NEW fs \in Batches, LiftedBatch(r, fs) PROVE Locked'
  BY <1>6 DEF LiftedBatch, Locked, Inside, ReadersTyped
<1>7. ASSUME NEW r \in Reader, Look(r) PROVE Locked'
  BY <1>7 DEF Look, Locked
<1>8. ASSUME NEW r \in Reader, Load(r) PROVE Locked'
  BY <1>8 DEF Load, Locked, Inside
<1>9. ASSUME NEW r \in Reader, Put(r) PROVE Locked'
  BY <1>9 DEF Put, Locked, Inside
<1>10. CASE Prepare
  BY <1>10 DEF Prepare, Locked
<1>11. CASE TakeTurn
  BY <1>11 DEF TakeTurn, Locked
<1>12. CASE InsertGenerated
  BY <1>12 DEF InsertGenerated, Locked
<1>13. CASE Reply
  BY <1>13 DEF Reply, Locked
<1>14. CASE UNCHANGED lifted
  BY <1>14 DEF lifted, Locked, Inside
<1> QED BY <1>1, <1>2, <1>3, <1>4, <1>5, <1>6, <1>7, <1>8, <1>9, <1>10, <1>11, <1>12,
          <1>13, <1>14 DEF Next, Steps

\* A turn hands over what was prepared only while the inputs are those it was prepared from.
LEMMA TurnsKept ==
  ASSUME Typed, ReadersTyped, WorkerTyped, Turns, [Next]_lifted
  PROVE  Turns'
<1>1. ASSUME NEW gone \in SUBSET Function, ChangeInputs(gone) PROVE Turns'
  BY <1>1 DEF ChangeInputs, Turns, Position
<1>2. CASE ApplyChanges
  BY <1>2 DEF ApplyChanges, Turns, Position
<1>3. ASSUME NEW f \in Function, Materialise(f) PROVE Turns'
  BY <1>3 DEF Materialise, Turns
<1>4. ASSUME NEW f \in Function, Evict(f) PROVE Turns'
  BY <1>4 DEF Evict, Turns, Position
<1>5. ASSUME NEW r \in Reader, NEW f \in Function, Lifted(r, f) PROVE Turns'
  BY <1>5 DEF Lifted, Turns, Position
<1>6. ASSUME NEW r \in Reader, NEW fs \in Batches, LiftedBatch(r, fs) PROVE Turns'
  BY <1>6 DEF LiftedBatch, Turns, Position
<1>7. ASSUME NEW r \in Reader, Look(r) PROVE Turns'
  BY <1>7 DEF Look, Turns, Position
<1>8. ASSUME NEW r \in Reader, Load(r) PROVE Turns'
  BY <1>8 DEF Load, Turns, Position
<1>9. ASSUME NEW r \in Reader, Put(r) PROVE Turns'
  BY <1>9 DEF Put, Turns, Position
<1>10. CASE Prepare
  <2> DEFINE fs == Head(intake).functions
  <2>1. Head(intake) \in Request
    BY <1>10 DEF Prepare, ReadersTyped
  <2>2. \A i \in DOMAIN fs : Generated(fs[i]) \in {Miss, semantic}
    BY <2>1, RequestFacts, FoundFacts DEF Request
  <2>3. worker' = [pc |-> "turn", for |-> Head(intake).reader, functions |-> fs,
                   base |-> semantic, prepared |-> [i \in DOMAIN fs |-> Generated(fs[i])],
                   answer |-> <<>>, turn |-> semantic]
    BY <1>10 DEF Prepare
  <2> HIDE DEF fs
  <2> QED BY <2>2, <2>3 DEF Turns
<1>11. CASE TakeTurn
  <2>1. worker.pc = "turn" /\ Position <= Len(worker.functions)
    BY <1>11 DEF TakeTurn
  <2>2. CASE /\ worker' = [worker EXCEPT !.pc = "drain", !.prepared[Position] = Recheck(Turn),
                                         !.turn = semantic]
             /\ Recheck(Turn) # Miss
    <3>1. /\ worker'.pc = "drain" /\ worker'.answer = worker.answer /\ worker'.base = worker.base
          /\ worker'.turn = semantic /\ DOMAIN worker'.prepared = DOMAIN worker.prepared
          /\ \A i \in DOMAIN worker.prepared :
               worker'.prepared[i] = IF i = Position THEN Recheck(Turn) ELSE worker.prepared[i]
      BY <2>2 DEF WorkerTyped
    <3>2. Position' = Position /\ Position \in DOMAIN worker.prepared
      BY <2>1, <3>1, PositionFacts DEF Position
    <3> QED BY <2>1, <2>2, <3>1, <3>2, RecheckFacts, PositionFacts DEF Turns
  <2>3. ASSUME NEW e \in Entry, worker' = [worker EXCEPT !.answer = Append(@, e)]
        PROVE  Turns'
    <3>1. /\ worker'.pc = worker.pc /\ worker'.base = worker.base
          /\ worker'.prepared = worker.prepared /\ worker'.answer = Append(worker.answer, e)
      BY <2>3 DEF WorkerTyped
    <3>2. Position' = Position + 1 /\ Position \in Nat /\ DOMAIN worker.prepared \subseteq Nat
      BY <2>1, <3>1, PositionFacts, RequestFacts DEF Position, WorkerTyped
    <3> QED BY <2>1, <3>1, <3>2 DEF Turns
  <2>4. Found(Turn) \in Entry /\ Absent \in Entry
    BY <2>1, PositionFacts, FoundFacts, EntryFacts
  <2> QED BY <1>11, <2>2, <2>3, <2>4 DEF TakeTurn
<1>12. CASE InsertGenerated
  <2>1. worker.pc = "drain" /\ worker.prepared[Position] \in Entry
    BY <1>12, PositionFacts DEF InsertGenerated, WorkerTyped
  <2>2. /\ worker'.pc = "turn" /\ worker'.base = worker.base /\ worker'.prepared = worker.prepared
        /\ worker'.answer = Append(worker.answer, worker.prepared[Position])
    BY <1>12 DEF InsertGenerated, WorkerTyped
  <2>3. Position' = Position + 1 /\ Position \in Nat /\ DOMAIN worker.prepared \subseteq Nat
    BY <2>1, <2>2, PositionFacts, RequestFacts DEF Position, WorkerTyped
  <2> QED BY <2>1, <2>2, <2>3 DEF Turns
<1>13. CASE Reply
  BY <1>13 DEF Reply, Rest, Turns
<1>14. CASE UNCHANGED lifted
  BY <1>14 DEF lifted, Turns, Position
<1> QED BY <1>1, <1>2, <1>3, <1>4, <1>5, <1>6, <1>7, <1>8, <1>9, <1>10, <1>11, <1>12,
          <1>13, <1>14 DEF Next, Steps

\* A "none" is cached only where nothing current is stored, and an artefact that is stored
\* takes the "none" out when it is published.
LEMMA NoneKept ==
  ASSUME Typed, ReadersTyped, WorkerTyped, Locked, Turns, NoneTrue, [Next]_lifted
  PROVE  NoneTrue'
<1>1. ASSUME NEW gone \in SUBSET Function, ChangeInputs(gone) PROVE NoneTrue'
  BY <1>1 DEF ChangeInputs, MayCommit, Inside, NoneTrue
<1>2. CASE ApplyChanges
  <2>1. /\ Inside = {} /\ publishing' = <<>> /\ UNCHANGED <<reader, stored, semantic>>
        /\ cache' = IF publishing[1] = "inputs" THEN [f \in Function |-> Miss]
                    ELSE [cache EXCEPT ![publishing[2]] = Miss]
    BY <1>2 DEF ApplyChanges, Locked
  <2>2. CASE publishing = <<"inputs">>
    BY <2>1, <2>2, EntryFacts DEF NoneTrue, Inside
  <2>3. ASSUME NEW f \in Function, publishing = <<"function", f>> PROVE NoneTrue'
    <3>1. /\ cache' = [cache EXCEPT ![f] = Miss]
          /\ \A g \in Function : publishing = <<"function", g>> => g = f
      BY <2>1, <2>3
    <3> QED BY <2>1, <2>3, <3>1, EntryFacts DEF NoneTrue, Inside, Typed
  <2> QED BY <1>2, <2>2, <2>3 DEF ApplyChanges, Typed
<1>3. ASSUME NEW f \in Function, Materialise(f) PROVE NoneTrue'
  <2>1. /\ Inside = {} /\ publishing = <<>> /\ publishing' = <<"function", f>>
        /\ stored' = [stored EXCEPT ![f] = semantic] /\ UNCHANGED <<reader, cache, semantic>>
    BY <1>3 DEF Materialise, MayCommit
  <2> QED BY <2>1 DEF NoneTrue, Inside, Typed
<1>4. ASSUME NEW f \in Function, Evict(f) PROVE NoneTrue'
  BY <1>4, EntryFacts DEF Evict, NoneTrue, Typed, Current
<1>5. ASSUME NEW r \in Reader, NEW f \in Function, Lifted(r, f) PROVE NoneTrue'
  BY <1>5 DEF Lifted, NoneTrue, ReadersTyped, Current
<1>6. ASSUME NEW r \in Reader, NEW fs \in Batches, LiftedBatch(r, fs) PROVE NoneTrue'
  BY <1>6 DEF LiftedBatch, NoneTrue, ReadersTyped, Current
<1>7. ASSUME NEW r \in Reader, Look(r) PROVE NoneTrue'
  <2>1. \A q \in Reader : reader'[q].pc = "put" => reader'[q] = reader[q]
    BY <1>7 DEF Look, Return, RequestGenerated, Idle, ReadersTyped, Call
  <2> QED BY <1>7, <2>1 DEF Look, NoneTrue, Current
<1>8. ASSUME NEW r \in Reader, Load(r) PROVE NoneTrue'
  <2>1. /\ reader'[r].value = Current(reader[r].functions[1])
        /\ reader'[r].functions = reader[r].functions
        /\ \A q \in Reader : q # r => reader'[q] = reader[q]
    BY <1>8 DEF Load, ReadersTyped, Call
  <2> QED BY <1>8, <2>1, ZenonT(30) DEF Load, NoneTrue, Current
<1>9. ASSUME NEW r \in Reader, Put(r) PROVE NoneTrue'
  <2>1. \A q \in Reader : reader'[q].pc = "put" => reader'[q] = reader[q]
    BY <1>9 DEF Put, Return, RequestGenerated, Idle, ReadersTyped, Call
  <2>2. /\ reader[r].functions[1] \in Function /\ publishing = <<>>
        /\ reader[r].value = Current(reader[r].functions[1])
    BY <1>9, RequestFacts DEF Put, ReadersTyped, NoneTrue, Locked, Inside
  <2>3. \A f \in Function : cache'[f] = Absent => cache[f] = Absent \/ Current(f) = Absent
    BY <1>9, <2>2 DEF Put, Inserted, Typed
  <2> QED BY <1>9, <2>1, <2>2, <2>3, EntryFacts DEF Put, NoneTrue, Current, Typed
<1>10. CASE Prepare
  <2>1. \A f \in Function : cache'[f] = Absent => cache[f] = Absent \/ Current(f) = Absent
    BY <1>10 DEF Prepare, LookedUp
  <2> QED BY <1>10, <2>1, EntryFacts DEF Prepare, NoneTrue, Current, Typed
<1>11. CASE TakeTurn
  <2>1. \A f \in Function : cache'[f] = Absent => cache[f] = Absent \/ Current(f) = Absent
    BY <1>11 DEF TakeTurn, LookedUp
  <2> QED BY <1>11, <2>1, EntryFacts DEF TakeTurn, NoneTrue, Current, Typed
<1>12. CASE InsertGenerated
  <2>1. worker.prepared[Position] \in Revision
    BY <1>12 DEF InsertGenerated, Turns, WorkerTyped
  <2>2. \A f \in Function : cache'[f] = Absent => cache[f] = Absent
    BY <1>12, <2>1, EntryFacts DEF InsertGenerated, Inserted, Typed
  <2> QED BY <1>12, <2>2 DEF InsertGenerated, NoneTrue, Current
<1>13. CASE Reply
  <2>1. \A q \in Reader : reader'[q].pc = "put" => reader'[q] = reader[q]
    BY <1>13 DEF Reply, Return, Idle, ReadersTyped, Call
  <2> QED BY <1>13, <2>1 DEF Reply, NoneTrue, Current
<1>14. CASE UNCHANGED lifted
  BY <1>14 DEF lifted, NoneTrue, Current
<1> QED BY <1>1, <1>2, <1>3, <1>4, <1>5, <1>6, <1>7, <1>8, <1>9, <1>10, <1>11, <1>12,
          <1>13, <1>14 DEF Next, Steps

\* A call starts at the revision of its time, and revisions only grow.
LEMMA PastKept ==
  ASSUME Typed, ReadersTyped, WorkerTyped, Past, [Next]_lifted
  PROVE  Past'
<1>1. ASSUME NEW gone \in SUBSET Function, ChangeInputs(gone) PROVE Past'
  <2>1. \A r \in Reader : reader[r].since \in Nat
    BY EntryFacts DEF ReadersTyped, Call
  <2> QED BY <1>1, <2>1, EntryFacts DEF ChangeInputs, Past, Typed
<1>2. CASE ApplyChanges
  BY <1>2 DEF ApplyChanges, Past
<1>3. ASSUME NEW f \in Function, Materialise(f) PROVE Past'
  BY <1>3 DEF Materialise, Past
<1>4. ASSUME NEW f \in Function, Evict(f) PROVE Past'
  BY <1>4 DEF Evict, Past
<1>5. ASSUME NEW r \in Reader, NEW f \in Function, Lifted(r, f) PROVE Past'
  <2>1. \A q \in Reader : reader'[q].since \in {reader[q].since, semantic, 0}
    BY <1>5, IdleFacts DEF Lifted, ReadersTyped, Call
  <2> QED BY <1>5, <2>1, EntryFacts DEF Lifted, Past, Typed
<1>6. ASSUME NEW r \in Reader, NEW fs \in Batches, LiftedBatch(r, fs) PROVE Past'
  <2>1. \A q \in Reader : reader'[q].since \in {reader[q].since, semantic, 0}
    BY <1>6, IdleFacts DEF LiftedBatch, ReadersTyped, Call
  <2> QED BY <1>6, <2>1, EntryFacts DEF LiftedBatch, Past, Typed
<1>7. ASSUME NEW r \in Reader, Look(r) PROVE Past'
  <2>1. \/ reader' = [reader EXCEPT ![r] = Idle]
        \/ reader' = [reader EXCEPT ![r].pc = "wait"]
        \/ reader' = [reader EXCEPT ![r].pc = "load"]
    BY <1>7 DEF Look, Return, RequestGenerated
  <2>2. \A q \in Reader : reader'[q].since \in {reader[q].since, 0}
    BY <2>1, IdleFacts DEF ReadersTyped, Call
  <2> QED BY <1>7, <2>2, EntryFacts DEF Look, Past, Typed
<1>8. ASSUME NEW r \in Reader, Load(r) PROVE Past'
  <2>1. semantic' = semantic /\ \A q \in Reader : reader'[q].since = reader[q].since
    BY <1>8 DEF Load, ReadersTyped, Call
  <2> QED BY <2>1 DEF Past
<1>9. ASSUME NEW r \in Reader, Put(r) PROVE Past'
  <2>1. \A q \in Reader : reader'[q].since \in {reader[q].since, semantic, 0}
    BY <1>9, IdleFacts DEF Put, Return, RequestGenerated, ReadersTyped, Call
  <2> QED BY <1>9, <2>1, EntryFacts DEF Put, Past, Typed
<1>10. CASE Prepare
  BY <1>10 DEF Prepare, Past
<1>11. CASE TakeTurn
  BY <1>11 DEF TakeTurn, Past
<1>12. CASE InsertGenerated
  BY <1>12 DEF InsertGenerated, Past
<1>13. CASE Reply
  <2>1. \A q \in Reader : reader'[q].since \in {reader[q].since, semantic, 0}
    BY <1>13, IdleFacts DEF Reply, Return, ReadersTyped, Call
  <2> QED BY <1>13, <2>1, EntryFacts DEF Reply, Past, Typed
<1>14. CASE UNCHANGED lifted
  BY <1>14 DEF lifted, Past
<1> QED BY <1>1, <1>2, <1>3, <1>4, <1>5, <1>6, <1>7, <1>8, <1>9, <1>10, <1>11, <1>12,
          <1>13, <1>14 DEF Next, Steps

\* Revisions enter the cache, and answers, as the current one; the cache is cleared before
\* the readers see the next.
LEMMA FreshKept ==
  ASSUME Typed, ReadersTyped, WorkerTyped, Locked, Turns, NoneTrue, Past, Fresh,
     meddling' = meddling, [Next]_lifted
  PROVE  Fresh'
<1>1. ASSUME NEW gone \in SUBSET Function, ChangeInputs(gone) PROVE Fresh'
  <2>1. /\ publishing' = <<"inputs">> /\ UNCHANGED <<got, worker>>
        /\ ~meddling => worker.pc = "idle"
    BY <1>1 DEF ChangeInputs, MayCommit
  <2> QED BY <2>1 DEF Fresh
<1>2. CASE ApplyChanges
  <2>1. /\ publishing' = <<>> /\ UNCHANGED <<got, worker, semantic>>
        /\ publishing = <<"inputs">> => \A f \in Function : cache'[f] = Miss
        /\ publishing # <<"inputs">> => \A f \in Function : cache'[f] \in {cache[f], Miss}
    BY <1>2 DEF ApplyChanges, Typed
  <2> QED BY <2>1, EntryFacts DEF Fresh
<1>3. ASSUME NEW f \in Function, Materialise(f) PROVE Fresh'
  <2>1. publishing = <<>> /\ UNCHANGED <<got, worker, semantic, cache>>
        /\ publishing' # <<"inputs">>
    BY <1>3 DEF Materialise, MayCommit
  <2> QED BY <2>1 DEF Fresh
<1>4. ASSUME NEW f \in Function, Evict(f) PROVE Fresh'
  BY <1>4, EntryFacts DEF Evict, Fresh, Typed
<1>5. ASSUME NEW r \in Reader, NEW f \in Function, Lifted(r, f) PROVE Fresh'
  BY <1>5 DEF Lifted, Fresh
<1>6. ASSUME NEW r \in Reader, NEW fs \in Batches, LiftedBatch(r, fs) PROVE Fresh'
  BY <1>6 DEF LiftedBatch, Fresh
<1>7. ASSUME NEW r \in Reader, Look(r) PROVE Fresh'
  <2>1. publishing = <<>> /\ UNCHANGED <<publishing, worker, semantic, cache>>
        /\ \/ UNCHANGED got
           \/ \E v \in Revision : v = cache[reader[r].functions[1]] /\
                got' = [got EXCEPT ![r] = [values |-> <<v>>, since |-> reader[r].since]]
    BY <1>7 DEF Look, Return, RequestGenerated
  <2>2. CASE UNCHANGED got
    BY <2>1, <2>2 DEF Fresh
  <2>3. ASSUME NEW v \in Revision, v = cache[reader[r].functions[1]],
               got' = [got EXCEPT ![r] = [values |-> <<v>>, since |-> reader[r].since]]
        PROVE  Fresh'
    <3>1. ~meddling => v = semantic
      BY <1>7, <2>1, <2>3, RequestFacts DEF Fresh, Look, ReadersTyped
    <3>2. reader[r].since <= v \/ meddling
      BY <3>1 DEF Past
    <3> QED BY <2>1, <2>3, <3>2, ReturnFresh DEF Fresh
  <2> QED BY <2>1, <2>2, <2>3
<1>8. ASSUME NEW r \in Reader, Load(r) PROVE Fresh'
  BY <1>8 DEF Load, Fresh
<1>9. ASSUME NEW r \in Reader, Put(r) PROVE Fresh'
  <2>1. /\ reader[r].functions[1] \in Function /\ publishing = <<>>
        /\ reader[r].value = Current(reader[r].functions[1])
    BY <1>9, RequestFacts DEF Put, ReadersTyped, NoneTrue, Locked, Inside
  <2>2. /\ UNCHANGED <<publishing, worker, semantic>>
        /\ \A f \in Function : cache'[f] \in {cache[f], Current(f)}
    BY <1>9, <2>1 DEF Put, Inserted, Typed
  <2>3. \A f \in Function : Current(f) \in Revision => Current(f) = semantic
    BY EntryFacts DEF Current
  <2>4. CASE UNCHANGED got
    BY <2>1, <2>2, <2>3, <2>4 DEF Fresh
  <2>5. ASSUME NEW v \in Revision, v = reader[r].value,
               got' = [got EXCEPT ![r] = [values |-> <<v>>, since |-> reader[r].since]]
        PROVE  Fresh'
    <3>1. reader[r].since <= v
      BY <2>1, <2>3, <2>5 DEF Past
    <3> QED BY <2>1, <2>2, <2>3, <2>5, <3>1, ReturnFresh DEF Fresh
  <2> QED BY <1>9, <2>4, <2>5 DEF Put, Return, RequestGenerated
<1>10. CASE Prepare
  <2>1. /\ publishing = <<>> /\ UNCHANGED <<publishing, semantic, got>>
        /\ \A f \in Function : cache'[f] \in {cache[f], Current(f)}
        /\ worker'.base = semantic /\ worker'.answer = <<>> /\ worker'.pc = "turn"
    BY <1>10 DEF Prepare, LookedUp
  <2>2. \A f \in Function : Current(f) \in Revision => Current(f) = semantic
    BY EntryFacts DEF Current
  <2>3. DOMAIN <<>> = {}
    OBVIOUS
  <2> QED BY <2>1, <2>2, <2>3 DEF Fresh
<1>11. CASE TakeTurn
  <2>1. /\ worker.pc = "turn" /\ Position <= Len(worker.functions)
        /\ UNCHANGED <<publishing, semantic, got>> /\ publishing = <<>>
        /\ \A f \in Function : cache'[f] \in {cache[f], Current(f)}
    BY <1>11 DEF TakeTurn, LookedUp, Locked
  <2>2. \A f \in Function : Current(f) \in Revision => Current(f) = semantic
    BY EntryFacts DEF Current
  <2>3. CASE worker' = [worker EXCEPT !.pc = "drain", !.prepared[Position] = Recheck(Turn),
                                      !.turn = semantic]
    <3>1. /\ worker'.pc = "drain" /\ worker'.answer = worker.answer /\ worker'.base = worker.base
          /\ worker'.turn = semantic
      BY <2>3 DEF WorkerTyped
    <3> QED BY <2>1, <2>2, <3>1 DEF Fresh
  <2>4. ASSUME NEW e \in Entry, worker' = [worker EXCEPT !.answer = Append(@, e)],
               ~meddling /\ e \in Revision => e = semantic
        PROVE  Fresh'
    <3>1. /\ worker'.pc = worker.pc /\ worker'.base = worker.base
          /\ worker'.answer = Append(worker.answer, e)
      BY <2>4 DEF WorkerTyped
    <3> QED BY <2>1, <2>2, <2>4, <3>1, PositionFacts DEF Fresh
  <2>5. /\ Found(Turn) \in Entry /\ (~meddling /\ Found(Turn) \in Revision => Found(Turn) = semantic)
        /\ Absent \in Entry /\ Absent \notin Revision
    BY <2>1, <2>2, PositionFacts, FoundFacts, EntryFacts DEF Found, Fresh
  <2> QED BY <1>11, <2>3, <2>4, <2>5 DEF TakeTurn
<1>12. CASE InsertGenerated
  <2>1. /\ worker.pc = "drain" /\ worker.prepared[Position] = worker.turn /\ Turn \in Function
        /\ publishing = <<>> /\ worker.turn \in Revision
    BY <1>12, PositionFacts DEF InsertGenerated, WorkerTyped, Turns
  <2>2. /\ worker'.pc = "turn" /\ worker'.base = worker.base
        /\ worker'.answer = Append(worker.answer, worker.turn)
        /\ UNCHANGED <<publishing, semantic, got>>
    BY <1>12, <2>1 DEF InsertGenerated, WorkerTyped
  <2>3. \A f \in Function : cache'[f] \in {cache[f], worker.turn}
    BY <1>12, <2>1 DEF InsertGenerated, Inserted, Typed
  <2>4. \A i \in DOMAIN worker'.answer :
          \/ worker'.answer[i] = worker.turn
          \/ i \in DOMAIN worker.answer /\ worker'.answer[i] = worker.answer[i]
    BY <2>1, <2>2, PositionFacts, EntryFacts
  <2>5. ~meddling =>
          /\ worker.turn = semantic /\ worker.base = semantic
          /\ \A i \in DOMAIN worker.answer :
               worker.answer[i] \in Revision => worker.answer[i] = semantic
    BY <2>1 DEF Fresh
  <2> QED BY <2>1, <2>2, <2>3, <2>4, <2>5 DEF Fresh
<1>13. CASE Reply
  <2>1. /\ UNCHANGED <<publishing, semantic, cache>> /\ worker'.pc = "idle"
        /\ worker.pc = "turn" /\ worker.for \in Reader
        /\ got' = [got EXCEPT ![worker.for] = [values |-> worker.answer,
                                               since |-> reader[worker.for].since]]
    BY <1>13 DEF Reply, Return, Rest, WorkerTyped
  <2>2. /\ got'[worker.for].values = worker.answer
        /\ got'[worker.for].since = reader[worker.for].since
        /\ \A q \in Reader : q # worker.for => got'[q] = got[q]
    BY <2>1 DEF ReadersTyped
  <2>3. ~meddling => \A i \in DOMAIN worker.answer :
          worker.answer[i] \in Revision => worker.answer[i] >= reader[worker.for].since
    BY <2>1, EntryFacts DEF Fresh, Past, ReadersTyped, Call, Typed
  <2> QED BY <2>1, <2>2, <2>3 DEF Fresh
<1>14. CASE UNCHANGED lifted
  BY <1>14 DEF lifted, Fresh
<1> QED BY <1>1, <1>2, <1>3, <1>4, <1>5, <1>6, <1>7, <1>8, <1>9, <1>10, <1>11, <1>12,
          <1>13, <1>14 DEF Next, Steps

-----------------------------------------------------------------------------
\* Everything together.
LiftedInv ==
  /\ Typed /\ ReadersTyped /\ WorkerTyped /\ Locked
  /\ Turns /\ NoneTrue /\ Past /\ Fresh

\* Initially nothing is cached, asked for or published.
LEMMA InitEstablishes == Init => LiftedInv
<1> SUFFICES ASSUME Init PROVE LiftedInv
  OBVIOUS
<1>1. /\ worker.pc = "idle" /\ worker.answer = <<>>
      /\ DOMAIN worker = {"pc", "for", "functions", "base", "prepared", "answer", "turn"}
  BY DEF Init, Rest
<1>2. <<>> \in Seq(Entry) /\ <<>> \in Seq(Request) /\ DOMAIN <<>> = {}
  OBVIOUS
<1>3. Typed
  BY EntryFacts DEF Init, Typed
<1>4. WorkerTyped
  BY <1>1, <1>2 DEF WorkerTyped
<1>5. ReadersTyped
  BY <1>2, EntryFacts, IdleFacts DEF Init, ReadersTyped, Answered
<1>6. Locked /\ Turns
  BY <1>1 DEF Init, Locked, Turns
<1>7. NoneTrue
  BY EntryFacts, IdleFacts DEF Init, NoneTrue
<1>8. Past
  BY IdleFacts DEF Init, Past
<1>9. Fresh
  BY <1>1, <1>2, EntryFacts DEF Init, Fresh
<1> QED BY <1>3, <1>4, <1>5, <1>6, <1>7, <1>8, <1>9 DEF LiftedInv

\* The invariant is inductive.
LEMMA LiftedInvKept == LiftedInv /\ [Next]_lifted => LiftedInv'
<1> SUFFICES ASSUME LiftedInv, [Next]_lifted PROVE LiftedInv'
  OBVIOUS
<1>1. meddling' = meddling
  BY DEF Next, lifted
<1>2. Typed' /\ ReadersTyped' /\ WorkerTyped' /\ Locked'
  BY TypedKept, ReadersKept, WorkerKept, LockedKept DEF LiftedInv
<1>3. Turns' /\ NoneTrue' /\ Past' /\ Fresh'
  BY <1>1, TurnsKept, NoneKept, PastKept, FreshKept DEF LiftedInv
<1> QED BY <1>2, <1>3 DEF LiftedInv

\* Reads are true: a cached "there is none" hides no stored artefact, and where the IL
\* analysers leave the inputs of lifting alone no call returns an artefact of inputs that
\* had been replaced before it (cached_il, apply_changes, load_current, generate_lifted).
THEOREM ReadsTrue == Spec => []ReadTrue
<1>1. LiftedInv => ReadTrue
  <2> SUFFICES ASSUME LiftedInv PROVE ReadTrue
    OBVIOUS
  <2>1. ReadFresh
    BY DEF LiftedInv, Fresh, ReadFresh, AlwaysFresh
  <2>2. AbsentTrue
    BY DEF LiftedInv, NoneTrue, AbsentTrue
  <2> QED BY <2>1, <2>2 DEF ReadTrue
<1> QED BY <1>1, InitEstablishes, LiftedInvKept, PTL DEF Spec

\* What a batch hands to the analysers of a function is lifted from the inputs as they are
\* at its turn, although analysers of earlier turns may have changed them
\* (generate_lifted_batch).
THEOREM TurnsFresh == Spec => []TurnFresh
<1>1. LiftedInv => TurnFresh
  BY DEF LiftedInv, Turns, TurnFresh
<1> QED BY <1>1, InitEstablishes, LiftedInvKept, PTL DEF Spec
================================================================================
