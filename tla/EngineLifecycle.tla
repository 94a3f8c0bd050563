-------------------------- MODULE EngineLifecycle --------------------------
(***************************************************************************)
(* The life of the analysis engine: threads that call AnalysisEngine,      *)
(* threads that hold a QueryReader, the bounded intake channel between     *)
(* them and the worker thread, and the ways the worker ends (shutdown,     *)
(* poison, a failed start).  From engine/mod.rs (the API, poison_check,    *)
(* receive_reply, shutdown), engine/worker.rs (run, drain, reject_pending) *)
(* and queries/reader.rs (request_generated, enter_query).                 *)
(*                                                                         *)
(* What a request does to the project is one bit, "applied"; a drain ends  *)
(* well, with an error, or having poisoned the engine.  flume's channels   *)
(* are external: a bounded channel whose queue outlives its receiver, so   *)
(* that what is still queued when the worker drops the receiver keeps its  *)
(* reply sender alive as long as a sender of the channel exists - which    *)
(* every QueryReader holds.                                                *)
(***************************************************************************)
EXTENDS Naturals, Sequences

CONSTANTS
  Caller,    \* threads that share the AnalysisEngine by reference
  Querier,   \* threads that own a QueryReader
  Owner,     \* who drops the engine
  None,      \* no message
  Capacity   \* channel_capacity

Client == Caller \cup Querier

Updating == "update"        \* CreateMapping, CreateSpace.., Updates, EnsureLifted
Kind == {Updating, "analyse", "setData", "schedule", "subscribe"}
Generating == {"generate", "batch"}                        \* lifted, lifted_batch
Drained == {Updating, "analyse", "shutdown"} \cup Generating  \* drain before they act
Unanswered == {"schedule", "subscribe"}                    \* no reply channel

ASSUME LifecycleAssumption ==
  /\ Capacity \in Nat \ {0}
  /\ Owner \notin Caller \cup Querier
  /\ Caller \cap Querier = {}
  /\ None \notin [from : Client \cup {Owner}, kind : Kind \cup Generating \cup {"shutdown"}]

Outcome == {"ok", "error", "poison"}

VARIABLES
  intake,     \* the channel's queue of messages
  open,       \* the worker's receiver exists
  deferred,   \* a message that ended the coalescing of ScheduleRanges
  worker,     \* [pc, msg, failed]: where Worker::run is
  poison,     \* the OnceLock is set
  active,     \* QueryEngine.active
  call,       \* each client's call: [pc, kind, applied]
  reply,      \* what each client's reply channel holds
  result,     \* what each client's last call returned
  owner       \* the engine handle: "open", "send", "join", "closed"

life == <<intake, open, deferred, worker, poison, active, call, reply, result, owner>>

Resting == [pc |-> "idle", kind |-> "none", applied |-> FALSE]
Message(c) == [from |-> c, kind |-> call[c].kind]

\* The worker thread has ended: worker_done is readable (a message, then
\* disconnected), for any number of receivers.
Gone == worker.pc = "gone"

\* The sender of c's reply channel exists.
SenderAlive(c) ==
  \/ \E i \in DOMAIN intake : intake[i].from = c
  \/ deferred # None /\ deferred.from = c
  \/ worker.msg # None /\ worker.msg.from = c

-----------------------------------------------------------------------------
(* Clients. *)

\* A finished call is forgotten, except that of an update whether it was
\* applied is kept to compare with what was returned.
Return(c, r) ==
  /\ call' = [call EXCEPT ![c] = IF @.kind = Updating THEN [@ EXCEPT !.pc = "idle"]
                                 ELSE Resting]
  /\ result' = [result EXCEPT ![c] = r]

\* poison_check for a call on the engine; enter_query's test of active for a
\* query; lifted_batch tests nothing.
Refusal(k) ==
  CASE k = "batch" -> "none"
    [] k = "generate" -> IF active THEN "none" ELSE "stopped"
    [] OTHER -> IF poison THEN "poisoned"
                ELSE IF Gone \/ ~open \/ ~active THEN "stopped" ELSE "none"

\* A client makes a call; a caller needs the engine's handle for it.
Begin(c, k) ==
  /\ call[c].pc = "idle"
  /\ IF c \in Caller THEN k \in Kind /\ owner = "open" ELSE k \in Generating
  /\ IF Refusal(k) # "none"
     THEN /\ call' = [call EXCEPT ![c] = Resting]
          /\ result' = [result EXCEPT ![c] = Refusal(k)]
          /\ UNCHANGED reply
     ELSE /\ call' = [call EXCEPT ![c] = [pc |-> "send", kind |-> k, applied |-> FALSE]]
          /\ reply' = [reply EXCEPT ![c] = "empty"]
          /\ UNCHANGED result
  /\ UNCHANGED <<intake, open, deferred, worker, poison, active, owner>>

\* A query that the cache or the project answers needs no worker.
AnswerFromCache(c) ==
  /\ call[c].pc = "send" /\ call[c].kind = "generate"
  /\ Return(c, "ok")
  /\ UNCHANGED <<intake, open, deferred, worker, poison, active, reply, owner>>

\* Mutant: send does not wait for room.
SendPastCapacity(c) ==
  /\ call[c].pc = "send" /\ open
  /\ intake' = Append(intake, Message(c))
  /\ IF call[c].kind \in Unanswered
     THEN Return(c, "ok")
     ELSE call' = [call EXCEPT ![c].pc = "wait"] /\ UNCHANGED result
  /\ UNCHANGED <<open, deferred, worker, poison, active, reply, owner>>

\* send blocks while the channel is full and fails once the receiver is gone.
Send(c) ==
  /\ call[c].pc = "send"
  /\ \/ /\ open /\ Len(intake) < Capacity
        /\ intake' = Append(intake, Message(c))
        /\ IF call[c].kind \in Unanswered
           THEN Return(c, "ok")
           ELSE call' = [call EXCEPT ![c].pc = "wait"] /\ UNCHANGED result
     \/ /\ ~open
        /\ Return(c, "stopped")
        /\ UNCHANGED intake
  /\ UNCHANGED <<open, deferred, worker, poison, active, reply, owner>>

\* Mutant: the engine waits for its reply alone.
ReceiveReplyOnly(c) ==
  /\ call[c].pc = "wait"
  /\ \/ reply[c] # "empty" /\ Return(c, reply[c])
     \/ reply[c] = "empty" /\ ~SenderAlive(c) /\ Return(c, "stopped")
  /\ UNCHANGED <<intake, open, deferred, worker, poison, active, reply, owner>>

\* receive_reply selects over the reply and worker_done, in no fixed order;
\* a reader (request_generated) receives from the reply channel alone.
Receive(c) ==
  /\ call[c].pc = "wait"
  /\ \/ reply[c] # "empty" /\ Return(c, reply[c])
     \/ reply[c] = "empty" /\ ~SenderAlive(c) /\ Return(c, "stopped")
     \/ c \in Caller /\ Gone /\ Return(c, "stopped")
  /\ UNCHANGED <<intake, open, deferred, worker, poison, active, reply, owner>>

\* Dropping the engine, or into_project, takes it by value: no call of a
\* caller is under way.  Readers live on.
Close ==
  /\ owner = "open" /\ \A c \in Caller : call[c].pc = "idle"
  /\ active' = FALSE
  /\ owner' = "send"
  /\ UNCHANGED <<intake, open, deferred, worker, poison, call, reply, result>>

SendShutdown ==
  /\ owner = "send"
  /\ \/ /\ open /\ Len(intake) < Capacity
        /\ intake' = Append(intake, [from |-> Owner, kind |-> "shutdown"])
     \/ ~open /\ UNCHANGED intake
  /\ owner' = "join"
  /\ UNCHANGED <<open, deferred, worker, poison, active, call, reply, result>>

Join ==
  /\ owner = "join" /\ Gone
  /\ owner' = "closed"
  /\ UNCHANGED <<intake, open, deferred, worker, poison, active, call, reply, result>>

-----------------------------------------------------------------------------
(* The worker. *)

At(pc) == [worker EXCEPT !.pc = pc]

\* The loop is entered, or Worker::new fails (an analyser cannot be built):
\* it drops the QueryEngine, and the thread sets the poison, signals
\* worker_done and drops the receiver last.
Start ==
  /\ worker.pc = "new"
  /\ \/ worker' = At("recv") /\ UNCHANGED <<poison, active>>
     \/ worker' = At("failed") /\ poison' = TRUE /\ active' = FALSE
  /\ UNCHANGED <<intake, open, deferred, call, reply, result, owner>>

StartFailed ==
  /\ \/ worker.pc = "failed" /\ worker' = At("gone") /\ UNCHANGED open
     \/ Gone /\ open /\ open' = FALSE /\ UNCHANGED worker
  /\ UNCHANGED <<intake, deferred, poison, active, call, reply, result, owner>>

FirstPc(msg) ==
  IF msg.kind \in Drained THEN "drain"
  ELSE IF msg.kind = "schedule" THEN "coalesce" ELSE "serve"

Take ==
  /\ worker.pc = "recv"
  /\ \/ /\ deferred # None
        /\ worker' = [pc |-> FirstPc(deferred), msg |-> deferred, failed |-> FALSE]
        /\ deferred' = None /\ UNCHANGED intake
     \/ /\ deferred = None /\ intake # <<>>
        /\ worker' = [pc |-> FirstPc(Head(intake)), msg |-> Head(intake), failed |-> FALSE]
        /\ intake' = Tail(intake) /\ UNCHANGED deferred
  /\ UNCHANGED <<open, poison, active, call, reply, result, owner>>

\* Mutant: the message that ends the coalescing is forgotten.
CoalesceForgets ==
  /\ worker.pc = "coalesce"
  /\ \/ intake = <<>> /\ worker' = [At("after") EXCEPT !.msg = None] /\ UNCHANGED intake
     \/ /\ intake # <<>> /\ intake' = Tail(intake)
        /\ worker' = IF Head(intake).kind = "schedule" THEN worker
                     ELSE [At("after") EXCEPT !.msg = None]
  /\ UNCHANGED <<open, deferred, poison, active, call, reply, result, owner>>

\* Consecutive ScheduleRanges are routed together; the first message of
\* another kind is kept for the next turn.
Coalesce ==
  /\ worker.pc = "coalesce"
  /\ \/ /\ intake = <<>>
        /\ worker' = [At("after") EXCEPT !.msg = None]
        /\ UNCHANGED <<intake, deferred>>
     \/ /\ intake # <<>> /\ Head(intake).kind = "schedule"
        /\ intake' = Tail(intake)
        /\ UNCHANGED <<worker, deferred>>
     \/ /\ intake # <<>> /\ Head(intake).kind # "schedule"
        /\ deferred' = Head(intake) /\ intake' = Tail(intake)
        /\ worker' = [At("after") EXCEPT !.msg = None]
  /\ UNCHANGED <<open, poison, active, call, reply, result, owner>>

\* A drain: at once an error when poisoned; otherwise it empties the work
\* queue, fails (storage, a completion hook) or poisons the engine
\* (completion that does not converge: poison_and_stop).
DrainEnds(o) ==
  /\ o \in (IF poison THEN {"error"} ELSE Outcome)
  /\ poison' = (poison \/ o = "poison")
  /\ active' = (active /\ o # "poison")

\* The drain before a request's operation.
DrainFirst(o) ==
  /\ worker.pc = "drain"
  /\ DrainEnds(o)
  /\ worker' = [worker EXCEPT !.pc = "serve", !.failed = (o # "ok")]
  /\ UNCHANGED <<intake, open, deferred, call, reply, result, owner>>

\* Mutant: the operation is performed whatever the drain returned.
ServeRegardless ==
  /\ worker.pc = "serve" /\ worker.msg.kind # "shutdown"
  /\ LET c == worker.msg.from IN
     /\ call' = IF worker.msg.kind = Updating
                THEN [call EXCEPT ![c].applied = TRUE] ELSE call
     /\ reply' = IF worker.msg.kind \in Unanswered THEN reply
                 ELSE [reply EXCEPT ![c] = IF worker.failed THEN "error" ELSE "ok"]
  /\ worker' = [worker EXCEPT !.pc = IF worker.msg.kind = "setData" THEN "recv" ELSE "after",
                              !.msg = None]
  /\ UNCHANGED <<intake, open, deferred, poison, active, result, owner>>

\* The operation, unless the drain failed, and the reply.  The operation may
\* itself be rejected, with no effect.
Serve ==
  /\ worker.pc = "serve" /\ worker.msg.kind # "shutdown"
  /\ LET c == worker.msg.from IN
     \E done \in IF worker.failed THEN {FALSE} ELSE BOOLEAN :
       /\ call' = IF done /\ worker.msg.kind = Updating
                  THEN [call EXCEPT ![c].applied = TRUE] ELSE call
       /\ reply' = IF worker.msg.kind \in Unanswered THEN reply
                   ELSE [reply EXCEPT ![c] = IF done THEN "ok" ELSE "error"]
  /\ worker' = [worker EXCEPT !.pc = IF worker.msg.kind = "setData" THEN "recv" ELSE "after",
                              !.msg = None]
  /\ UNCHANGED <<intake, open, deferred, poison, active, result, owner>>

\* Mutant: a Shutdown whose drain fails does not leave the loop.
ServeShutdownStays ==
  /\ worker.pc = "serve" /\ worker.msg.kind = "shutdown"
  /\ worker' = [At(IF worker.failed THEN "recv" ELSE "exit") EXCEPT !.msg = None]
  /\ UNCHANGED <<intake, open, deferred, poison, active, call, reply, result, owner>>

\* Shutdown leaves the loop after its drain; a failed one poisons the engine.
ServeShutdown ==
  /\ worker.pc = "serve" /\ worker.msg.kind = "shutdown"
  /\ poison' = (poison \/ worker.failed)
  /\ active' = (active /\ ~worker.failed)
  /\ worker' = [At("exit") EXCEPT !.msg = None]
  /\ UNCHANGED <<intake, open, deferred, call, reply, result, owner>>

\* The drain at the end of a turn: its failure poisons the engine.
DrainAfter(o) ==
  /\ worker.pc = "after"
  /\ o \in (IF poison THEN {"error"} ELSE Outcome)
  /\ poison' = (poison \/ o # "ok")
  /\ active' = (active /\ o = "ok")
  /\ worker' = At(IF o = "ok" THEN "recv" ELSE "reject")
  /\ UNCHANGED <<intake, open, deferred, call, reply, result, owner>>

\* Mutant: pending requests are answered as if they had been done.
RejectPendingOk ==
  /\ worker.pc = "reject"
  /\ \/ intake = <<>> /\ worker' = At("exit") /\ UNCHANGED <<intake, reply>>
     \/ /\ intake # <<>> /\ intake' = Tail(intake)
        /\ reply' = IF Head(intake).kind \in Unanswered \cup {"shutdown"} THEN reply
                    ELSE [reply EXCEPT ![Head(intake).from] = "ok"]
        /\ UNCHANGED worker
  /\ UNCHANGED <<open, deferred, poison, active, call, result, owner>>

RejectPending ==
  /\ worker.pc = "reject"
  /\ \/ /\ intake = <<>>
        /\ worker' = At("exit")
        /\ UNCHANGED <<intake, reply>>
     \/ /\ intake # <<>>
        /\ intake' = Tail(intake)
        /\ reply' = IF Head(intake).kind \in Unanswered \cup {"shutdown"} THEN reply
                    ELSE [reply EXCEPT ![Head(intake).from] = "poisoned"]
        /\ UNCHANGED worker
  /\ UNCHANGED <<open, deferred, poison, active, call, result, owner>>

\* An analyser, or the worker, panics: run is unwound.
Panic ==
  /\ worker.pc \in {"drain", "serve", "after"}
  /\ worker' = [At("exit") EXCEPT !.msg = None]
  /\ UNCHANGED <<intake, open, deferred, poison, active, call, reply, result, owner>>

\* Leaving run drops the deferred message, the receiver and the QueryEngine
\* (which marks the readers dead); then worker_done is signalled.
Exit ==
  /\ worker.pc = "exit"
  /\ worker' = At("done")
  /\ open' = FALSE /\ deferred' = None /\ active' = FALSE
  /\ UNCHANGED <<intake, poison, call, reply, result, owner>>

WorkerDone ==
  /\ worker.pc = "done"
  /\ worker' = At("gone")
  /\ UNCHANGED <<intake, open, deferred, poison, active, call, reply, result, owner>>

WorkerStep ==
  \/ Start \/ Take \/ Coalesce \/ Serve \/ ServeShutdown \/ RejectPending
  \/ \E o \in Outcome : DrainFirst(o) \/ DrainAfter(o)
  \/ Panic \/ Exit \/ WorkerDone \/ StartFailed

-----------------------------------------------------------------------------
Init ==
  /\ intake = <<>> /\ open = TRUE /\ deferred = None
  /\ worker = [pc |-> "new", msg |-> None, failed |-> FALSE]
  /\ poison = FALSE /\ active = TRUE
  /\ call = [c \in Client |-> Resting]
  /\ reply = [c \in Client |-> "empty"]
  /\ result = [c \in Client |-> "none"]
  /\ owner = "open"

\* Readers go on asking, and being refused, after the engine has closed.
Next ==
  \/ \E c \in Client, k \in Kind \cup Generating : Begin(c, k)
  \/ \E c \in Client : AnswerFromCache(c) \/ Send(c) \/ Receive(c)
  \/ Close \/ SendShutdown \/ Join
  \/ WorkerStep

Spec == Init /\ [][Next]_life

\* A client that was told the engine is poisoned or stopped makes no further
\* call: one that asked again at once, for ever, could keep reject_pending
\* from finding the channel empty.
GivesUp ==
  \A c \in Client : result[c] \in {"poisoned", "stopped"} => call'[c].pc = "idle"

\* The worker thread runs; a client that waits looks at its channels; a
\* sender blocked on a full channel is served in turn (flume queues them).
FairSpec ==
  /\ Spec
  /\ WF_life(WorkerStep)
  /\ \A c \in Client : SF_life(Send(c)) /\ WF_life(Receive(c))
  /\ SF_life(SendShutdown) /\ WF_life(Join)

-----------------------------------------------------------------------------
\* The type invariant of the channel, the worker and the clients.
LifeTypeOK ==
  /\ Len(intake) <= Capacity
  /\ \A i \in DOMAIN intake : intake[i].from \in Client \cup {Owner}
  /\ worker.pc \in {"new", "recv", "coalesce", "drain", "serve", "after", "reject",
                    "failed", "exit", "done", "gone"}
  /\ {open, poison, active} \subseteq BOOLEAN
  /\ \A c \in Client : /\ call[c].pc \in {"idle", "send", "wait"}
                       /\ reply[c] \in {"empty", "ok", "error", "poisoned"}
  /\ owner \in {"open", "send", "join", "closed"}

\* What a caller is told is true: an update answered Ok was applied, one
\* answered with an error or as poisoned was not (Worker::run's replies and
\* reject_pending).  Stopped leaves it open.
Truthful ==
  \A c \in Caller : call[c].pc = "idle" /\ call[c].kind = Updating =>
    /\ result[c] = "ok" => call[c].applied
    /\ result[c] \in {"error", "poisoned"} => ~call[c].applied

\* Once the engine is poisoned no operation is performed any more, whatever
\* is still queued (the poison check of drain before every operation).
NothingAfterPoison ==
  [][poison => \A c \in Client : call'[c].applied => call[c].applied]_life

Stopping == worker.pc \in {"exit", "done", "gone"}

\* While the worker lives, a client that waits is waiting for something: its
\* request is queued, deferred or being served, or its reply has come; the
\* one exception is a deferred request dropped when the engine was poisoned.
NoRequestForgotten ==
  \A c \in Client : call[c].pc = "wait" =>
    SenderAlive(c) \/ reply[c] # "empty" \/ poison \/ Stopping

\* Where clients that are told so give up, every call on the engine returns,
\* whatever becomes of the worker (receive_reply's selection over worker_done).
CallsReturn == <>[][GivesUp]_life => \A c \in Caller : call[c].pc # "idle" ~> call[c].pc = "idle"

\* Where they do, dropping the engine ends: the worker reads the Shutdown behind everything
\* queued before it and stops (shutdown's join).
CloseEnds == <>[][GivesUp]_life => (owner = "send" ~> owner = "closed")

\* Every query of a reader returns, after the engine has gone too.
ReadersReturn == <>[][GivesUp]_life => \A c \in Querier : call[c].pc # "idle" ~> call[c].pc = "idle"
=============================================================================
