-------------------------- MODULE EngineProofs --------------------------
(***************************************************************************)
(* The engine, for any number of callers, analysers and changes.           *)
(*                                                                         *)
(* EngineLifecycle: what a caller is told is true, a client that waits has *)
(* a message under way, and nothing is applied once the engine is          *)
(* poisoned, however the worker ends.  All of it rests on where the one    *)
(* message a client waits for can be: in the channel, deferred, or in the  *)
(* worker's hands, once, and then nothing has been done about it yet.      *)
(*                                                                         *)
(* Reanalysis: what an analyser produced is as recent as what it read, or  *)
(* its work is accounted for, and no change that triggers it is lost, for  *)
(* every change that a change set names.                                   *)
(***************************************************************************)
EXTENDS EngineLifecycle, Reanalysis, TLAPS

-----------------------------------------------------------------------------
(* EngineLifecycle. *)

\* What a client asks for, and the messages the channel carries.
Asked == Kind \cup Generating
Messages == [from : Client, kind : Asked] \cup {[from |-> Owner, kind |-> "shutdown"]}

\* The shapes of the state; Boolean fields are left out, which nothing here depends on.
Typed ==
  /\ intake \in Seq(Messages) /\ deferred \in Messages \cup {None}
  /\ DOMAIN worker = {"pc", "msg", "failed"} /\ worker.msg \in Messages \cup {None}
  /\ worker.pc \in {"new", "recv", "coalesce", "drain", "serve", "after", "reject",
                    "failed", "exit", "done", "gone"}
  /\ DOMAIN call = Client
  /\ \A c \in Client :
       /\ DOMAIN call[c] = {"pc", "kind", "applied"}
       /\ call[c].pc \in {"idle", "send", "wait"}
       /\ call[c].kind \in Asked \cup {"none"}
       /\ call[c].pc \in {"send", "wait"} => call[c].kind \in Asked
  /\ reply \in [Client -> {"empty", "ok", "error", "poisoned"}]
  /\ result \in [Client -> {"none", "ok", "error", "poisoned", "stopped"}]

\* The channel is never over capacity, and the flags and the handle have their types.
Bounded ==
  /\ Len(intake) <= Capacity
  /\ {open, poison, active} \subseteq BOOLEAN
  /\ owner \in {"open", "send", "join", "closed"}

\* The worker holds a message exactly while it works on it, and then none is deferred; a
\* request that is served after poisoning is one whose drain has failed.
Held ==
  /\ worker.pc \in {"coalesce", "drain", "serve"} => worker.msg # None /\ deferred = None
  /\ worker.pc \notin {"coalesce", "drain", "serve"} => worker.msg = None
  /\ worker.pc = "coalesce" => worker.msg.kind = "schedule"
  /\ worker.pc = "drain" => worker.msg.kind \in Drained
  /\ worker.pc = "reject" => poison
  /\ worker.pc = "serve" /\ poison /\ worker.msg.kind \in Drained => worker.failed

\* A message that c is to have a reply to.
Asks(m, c) == m # None /\ m.from = c /\ m.kind \notin Unanswered

\* Its sender waits, and nothing has been done about it.
Awaited(m, c) ==
  Asks(m, c) => /\ call[c].pc = "wait" /\ call[c].kind = m.kind
                /\ reply[c] = "empty" /\ call[c].applied = FALSE

\* While the worker lives a client has at most one such message under way.
Waiting ==
  ~Gone => \A c \in Client :
    /\ \A i \in DOMAIN intake : Awaited(intake[i], c)
    /\ Awaited(deferred, c) /\ Awaited(worker.msg, c)
    /\ \A i, j \in DOMAIN intake : Asks(intake[i], c) /\ Asks(intake[j], c) => i = j
    /\ \A i \in DOMAIN intake : Asks(intake[i], c) => ~Asks(deferred, c) /\ ~Asks(worker.msg, c)
    /\ ~(Asks(deferred, c) /\ Asks(worker.msg, c))

\* What is in the reply channel, and what was returned, is true.
Told ==
  \A c \in Client :
    /\ call[c].pc = "send" => reply[c] = "empty" /\ call[c].applied = FALSE
    /\ call[c].pc = "wait" => call[c].kind \in Asked \ Unanswered
    /\ call[c].kind = Updating =>
         /\ call[c].pc # "idle" /\ reply[c] = "ok" => call[c].applied = TRUE
         /\ call[c].pc # "idle" /\ reply[c] \in {"error", "poisoned"} =>
              call[c].applied = FALSE
         /\ call[c].pc = "idle" /\ result[c] = "ok" => call[c].applied = TRUE
         /\ call[c].pc = "idle" /\ result[c] \in {"error", "poisoned"} =>
              call[c].applied = FALSE

\* Who waits has a message under way, or a reply.
Remembered ==
  \A c \in Client : call[c].pc = "wait" =>
    \/ \E i \in DOMAIN intake : Asks(intake[i], c)
    \/ Asks(deferred, c) \/ Asks(worker.msg, c)
    \/ reply[c] # "empty" \/ poison \/ Stopping

-----------------------------------------------------------------------------
(* The channel's queue. *)

\* A queue's elements, head and tail are messages and queues of messages.
LEMMA QueueFacts ==
  ASSUME NEW q \in Seq(Messages)
  PROVE  /\ Len(q) \in Nat /\ DOMAIN q = 1..Len(q) /\ \A i \in DOMAIN q : q[i] \in Messages
         /\ \A m \in Messages : Append(q, m) \in Seq(Messages)
         /\ q # <<>> => Head(q) \in Messages /\ Tail(q) \in Seq(Messages) /\ Head(q) = q[1]
OBVIOUS

\* What is appended comes last and leaves the rest where it was.
LEMMA AppendFacts ==
  ASSUME NEW q \in Seq(Messages), NEW m \in Messages
  PROVE  /\ Append(q, m) \in Seq(Messages)
         /\ DOMAIN Append(q, m) = DOMAIN q \cup {Len(q) + 1} /\ Len(q) + 1 \notin DOMAIN q
         /\ Append(q, m)[Len(q) + 1] = m
         /\ \A i \in DOMAIN q : Append(q, m)[i] = q[i]
OBVIOUS

\* The tail is the queue moved up by one.
LEMMA TailFacts ==
  ASSUME NEW q \in Seq(Messages), q # <<>>
  PROVE  /\ 1 \in DOMAIN q /\ Head(q) = q[1] /\ DOMAIN q \subseteq Nat
         /\ \A i \in DOMAIN Tail(q) : i \in Nat \ {0} /\ i + 1 \in DOMAIN q /\ Tail(q)[i] = q[i + 1]
         /\ \A i \in DOMAIN q : i = 1 \/ (i - 1 \in DOMAIN Tail(q) /\ Tail(q)[i - 1] = q[i])
OBVIOUS

\* An append is one longer, a tail one shorter.
LEMMA LengthFacts ==
  ASSUME NEW q \in Seq(Messages)
  PROVE  /\ Len(q) \in Nat
         /\ \A m \in Messages : Len(Append(q, m)) = Len(q) + 1
         /\ q # <<>> => Len(Tail(q)) \in Nat /\ Len(Tail(q)) < Len(q)
OBVIOUS

\* A request that is queued is the head of the queue or still queued behind it.
LEMMA HeadOrTailAsks ==
  ASSUME NEW q \in Seq(Messages), q # <<>>, NEW c, \E i \in DOMAIN q : Asks(q[i], c)
  PROVE  Asks(q[1], c) \/ \E i \in DOMAIN Tail(q) : Asks(Tail(q)[i], c)
<1>1. PICK i \in DOMAIN q : Asks(q[i], c)
  OBVIOUS
<1>2. CASE i # 1
  <2>1. i - 1 \in DOMAIN Tail(q) /\ Asks(Tail(q)[i - 1], c)
    BY <1>1, <1>2, TailFacts
  <2> QED BY <2>1
<1> QED BY <1>1, <1>2

\* A message is a client's request or the owner's Shutdown, and is not None.
LEMMA MessageFacts ==
  /\ None \notin Messages /\ Owner \notin Client
  /\ \A m \in Messages : \/ m.from \in Client /\ m.kind \in Asked
                         \/ m.from = Owner /\ m.kind = "shutdown"
  /\ [from |-> Owner, kind |-> "shutdown"] \in Messages
  /\ \A c \in Client, k \in Asked : [from |-> c, kind |-> k] \in Messages
<1>1. None \notin Messages /\ Owner \notin Client
  BY LifecycleAssumption DEF Messages, Client, Asked
<1>2. \A m \in Messages : \/ m.from \in Client /\ m.kind \in Asked
                          \/ m.from = Owner /\ m.kind = "shutdown"
  BY DEF Messages
<1>3. /\ [from |-> Owner, kind |-> "shutdown"] \in Messages
      /\ \A c \in Client, k \in Asked : [from |-> c, kind |-> k] \in Messages
  BY DEF Messages
<1> QED BY <1>1, <1>2, <1>3

-----------------------------------------------------------------------------
(* Every step keeps every part of the invariant. *)

\* The shapes of the state are kept: what is appended, taken and deferred is a message.
LEMMA TypedKept ==
  ASSUME Typed, Held, [Next]_life
  PROVE  Typed'
<1>1. ASSUME NEW c \in Client, NEW k \in Kind \cup Generating, Begin(c, k) PROVE Typed'
  <2>1. Refusal(k) \in {"none", "poisoned", "stopped"}
    BY DEF Refusal
  <2>2. CASE Refusal(k) # "none"
    BY <1>1, <2>1, <2>2 DEF Begin, Typed, Resting
  <2>3. CASE Refusal(k) = "none"
    BY <1>1, <2>3 DEF Begin, Typed, Asked
  <2> QED BY <2>2, <2>3
<1>2. ASSUME NEW c \in Client, AnswerFromCache(c) PROVE Typed'
  BY <1>2 DEF AnswerFromCache, Return, Typed, Resting
<1>3. ASSUME NEW c \in Client, Send(c) PROVE Typed'
  <2>1. intake' \in Seq(Messages)
    BY <1>3, MessageFacts DEF Send, Typed, Message
  <2> QED BY <1>3, <2>1, SMTT(30) DEF Send, Typed, Return, Resting
<1>4. ASSUME NEW c \in Client, Receive(c) PROVE Typed'
  BY <1>4 DEF Receive, Return, Resting, Typed
<1>5. CASE Close
  BY <1>5 DEF Close, Typed
<1>6. CASE SendShutdown
  BY <1>6, MessageFacts DEF SendShutdown, Typed
<1>7. CASE Join
  BY <1>7 DEF Join, Typed
<1>8. CASE Start
  BY <1>8 DEF Start, At, Typed
<1>9. CASE Take
  <2>1. CASE deferred # None
    BY <1>9, <2>1 DEF Take, FirstPc, Typed
  <2>2. CASE deferred = None
    <3>1. Head(intake) \in Messages /\ intake' \in Seq(Messages)
      BY <1>9, <2>2, SMTT(30) DEF Take, Typed
    <3> QED BY <1>9, <2>2, <3>1 DEF Take, FirstPc, Typed
  <2> QED BY <2>1, <2>2
<1>10. CASE Coalesce
  <2>1. intake # <<>> => Head(intake) \in Messages /\ Tail(intake) \in Seq(Messages)
    BY DEF Typed
  <2> QED BY <1>10, <2>1 DEF Coalesce, At, Typed
<1>11. CASE Serve
  BY <1>11, MessageFacts DEF Serve, Typed, Held
<1>12. CASE ServeShutdown
  BY <1>12 DEF ServeShutdown, At, Typed
<1>13. CASE RejectPending
  <2>1. intake # <<>> => Head(intake) \in Messages /\ Tail(intake) \in Seq(Messages)
    BY DEF Typed
  <2> QED BY <1>13, <2>1 DEF RejectPending, At, Typed
<1>14. ASSUME NEW o \in Outcome, DrainFirst(o) PROVE Typed'
  BY <1>14 DEF DrainFirst, Typed
<1>15. ASSUME NEW o \in Outcome, DrainAfter(o) PROVE Typed'
  BY <1>15 DEF DrainAfter, At, Typed
<1>16. CASE Panic
  BY <1>16 DEF Panic, At, Typed
<1>17. CASE Exit
  BY <1>17 DEF Exit, At, Typed
<1>18. CASE WorkerDone
  BY <1>18 DEF WorkerDone, At, Typed
<1>19. CASE StartFailed
  BY <1>19 DEF StartFailed, At, Typed
<1>20. CASE UNCHANGED life
  BY <1>20 DEF life, Typed
<1> QED BY <1>1, <1>2, <1>3, <1>4, <1>5, <1>6, <1>7, <1>8, <1>9, <1>10, <1>11, <1>12,
          <1>13, <1>14, <1>15, <1>16, <1>17, <1>18, <1>19, <1>20 DEF Next, WorkerStep

\* A send waits for room, and only the handle's own steps move the handle.
LEMMA BoundedKept ==
  ASSUME Typed, Bounded, [Next]_life
  PROVE  Bounded'
<1>1. ASSUME NEW c \in Client, NEW k \in Kind \cup Generating, Begin(c, k) PROVE Bounded'
  BY <1>1 DEF Begin, Bounded
<1>2. ASSUME NEW c \in Client, AnswerFromCache(c) PROVE Bounded'
  BY <1>2 DEF AnswerFromCache, Bounded
<1>3. ASSUME NEW c \in Client, Send(c) PROVE Bounded'
  <2>1. Message(c) \in Messages
    BY <1>3, MessageFacts DEF Send, Typed, Message
  <2>2. Len(intake') <= Capacity
    BY <1>3, <2>1, LengthFacts, LifecycleAssumption DEF Send, Typed, Bounded
  <2> QED BY <1>3, <2>2 DEF Send, Bounded
<1>4. ASSUME NEW c \in Client, Receive(c) PROVE Bounded'
  BY <1>4 DEF Receive, Bounded
<1>5. CASE Close
  BY <1>5 DEF Close, Bounded, Typed, Outcome, life
<1>6. CASE SendShutdown
  <2>1. Len(intake') <= Capacity
    BY <1>6, LengthFacts, MessageFacts, LifecycleAssumption DEF SendShutdown, Typed, Bounded
  <2> QED BY <1>6, <2>1 DEF SendShutdown, Bounded
<1>7. CASE Join
  BY <1>7 DEF Join, Bounded
<1>8. CASE Start
  BY <1>8 DEF Start, At, Bounded, Typed, Outcome, life
<1>9. CASE Take
  <2>1. Len(intake') <= Capacity
    BY <1>9, LengthFacts, MessageFacts, LifecycleAssumption DEF Take, Typed, Bounded
  <2> QED BY <1>9, <2>1 DEF Take, Bounded
<1>10. CASE Coalesce
  <2>1. Len(intake') <= Capacity
    BY <1>10, LengthFacts, MessageFacts, LifecycleAssumption DEF Coalesce, Typed, Bounded
  <2> QED BY <1>10, <2>1 DEF Coalesce, Bounded
<1>11. CASE Serve
  BY <1>11 DEF Serve, Bounded
<1>12. CASE ServeShutdown
  BY <1>12 DEF ServeShutdown, Bounded
<1>13. CASE RejectPending
  <2>1. Len(intake') <= Capacity
    BY <1>13, LengthFacts, MessageFacts, LifecycleAssumption DEF RejectPending, Typed, Bounded
  <2> QED BY <1>13, <2>1 DEF RejectPending, Bounded
<1>14. ASSUME NEW o \in Outcome, DrainFirst(o) PROVE Bounded'
  BY <1>14 DEF DrainFirst, DrainEnds, Bounded
<1>15. ASSUME NEW o \in Outcome, DrainAfter(o) PROVE Bounded'
  BY <1>15 DEF DrainAfter, Bounded
<1>16. CASE Panic
  BY <1>16 DEF Panic, Bounded
<1>17. CASE Exit
  BY <1>17 DEF Exit, At, Bounded, Typed, Outcome, life
<1>18. CASE WorkerDone
  BY <1>18 DEF WorkerDone, Bounded
<1>19. CASE StartFailed
  BY <1>19 DEF StartFailed, At, Bounded, Typed, Outcome, life
<1>20. CASE UNCHANGED life
  BY <1>20 DEF life, Bounded
<1> QED BY <1>1, <1>2, <1>3, <1>4, <1>5, <1>6, <1>7, <1>8, <1>9, <1>10, <1>11, <1>12,
          <1>13, <1>14, <1>15, <1>16, <1>17, <1>18, <1>19, <1>20 DEF Next, WorkerStep

\* The worker lets go of its message when it has served it, and poison set by a drain
\* marks the request that the drain was for as failed.
LEMMA HeldKept ==
  ASSUME Typed, Held, [Next]_life
  PROVE  Held'
<1>1. ASSUME NEW c \in Client, NEW k \in Kind \cup Generating, Begin(c, k) PROVE Held'
  BY <1>1 DEF Begin, Held
<1>2. ASSUME NEW c \in Client, AnswerFromCache(c) PROVE Held'
  BY <1>2 DEF AnswerFromCache, Held
<1>3. ASSUME NEW c \in Client, Send(c) PROVE Held'
  BY <1>3 DEF Send, Held
<1>4. ASSUME NEW c \in Client, Receive(c) PROVE Held'
  BY <1>4 DEF Receive, Held
<1>5. CASE Close
  BY <1>5 DEF Close, Held
<1>6. CASE SendShutdown
  BY <1>6 DEF SendShutdown, Held
<1>7. CASE Join
  BY <1>7 DEF Join, Held
<1>8. CASE Start
  BY <1>8 DEF Start, At, Held, Typed
<1>9. CASE Take
  BY <1>9, MessageFacts DEF Take, FirstPc, Held, Typed
<1>10. CASE Coalesce
  <2>1. CASE UNCHANGED <<worker, deferred>>
    BY <1>10, <2>1 DEF Coalesce, Held
  <2>2. CASE worker' = [At("after") EXCEPT !.msg = None]
    <3>1. worker'.msg = None /\ worker'.pc = "after"
      BY <2>2 DEF At, Typed
    <3> QED BY <3>1 DEF Held
  <2> QED BY <1>10, <2>1, <2>2 DEF Coalesce
<1>11. CASE Serve
  BY <1>11 DEF Serve, Held
<1>12. CASE ServeShutdown
  BY <1>12 DEF ServeShutdown, At, Held
<1>13. CASE RejectPending
  BY <1>13 DEF RejectPending, At, Held, Typed
<1>14. ASSUME NEW o \in Outcome, DrainFirst(o) PROVE Held'
  BY <1>14, MessageFacts DEF DrainFirst, DrainEnds, Held, Typed, Outcome, Drained, life
<1>15. ASSUME NEW o \in Outcome, DrainAfter(o) PROVE Held'
  BY <1>15, MessageFacts DEF DrainAfter, At, Held, Typed, Outcome, Drained, life
<1>16. CASE Panic
  BY <1>16 DEF Panic, At, Held
<1>17. CASE Exit
  BY <1>17 DEF Exit, At, Held
<1>18. CASE WorkerDone
  BY <1>18 DEF WorkerDone, At, Held
<1>19. CASE StartFailed
  BY <1>19 DEF StartFailed, At, Held, Typed
<1>20. CASE UNCHANGED life
  BY <1>20 DEF life, Held
<1> QED BY <1>1, <1>2, <1>3, <1>4, <1>5, <1>6, <1>7, <1>8, <1>9, <1>10, <1>11, <1>12,
          <1>13, <1>14, <1>15, <1>16, <1>17, <1>18, <1>19, <1>20 DEF Next, WorkerStep

\* A client sends only when nothing of it is under way; a message that moves from the
\* channel to deferred or to the worker leaves its place, and one that is answered is gone.
LEMMA WaitingKept ==
  ASSUME Typed, Typed', Held, Told, Waiting, [Next]_life
  PROVE  Waiting'
<1>1. ASSUME NEW c \in Client, NEW k \in Kind \cup Generating, Begin(c, k) PROVE Waiting'
  BY <1>1 DEF Begin, Waiting, Awaited, Gone, Typed
<1>2. ASSUME NEW c \in Client, AnswerFromCache(c) PROVE Waiting'
  BY <1>2 DEF AnswerFromCache, Return, Waiting, Awaited, Gone
<1>3. ASSUME NEW c \in Client, Send(c) PROVE Waiting'
  <2>1. CASE open /\ Len(intake) < Capacity /\ intake' = Append(intake, Message(c))
    <3>1. Message(c) \in Messages /\ Message(c).from = c /\ Message(c).kind = call[c].kind
      BY <1>3, MessageFacts DEF Send, Typed, Message
    <3>2. ~Gone => /\ \A i \in DOMAIN intake : ~Asks(intake[i], c)
                   /\ ~Asks(deferred, c) /\ ~Asks(worker.msg, c)
      BY <1>3 DEF Send, Waiting, Awaited
    <3>3. /\ \A d \in Client : d # c => call'[d] = call[d]
          /\ call[c].kind \notin Unanswered =>
               call'[c].pc = "wait" /\ call'[c].kind = call[c].kind
                 /\ call'[c].applied = call[c].applied
          /\ reply[c] = "empty" /\ call[c].applied = FALSE
          /\ UNCHANGED <<reply, deferred, worker>>
      BY <1>3, <2>1 DEF Send, Return, Typed, Told
    <3>4. \A d \in Client : Asks(Message(c), d) => d = c /\ call[c].kind \notin Unanswered
      BY <3>1 DEF Asks
    <3> QED BY <2>1, <3>1, <3>2, <3>3, <3>4, AppendFacts
            DEF Waiting, Awaited, Asks, Gone, Typed
  <2>2. CASE Return(c, "stopped") /\ UNCHANGED intake
    BY <1>3, <2>2 DEF Send, Return, Waiting, Awaited, Asks, Gone, Typed
  <2> QED BY <1>3, <2>1, <2>2 DEF Send
<1>4. ASSUME NEW c \in Client, Receive(c) PROVE Waiting'
  <2>1. ~Gone => /\ \A i \in DOMAIN intake : ~Asks(intake[i], c)
                 /\ ~Asks(deferred, c) /\ ~Asks(worker.msg, c)
    BY <1>4 DEF Receive, Waiting, Awaited, Asks, SenderAlive
  <2> QED BY <1>4, <2>1 DEF Receive, Return, Waiting, Awaited, Asks, Gone, Typed
<1>5. CASE Close
  BY <1>5 DEF Close, Waiting, Awaited, Gone
<1>6. CASE SendShutdown
  <2>1. CASE intake' = Append(intake, [from |-> Owner, kind |-> "shutdown"])
    <3>1. \A d \in Client : ~Asks([from |-> Owner, kind |-> "shutdown"], d)
      BY MessageFacts DEF Asks
    <3> QED BY <1>6, <2>1, <3>1, MessageFacts, AppendFacts
            DEF SendShutdown, Waiting, Awaited, Gone, Typed
  <2>2. CASE UNCHANGED intake
    BY <1>6, <2>2 DEF SendShutdown, Waiting, Awaited, Asks, Gone
  <2> QED BY <1>6, <2>1, <2>2 DEF SendShutdown
<1>7. CASE Join
  BY <1>7 DEF Join, Waiting, Gone
<1>8. CASE Start
  BY <1>8 DEF Start, At, Waiting, Awaited, Gone, Typed
<1>9. CASE Take
  <2>1. CASE deferred # None
    BY <1>9, <2>1 DEF Take, Held, Waiting, Awaited, Asks, Gone, Typed
  <2>2. CASE deferred = None
    <3>1. ~Gone /\ worker'.msg = intake[1] /\ intake' = Tail(intake) /\ intake # <<>>
      BY <1>9, <2>2, TailFacts DEF Take, Gone, Typed
    <3> QED BY <1>9, <2>2, <3>1, TailFacts DEF Take, Waiting, Awaited, Asks, Typed
  <2> QED BY <2>1, <2>2
<1>10. CASE Coalesce
  <2>1. CASE intake = <<>>
    <3>1. /\ UNCHANGED <<intake, deferred, call, reply>>
          /\ worker'.msg = None /\ ~Gone /\ ~Gone'
      BY <1>10, <2>1 DEF Coalesce, At, Gone, Typed
    <3> QED BY <3>1 DEF Waiting, Awaited, Asks
  <2>2. CASE intake # <<>> /\ Head(intake).kind = "schedule"
    <3>1. /\ UNCHANGED <<deferred, worker, call, reply>>
          /\ intake' = Tail(intake) /\ ~Gone
      BY <1>10, <2>2 DEF Coalesce, Gone, Typed
    <3> QED BY <2>2, <3>1, TailFacts DEF Waiting, Awaited, Asks, Typed
  <2>3. CASE intake # <<>> /\ Head(intake).kind # "schedule"
    <3>1. /\ UNCHANGED <<call, reply>> /\ worker'.msg = None /\ ~Gone
          /\ deferred' = Head(intake) /\ intake' = Tail(intake) /\ deferred = None
      BY <1>10, <2>3 DEF Coalesce, At, Gone, Typed, Held
    <3> QED BY <2>3, <3>1, TailFacts DEF Waiting, Awaited, Asks, Typed
  <2> QED BY <2>1, <2>2, <2>3
<1>11. CASE Serve
  <2>1. worker.msg \in Messages /\ worker'.msg = None /\ ~Gone
    BY <1>11 DEF Serve, Held, Typed, Gone
  <2>2. \A d \in Client : ~Asks(worker.msg, d) => call'[d] = call[d] /\ reply'[d] = reply[d]
    BY <1>11, <2>1, MessageFacts DEF Serve, Asks, Typed, Unanswered, Updating
  <2>3. UNCHANGED <<intake, deferred>>
    BY <1>11 DEF Serve
  <2>4. \A d \in Client : Asks(worker.msg, d) =>
          /\ \A i \in DOMAIN intake : ~Asks(intake[i], d)
          /\ ~Asks(deferred, d)
    BY <2>1 DEF Waiting
  <2>5. \A d \in Client : ~Asks(None, d)
    BY DEF Asks
  <2> QED BY <2>1, <2>2, <2>3, <2>4, <2>5 DEF Waiting, Awaited, Asks
<1>12. CASE ServeShutdown
  BY <1>12 DEF ServeShutdown, Waiting, Awaited, Asks, Gone
<1>13. CASE RejectPending
  <2>1. CASE intake = <<>>
    BY <1>13, <2>1 DEF RejectPending, At, Waiting, Awaited, Asks, Gone, Typed
  <2>2. CASE intake # <<>>
    <3>1. ~Gone /\ intake' = Tail(intake) /\ UNCHANGED <<worker, deferred, call>>
          /\ intake[1] \in Messages
      BY <1>13, <2>2 DEF RejectPending, Gone, Typed
    <3>2. \A d \in Client : ~Asks(intake[1], d) => reply'[d] = reply[d]
      BY <1>13, <2>2, <3>1, MessageFacts, TailFacts
      DEF RejectPending, Asks, Typed, Unanswered
    <3> QED BY <2>2, <3>1, <3>2, TailFacts DEF Waiting, Awaited, Asks, Typed
  <2> QED BY <2>1, <2>2
<1>14. ASSUME NEW o \in Outcome, DrainFirst(o) PROVE Waiting'
  BY <1>14 DEF DrainFirst, Waiting, Awaited, Gone
<1>15. ASSUME NEW o \in Outcome, DrainAfter(o) PROVE Waiting'
  BY <1>15 DEF DrainAfter, At, Waiting, Awaited, Gone
<1>16. CASE Panic
  BY <1>16 DEF Panic, Waiting, Awaited, Asks, Gone
<1>17. CASE Exit
  BY <1>17 DEF Exit, At, Waiting, Awaited, Asks, Gone
<1>18. CASE WorkerDone
  BY <1>18 DEF WorkerDone, At, Waiting, Gone
<1>19. CASE StartFailed
  BY <1>19 DEF StartFailed, At, Waiting, Gone, Typed
<1>20. CASE UNCHANGED life
  BY <1>20 DEF life, Waiting, Awaited, Gone
<1> QED BY <1>1, <1>2, <1>3, <1>4, <1>5, <1>6, <1>7, <1>8, <1>9, <1>10, <1>11, <1>12,
          <1>13, <1>14, <1>15, <1>16, <1>17, <1>18, <1>19, <1>20 DEF Next, WorkerStep

\* A reply is written for the message in hand, whose sender waits and whose operation
\* has been performed exactly if the reply is Ok; a queued one that is rejected has not.
LEMMA ToldKept ==
  ASSUME Typed, Typed', Held, Waiting, Told, [Next]_life
  PROVE  Told'
<1>1. ASSUME NEW c \in Client, NEW k \in Kind \cup Generating, Begin(c, k) PROVE Told'
  BY <1>1 DEF Begin, Told, Typed, Resting, Updating
<1>2. ASSUME NEW c \in Client, AnswerFromCache(c) PROVE Told'
  BY <1>2 DEF AnswerFromCache, Return, Told, Resting, Updating
<1>3. ASSUME NEW c \in Client, Send(c) PROVE Told'
  <2>1. \/ Return(c, "ok") /\ call[c].kind \in Unanswered
        \/ Return(c, "stopped")
        \/ call' = [call EXCEPT ![c].pc = "wait"] /\ UNCHANGED result
           /\ call[c].kind \in Asked \ Unanswered
    BY <1>3 DEF Send, Typed
  <2>2. reply' = reply /\ call[c].pc = "send"
    BY <1>3 DEF Send
  <2> QED BY <2>1, <2>2 DEF Return, Resting, Told, Typed, Unanswered, Updating
<1>4. ASSUME NEW c \in Client, Receive(c) PROVE Told'
  BY <1>4 DEF Receive, Return, Resting, Told, Typed, Updating
<1>5. CASE Close
  BY <1>5 DEF Close, Told
<1>6. CASE SendShutdown
  BY <1>6 DEF SendShutdown, Told
<1>7. CASE Join
  BY <1>7 DEF Join, Told
<1>8. CASE Start
  BY <1>8 DEF Start, Told
<1>9. CASE Take
  BY <1>9 DEF Take, Told
<1>10. CASE Coalesce
  BY <1>10 DEF Coalesce, Told
<1>11. CASE Serve
  BY <1>11 DEF Serve, Told, Waiting, Awaited, Asks, Gone, Typed, Held, Unanswered,
     Updating
<1>12. CASE ServeShutdown
  BY <1>12 DEF ServeShutdown, Told
<1>13. CASE RejectPending
  BY <1>13, MessageFacts DEF RejectPending, Told, Waiting, Awaited, Asks, Gone, Typed
<1>14. ASSUME NEW o \in Outcome, DrainFirst(o) PROVE Told'
  BY <1>14 DEF DrainFirst, Told
<1>15. ASSUME NEW o \in Outcome, DrainAfter(o) PROVE Told'
  BY <1>15 DEF DrainAfter, Told
<1>16. CASE Panic
  BY <1>16 DEF Panic, Told
<1>17. CASE Exit
  BY <1>17 DEF Exit, Told
<1>18. CASE WorkerDone
  BY <1>18 DEF WorkerDone, Told
<1>19. CASE StartFailed
  BY <1>19 DEF StartFailed, Told
<1>20. CASE UNCHANGED life
  BY <1>20 DEF life, Told
<1> QED BY <1>1, <1>2, <1>3, <1>4, <1>5, <1>6, <1>7, <1>8, <1>9, <1>10, <1>11, <1>12,
          <1>13, <1>14, <1>15, <1>16, <1>17, <1>18, <1>19, <1>20 DEF Next, WorkerStep

\* A request leaves the channel only into the worker's hands, and those by a reply,
\* unless the engine is poisoned or stops.
LEMMA RememberedKept ==
  ASSUME Typed, Typed', Held, Told, Remembered, [Next]_life
  PROVE  Remembered'
<1>1. ASSUME NEW c \in Client, NEW k \in Kind \cup Generating, Begin(c, k) PROVE Remembered'
  BY <1>1 DEF Begin, Remembered, Stopping, Typed, Resting
<1>2. ASSUME NEW c \in Client, AnswerFromCache(c) PROVE Remembered'
  BY <1>2 DEF AnswerFromCache, Return, Resting, Remembered, Stopping, Typed
<1>3. ASSUME NEW c \in Client, Send(c) PROVE Remembered'
  <2>1. CASE open /\ Len(intake) < Capacity /\ intake' = Append(intake, Message(c))
    <3>1. Message(c) \in Messages /\ Message(c).from = c /\ Message(c).kind = call[c].kind
      BY <1>3, MessageFacts DEF Send, Typed, Message
    <3>2. /\ UNCHANGED <<deferred, worker, poison, reply>>
          /\ \A d \in Client : d # c => call'[d] = call[d]
          /\ call'[c].pc = "wait" => Asks(Message(c), c)
      BY <1>3, <2>1, <3>1, MessageFacts DEF Send, Return, Typed, Resting, Asks
    <3> QED BY <2>1, <3>1, <3>2, AppendFacts DEF Remembered, Stopping, Typed
  <2>2. CASE Return(c, "stopped") /\ UNCHANGED intake
    BY <1>3, <2>2 DEF Send, Return, Resting, Remembered, Stopping, Typed
  <2> QED BY <1>3, <2>1, <2>2 DEF Send
<1>4. ASSUME NEW c \in Client, Receive(c) PROVE Remembered'
  BY <1>4 DEF Receive, Return, Resting, Remembered, Stopping, Typed
<1>5. CASE Close
  BY <1>5 DEF Close, Remembered, Stopping
<1>6. CASE SendShutdown
  <2>1. /\ UNCHANGED <<deferred, worker, poison, reply, call>>
        /\ \/ UNCHANGED intake
           \/ intake' = Append(intake, [from |-> Owner, kind |-> "shutdown"])
    BY <1>6 DEF SendShutdown
  <2> QED BY <2>1, MessageFacts, AppendFacts DEF Remembered, Stopping, Typed
<1>7. CASE Join
  BY <1>7 DEF Join, Remembered, Stopping
<1>8. CASE Start
  BY <1>8 DEF Start, Remembered, Asks, Stopping, Held
<1>9. CASE Take
  <2>1. CASE deferred # None
    BY <1>9, <2>1 DEF Take, FirstPc, Held, Remembered, Asks, Stopping, Typed
  <2>2. CASE deferred = None
    <3>1. /\ worker'.msg = intake[1] /\ intake' = Tail(intake) /\ intake # <<>>
          /\ UNCHANGED <<deferred, call, reply, poison>>
          /\ ~Stopping /\ worker.msg = None
      BY <1>9, <2>2, TailFacts DEF Take, Held, Stopping, Typed
    <3>2. \A d : ~Asks(None, d)
      BY DEF Asks
    <3> QED BY <2>2, <3>1, <3>2, HeadOrTailAsks DEF Remembered, Typed
  <2> QED BY <2>1, <2>2
<1>10. CASE Coalesce
  <2>1. ~Stopping /\ \A d : ~Asks(worker.msg, d) /\ ~Asks(deferred, d)
        /\ UNCHANGED <<call, reply, poison>>
    BY <1>10 DEF Coalesce, Stopping, Held, Asks, Unanswered
  <2>2. CASE intake = <<>>
    BY <1>10, <2>1, <2>2 DEF Coalesce, Remembered, Typed
  <2>3. CASE intake # <<>> /\ Head(intake).kind = "schedule"
    <3>1. intake' = Tail(intake) /\ \A d : ~Asks(intake[1], d)
      BY <1>10, <2>3, TailFacts DEF Coalesce, Asks, Unanswered, Typed
    <3> QED BY <2>1, <2>3, <3>1, HeadOrTailAsks DEF Remembered, Typed
  <2>4. CASE intake # <<>> /\ Head(intake).kind # "schedule"
    <3>1. intake' = Tail(intake) /\ deferred' = intake[1]
      BY <1>10, <2>4, TailFacts DEF Coalesce, Typed
    <3> QED BY <2>1, <2>4, <3>1, HeadOrTailAsks DEF Remembered, Typed
  <2> QED BY <2>2, <2>3, <2>4
<1>11. CASE Serve
  <2>1. /\ worker.msg \in Messages /\ worker'.msg = None /\ ~Stopping
        /\ UNCHANGED <<intake, deferred, poison>>
        /\ \A d \in Client : call'[d].pc = call[d].pc
    BY <1>11, MessageFacts DEF Serve, Held, Typed, Stopping
  <2>2. \A d \in Client : IF Asks(worker.msg, d) THEN reply'[d] # "empty"
                         ELSE reply'[d] = reply[d]
    BY <1>11, <2>1, MessageFacts DEF Serve, Asks, Typed, Unanswered
  <2> QED BY <2>1, <2>2 DEF Remembered
<1>12. CASE ServeShutdown
  BY <1>12 DEF ServeShutdown, At, Remembered, Stopping
<1>13. CASE RejectPending
  <2>1. poison' = poison /\ poison
    BY <1>13 DEF RejectPending, Held
  <2> QED BY <2>1 DEF Remembered
<1>14. ASSUME NEW o \in Outcome, DrainFirst(o) PROVE Remembered'
  <2>1. /\ UNCHANGED <<intake, deferred, call, reply>> /\ worker'.msg = worker.msg
        /\ ~Stopping /\ (poison => poison')
    BY <1>14 DEF DrainFirst, DrainEnds, Stopping, Typed
  <2> QED BY <2>1 DEF Remembered
<1>15. ASSUME NEW o \in Outcome, DrainAfter(o) PROVE Remembered'
  <2>1. /\ UNCHANGED <<intake, deferred, call, reply>> /\ worker'.msg = worker.msg
        /\ ~Stopping /\ (poison => poison')
    BY <1>15 DEF DrainAfter, At, Stopping, Typed
  <2> QED BY <2>1 DEF Remembered
<1>16. CASE Panic
  BY <1>16 DEF Panic, At, Remembered, Stopping
<1>17. CASE Exit
  BY <1>17 DEF Exit, At, Remembered, Stopping
<1>18. CASE WorkerDone
  BY <1>18 DEF WorkerDone, At, Remembered, Stopping
<1>19. CASE StartFailed
  BY <1>19 DEF StartFailed, Remembered, Asks, Stopping, Held
<1>20. CASE UNCHANGED life
  BY <1>20 DEF life, Remembered, Stopping
<1> QED BY <1>1, <1>2, <1>3, <1>4, <1>5, <1>6, <1>7, <1>8, <1>9, <1>10, <1>11, <1>12,
          <1>13, <1>14, <1>15, <1>16, <1>17, <1>18, <1>19, <1>20 DEF Next, WorkerStep

-----------------------------------------------------------------------------
LifeInv == Typed /\ Bounded /\ Held /\ Waiting /\ Told /\ Remembered

\* Initially nothing is queued, deferred or in hand, and nobody waits.
LEMMA InitEstablishes == Init => LifeInv
<1> SUFFICES ASSUME Init PROVE LifeInv
  OBVIOUS
<1>1. /\ \A c \in Client : /\ call[c].pc = "idle" /\ call[c].kind = "none"
                           /\ call[c].applied = FALSE /\ DOMAIN call[c] = {"pc", "kind", "applied"}
      /\ intake = <<>> /\ deferred = None /\ worker.msg = None /\ worker.pc = "new"
      /\ DOMAIN worker = {"pc", "msg", "failed"} /\ DOMAIN call = Client
  BY DEF Init, Resting
<1>2. Typed
  BY <1>1 DEF Init, Typed
<1>3. Bounded
  <2>1. Len(intake) <= Capacity
    BY <1>1, LifecycleAssumption
  <2>2. open \in BOOLEAN /\ poison \in BOOLEAN /\ active \in BOOLEAN /\ owner = "open"
    BY Zenon DEF Init
  <2> QED BY <2>1, <2>2 DEF Bounded
<1>4. Held
  BY <1>1 DEF Held
<1>5. Waiting /\ Remembered
  BY <1>1 DEF Waiting, Awaited, Asks, Remembered
<1>6. Told
  BY <1>1 DEF Told, Updating
<1> QED BY <1>2, <1>3, <1>4, <1>5, <1>6 DEF LifeInv

\* The invariant is inductive.
LEMMA LifeInvKept == LifeInv /\ [Next]_life => LifeInv'
<1> SUFFICES ASSUME LifeInv, [Next]_life PROVE LifeInv'
  OBVIOUS
<1>1. Typed'
  BY TypedKept DEF LifeInv
<1>2. Bounded' /\ Held' /\ Waiting' /\ Told' /\ Remembered'
  BY <1>1, BoundedKept, HeldKept, WaitingKept, ToldKept, RememberedKept DEF LifeInv
<1> QED BY <1>1, <1>2 DEF LifeInv

\* The channel, the worker and the calls keep their shapes, and send's wait for room keeps
\* the channel within channel_capacity (the bounded intake channel of AnalysisEngine).
THEOREM TypeCorrect == Spec => []LifeTypeOK
<1>1. LifeInv => LifeTypeOK
  <2> SUFFICES ASSUME LifeInv PROVE LifeTypeOK
    OBVIOUS
  <2>1. \A i \in DOMAIN intake : intake[i].from \in Client \cup {Owner}
    BY QueueFacts, MessageFacts DEF LifeInv, Typed
  <2> QED BY <2>1 DEF LifeInv, Typed, Bounded, LifeTypeOK
<1> QED BY <1>1, InitEstablishes, LifeInvKept, PTL DEF Spec

\* What a caller is told of an update is true: Ok means that it was applied, an error or
\* Poisoned that it was not (Worker::run's replies and reject_pending).
THEOREM CallersToldTruth == Spec => []Truthful
<1>1. LifeInv => Truthful
  BY DEF LifeInv, Told, Truthful, Client
<1> QED BY <1>1, InitEstablishes, LifeInvKept, PTL DEF Spec

\* While the worker lives and is not poisoned, a client that waits has its request queued,
\* deferred or in service, or its reply at hand (run, the coalescing of ScheduleRanges).
THEOREM RequestsRemembered == Spec => []NoRequestForgotten
<1>1. LifeInv => NoRequestForgotten
  BY DEF LifeInv, Remembered, Asks, NoRequestForgotten, SenderAlive
<1> QED BY <1>1, InitEstablishes, LifeInvKept, PTL DEF Spec

\* Once the engine is poisoned no step performs an operation (the poison check of drain in
\* front of every operation).
THEOREM PoisonIsFinal == Spec => NothingAfterPoison
<1>1. LifeInv /\ [Next]_life =>
        [poison => \A c \in Client : call'[c].applied => call[c].applied]_life
  <2> SUFFICES ASSUME LifeInv, [Next]_life, poison, NEW d \in Client, call'[d].applied
               PROVE  call[d].applied
    OBVIOUS
  <2>1. ASSUME NEW c \in Client, NEW k \in Kind \cup Generating, Begin(c, k) PROVE call[d].applied
    BY <2>1 DEF Begin, Return, Resting, LifeInv, Typed
  <2>2. ASSUME NEW c \in Client, AnswerFromCache(c) PROVE call[d].applied
    BY <2>2 DEF AnswerFromCache, Return, Resting, LifeInv, Typed
  <2>3. ASSUME NEW c \in Client, Send(c) PROVE call[d].applied
    BY <2>3 DEF Send, Return, Resting, LifeInv, Typed
  <2>4. ASSUME NEW c \in Client, Receive(c) PROVE call[d].applied
    BY <2>4 DEF Receive, Return, Resting, LifeInv, Typed
  <2>5. CASE Close
    BY <2>5 DEF Close
  <2>6. CASE SendShutdown
    BY <2>6 DEF SendShutdown
  <2>7. CASE Join
    BY <2>7 DEF Join
  <2>8. CASE Start
    BY <2>8 DEF Start
  <2>9. CASE Take
    BY <2>9 DEF Take
  <2>10. CASE Coalesce
    BY <2>10 DEF Coalesce
  <2>11. CASE Serve
    BY <2>11 DEF Serve, LifeInv, Held, Typed, Drained, Updating
  <2>12. CASE ServeShutdown
    BY <2>12 DEF ServeShutdown
  <2>13. CASE RejectPending
    BY <2>13 DEF RejectPending
  <2>14. ASSUME NEW o \in Outcome, DrainFirst(o) PROVE call[d].applied
    BY <2>14 DEF DrainFirst
  <2>15. ASSUME NEW o \in Outcome, DrainAfter(o) PROVE call[d].applied
    BY <2>15 DEF DrainAfter
  <2>16. CASE Panic
    BY <2>16 DEF Panic
  <2>17. CASE Exit
    BY <2>17 DEF Exit
  <2>18. CASE WorkerDone
    BY <2>18 DEF WorkerDone
  <2>19. CASE StartFailed
    BY <2>19 DEF StartFailed
  <2>20. CASE UNCHANGED life
    BY <2>20 DEF life
  <2> QED BY <2>1, <2>2, <2>3, <2>4, <2>5, <2>6, <2>7, <2>8, <2>9, <2>10, <2>11, <2>12,
             <2>13, <2>14, <2>15, <2>16, <2>17, <2>18, <2>19, <2>20
          DEF Next, WorkerStep
<1> QED BY <1>1, InitEstablishes, LifeInvKept, PTL DEF Spec, NothingAfterPoison

-----------------------------------------------------------------------------
(* Reanalysis: the invariant. *)

\* No change is later than the project's revision.
InTime == \A a \in Analyser, r \in Record : seen[a][r] <= now

\* The invariant behind UpToDate and TriggersServed.
RoutingInv == RoutingTypeOK /\ InTime /\ UpToDate /\ TriggersServed

QueueType == [Analyser -> [Place -> [BOOLEAN -> 0..MaxAttempts]]]

-----------------------------------------------------------------------------
(* The operators of routing. *)

\* The larger of two numbers.
LEMMA LargerOfTwo ==
  ASSUME NEW x \in Nat, NEW y \in Nat
  PROVE  Max({x, y}) \in {x, y} /\ Max({x, y}) >= x /\ Max({x, y}) >= y
<1> \E m \in {x, y} : \A z \in {x, y} : m >= z
  OBVIOUS
<1> QED BY DEF Max

\* Whatever commits change or publish is a set of records.
LEMMA CommitRecords ==
  ASSUME NEW w \in Publications
  PROVE  w[1] \in SUBSET Record /\ w[2] \in BOOLEAN
<1>1. CASE w \in Commits
  <2>1. w \in (SUBSET Record) \X BOOLEAN
    BY <1>1, ReanalysisAssumption
  <2> QED BY <2>1
<1>2. CASE w = <<{}, FALSE>>
  BY <1>2
<1> QED BY <1>1, <1>2 DEF Publications

LEMMA StagedRecords ==
  ASSUME NEW w \in SUBSET Record, NEW collapsed \in BOOLEAN
  PROVE  Staged(w, collapsed) \in SUBSET Record
BY ReanalysisAssumption DEF Staged, Record, Place, Whole

\* A commit cancels and schedules at places only.
LEMMA RoutedPlaces ==
  ASSUME NEW w \in SUBSET Record, NEW a \in Analyser, NEW by
  PROVE  /\ Retracted(w) \subseteq Place /\ Direct(a, by, w) \subseteq Place
         /\ Invalidated(a, by, w) \subseteq Place
<1>1. \A k : Regions(w, k) \subseteq Place
  BY DEF Regions, PlacesOf, Record
<1>2. Whole \in Place
  BY ReanalysisAssumption DEF Whole, Place
<1> QED BY <1>1, <1>2 DEF Retracted, Direct, Invalidated

\* route_changes: what is to be scheduled is queued afterwards; what was queued is, or was
\* cancelled; nothing else is.
LEMMA RoutedQueue ==
  ASSUME NEW q \in QueueType, NEW by, NEW w \in SUBSET Record
  PROVE  /\ Routed(q, by, w) \in QueueType
         /\ \A a \in Analyser, p \in Place :
              /\ p \in Direct(a, by, w) \cup Invalidated(a, by, w) =>
                   Queued(Routed(q, by, w), a, p)
              /\ Queued(q, a, p) => Queued(Routed(q, by, w), a, p) \/ <<a, p>> \in CancelledBy(q, w)
              /\ Queued(Routed(q, by, w), a, p) =>
                   Queued(q, a, p) \/ p \in Direct(a, by, w) \cup Invalidated(a, by, w)
<1> DEFINE kept(a, p, c) == IF a \in Cancellable /\ p \in Retracted(w) THEN 0 ELSE q[a][p][c]
           new(a, p) == p \in Direct(a, by, w) \cup Invalidated(a, by, w)
           val(a, p, c) == IF ~c /\ new(a, p) THEN Max({kept(a, p, c), 1}) ELSE kept(a, p, c)
<1>1. Routed(q, by, w) = [a \in Analyser |-> [p \in Place |-> [c \in BOOLEAN |-> val(a, p, c)]]]
  BY DEF Routed
<1>2. \A a \in Analyser, p \in Place, c \in BOOLEAN : q[a][p][c] \in 0..MaxAttempts
  BY DEF QueueType
<1>3. \A a \in Analyser, p \in Place, c \in BOOLEAN : kept(a, p, c) \in 0..MaxAttempts
  BY <1>2, ReanalysisAssumption
<1>4. \A a \in Analyser, p \in Place, c \in BOOLEAN :
        /\ val(a, p, c) \in 0..MaxAttempts
        /\ ~c /\ new(a, p) => val(a, p, c) > 0
        /\ kept(a, p, c) > 0 => val(a, p, c) > 0
        /\ val(a, p, c) > 0 => kept(a, p, c) > 0 \/ new(a, p)
  <2> TAKE a \in Analyser, p \in Place, c \in BOOLEAN
  <2> HIDE DEF kept, new
  <2>1. kept(a, p, c) \in Nat /\ kept(a, p, c) <= MaxAttempts
    BY <1>3
  <2>2. /\ Max({kept(a, p, c), 1}) \in {kept(a, p, c), 1}
        /\ Max({kept(a, p, c), 1}) >= kept(a, p, c) /\ Max({kept(a, p, c), 1}) >= 1
    BY <2>1, LargerOfTwo
  <2> QED BY <2>1, <2>2, ReanalysisAssumption
<1> HIDE DEF val, new
<1>5. Routed(q, by, w) \in QueueType
  BY <1>1, <1>4 DEF QueueType
<1>6. \A a \in Analyser, p \in Place :
        Queued(Routed(q, by, w), a, p) <=> \E c \in BOOLEAN : val(a, p, c) > 0
  BY <1>1 DEF Queued
<1>7. ASSUME NEW a \in Analyser, NEW p \in Place, Queued(q, a, p)
      PROVE  Queued(Routed(q, by, w), a, p) \/ <<a, p>> \in CancelledBy(q, w)
  <2>1. CASE a \in Cancellable /\ p \in Retracted(w)
    BY <1>7, <2>1 DEF Queued, CancelledBy
  <2>2. CASE ~(a \in Cancellable /\ p \in Retracted(w))
    BY <1>4, <1>6, <1>7, <2>2 DEF Queued
  <2> QED BY <2>1, <2>2
<1>8. \A a \in Analyser, p \in Place, c \in BOOLEAN : kept(a, p, c) > 0 => q[a][p][c] > 0
  OBVIOUS
<1>9. \A a \in Analyser, p \in Place :
        Queued(Routed(q, by, w), a, p) => Queued(q, a, p) \/ new(a, p)
  BY <1>4, <1>6, <1>8 DEF Queued
<1>10. \A a \in Analyser, p \in Place : new(a, p) => Queued(Routed(q, by, w), a, p)
  BY <1>4, <1>6
<1> QED BY <1>5, <1>7, <1>9, <1>10 DEF new

\* What is cancelled is work of an analyser at a place.
LEMMA CancelledTyped ==
  ASSUME NEW q, NEW w \in SUBSET Record
  PROVE  CancelledBy(q, w) \subseteq Analyser \X Place
<1>1. Retracted(w) \subseteq Place
  BY DEF Retracted, Regions, PlacesOf, Record
<1> QED BY <1>1, ReanalysisAssumption DEF CancelledBy

\* A batch is some of what is queued.
LEMMA BatchQueued ==
  ASSUME RoutingTypeOK, NEW a \in Analyser, NEW c \in BOOLEAN, NEW batch \in Batches(a, c)
  PROVE  /\ batch \subseteq Place /\ batch # {}
         /\ \A p \in batch : queue[a][p][c] \in 1..MaxAttempts /\ Queued(queue, a, p)
<1> DEFINE at == { p \in Place : queue[a][p][c] > 0 }
<1>1. PICK last \in at : batch = { p \in at : p <= last }
  BY DEF Batches
<1>2. last \in Place /\ last <= last /\ last \in batch
  BY <1>1 DEF Place
<1>3. \A p \in batch : p \in Place /\ queue[a][p][c] > 0 /\ queue[a][p][c] \in 0..MaxAttempts
  BY <1>1 DEF RoutingTypeOK
<1> HIDE DEF at
<1> QED BY <1>2, <1>3, ReanalysisAssumption DEF Queued

\* Taking a batch leaves the rest of the queue.
LEMMA PoppedQueue ==
  ASSUME RoutingTypeOK, NEW a \in Analyser, NEW c \in BOOLEAN, NEW batch \in SUBSET Place
  PROVE  /\ Popped(a, c, batch) \in QueueType
         /\ \A b \in Analyser, p \in Place :
              /\ Queued(Popped(a, c, batch), b, p) => Queued(queue, b, p)
              /\ Queued(queue, b, p) /\ ~(b = a /\ p \in batch) => Queued(Popped(a, c, batch), b, p)
<1> DEFINE val(b, p, d) == IF b = a /\ p \in batch /\ d = c THEN 0 ELSE queue[b][p][d]
<1>1. queue \in QueueType
  BY DEF RoutingTypeOK, QueueType
<1>2. \A b \in Analyser, p \in Place, d \in BOOLEAN : queue[b][p][d] \in 0..MaxAttempts
  BY <1>1 DEF QueueType
<1> DEFINE row == [p \in Place |-> IF p \in batch THEN [queue[a][p] EXCEPT ![c] = 0] ELSE queue[a][p]]
<1>3. Popped(a, c, batch) = [queue EXCEPT ![a] = row]
  BY <1>1 DEF Popped, QueueType
<1>4. \A p \in Place : queue[a][p] \in [BOOLEAN -> 0..MaxAttempts]
  BY <1>1 DEF QueueType
<1>5. \A p \in Place : row[p] \in [BOOLEAN -> 0..MaxAttempts]
  BY <1>4, ReanalysisAssumption
<1>6. \A p \in Place, d \in BOOLEAN : row[p][d] = val(a, p, d)
  BY <1>4
<1>7. Popped(a, c, batch) \in QueueType
  <2>1. row \in [Place -> [BOOLEAN -> 0..MaxAttempts]]
    BY <1>5
  <2> QED BY <1>1, <1>3, <2>1 DEF QueueType
<1>8. \A b \in Analyser, p \in Place, d \in BOOLEAN : Popped(a, c, batch)[b][p][d] = val(b, p, d)
  <2> HIDE DEF row
  <2> QED BY <1>1, <1>3, <1>6 DEF QueueType
<1> QED BY <1>7, <1>8 DEF Queued

-----------------------------------------------------------------------------
(* A commit. *)

\* What a commit makes stale and names it schedules.
LEMMA CommitSchedules ==
  ASSUME RoutingInv, NEW by, NEW w \in SUBSET Record, NEW collapsed \in BOOLEAN,
         w # {} => now < MaxRevision, Published(by, w, collapsed)
  PROVE  /\ now' \in now..MaxRevision /\ now \in Nat
         /\ seen' \in [Analyser -> [Record -> 0..MaxRevision]]
         /\ missed' \in [Analyser -> [Record -> 0..MaxRevision]]
         /\ InTime'
         /\ \A a \in Analyser, r \in Record : seen'[a][r] # seen[a][r] =>
              /\ \A p \in Place : \A read \in reads[a][p] :
                   Reads(read, r) /\ r[1] \in Tracked =>
                     p \in Invalidated(a, by, Staged(w, collapsed))
              /\ r[1] \in Triggers[a] => r[2] \in Direct(a, by, Staged(w, collapsed))
<1>1. now' \in now..MaxRevision /\ now \in Nat /\ now' \in 0..MaxRevision
  BY ReanalysisAssumption DEF RoutingInv, RoutingTypeOK, Published
<1>2. /\ seen' \in [Analyser -> [Record -> 0..MaxRevision]]
      /\ missed' \in [Analyser -> [Record -> 0..MaxRevision]]
  BY <1>1 DEF RoutingInv, RoutingTypeOK, Published
<1>3. InTime'
  <2>1. \A a \in Analyser, r \in Record : seen[a][r] \in 0..MaxRevision /\ seen[a][r] <= now
    BY DEF RoutingInv, RoutingTypeOK, InTime
  <2>2. ASSUME NEW a \in Analyser, NEW r \in Record PROVE seen'[a][r] <= now'
    BY <1>1, <2>1 DEF Published
  <2> QED BY <2>2 DEF InTime
<1>4. ASSUME NEW a \in Analyser, NEW r \in Record, seen'[a][r] # seen[a][r]
      PROVE  /\ \A p \in Place : \A read \in reads[a][p] :
                  Reads(read, r) /\ r[1] \in Tracked =>
                    p \in Invalidated(a, by, Staged(w, collapsed))
             /\ r[1] \in Triggers[a] => r[2] \in Direct(a, by, Staged(w, collapsed))
  <2>1. r \in Named(w, collapsed) /\ ~SelfProduced(a, by, r[1])
    BY <1>4 DEF Published
  <2>2. /\ r \in w /\ Staged(w, collapsed) = w
        /\ r[2] = Whole => Regions(w, r[1]) = {}
    BY <2>1 DEF Named, Staged
  <2>3. r[1] \in KindsOf(w) /\ r[2] \in PlacesOf(w, r[1])
    BY <2>2 DEF KindsOf, PlacesOf
  <2>4. r[2] # Whole => r[2] \in Regions(w, r[1])
    BY <2>3 DEF Regions
  <2>5. ASSUME NEW p \in Place, NEW read \in reads[a][p], Reads(read, r), r[1] \in Tracked
        PROVE  p \in Invalidated(a, by, w)
    <3>1. Concerns(read, r[1], Regions(w, r[1]))
      BY <2>2, <2>4, <2>5 DEF Concerns, Reads
    <3> QED BY <2>1, <2>3, <2>5, <3>1 DEF Invalidated
  <2>6. ASSUME r[1] \in Triggers[a] PROVE r[2] \in Direct(a, by, w)
    <3>1. r[2] \in IF Regions(w, r[1]) = {} THEN {Whole} ELSE Regions(w, r[1])
      BY <2>2, <2>4
    <3> QED BY <2>1, <2>3, <2>6, <3>1 DEF Direct
  <2> QED BY <2>2, <2>5, <2>6
<1> QED BY <1>1, <1>2, <1>3, <1>4

\* A commit by which nothing ran keeps the invariant: Update and Complete.
LEMMA CommitKeeps ==
  ASSUME RoutingInv, NEW by, NEW w \in SUBSET Record, NEW collapsed \in BOOLEAN,
         w # {} => now < MaxRevision, Published(by, w, collapsed),
         queue' = Routed(queue, by, Staged(w, collapsed)),
         ended' = ended \cup CancelledBy(queue, Staged(w, collapsed)),
         UNCHANGED <<reads, ran, absorbed>>, ending' \subseteq Analyser
  PROVE  RoutingInv'
<1> DEFINE st == Staged(w, collapsed)
<1>0. st \in SUBSET Record
  BY StagedRecords
<1>1. queue \in QueueType
  BY DEF RoutingInv, RoutingTypeOK, QueueType
<1> HIDE DEF st
<1>2. queue' = Routed(queue, by, st) /\ ended' = ended \cup CancelledBy(queue, st)
  BY DEF st
<1>3. RoutingTypeOK'
  <2>1. queue' \in QueueType
    BY <1>0, <1>1, <1>2, RoutedQueue
  <2>2. ended' \subseteq Analyser \X Place
    BY <1>0, <1>2, CancelledTyped DEF RoutingInv, RoutingTypeOK
  <2>3. now' \in 0..MaxRevision
    BY CommitSchedules
  <2>4. /\ seen' \in [Analyser -> [Record -> 0..MaxRevision]]
        /\ missed' \in [Analyser -> [Record -> 0..MaxRevision]]
    BY CommitSchedules, Zenon
  <2> QED BY <2>1, <2>2, <2>3, <2>4 DEF RoutingInv, RoutingTypeOK, QueueType
<1>4. \A a \in Analyser, p \in Place :
        /\ p \in Direct(a, by, st) \cup Invalidated(a, by, st) => Queued(queue', a, p)
        /\ Queued(queue, a, p) \/ <<a, p>> \in ended => Queued(queue', a, p) \/ <<a, p>> \in ended'
  <2> DEFINE new == Routed(queue, by, st)
             cancelled == CancelledBy(queue, st)
  <2>1. \A a \in Analyser, p \in Place :
          /\ p \in Direct(a, by, st) \cup Invalidated(a, by, st) => Queued(new, a, p)
          /\ Queued(queue, a, p) => Queued(new, a, p) \/ <<a, p>> \in cancelled
    BY <1>0, <1>1, RoutedQueue
  <2>2. queue' = new /\ ended' = ended \cup cancelled
    BY <1>2
  <2> HIDE DEF new, cancelled
  <2> QED BY <2>1, <2>2
<1>5. \A a \in Analyser, p \in Place :
        /\ p \in Direct(a, by, st) \cup Invalidated(a, by, st) => Accounted(a, p)'
        /\ Accounted(a, p) => Accounted(a, p)'
  BY <1>4 DEF Accounted
<1>6. \A a \in Analyser, r \in Record : seen'[a][r] # seen[a][r] =>
        /\ \A p \in Place : \A read \in reads[a][p] :
             Reads(read, r) /\ r[1] \in Tracked => p \in Invalidated(a, by, st)
        /\ r[1] \in Triggers[a] => r[2] \in Direct(a, by, st)
  BY CommitSchedules DEF st
<1>7. UpToDate'
  <2> SUFFICES ASSUME NEW a \in Analyser, NEW p \in Place, NEW read \in reads[a][p], NEW r \in Record,
                      Reads(read, r), r[1] \in Tracked, seen'[a][r] > ran[a][p]
               PROVE  Accounted(a, p)'
    BY DEF UpToDate
  <2>1. CASE seen'[a][r] # seen[a][r]
    BY <1>5, <1>6, <2>1
  <2>2. CASE seen'[a][r] = seen[a][r]
    BY <1>5, <2>2 DEF RoutingInv, UpToDate
  <2> QED BY <2>1, <2>2
<1>8. TriggersServed'
  <2> SUFFICES ASSUME NEW a \in Analyser, NEW r \in Record,
                      r[1] \in Triggers[a], seen'[a][r] > ran[a][r[2]]
               PROVE  Accounted(a, r[2])'
    BY DEF TriggersServed
  <2>0. r[2] \in Place
    BY DEF Record
  <2>1. CASE seen'[a][r] # seen[a][r]
    BY <1>5, <1>6, <2>0, <2>1
  <2>2. CASE seen'[a][r] = seen[a][r]
    BY <1>5, <2>0, <2>2 DEF RoutingInv, TriggersServed
  <2> QED BY <2>1, <2>2
<1> QED BY <1>3, <1>7, <1>8, CommitSchedules DEF RoutingInv

-----------------------------------------------------------------------------
(* The other steps. *)

\* Work that is asked for, given up, put back or lost: what was accounted for still is.
LEMMA EndKeeps ==
  ASSUME RoutingInv, queue' \in QueueType, ended' \subseteq Analyser \X Place, ending' \subseteq Analyser,
         UNCHANGED <<now, reads, ran, seen, missed, absorbed>>,
         \A a \in Analyser, p \in Place :
           Queued(queue, a, p) \/ <<a, p>> \in ended => Queued(queue', a, p) \/ <<a, p>> \in ended'
  PROVE  RoutingInv'
<1>1. RoutingTypeOK' /\ InTime'
  BY DEF RoutingInv, RoutingTypeOK, QueueType, InTime
<1>2. \A a \in Analyser, p \in Place : Accounted(a, p) => Accounted(a, p)'
  BY DEF Accounted
<1>3. UpToDate'
  BY <1>2 DEF RoutingInv, UpToDate
<1>4. TriggersServed'
  <2>1. \A r \in Record : r[2] \in Place
    BY DEF Record
  <2> QED BY <1>2, <2>1 DEF RoutingInv, TriggersServed
<1> QED BY <1>1, <1>3, <1>4 DEF RoutingInv

\* Work that a client asks for takes nothing from the queue.
LEMMA RequestKeeps ==
  ASSUME RoutingInv, NEW q \in Requests, RouteRequested(q[1], q[2])
  PROVE  RoutingInv'
<1> DEFINE rs == IF q[2] = {} THEN {Whole} ELSE q[2]
           asked(a, p) == q[1] \in Triggers[a] /\ p \in rs
           val(a, p, c) == IF ~c /\ asked(a, p) THEN Max({queue[a][p][c], 1}) ELSE queue[a][p][c]
<1>1. queue' = [a \in Analyser |-> [p \in Place |-> [c \in BOOLEAN |-> val(a, p, c)]]]
  BY DEF RouteRequested
<1>2. \A a \in Analyser, p \in Place, c \in BOOLEAN : queue[a][p][c] \in 0..MaxAttempts
  BY DEF RoutingInv, RoutingTypeOK
<1>3. \A a \in Analyser, p \in Place, c \in BOOLEAN :
        /\ val(a, p, c) \in 0..MaxAttempts
        /\ queue[a][p][c] > 0 => val(a, p, c) > 0
  <2> TAKE a \in Analyser, p \in Place, c \in BOOLEAN
  <2> HIDE DEF asked
  <2>1. queue[a][p][c] \in Nat /\ queue[a][p][c] <= MaxAttempts
    BY <1>2
  <2>2. /\ Max({queue[a][p][c], 1}) \in {queue[a][p][c], 1}
        /\ Max({queue[a][p][c], 1}) >= queue[a][p][c] /\ Max({queue[a][p][c], 1}) >= 1
    BY <2>1, LargerOfTwo
  <2> QED BY <2>1, <2>2, ReanalysisAssumption
<1> HIDE DEF val, asked
<1>4. \A a \in Analyser, p \in Place : Queued(queue, a, p) => Queued(queue', a, p)
  <2>1. \A a \in Analyser, p \in Place, c \in BOOLEAN : queue'[a][p][c] = val(a, p, c)
    BY <1>1
  <2> QED BY <1>3, <2>1 DEF Queued
<1>5. queue' \in QueueType
  BY <1>1, <1>3 DEF QueueType
<1>6. UNCHANGED <<now, reads, ran, seen, missed, ended, absorbed, ending>>
  BY DEF RouteRequested, history
<1> QED BY <1>4, <1>5, <1>6, EndKeeps DEF RoutingInv, RoutingTypeOK

\* An error that ends the drain: the batch is gone, and has ended.
LEMMA AbortKeeps ==
  ASSUME RoutingInv, NEW a \in Analyser, NEW c \in BOOLEAN, NEW batch \in Batches(a, c), Abort(a, c, batch)
  PROVE  RoutingInv'
<1>1. RoutingTypeOK /\ batch \in SUBSET Place
  BY BatchQueued DEF RoutingInv
<1>2. /\ queue' \in QueueType
      /\ \A b \in Analyser, p \in Place :
           /\ Queued(queue', b, p) => Queued(queue, b, p)
           /\ Queued(queue, b, p) /\ ~(b = a /\ p \in batch) => Queued(queue', b, p)
  BY <1>1, PoppedQueue DEF Abort
<1>3. ended' = ended \cup { <<a, p>> : p \in batch } /\ ended' \subseteq Analyser \X Place
  BY <1>1 DEF Abort, RoutingTypeOK
<1>4. ending' = {} /\ UNCHANGED <<now, reads, ran, seen, missed, absorbed>>
  BY DEF Abort, history
<1> QED BY <1>2, <1>3, <1>4, EndKeeps

\* handle_dispatch_failure: an attempt more, or the end.
LEMMA FailKeeps ==
  ASSUME RoutingInv, NEW a \in Analyser, NEW c \in BOOLEAN, NEW batch \in Batches(a, c), Fail(a, c, batch)
  PROVE  RoutingInv'
<1> DEFINE popped == Popped(a, c, batch)
           charged(p) == IF queue[a][p][c] >= MaxAttempts THEN 0 ELSE queue[a][p][c] + 1
           row == [p \in Place |-> IF p \in batch THEN [popped[a][p] EXCEPT ![c] = charged(p)]
                                   ELSE popped[a][p]]
<1>1. RoutingTypeOK /\ batch \in SUBSET Place /\ \A p \in batch : queue[a][p][c] \in 1..MaxAttempts
  BY BatchQueued DEF RoutingInv
<1>2. /\ popped \in QueueType
      /\ \A b \in Analyser, p \in Place :
           /\ Queued(popped, b, p) => Queued(queue, b, p)
           /\ Queued(queue, b, p) /\ ~(b = a /\ p \in batch) => Queued(popped, b, p)
  BY <1>1, PoppedQueue
<1>3. \A p \in batch : charged(p) \in 0..MaxAttempts /\ (charged(p) = 0 => queue[a][p][c] >= MaxAttempts)
  BY <1>1, ReanalysisAssumption
<1>4. ended' = ended \cup { <<a, p>> : p \in { q \in batch : queue[a][q][c] >= MaxAttempts } }
  BY DEF Fail
<1>5. ended' \subseteq Analyser \X Place
  BY <1>1, <1>4 DEF RoutingTypeOK
<1>6. \A p \in batch : Queued(queue, a, p)
  BY BatchQueued, <1>1
<1> HIDE DEF popped, charged
<1>7. queue' = [popped EXCEPT ![a] = row]
  BY <1>2 DEF Fail, popped, charged, QueueType
<1>8. \A p \in Place : popped[a][p] \in [BOOLEAN -> 0..MaxAttempts]
  BY <1>2 DEF QueueType
<1>9. row \in [Place -> [BOOLEAN -> 0..MaxAttempts]]
  BY <1>3, <1>8
<1>10. queue' \in QueueType
  <2> HIDE DEF row
  <2> QED BY <1>2, <1>7, <1>9 DEF QueueType
<1>11. /\ \A b \in Analyser : b # a => queue'[b] = popped[b]
       /\ queue'[a] = row
  <2> HIDE DEF row
  <2> QED BY <1>2, <1>7 DEF QueueType
<1>12. ASSUME NEW b \in Analyser, NEW p \in Place, ~(b = a /\ p \in batch)
       PROVE  queue'[b][p] = popped[b][p]
  BY <1>11, <1>12
<1>13. ASSUME NEW p \in batch
       PROVE  Queued(queue', a, p) \/ <<a, p>> \in ended'
  <2>1. p \in Place /\ queue'[a][p][c] = charged(p)
    BY <1>1, <1>8, <1>11
  <2>2. charged(p) > 0 \/ queue[a][p][c] >= MaxAttempts
    BY <1>3
  <2> QED BY <1>4, <2>1, <2>2 DEF Queued
<1>14. \A b \in Analyser, p \in Place :
         /\ Queued(queue', b, p) => Queued(queue, b, p)
         /\ Queued(queue, b, p) \/ <<b, p>> \in ended => Queued(queue', b, p) \/ <<b, p>> \in ended'
  <2> TAKE b \in Analyser, p \in Place
  <2>1. CASE b = a /\ p \in batch
    BY <2>1, <1>6, <1>13
  <2>2. CASE ~(b = a /\ p \in batch)
    BY <2>2, <1>2, <1>4, <1>12 DEF Queued
  <2> QED BY <2>1, <2>2
<1>15. ending' = Analyser /\ UNCHANGED <<now, reads, ran, seen, missed, absorbed>>
  BY DEF Fail, history
<1> QED BY <1>5, <1>10, <1>14, <1>15, EndKeeps

\* An analyser with work left gets its batch back, and nothing else changes.
LEMMA ContinuedQueue ==
  ASSUME RoutingTypeOK, NEW q \in QueueType, NEW a \in Analyser, NEW c \in BOOLEAN, NEW batch \in SUBSET Place
  PROVE  /\ Continued(q, a, c, batch) \in QueueType
         /\ \A b \in Analyser, p \in Place :
              /\ Queued(q, b, p) => Queued(Continued(q, a, c, batch), b, p)
              /\ Queued(Continued(q, a, c, batch), b, p) =>
                   Queued(q, b, p) \/ (b = a /\ p \in batch)
<1> DEFINE val(p, d) == IF d /\ p \in batch THEN Max({q[a][p][d], queue[a][p][c]}) ELSE q[a][p][d]
           row == [p \in Place |-> [d \in BOOLEAN |-> val(p, d)]]
           r == Continued(q, a, c, batch)
<1>1. r = [q EXCEPT ![a] = row]
  BY DEF Continued
<1>2. \A p \in Place : queue[a][p][c] \in 0..MaxAttempts
  BY DEF RoutingTypeOK
<1>3. \A p \in Place, d \in BOOLEAN : q[a][p][d] \in 0..MaxAttempts
  BY DEF QueueType
<1>4. \A p \in Place, d \in BOOLEAN :
        /\ val(p, d) \in 0..MaxAttempts /\ val(p, d) >= q[a][p][d]
        /\ p \notin batch => val(p, d) = q[a][p][d]
  <2> TAKE p \in Place, d \in BOOLEAN
  <2>1. /\ q[a][p][d] \in Nat /\ q[a][p][d] <= MaxAttempts
        /\ queue[a][p][c] \in Nat /\ queue[a][p][c] <= MaxAttempts
    BY <1>2, <1>3
  <2> DEFINE m == Max({q[a][p][d], queue[a][p][c]})
  <2>2. m \in {q[a][p][d], queue[a][p][c]} /\ m >= q[a][p][d]
    BY <2>1, LargerOfTwo
  <2> HIDE DEF m
  <2>3. val(p, d) = IF d /\ p \in batch THEN m ELSE q[a][p][d]
    BY DEF m
  <2> HIDE DEF val
  <2> QED BY <2>1, <2>2, <2>3
<1> HIDE DEF val
<1>5. row \in [Place -> [BOOLEAN -> 0..MaxAttempts]] /\ \A p \in Place, d \in BOOLEAN : row[p][d] = val(p, d)
  BY <1>4
<1> HIDE DEF row, r
<1>6. r \in QueueType /\ r[a] = row /\ \A b \in Analyser : b # a => r[b] = q[b]
  BY <1>1, <1>5 DEF QueueType
<1>7. ASSUME NEW b \in Analyser, NEW p \in Place
      PROVE  /\ Queued(q, b, p) => Queued(r, b, p)
             /\ Queued(r, b, p) => Queued(q, b, p) \/ (b = a /\ p \in batch)
  <2>1. CASE b # a
    BY <1>6, <2>1 DEF Queued
  <2>2. CASE b = a
    <3>1. \A d \in BOOLEAN :
            /\ r[a][p][d] \in Nat /\ q[a][p][d] \in Nat /\ r[a][p][d] >= q[a][p][d]
            /\ p \notin batch => r[a][p][d] = q[a][p][d]
      BY <1>3, <1>4, <1>5, <1>6
    <3> QED BY <2>2, <3>1 DEF Queued
  <2> QED BY <2>1, <2>2
<1> QED BY <1>6, <1>7 DEF r

\* A run renews the productions of its batch, but the project-wide one when it also has
\* regions.
LEMMA BatchRenews ==
  ASSUME RoutingTypeOK, NEW a \in Analyser, NEW c \in BOOLEAN, NEW batch \in Batches(a, c)
  PROVE  batch \subseteq Place /\ Renewed(batch) \subseteq batch /\ batch \ Renewed(batch) \subseteq {Whole}
<1>1. batch \subseteq Place /\ batch # {}
  BY BatchQueued
<1> QED BY <1>1 DEF Renewed

\* A run that is admitted: the productions it renews are as new as the project, and elsewhere
\* the commit schedules what it made stale.
LEMMA DispatchKeeps ==
  ASSUME RoutingInv, NEW a \in Analyser, NEW c \in BOOLEAN, NEW batch \in Batches(a, c),
         NEW read \in ReadChoices, NEW w \in SUBSET Record, NEW collapsed \in BOOLEAN, NEW more \in BOOLEAN,
         Dispatch(a, c, batch, read, w, collapsed, more)
  PROVE  RoutingInv'
<1> DEFINE popped == Popped(a, c, batch)
           st == Staged(w, collapsed)
           routed == Routed(popped, a, st)
           renewed == Renewed(batch)
<1>0. st \in SUBSET Record
  BY StagedRecords
<1>1. /\ RoutingTypeOK /\ batch \in SUBSET Place /\ renewed \in SUBSET Place
      /\ renewed \subseteq batch /\ batch \ renewed \subseteq {Whole}
  BY BatchRenews DEF RoutingInv
<1>2. Published(a, w, collapsed) /\ (w # {} => now < MaxRevision)
  BY DEF Dispatch
<1>3. /\ popped \in QueueType
      /\ \A b \in Analyser, p \in Place :
           Queued(queue, b, p) /\ ~(b = a /\ p \in batch) => Queued(popped, b, p)
  BY <1>1, PoppedQueue
<1> HIDE DEF popped, st, renewed
<1>4. /\ routed \in QueueType
      /\ \A b \in Analyser, p \in Place :
           /\ p \in Direct(b, a, st) \cup Invalidated(b, a, st) => Queued(routed, b, p)
           /\ Queued(popped, b, p) => Queued(routed, b, p) \/ <<b, p>> \in CancelledBy(popped, st)
  BY <1>0, <1>3, RoutedQueue
<1> HIDE DEF routed
<1>5. /\ queue' \in QueueType
      /\ \A b \in Analyser, p \in Place : Queued(routed, b, p) => Queued(queue', b, p)
  <2>1. CASE more
    <3>1. queue' = Continued(routed, a, c, batch)
      BY <2>1 DEF Dispatch, routed, popped, st
    <3> QED BY <1>1, <1>4, <3>1, ContinuedQueue
  <2>2. CASE ~more
    <3>1. queue' = routed
      BY <2>2 DEF Dispatch, routed, popped, st
    <3> QED BY <1>4, <3>1
  <2> QED BY <2>1, <2>2
<1>6. /\ ended' = (ended \cup CancelledBy(popped, st)) \ { <<a, p>> : p \in renewed }
      /\ absorbed' = (absorbed \ { b \in {a} : Whole \in renewed })
                       \cup { b \in {a} : Whole \in batch \ renewed }
  BY DEF Dispatch, popped, st, renewed
<1>7. /\ now' \in now..MaxRevision /\ now \in Nat /\ InTime'
      /\ seen' \in [Analyser -> [Record -> 0..MaxRevision]]
      /\ missed' \in [Analyser -> [Record -> 0..MaxRevision]]
      /\ \A b \in Analyser, r \in Record : seen'[b][r] # seen[b][r] =>
           /\ \A p \in Place : \A rd \in reads[b][p] :
                Reads(rd, r) /\ r[1] \in Tracked => p \in Invalidated(b, a, st)
           /\ r[1] \in Triggers[b] => r[2] \in Direct(b, a, st)
  BY <1>2, CommitSchedules DEF st
<1>8. /\ ran' = [ran EXCEPT ![a] = [p \in Place |-> IF p \in renewed THEN now' ELSE @[p]]]
      /\ reads' = Recorded(a, c, batch, read) /\ ending' = Analyser
  BY DEF Dispatch, renewed
<1>9. /\ ran' \in [Analyser -> [Place -> 0..MaxRevision]]
      /\ \A p \in renewed : ran'[a][p] = now'
      /\ \A b \in Analyser, p \in Place : ~(b = a /\ p \in renewed) => ran'[b][p] = ran[b][p]
  <2>1. now' \in 0..MaxRevision /\ ran \in [Analyser -> [Place -> 0..MaxRevision]]
    BY <1>1, <1>7 DEF RoutingTypeOK
  <2> QED BY <1>1, <1>8, <2>1
<1>10. /\ reads' \in [Analyser -> [Place -> SUBSET Record]]
       /\ \A b \in Analyser, p \in Place : ~(b = a /\ p \in renewed) => reads'[b][p] = reads[b][p]
  <2> DEFINE before == IF c THEN UNION { reads[a][p] : p \in renewed } ELSE {}
             row == [p \in Place |-> IF p \in renewed THEN read \cup before ELSE reads[a][p]]
  <2>1. reads \in [Analyser -> [Place -> SUBSET Record]] /\ read \in SUBSET Record
    BY <1>1, ReanalysisAssumption DEF RoutingTypeOK
  <2>2. reads' = [reads EXCEPT ![a] = row]
    BY <1>1, <1>8, <2>1 DEF Recorded, renewed
  <2>3. before \in SUBSET Record
    BY <1>1, <2>1
  <2> HIDE DEF before
  <2>4. row \in [Place -> SUBSET Record]
    BY <2>1, <2>3
  <2>5. reads' \in [Analyser -> [Place -> SUBSET Record]] /\ reads'[a] = row
        /\ \A b \in Analyser : b # a => reads'[b] = reads[b]
    <3> HIDE DEF row
    <3> QED BY <2>1, <2>2, <2>4
  <2> QED BY <2>5
<1>11. RoutingTypeOK'
  <2>1. ended' \subseteq Analyser \X Place /\ absorbed' \subseteq Analyser
    BY <1>0, <1>1, <1>6, CancelledTyped DEF RoutingTypeOK
  <2>2. now' \in 0..MaxRevision
    BY <1>7
  <2> QED BY <1>5, <1>7, <1>8, <1>9, <1>10, <2>1, <2>2 DEF RoutingTypeOK, QueueType
<1>12. \A b \in Analyser, p \in Place :
         p \in Direct(b, a, st) \cup Invalidated(b, a, st) => Accounted(b, p)'
  BY <1>4, <1>5 DEF Accounted
<1>13. ASSUME NEW b \in Analyser, NEW p \in Place, ~(b = a /\ p \in renewed), Accounted(b, p)
       PROVE  Accounted(b, p)'
  <2>1. CASE b = a /\ p \in batch
    BY <1>1, <1>6, <1>13, <2>1 DEF Accounted
  <2>2. CASE ~(b = a /\ p \in batch) /\ Queued(queue, b, p)
    BY <1>3, <1>4, <1>5, <1>6, <1>13, <2>2 DEF Accounted
  <2>3. CASE <<b, p>> \in ended
    BY <1>6, <1>13, <2>3 DEF Accounted
  <2>4. CASE p = Whole /\ b \in absorbed
    BY <1>6, <1>13, <2>4 DEF Accounted
  <2> QED BY <1>13, <2>1, <2>2, <2>3, <2>4 DEF Accounted
<1>14. \A b \in Analyser, r \in Record : seen'[b][r] <= now' /\ seen'[b][r] \in Nat /\ now' \in Nat
  BY <1>7 DEF InTime
<1>15. UpToDate'
  <2> SUFFICES ASSUME NEW b \in Analyser, NEW p \in Place, NEW rd \in reads'[b][p], NEW r \in Record,
                      Reads(rd, r), r[1] \in Tracked, seen'[b][r] > ran'[b][p]
               PROVE  Accounted(b, p)'
    BY DEF UpToDate
  <2>1. ~(b = a /\ p \in renewed)
    BY <1>9, <1>14
  <2>2. rd \in reads[b][p] /\ ran'[b][p] = ran[b][p]
    BY <1>9, <1>10, <2>1
  <2>3. CASE seen'[b][r] # seen[b][r]
    BY <1>7, <1>12, <2>2, <2>3
  <2>4. CASE seen'[b][r] = seen[b][r]
    <3>1. Accounted(b, p)
      BY <2>2, <2>4 DEF RoutingInv, UpToDate
    <3> QED BY <1>13, <2>1, <3>1
  <2> QED BY <2>3, <2>4
<1>16. TriggersServed'
  <2> SUFFICES ASSUME NEW b \in Analyser, NEW r \in Record,
                      r[1] \in Triggers[b], seen'[b][r] > ran'[b][r[2]]
               PROVE  Accounted(b, r[2])'
    BY DEF TriggersServed
  <2>0. r[2] \in Place
    BY DEF Record
  <2>1. ~(b = a /\ r[2] \in renewed)
    BY <1>9, <1>14
  <2>2. ran'[b][r[2]] = ran[b][r[2]]
    BY <1>9, <2>0, <2>1
  <2>3. CASE seen'[b][r] # seen[b][r]
    BY <1>7, <1>12, <2>0, <2>3
  <2>4. CASE seen'[b][r] = seen[b][r]
    <3>1. Accounted(b, r[2])
      BY <2>2, <2>4 DEF RoutingInv, TriggersServed
    <3> QED BY <1>13, <2>0, <2>1, <3>1
  <2> QED BY <2>3, <2>4
<1> QED BY <1>7, <1>11, <1>15, <1>16 DEF RoutingInv

-----------------------------------------------------------------------------
\* The invariant holds at first, and every step keeps it.
LEMMA RoutingInvariant == RoutingSpec => []RoutingInv
<1>1. RoutingInit => RoutingInv
  <2> SUFFICES ASSUME RoutingInit PROVE RoutingInv
    OBVIOUS
  <2>1. RoutingTypeOK
    BY ReanalysisAssumption DEF RoutingInit, RoutingTypeOK
  <2>2. InTime
    BY DEF RoutingInit, InTime
  <2>3. UpToDate
    BY DEF RoutingInit, UpToDate
  <2>4. TriggersServed
    <3>1. \A r \in Record : r[2] \in Place
      BY DEF Record
    <3> QED BY <3>1 DEF RoutingInit, TriggersServed
  <2> QED BY <2>1, <2>2, <2>3, <2>4 DEF RoutingInv
<1>2. RoutingInv /\ [RoutingNext]_reanalysis => RoutingInv'
  <2> SUFFICES ASSUME RoutingInv, [RoutingNext]_reanalysis PROVE RoutingInv'
    OBVIOUS
  <2>0. /\ queue \in QueueType /\ ended \subseteq Analyser \X Place /\ ending \subseteq Analyser
        /\ \A x \in Commits : x \in Publications
    BY DEF RoutingInv, RoutingTypeOK, QueueType, Publications
  <2>1. ASSUME NEW x \in Commits, Update(x[1], x[2]) PROVE RoutingInv'
    <3>1. x[1] \in SUBSET Record /\ x[2] \in BOOLEAN
      BY <2>0, CommitRecords
    <3>2. ending' \subseteq Analyser
      BY <2>0, <2>1 DEF Update
    <3> QED BY <2>1, <3>1, <3>2, CommitKeeps DEF Update
  <2>2. ASSUME NEW a \in Analyser, NEW x \in Publications, Complete(a, x[1], x[2]) PROVE RoutingInv'
    <3>1. x[1] \in SUBSET Record /\ x[2] \in BOOLEAN
      BY CommitRecords
    <3>2. ending' \subseteq Analyser
      BY <2>0, <2>2 DEF Complete
    <3> QED BY <2>2, <3>1, <3>2, CommitKeeps DEF Complete
  <2>3. CASE CompletionFails
    <3>1. ending' = {} /\ UNCHANGED <<now, queue, reads, ran, seen, missed, ended, absorbed>>
      BY <2>3 DEF CompletionFails, history
    <3> QED BY <2>0, <3>1, EndKeeps
  <2>4. ASSUME NEW q \in Requests, RouteRequested(q[1], q[2]) PROVE RoutingInv'
    BY <2>4, RequestKeeps
  <2>5. ASSUME NEW a \in Analyser, NEW c \in BOOLEAN, NEW batch \in Batches(a, c), RunBatch(a, c, batch)
        PROVE  RoutingInv'
    <3>1. ASSUME NEW read \in ReadChoices, NEW x \in Publications, NEW more \in BOOLEAN,
                 Dispatch(a, c, batch, read, x[1], x[2], more)
          PROVE  RoutingInv'
      <4>1. x[1] \in SUBSET Record /\ x[2] \in BOOLEAN
        BY CommitRecords
      <4> QED BY <3>1, <4>1, DispatchKeeps
    <3> QED BY <2>5, <3>1, FailKeeps, AbortKeeps DEF RunBatch
  <2>6. CASE UNCHANGED reanalysis
    <3>1. UNCHANGED <<now, queue, reads, ran, seen, missed, ended, absorbed, ending>>
      BY <2>6 DEF reanalysis, history
    <3> QED BY <2>0, <3>1, EndKeeps
  <2> QED BY <2>1, <2>2, <2>3, <2>4, <2>5, <2>6 DEF RoutingNext
<1> QED BY <1>1, <1>2, PTL DEF RoutingSpec

\* Reanalysis::UpToDate: whatever commits, reads, failures and cancellations come in
\* whichever order, collapsed and mixed ones included, a production that a named change put
\* out of date is scheduled again or its work is accounted for (route_dependencies,
\* DependencyIndex::record).
THEOREM ProductionsUpToDate == RoutingSpec => []UpToDate
<1>1. RoutingInv => UpToDate
  BY DEF RoutingInv
<1> QED BY <1>1, RoutingInvariant, PTL

\* Reanalysis::TriggersServed: no trigger of an analyser is lost that a change set names
\* (route_direct, run_work_batch, handle_dispatch_failure).
THEOREM NoTriggerLost == RoutingSpec => []TriggersServed
<1>1. RoutingInv => TriggersServed
  BY DEF RoutingInv
<1> QED BY <1>1, RoutingInvariant, PTL
=============================================================================
