-------------------------------- MODULE EntityMap --------------------------------
(***************************************************************************)
(* What the entity store promises its callers: a map from keys to values.  *)
(* Only a write changes it: a single write is visible as soon as it is     *)
(* made and durable later; a batch is begun with the writes it consists    *)
(* of, and is then admitted, visible and durable at once together with     *)
(* everything written before it, or ends without a trace.  A read answers  *)
(* what the map holds at one moment of the call.  What a key may be found  *)
(* to hold after a crash is one of since[k], the values it has had since   *)
(* it was last known to be on storage.                                     *)
(***************************************************************************)
EXTENDS Integers

CONSTANTS Key, Value, Absent, Unset, Reader, NoAnswer

VARIABLES
  map,     \* what a read returns, for every key
  since,   \* for every key, the values a crash may leave it with
  phase,   \* what the writer is at: nothing, a single write, a batch, one admitted
  writes,  \* the values that it writes, Unset for every other key
  answer,  \* what the call of a reader has returned, until it takes it
  epoch    \* the number of times the store was opened again

writer == <<phase, writes>>
mapVars == <<map, since, writer, answer, epoch>>

Stored == Value \cup {Absent}
NoWrite == [k \in Key |-> Unset]

MapInit ==
  /\ map \in [Key -> Stored]
  /\ since = [k \in Key |-> {map[k]}]
  /\ phase = "idle" /\ writes = NoWrite
  /\ answer = [r \in Reader |-> NoAnswer]
  /\ epoch = 0

\* What may survive shrinks to at least the present value as writes reach storage.
Settles(grown) ==
  \A k \in Key : since'[k] \subseteq grown[k] /\ map'[k] \in since'[k]

\* A single write, an insertion or a removal, is made.
Put(k, v) ==
  /\ phase = "idle"
  /\ phase' = "put" /\ writes' = [NoWrite EXCEPT ![k] = v]
  /\ map' = [map EXCEPT ![k] = v]
  /\ Settles([since EXCEPT ![k] = @ \cup {v}])
  /\ UNCHANGED <<answer, epoch>>

\* A batch is begun; nobody sees it yet.
Begin ==
  /\ phase = "idle"
  /\ phase' = "batch" /\ writes' \in [Key -> Stored \cup {Unset}]
  /\ UNCHANGED <<map, since, answer, epoch>>

\* All of its writes at once, and nothing is left unsettled.
Admit ==
  /\ phase = "batch"
  /\ phase' = "admitted" /\ UNCHANGED writes
  /\ map' = [k \in Key |-> IF writes[k] = Unset THEN map[k] ELSE writes[k]]
  /\ since' = [k \in Key |-> {map'[k]}]
  /\ UNCHANGED <<answer, epoch>>

\* The writer's call returns; a batch that was not admitted has failed and left nothing.
End ==
  /\ phase # "idle"
  /\ phase' = "idle" /\ writes' = NoWrite
  /\ UNCHANGED <<map, since, answer, epoch>>

Settle ==
  /\ UNCHANGED <<map, writer, answer, epoch>>
  /\ Settles(since)

\* A call of r answers with the present values of a set of keys.
Answer(r, keys) ==
  /\ answer[r] = NoAnswer
  /\ answer' = [answer EXCEPT ![r] = [k \in keys |-> map[k]]]
  /\ UNCHANGED <<map, since, writer, epoch>>

Take(r) ==
  /\ answer' = [answer EXCEPT ![r] = NoAnswer]
  /\ UNCHANGED <<map, since, writer, epoch>>

\* The store is opened again, after a crash or a close.
Reopen ==
  /\ map' \in [Key -> Stored]
  /\ \A k \in Key : map'[k] \in since[k]
  /\ since' = [k \in Key |-> {map'[k]}]
  /\ phase' = "idle" /\ writes' = NoWrite
  /\ answer' = [r \in Reader |-> NoAnswer]
  /\ epoch' = epoch + 1

MapNext ==
  \/ \E k \in Key, v \in Stored : Put(k, v)
  \/ Begin
  \/ Admit
  \/ End
  \/ Settle
  \/ \E r \in Reader, keys \in SUBSET Key : Answer(r, keys)
  \/ \E r \in Reader : Take(r)
  \/ Reopen

MapSpec == MapInit /\ [][MapNext]_mapVars
================================================================================
