---------------------------- MODULE LayeredSpaces ----------------------------
(***************************************************************************)
(* What the segment storage promises about its address spaces: a space is  *)
(* a stack of mappings, and an address shows the highest mapping of the    *)
(* stack that extends over it, as the mapping is now.  AddressSpaces keeps *)
(* cut-up submaps and three indexes instead, and implements this.          *)
(***************************************************************************)
EXTENDS Integers, Sequences, FiniteSetsExt, SequencesExt

CONSTANTS
  TopAddr,   \* the highest address
  Nothing    \* what an address without a mapping shows

Addr == 0..TopAddr

VARIABLES
  defined,   \* the mappings: extent and whatever else they have
  stack,     \* the mappings of each space, the lowest first
  view       \* what each address of each space shows

layered == <<defined, stack, view>>

\* The mapping that a stack shows at an address.
TopAt(stk, def, a) ==
  LET over == {i \in DOMAIN stk : a \in def[stk[i]].start..(def[stk[i]].start + def[stk[i]].size - 1)}
  IN IF over = {} THEN Nothing ELSE stk[Max(over)]

Views(stks, def) == [s \in DOMAIN stks |-> [a \in Addr |-> TopAt(stks[s], def, a)]]

\* A mapping put at an end of a stack, taken out of its middle if it is there.
Lifted(stk, id) == Append(Remove(stk, id), id)
Lowered(stk, id) == <<id>> \o Remove(stk, id)

LayeredInit ==
  /\ \A s \in DOMAIN stack : IsInjective(stack[s]) /\ ToSet(stack[s]) \subseteq DOMAIN defined
  /\ view = Views(stack, defined)

-----------------------------------------------------------------------------
(* Every operation changes the mappings or the stacks; the views follow.   *)

\* A new mapping, at an end of some stacks from the start.
Define(id, places) ==
  /\ id \in DOMAIN defined' \ DOMAIN defined
  /\ DOMAIN defined' = DOMAIN defined \cup {id}
  /\ \A other \in DOMAIN defined : defined'[other] = defined[other]
  /\ \/ stack' = [s \in DOMAIN stack |-> IF s \in places THEN Lowered(stack[s], id) ELSE stack[s]]
     \/ stack' = [s \in DOMAIN stack |-> IF s \in places THEN Lifted(stack[s], id) ELSE stack[s]]

\* A mapping moves, grows, shrinks or is described anew, wherever it is placed.
Alter(id) ==
  /\ DOMAIN defined' = DOMAIN defined
  /\ \A other \in DOMAIN defined \ {id} : defined'[other] = defined[other]
  /\ UNCHANGED stack

\* Mappings go, from every space.
Drop(gone) ==
  /\ DOMAIN defined' = DOMAIN defined \ gone
  /\ \A other \in DOMAIN defined \ gone : defined'[other] = defined[other]
  /\ stack' = [s \in DOMAIN stack |-> SelectSeq(stack[s], LAMBDA id : id \notin gone)]

Raise(s, id) == stack' = [stack EXCEPT ![s] = Lifted(@, id)] /\ UNCHANGED defined
Lower(s, id) == stack' = [stack EXCEPT ![s] = Lowered(@, id)] /\ UNCHANGED defined

NewSpace(s) ==
  /\ s \notin DOMAIN stack
  /\ stack' = [t \in DOMAIN stack \cup {s} |-> IF t = s THEN <<>> ELSE stack[t]]
  /\ UNCHANGED defined

LayeredNext ==
  /\ \/ \E id \in DOMAIN defined' \ DOMAIN defined, places \in SUBSET DOMAIN stack : Define(id, places)
     \/ \E id \in DOMAIN defined : Alter(id)
     \/ \E gone \in SUBSET DOMAIN defined : Drop(gone)
     \/ \E s \in DOMAIN stack, id \in DOMAIN defined : Raise(s, id) \/ Lower(s, id)
     \/ \E s \in DOMAIN stack' \ DOMAIN stack : NewSpace(s)
  /\ view' = Views(stack', defined')

LayeredSpec == LayeredInit /\ [][LayeredNext]_layered

=============================================================================
