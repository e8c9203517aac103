------------------------------ MODULE Catalog -------------------------------
(***************************************************************************)
(* What the transaction level of the indexer promises to the readers of    *)
(* its tables (the lists of module Pagination, the records of module       *)
(* ResponseCache): rows come and stay.  A transaction holds one position,  *)
(* which no other transaction of its slot holds at the same time; a later  *)
(* pass may move it to another free one.  A resource (an attestor set, a   *)
(* schema, an attestation) appears only under a transaction and a parent   *)
(* that can be read already; it stays, and only what has no parent (an     *)
(* attestor set) is ever moved under a later registration.                 *)
(***************************************************************************)
EXTENDS Integers

CONSTANTS
  Tx,             \* transactions
  Slot,           \* the slot of each
  Id,             \* ids of resources
  Registers,      \* the resource a transaction registers, or Nobody
  Parent, Nobody  \* what that resource refers to, or Nobody

VARIABLES
  at,        \* the position of a transaction in its slot, or Absent
  resources  \* the registering transaction a resource names, or Nobody

Absent == -1

Init == at = [t \in Tx |-> Absent] /\ resources = [r \in Id |-> Nobody]

\* A transaction is recorded, or moved, to a position that is free.
Place(t) ==
  /\ at'[t] \in Nat
  /\ \A u \in Tx \ {t} : Slot[u] = Slot[t] => at[u] # at'[t]
  /\ at' = [at EXCEPT ![t] = at'[t]]
  /\ UNCHANGED resources

Register(t) ==
  /\ at[t] # Absent
  /\ Registers[t] # Nobody
  /\ Parent[t] # Nobody => /\ resources[Parent[t]] # Nobody
                           /\ resources[Registers[t]] = Nobody
  /\ resources' = [resources EXCEPT ![Registers[t]] = t]
  /\ UNCHANGED at

Next == \E t \in Tx : Place(t) \/ Register(t)

Spec == Init /\ [][Next]_<<at, resources>>
=============================================================================
