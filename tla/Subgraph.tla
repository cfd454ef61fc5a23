------------------------------ MODULE Subgraph ------------------------------
(***************************************************************************)
(* What the handlers of the adapters' subgraphs share: a store of entities *)
(* by id, and the two ways the handlers make the id of an event's entity.  *)
(* An event is a record with its kind, block, transaction (tx), place in   *)
(* the transaction (log), and what it says: from, to, amount, total.       *)
(***************************************************************************)
EXTENDS Integers, Sequences, FiniteSets, FiniteSetsExt, SequencesExt, Sums

CONSTANTS
  User,   \* addresses of users
  Pool,   \* the address of the contract whose events are indexed
  Zero    \* the zero address

ASSUME AddressAssumption ==
  IsFiniteSet(User) /\ Pool \notin User /\ Zero \notin User /\ Pool # Zero

(* Entity.load(id), or what the handlers make of none.                     *)
Load(store, id, new) == IF id \in DOMAIN store THEN store[id] ELSE new

(* entity.save().                                                          *)
Save(store, id, entity) == [i \in DOMAIN store \cup {id} |-> IF i = id THEN entity ELSE store[i]]

Nothing == [i \in {} |-> {}]

(* A unit of the balances b goes from one account to another.              *)
Transferred(b, from, to) == [[b EXCEPT ![from] = @ - 1] EXCEPT ![to] = @ + 1]

(* transaction hash and log index: an id of the event's own.               *)
ByLog(e) == <<e.kind, e.tx, e.log>>

(* transaction hash alone: an id all events of the transaction share.      *)
ByTx(e) == <<"tx", e.tx>>

(* What a transaction emits, before it is stamped with its place.          *)
Emits(kind, from, to, amount, total) ==
  <<[kind |-> kind, from |-> from, to |-> to, amount |-> amount, total |-> total]>>

(* The event at its place: the block, the transaction, the log index.      *)
Stamp(event, block, tx, log) ==
  [f \in DOMAIN event \cup {"block", "tx", "log"} |->
     CASE f = "block" -> block [] f = "tx" -> tx [] f = "log" -> log [] OTHER -> event[f]]

Becomes(chain, events) == [chain |-> chain, events |-> events]
==============================================================================
