----------------------------- MODULE Subgraphs -----------------------------
(***************************************************************************)
(* An adapter's subgraph at work.  Transactions change the contract within *)
(* a block and emit events; once the block is sealed its events are        *)
(* handled one after the other, in order, and a handler that calls the     *)
(* contract gets the contract of the block's end.  One subgraph runs, and  *)
(* protocol says which.                                                    *)
(***************************************************************************)
EXTENDS Sumer, Pools, Wagmi, Ledgers

CONSTANTS
  MaxTx,      \* bound: transactions of a run
  MaxInBlock  \* bound: transactions of a block

Protocols == {"sumer", "shoebill", "example", "wagmi", "multipool", "zkdx", "agx", "logs"}

VARIABLES
  protocol, \* the subgraph that runs
  chain,    \* the contract
  queue,    \* events of the block that are not handled yet
  sealed,   \* the block is complete
  txs,      \* transactions so far
  before,   \* transactions before the block
  index,    \* the entities
  handled   \* history: the events handled so far that should have an entity

indexVars == <<protocol, chain, queue, sealed, txs, before, index, handled>>

------------------------------------------------------------------------------
(* What each protocol brings. *)

FirstChain ==
  CASE protocol = "sumer" -> SumerChain
    [] protocol \in {"shoebill", "example"} -> PoolChain
    [] protocol \in {"wagmi", "multipool"} -> WagmiChain
    [] OTHER -> LedgerChain
FirstIndex ==
  CASE protocol = "sumer" -> SumerIndex
    [] protocol = "shoebill" -> ShoebillIndex
    [] protocol = "example" -> ExampleIndex
    [] protocol \in {"wagmi", "multipool"} -> WagmiIndex
    [] OTHER -> LedgerIndex
Transactions ==
  CASE protocol = "sumer" -> SumerTransactions(chain)
    [] protocol = "shoebill" -> PoolTransactions(chain, Pool)
    [] protocol = "example" -> PoolTransactions(chain, Zero)
    [] protocol = "wagmi" -> WagmiPoolTransactions(chain)
    [] protocol = "multipool" -> MultiMoves(chain)
    [] protocol = "zkdx" -> ZkdxChanges(chain)
    [] protocol = "agx" -> AgxChanges(chain)
    [] protocol = "logs" -> LogChanges(chain)
HandledBy(e) ==
  CASE protocol = "sumer" -> SumerHandled(index, e, chain)
    [] protocol = "shoebill" -> ShoebillHandled(index, e, chain)
    [] protocol = "example" -> ExampleHandled(index, e, chain)
    [] protocol \in {"wagmi", "multipool"} -> WagmiHandled(index, e, chain)
    [] protocol = "zkdx" -> ZkdxHandled(index, e)
    [] protocol = "agx" -> AgxHandled(index, e, chain)
    [] protocol = "logs" -> LogHandled(index, e)
Matches ==
  CASE protocol = "sumer" -> SumerMatches(index, chain)
    [] protocol = "shoebill" -> ShoebillMatches(index, chain)
    [] protocol = "example" -> ExampleMatches(index, chain)
    [] protocol \in {"wagmi", "multipool"} -> WagmiMatches(index, chain)
    [] protocol = "zkdx" -> ZkdxMatches(index, chain)
    [] protocol = "agx" -> AgxMatches(index, chain)
    [] protocol = "logs" -> TRUE

(* The kinds of event that become an entity of their own: with an id of    *)
(* the event, or with one the whole transaction shares.                    *)
OwnId ==
  CASE protocol = "sumer" -> {"Mint", "Redeem", "Borrow", "Liquidate", "RedeemFaceValue", "Transfer"}
    [] protocol = "logs" -> {"ZnsTransfer", "MintedDomain", "RenewedDomain", "EddySwap", "Staked", "Target"}
    [] OTHER -> {}
SharedId ==
  CASE protocol = "sumer" -> {"Repay"}
    [] protocol \in {"wagmi", "agx"} -> {"Swap"}
    [] protocol = "zkdx" -> Trades \cup {"Exchange", "Redeem"}
    [] OTHER -> {}

------------------------------------------------------------------------------
IndexInit ==
  /\ protocol \in Protocols
  /\ chain = FirstChain
  /\ queue = <<>>
  /\ sealed = FALSE
  /\ txs = 0
  /\ before = 0
  /\ index = FirstIndex
  /\ handled = {}

(* A transaction, its events stamped with their place.                     *)
Transact ==
  /\ ~sealed /\ txs < MaxTx /\ txs - before < MaxInBlock
  /\ \E t \in Transactions :
       /\ chain' = t.chain
       /\ queue' = queue \o [i \in DOMAIN t.events |->
            Stamp(t.events[i], chain.block, txs + 1, Len(queue) + i)]
  /\ txs' = txs + 1
  /\ UNCHANGED <<protocol, sealed, before, index, handled>>

(* The block is complete.                                                  *)
Seal ==
  /\ ~sealed /\ txs > before
  /\ sealed' = TRUE
  /\ UNCHANGED <<protocol, chain, queue, txs, before, index, handled>>

Handle ==
  /\ sealed /\ queue # <<>>
  /\ LET e == Head(queue) IN
       /\ index' = HandledBy(e)
       /\ handled' = IF e.kind \in OwnId \cup SharedId THEN handled \cup {e} ELSE handled
  /\ queue' = Tail(queue)
  /\ UNCHANGED <<protocol, chain, sealed, txs, before>>

NextBlock ==
  /\ sealed /\ queue = <<>> /\ txs < MaxTx
  /\ chain' = [chain EXCEPT !.block = @ + 1]
  /\ sealed' = FALSE
  /\ before' = txs
  /\ UNCHANGED <<protocol, queue, txs, index, handled>>

IndexNext == Transact \/ Seal \/ Handle \/ NextBlock

IndexSpec == IndexInit /\ [][IndexNext]_indexVars

------------------------------------------------------------------------------
(* Properties. *)

(* When a block is handled the entities say of the contracts what they are *)
(* taken to say (SumerMatches, PoolMatches, WagmiMatches, ZkdxMatches,     *)
(* AgxMatches, which name what the code lets slip).                        *)
IndexMatchesChain == sealed /\ queue = <<>> => Matches

(* Every event that should have an entity has one, and nothing else has:   *)
(* but of the events that share their transaction's id only the last, and  *)
(* none of a redemption by an account that never exchanged.                *)
EventsAreKept ==
  LET replaced(e) ==
        e.kind \in SharedId /\ \E f \in handled : f.kind \in SharedId /\ f.tx = e.tx /\ f.log > e.log
      unknown(e) ==
        protocol = "zkdx" /\ e.kind = "Redeem"
          /\ ~\E f \in handled : f.kind = "Exchange" /\ f.from = e.from
                                   /\ (f.tx < e.tx \/ (f.tx = e.tx /\ f.log < e.log))
      kept == {e \in handled : ~replaced(e) /\ ~unknown(e)}
      stored == IF protocol \in {"shoebill", "example"} THEN {} ELSE Range(index.events)
  IN  kept = stored
==============================================================================
