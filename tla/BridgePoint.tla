----------------------------- MODULE BridgePoint -----------------------------
(***************************************************************************)
(* BridgePointService pays points for transfers from bridges.  A pass of   *)
(* its loop fetches the transfers behind a stored block number (in two     *)
(* queries), pays them one after the other in the order of their numbers,  *)
(* then stores the daily counters and at the very end the block number.    *)
(*                                                                         *)
(* What a transfer earns depends on its place: how many transfers of its   *)
(* bridge were paid on its day before it.  Each payment is a transaction   *)
(* of its own, so a pass that ends early has paid transfers that the next  *)
(* pass pays again.                                                        *)
(*                                                                         *)
(* credit[t] is how often transfer t is inside pointsOfLp.stakePoint; the  *)
(* ledger row of a (block, user, pair) is the transfer that wrote it last. *)
(*                                                                         *)
(* Beside it BridgeActiveService flags the receivers of transfers of BTC   *)
(* in the same table, with a pointer of its own.                           *)
(***************************************************************************)
EXTENDS Integers, FiniteSets

CONSTANTS
  Transfer,      \* qualifying transfers, by their number in the explorer
  MaxBlock,      \* bound: the last block
  BlockOf, UserOf, PairOf, DayOf,  \* of a transfer; the pair is the bridge's address
  IdOf,          \* the bridge a pair belongs to
  Symbiosis,     \* pairs that the second query asks for
  BtcReceivers,  \* BtcReceivers[b]: who receives enough BTC from meson in block b
  MaxInterrupts  \* bound: how many passes may end early

Pair  == {PairOf[t] : t \in Transfer}
User  == {UserOf[t] : t \in Transfer} \cup UNION {BtcReceivers[b] : b \in 1..MaxBlock}
Count == {<<IdOf[PairOf[t]], DayOf[t]>> : t \in Transfer}
RowKey == {<<BlockOf[t], UserOf[t], PairOf[t]>> : t \in Transfer}

ASSUME TransferAssumption ==
  /\ Transfer \subseteq Nat \ {0} /\ IsFiniteSet(Transfer)
  /\ MaxBlock \in Nat /\ MaxInterrupts \in Nat
  /\ BlockOf \in [Transfer -> 1..MaxBlock]
  /\ Symbiosis \subseteq Pair
  /\ DOMAIN BtcReceivers = 1..MaxBlock
(* The explorer numbers transfers in the order of their blocks, and the    *)
(* time of a transfer is that of its block.                                *)
ASSUME NumberAssumption ==
  \A t, u \in Transfer : /\ t < u => BlockOf[t] <= BlockOf[u]
                         /\ BlockOf[t] = BlockOf[u] => DayOf[t] = DayOf[u]

VARIABLES
  head,       \* newest block of the explorer
  pointer,    \* sequence bridgeStatisticalBlockNumber
  counters,   \* daily counters in the cache table
  ledger,     \* rows of type bridgeTxNum of blockAddressPointOfLp
  credit,     \* pointsOfLp.stakePoint, as the transfers it is made of
  active, next,   \* cache: users flagged active, announced place per bridge
  pc,
  todo,       \* transfers of the pass that are not paid yet
  memory,     \* bridgeAddressDailyCount
  dirty,      \* counters the pass has still to store
  last,       \* lastTransferBlockNumber
  btcPointer, \* cache: only_active_blocknumber_key
  btcPc,
  btcTodo,    \* blocks whose transfers of BTC were fetched
  interrupts,
  seen,       \* history: head when the first query of the pass ran
  gap,        \* history: blocks that came between the queries of this pass
  between,    \* history: the same, of passes that moved the pointer
  paid,       \* history: transfers this pass has paid
  cuts,       \* history: how often a transfer was paid by a pass that ended early
  place       \* history: the place at which a transfer was paid last

tables  == <<pointer, counters, ledger, credit, active, next>>
pass    == <<pc, todo, memory, dirty, last>>
btc     == <<btcPointer, btcPc, btcTodo>>
passHistory == <<seen, gap, paid>>
vars == <<head, tables, pass, btc, interrupts, passHistory, between, cuts, place>>

NoTransfer == 0
CountOf(t) == <<IdOf[PairOf[t]], DayOf[t]>>
RowOf(t)   == <<BlockOf[t], UserOf[t], PairOf[t]>>
NoCounts   == [c \in Count |-> 0]

Init ==
  /\ head = 0 /\ pointer = 0
  /\ counters = NoCounts
  /\ ledger = [k \in RowKey |-> NoTransfer]
  /\ credit = [t \in Transfer |-> 0]
  /\ active = {} /\ next = [p \in {IdOf[q] : q \in Pair} |-> 0]
  /\ pc = "poll" /\ todo = {} /\ memory = NoCounts /\ dirty = {} /\ last = 0
  /\ btcPointer = 0 /\ btcPc = "poll" /\ btcTodo = {}
  /\ interrupts = 0 /\ seen = 0 /\ gap = {} /\ between = {} /\ paid = {}
  /\ cuts = [t \in Transfer |-> 0] /\ place = [t \in Transfer |-> 0]

(* The explorer stores a block with its transfers. *)
IndexBlock ==
  /\ head < MaxBlock
  /\ head' = head + 1
  /\ UNCHANGED <<tables, pass, btc, interrupts, passHistory, between, cuts, place>>

------------------------------------------------------------------------------
(* handlePoint and fetchTransferList. *)

(* Mutant of Behind: the last block again. *)
BehindInclusive(S) == {t \in S : pointer <= BlockOf[t] /\ BlockOf[t] <= head}

(* WHERE "blockNumber" > pointer *)
Behind(S) == {t \in S : pointer < BlockOf[t] /\ BlockOf[t] <= head}

(* The pointer, and the transfers behind it of every bridge but symbiosis. *)
FetchDefault ==
  /\ pc = "poll"
  /\ pc' = "symbiosis"
  /\ todo' = Behind({t \in Transfer : PairOf[t] \notin Symbiosis})
  /\ last' = pointer
  /\ seen' = head
  /\ UNCHANGED <<head, tables, memory, dirty, btc, interrupts, gap, between, paid, cuts, place>>

(* Mutants of FetchSymbiosis: a pass with no transfers goes on, and one    *)
(* with none of the first query ends.                                      *)
FetchSymbiosisAnything ==
  /\ pc = "symbiosis"
  /\ pc' = "announce"
  /\ todo' = todo \cup Behind({t \in Transfer : PairOf[t] \in Symbiosis})
  /\ memory' = counters /\ gap' = seen + 1 .. head
  /\ UNCHANGED <<head, tables, dirty, last, btc, interrupts, seen, between, paid, cuts, place>>
FetchSymbiosisOnlyBoth ==
  /\ pc = "symbiosis"
  /\ LET all == todo \cup Behind({t \in Transfer : PairOf[t] \in Symbiosis}) IN
       IF todo = {}
       THEN pc' = "poll" /\ todo' = {} /\ gap' = {} /\ UNCHANGED memory
       ELSE pc' = "announce" /\ todo' = all /\ memory' = counters /\ gap' = seen + 1 .. head
  /\ UNCHANGED <<head, tables, dirty, last, btc, interrupts, seen, between, paid, cuts, place>>

(* The transfers of symbiosis, and the counters.  Nobody else writes the   *)
(* counters, so that all are read here and those of another day need not   *)
(* be read when they are needed first.                                     *)
FetchSymbiosis ==
  /\ pc = "symbiosis"
  /\ LET all == todo \cup Behind({t \in Transfer : PairOf[t] \in Symbiosis}) IN
       IF all = {}
       THEN pc' = "poll" /\ todo' = {} /\ gap' = {} /\ UNCHANGED memory
       ELSE pc' = "announce" /\ todo' = all /\ memory' = counters /\ gap' = seen + 1 .. head
  /\ UNCHANGED <<head, tables, dirty, last, btc, interrupts, seen, between, paid, cuts, place>>

------------------------------------------------------------------------------
(* executePoints. *)

(* The transfer whose turn it is. *)
Turn(t) == t \in todo /\ \A u \in todo : t <= u

(* The user is flagged active and the points of the bridge's next transfer *)
(* are announced.                                                          *)
Announce ==
  /\ pc = "announce"
  /\ \E t \in todo :
       /\ Turn(t)
       /\ active' = active \cup {UserOf[t]}
       /\ next' = [next EXCEPT ![IdOf[PairOf[t]]] = memory[CountOf(t)] + 1]
  /\ pc' = "pay"
  /\ UNCHANGED <<head, pointer, counters, ledger, credit, todo, memory, dirty, last,
                 btc, interrupts, passHistory, between, cuts, place>>

(* The row is replaced (upsert) while the total was added to. *)
RowAfter(t) == [ledger EXCEPT ![RowOf(t)] = t]

(* updateUserPoint: the row and the total in one transaction. *)
Pay ==
  /\ pc = "pay"
  /\ \E t \in todo :
       /\ Turn(t)
       /\ ledger' = RowAfter(t)
       /\ credit' = [credit EXCEPT ![t] = @ + 1]
       /\ place' = [place EXCEPT ![t] = memory[CountOf(t)]]
       /\ memory' = [memory EXCEPT ![CountOf(t)] = @ + 1]
       /\ dirty' = dirty \cup {CountOf(t)}
       /\ last' = BlockOf[t]
       /\ todo' = todo \ {t}
       /\ paid' = paid \cup {t}
  /\ pc' = IF todo' = {} THEN "counts" ELSE "announce"
  /\ UNCHANGED <<head, pointer, counters, active, next, btc, interrupts, seen, gap, between, cuts>>

(* Mutant of StoreCount: only one counter is stored, today's. *)
StoreCountOnce ==
  /\ pc = "counts"
  /\ \E c \in dirty : counters' = [counters EXCEPT ![c] = memory[c]]
  /\ dirty' = {}
  /\ pc' = "pointer"
  /\ UNCHANGED <<head, pointer, ledger, credit, active, next, todo, memory, last,
                 btc, interrupts, passHistory, between, cuts, place>>

(* The counters, one statement each.  Those that did not change are stored *)
(* as well, which changes nothing.                                         *)
StoreCount ==
  /\ pc = "counts"
  /\ \E c \in dirty :
       /\ counters' = [counters EXCEPT ![c] = memory[c]]
       /\ dirty' = dirty \ {c}
  /\ pc' = IF dirty' = {} THEN "pointer" ELSE "counts"
  /\ UNCHANGED <<head, pointer, ledger, credit, active, next, todo, memory, last,
                 btc, interrupts, passHistory, between, cuts, place>>

EndPass ==
  /\ pc' = "poll" /\ todo' = {} /\ memory' = NoCounts /\ dirty' = {} /\ last' = 0
  /\ seen' = 0 /\ gap' = {} /\ paid' = {}

(* Mutant of SavePointer: the newest block instead of the last one paid. *)
SavePointerAtHead ==
  /\ pc = "pointer"
  /\ pointer' = head
  /\ between' = between \cup gap
  /\ EndPass
  /\ UNCHANGED <<head, counters, ledger, credit, active, next, btc, interrupts, cuts, place>>

SavePointer ==
  /\ pc = "pointer"
  /\ pointer' = last
  /\ between' = between \cup gap
  /\ EndPass
  /\ UNCHANGED <<head, counters, ledger, credit, active, next, btc, interrupts, cuts, place>>

(* A query fails, which runProcess catches, or the process dies: either    *)
(* way the next pass starts from the stored pointer and counters.          *)
Interrupt ==
  /\ pc # "poll" /\ interrupts < MaxInterrupts
  /\ interrupts' = interrupts + 1
  /\ cuts' = [t \in Transfer |-> IF t \in paid THEN cuts[t] + 1 ELSE cuts[t]]
  /\ EndPass
  /\ UNCHANGED <<head, tables, btc, between, place>>

------------------------------------------------------------------------------
(* BridgeActiveService. *)

FetchBtc ==
  /\ btcPc = "poll"
  /\ btcTodo' = {b \in btcPointer + 1 .. head : BtcReceivers[b] # {}}
  /\ btcTodo' # {} /\ btcPc' = "flag"
  /\ UNCHANGED <<head, tables, pass, btcPointer, interrupts, passHistory, between, cuts, place>>

(* Flags that are there already are left alone. *)
FlagReceivers ==
  /\ btcPc = "flag" /\ btcPc' = "pointer"
  /\ active' = active \cup UNION {BtcReceivers[b] : b \in btcTodo}
  /\ UNCHANGED <<head, pointer, counters, ledger, credit, next, pass, btcPointer, btcTodo,
                 interrupts, passHistory, between, cuts, place>>

(* Mutant of StoreBtcPointer: the newest block is stored. *)
StoreBtcPointerAtHead ==
  /\ btcPc = "pointer" /\ btcPc' = "poll" /\ btcTodo' = {}
  /\ btcPointer' = head
  /\ UNCHANGED <<head, tables, pass, interrupts, passHistory, between, cuts, place>>

(* The last block of the list. *)
StoreBtcPointer ==
  /\ btcPc = "pointer" /\ btcPc' = "poll" /\ btcTodo' = {}
  /\ btcPointer' \in btcTodo /\ \A b \in btcTodo : b <= btcPointer'
  /\ UNCHANGED <<head, tables, pass, interrupts, passHistory, between, cuts, place>>

InterruptBtc ==
  /\ btcPc # "poll" /\ interrupts < MaxInterrupts
  /\ interrupts' = interrupts + 1
  /\ btcPc' = "poll" /\ btcTodo' = {}
  /\ UNCHANGED <<head, tables, pass, btcPointer, passHistory, between, cuts, place>>

------------------------------------------------------------------------------
PassStep ==
  \/ FetchDefault \/ FetchSymbiosis
  \/ Announce \/ Pay \/ StoreCount \/ SavePointer

BtcStep == FetchBtc \/ FlagReceivers \/ StoreBtcPointer

Next == IndexBlock \/ PassStep \/ Interrupt \/ BtcStep \/ InterruptBtc

(* The loops catch every error of a pass and start the next one. *)
Fairness == WF_vars(PassStep) /\ WF_vars(BtcStep)

Spec == Init /\ [][Next]_vars
FairSpec == Spec /\ Fairness

------------------------------------------------------------------------------
(* Properties. *)

TypeOK ==
  /\ head \in 0..MaxBlock /\ pointer \in 0..head
  /\ counters \in [Count -> Nat] /\ memory \in [Count -> Nat]
  /\ ledger \in [RowKey -> Transfer \cup {NoTransfer}]
  /\ credit \in [Transfer -> Nat] /\ cuts \in [Transfer -> Nat]
  /\ place \in [Transfer -> Nat]
  /\ active \subseteq User /\ DOMAIN next = {IdOf[q] : q \in Pair}
  /\ pc \in {"poll", "symbiosis", "announce", "pay", "counts", "pointer"}
  /\ pc \in {"announce", "pay"} => todo # {}
  /\ todo \cap paid = {} /\ todo \cup paid \subseteq Transfer
  /\ pc = "counts" => dirty # {}
  /\ dirty \subseteq Count /\ last \in 0..MaxBlock
  /\ interrupts \in 0..MaxInterrupts
  /\ btcPointer \in 0..head /\ btcPc \in {"poll", "flag", "pointer"}
  /\ btcTodo \subseteq 1..head
  /\ seen \in 0..head /\ gap \cup between \subseteq 1..MaxBlock

(* Transfers that the stored pointer has left behind. *)
Settled == {t \in Transfer : BlockOf[t] <= pointer}

(* A transfer is inside the total once for the pass that moved the pointer *)
(* past it (or is under way), and once more for every pass that paid it    *)
(* and ended early; there is no other way to be paid twice.                *)
PaidOncePerCut ==
  \A t \in Transfer :
    credit[t] - cuts[t] \in IF t \in Settled THEN {0, 1}
                            ELSE IF t \in paid THEN {1} ELSE {0}

(* The pointer passes no transfer unpaid, except one of the first query in *)
(* a block that was stored between the two queries of a pass.              *)
PassedMeansPaid ==
  \A t \in Settled :
    credit[t] > cuts[t] \/ (BlockOf[t] \in between /\ PairOf[t] \notin Symbiosis)

(* Two transfers of a bridge and a day never keep the same place, however  *)
(* often a pass is repeated: the counters are stored ahead of the pointer. *)
PlacesDiffer ==
  \A t, u \in Settled :
    (t # u /\ CountOf(t) = CountOf(u) /\ credit[t] > 0 /\ credit[u] > 0) => place[t] # place[u]

(* The flags of the two services together: whoever a pointer has passed is *)
(* flagged, so is everybody whose transfer was paid, and nobody without a  *)
(* transfer in a stored block.                                             *)
FlaggedMeansBridged ==
  /\ \A b \in 1..btcPointer : BtcReceivers[b] \subseteq active
  /\ {UserOf[t] : t \in {x \in Transfer : credit[x] > 0}} \subseteq active
  /\ active \subseteq {UserOf[t] : t \in {x \in Transfer : BlockOf[x] <= head}}
                   \cup UNION {BtcReceivers[b] : b \in 1..head}

(* pointsOfLp.stakePoint is the sum of holdPoint over the ledger rows, the *)
(* way migration CalculateAndUpdateTotalPoints computes it.                *)
TotalsMatchLedger ==
  \A t \in Transfer : credit[t] = IF ledger[RowOf(t)] = t THEN 1 ELSE 0

(* The pass goes on until every transfer the explorer has stored is behind *)
(* the pointer, whatever ends early before (the blocks are finitely many). *)
TransferIsPassed == <>[](\A t \in Transfer : BlockOf[t] <= head => BlockOf[t] <= pointer)

==============================================================================
