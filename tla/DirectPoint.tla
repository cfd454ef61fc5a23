----------------------------- MODULE DirectPoint -----------------------------
(***************************************************************************)
(* The direct-hold points pipeline (points/directPoint.service.ts): a cron *)
(* that schedules a statistical block and a worker that pages through the  *)
(* holders of that block, writes one row per (block, address) into         *)
(* blockAddressPoint and then adds the row's points to points.stakePoint.  *)
(*                                                                         *)
(* The two tables are written by two separate statements, in batches, with *)
(* no transaction around them (the call of useTransaction is commented out *)
(* in the source), so a crash or a database error may fall between them.   *)
(*                                                                         *)
(* stakePoint is kept as what it is made of: credit[a][b] is the number of *)
(* times the points of block b are inside the total of address a.  The     *)
(* code adds the freshly computed points to the total it read and writes   *)
(* the sum back; here the copy read is `snapshot` and the write is         *)
(* absolute, as in the code.                                               *)
(***************************************************************************)
EXTENDS Integers, FiniteSets

CONSTANTS
  Addr,        \* addresses, as their rank in the order of the column
  Block,       \* block numbers at which the explorer stored balances
  FirstHeld,   \* FirstHeld[a]: the first block with a balance row of a
  PairAddr,    \* addresses that are pools, which an adapter may register
  AquaVault,   \* the vault that is never credited
  PageLimit,   \* addresses per page: 2000 in getAllAddressesByBlock
  BatchSize,   \* records per statement: BATCH_SIZE, 1000, in BaseRepository
  MaxCrashes,  \* bound: how often the process may die
  MaxErrors    \* bound: how many statements may fail

ASSUME AddrAssumption == Addr \subseteq Nat /\ IsFiniteSet(Addr)
ASSUME PairAssumption == PairAddr \subseteq Addr /\ AquaVault \in Addr
ASSUME BlockAssumption == Block \subseteq Nat \ {0} /\ IsFiniteSet(Block)
ASSUME FirstHeldAssumption == FirstHeld \in [Addr -> Nat]
ASSUME SizeAssumption == PageLimit \in Nat \ {0} /\ BatchSize \in Nat \ {0}
ASSUME BoundAssumption == MaxCrashes \in Nat /\ MaxErrors \in Nat

VARIABLES
  latest,      \* MAX(blockNumber) of balances, 0 while the table is empty
  pairs,       \* pair addresses of the project table
  priced,      \* blocks for which every token price is stored
  status,      \* directHoldProcessingStatus
  ledger,      \* (block, address) keys of blockAddressPoint
  credit,      \* points.stakePoint, as the rows it is made of
  holdingTvl,  \* cache holdingTvlUsd: the addresses its sum counts
  cpc, cblock, \* the cron: where it is, and the block it read
  wpc,         \* the worker: where it is
  queue,       \* blocks left of the last getUnprocessedBlockNumber
  cur, page,   \* the block and the page being processed
  batch,       \* addresses of the page to be credited (addressHoldPoints)
  left,        \* those the current statement has still to write
  snapshot,    \* the totals read by getPoints
  counted,     \* addresses whose TVL is inside totalTvlUsd
  crashes, errors,
  lost,        \* history: rows whose credit was cut off by a crash or an error
  swallowed    \* history: blocks with an error that updateHoldPoint swallowed

tables  == <<ledger, credit, holdingTvl>>
worker  == <<wpc, queue, cur, page, batch, left, snapshot, counted>>
cron    == <<cpc, cblock>>
outside == <<latest, pairs, priced>>
history == <<crashes, errors, lost, swallowed>>
vars    == <<outside, status, tables, cron, worker, history>>

NoBlock   == 0
NoCredits == [a \in Addr |-> [b \in Block |-> 0]]

------------------------------------------------------------------------------
(* Reading the balances. *)

Rank(S, a) == Cardinality({x \in S : x <= a})

(* SELECT DISTINCT address FROM balances WHERE "blockNumber" <= b *)
Holders(b) == {a \in Addr : FirstHeld[a] <= b}

(* Mutant of PageOf: the second page starts one address too late. *)
PageOfSkips(b, p) ==
  {a \in Holders(b) : /\ p * (PageLimit + 1) < Rank(Holders(b), a)
                      /\ Rank(Holders(b), a) <= p * (PageLimit + 1) + PageLimit}

(* ... ORDER BY address LIMIT PageLimit OFFSET p * PageLimit *)
PageOf(b, p) ==
  {a \in Holders(b) : /\ p * PageLimit < Rank(Holders(b), a)
                      /\ Rank(Holders(b), a) <= (p + 1) * PageLimit}

(* The records of the next statement of a batched write. *)
NextBatch(S) == {a \in S : Rank(S, a) <= BatchSize}

(* Mutant of Uncredited: the rows already in the ledger are not skipped. *)
UncreditedAgain(b, S) == {a \in S : a \notin pairs \cup {AquaVault}}

(* finalAddressList: a row of this block, a pair or the vault is skipped. *)
Uncredited(b, S) ==
  {a \in S : /\ <<b, a>> \notin ledger
             /\ a \notin pairs \cup {AquaVault}}

------------------------------------------------------------------------------
Init ==
  /\ latest = NoBlock
  /\ pairs = {}
  /\ priced = {}
  /\ status = [b \in Block |-> "none"]
  /\ ledger = {}
  /\ credit = NoCredits
  /\ holdingTvl = {}
  /\ cpc = "idle" /\ cblock = NoBlock
  /\ wpc = "poll" /\ queue = {} /\ cur = NoBlock /\ page = 0
  /\ batch = {} /\ left = {} /\ snapshot = NoCredits /\ counted = {}
  /\ crashes = 0 /\ errors = 0 /\ lost = {} /\ swallowed = {}

------------------------------------------------------------------------------
(* The tables other programs and other services fill. *)

(* The explorer stores the balances of a newer block. *)
IndexBalances(b) ==
  /\ b > latest
  /\ latest' = b
  /\ UNCHANGED <<pairs, priced, status, tables, cron, worker, history>>

(* An adapter registers a pair address in the project table. *)
RegisterPair(a) ==
  /\ a \notin pairs
  /\ pairs' = pairs \cup {a}
  /\ UNCHANGED <<latest, priced, status, tables, cron, worker, history>>

(* BaseDataService stores the last missing price of a block: it tries once *)
(* for every block and does not wait for the outcome.                      *)
StorePrices(b) ==
  /\ b \notin priced
  /\ priced' = priced \cup {b}
  /\ UNCHANGED <<latest, pairs, status, tables, cron, worker, history>>

------------------------------------------------------------------------------
(* saveBlockNumber, the cron of 02:00, 10:00 and 18:00. *)

(* Mutant of CronRead: an empty balance table is not noticed. *)
CronReadEmpty ==
  /\ cpc = "idle"
  /\ cpc' = "price" /\ cblock' = latest
  /\ UNCHANGED <<outside, status, tables, worker, history>>

CronRead ==
  /\ cpc = "idle" /\ latest # NoBlock
  /\ cpc' = "price" /\ cblock' = latest
  /\ UNCHANGED <<outside, status, tables, worker, history>>

(* updateTokenPrice catches the failure of each token: the cron goes on    *)
(* whether or not every price of the block could be stored.                *)
CronPrice ==
  /\ cpc = "price"
  /\ cpc' = "save"
  /\ \E ok \in BOOLEAN : priced' = IF ok THEN priced \cup {cblock} ELSE priced
  /\ UNCHANGED <<cblock, latest, pairs, status, tables, worker, history>>

(* upsertStatus, which also re-opens a block that was processed already. *)
CronSave ==
  /\ cpc = "save"
  /\ status' = [status EXCEPT ![cblock] = "pending"]
  /\ cpc' = "idle" /\ cblock' = NoBlock
  /\ UNCHANGED <<outside, tables, worker, history>>

------------------------------------------------------------------------------
(* runProcess and handleHoldPoint. *)

Local(pc, q, b, p, todo, rest, totals, tvl) ==
  /\ wpc' = pc /\ queue' = q /\ cur' = b /\ page' = p
  /\ batch' = todo /\ left' = rest /\ snapshot' = totals /\ counted' = tvl

(* Back to the loop over the blocks, whatever handleHoldPoint held is gone. *)
LeaveBlock == Local("next", queue, NoBlock, 0, {}, {}, NoCredits, {})

(* updateHoldPoint returns and the loop goes to the next page. *)
NextPage == Local("page", queue, cur, page + 1, {}, {}, NoCredits, counted)

Poll ==
  /\ wpc = "poll"
  /\ LET pending == {b \in Block : status[b] = "pending"} IN
       /\ pending # {}
       /\ Local("next", pending, NoBlock, 0, {}, {}, NoCredits, {})
  /\ UNCHANGED <<outside, status, tables, cron, history>>

(* getTokenPriceMap throws unless every price of the block is stored; the  *)
(* block stays pending and the loop goes to the next one.                  *)
StartBlock ==
  /\ wpc = "next"
  /\ \E b \in queue :
       /\ \A c \in queue : b <= c
       /\ IF b \in priced
          THEN Local("page", queue \ {b}, b, 0, {}, {}, NoCredits, {})
          ELSE Local("next", queue \ {b}, NoBlock, 0, {}, {}, NoCredits, {})
  /\ UNCHANGED <<outside, status, tables, cron, history>>

EndOfQueue ==
  /\ wpc = "next" /\ queue = {}
  /\ Local("poll", {}, NoBlock, 0, {}, {}, NoCredits, {})
  /\ UNCHANGED <<outside, status, tables, cron, history>>

(* Mutant of ReadPage: a page with nothing to credit is read again. *)
ReadPageStays ==
  /\ wpc = "page" /\ PageOf(cur, page) # {}
  /\ LET todo == Uncredited(cur, PageOf(cur, page)) IN
       IF todo = {}
       THEN UNCHANGED worker
       ELSE Local("ledger", queue, cur, page, todo, todo, credit, counted \cup todo)
  /\ UNCHANGED <<outside, status, tables, cron, history>>

(* One page: the addresses not yet in the ledger, and the totals read for  *)
(* them.  Nobody but this worker writes blockAddressPoint and points, so   *)
(* the reads are one step.                                                 *)
ReadPage ==
  /\ wpc = "page" /\ PageOf(cur, page) # {}
  /\ LET todo == Uncredited(cur, PageOf(cur, page)) IN
       IF todo = {}
       THEN NextPage
       ELSE Local("ledger", queue, cur, page, todo, todo, credit, counted \cup todo)
  /\ UNCHANGED <<outside, status, tables, cron, history>>

EndOfPages ==
  /\ wpc = "page" /\ PageOf(cur, page) = {}
  /\ Local("cache", queue, cur, page, {}, {}, NoCredits, counted)
  /\ UNCHANGED <<outside, status, tables, cron, history>>

(* Mutant of WriteLedger: only the first statement of a batch is written. *)
WriteLedgerOnce ==
  /\ wpc = "ledger"
  /\ ledger' = ledger \cup {<<cur, a>> : a \in NextBatch(left)}
  /\ Local("total", queue, cur, page, batch, batch, snapshot, counted)
  /\ UNCHANGED <<credit, holdingTvl, outside, status, cron, history>>

(* blockAddressPoint.addManyIgnoreConflicts, one statement of it. *)
WriteLedger ==
  /\ wpc = "ledger"
  /\ LET some == NextBatch(left)
         rest == left \ some IN
       /\ ledger' = ledger \cup {<<cur, a>> : a \in some}
       /\ IF rest = {}
          THEN Local("total", queue, cur, page, batch, batch, snapshot, counted)
          ELSE Local("ledger", queue, cur, page, batch, rest, snapshot, counted)
  /\ UNCHANGED <<credit, holdingTvl, outside, status, cron, history>>

(* Mutants of NewTotal: the points of this block instead of the sum; and an *)
(* address that had no total yet gets none.                                *)
NewTotalReplaces(a) == [NoCredits[a] EXCEPT ![cur] = 1]
NewTotalKnownOnly(a) ==
  IF snapshot[a] = NoCredits[a] THEN snapshot[a] ELSE [snapshot[a] EXCEPT ![cur] = @ + 1]

(* The total read plus the points of this block: the absolute value that   *)
(* addManyOrUpdate writes.                                                 *)
NewTotal(a) == [snapshot[a] EXCEPT ![cur] = @ + 1]

(* points.addManyOrUpdate, one statement of it. *)
WriteTotals ==
  /\ wpc = "total"
  /\ LET some == NextBatch(left)
         rest == left \ some IN
       /\ credit' = [a \in Addr |-> IF a \in some THEN NewTotal(a) ELSE credit[a]]
       /\ IF rest = {}
          THEN NextPage
          ELSE Local("total", queue, cur, page, batch, rest, snapshot, counted)
  /\ UNCHANGED <<ledger, holdingTvl, outside, status, cron, history>>

CacheTvl ==
  /\ wpc = "cache"
  /\ holdingTvl' = counted
  /\ Local("mark", queue, cur, page, {}, {}, NoCredits, {})
  /\ UNCHANGED <<ledger, credit, outside, status, cron, history>>

MarkProcessed ==
  /\ wpc = "mark"
  /\ status' = [status EXCEPT ![cur] = "done"]
  /\ LeaveBlock
  /\ UNCHANGED <<outside, tables, cron, history>>

------------------------------------------------------------------------------
(* Failures. *)

(* Rows of the page that are in the ledger and not yet in the totals. *)
Cut ==
  {<<cur, a>> : a \in CASE wpc = "ledger" -> batch \ left
                       [] wpc = "total"  -> left
                       [] OTHER          -> {}}

(* A statement of updateHoldPoint fails: the error is caught and logged,   *)
(* the rest of the page is dropped and the next page is taken.             *)
WriteFails ==
  /\ wpc \in {"ledger", "total"} /\ errors < MaxErrors
  /\ errors' = errors + 1
  /\ lost' = lost \cup Cut
  /\ swallowed' = swallowed \cup {cur}
  /\ NextPage
  /\ UNCHANGED <<crashes, outside, status, tables, cron>>

(* Any other query of handleHoldPoint fails: runProcess catches it and     *)
(* leaves the block pending.                                               *)
BlockFails ==
  /\ wpc \in {"page", "cache", "mark"} /\ errors < MaxErrors
  /\ errors' = errors + 1
  /\ LeaveBlock
  /\ UNCHANGED <<crashes, lost, swallowed, outside, status, tables, cron>>

(* The process dies and is started again: the tables stay. *)
Crash ==
  /\ crashes < MaxCrashes
  /\ crashes' = crashes + 1
  /\ lost' = lost \cup Cut
  /\ cpc' = "idle" /\ cblock' = NoBlock
  /\ Local("poll", {}, NoBlock, 0, {}, {}, NoCredits, {})
  /\ UNCHANGED <<errors, swallowed, outside, status, tables>>

------------------------------------------------------------------------------
WorkerStep ==
  \/ Poll \/ StartBlock \/ EndOfQueue
  \/ ReadPage \/ EndOfPages
  \/ WriteLedger \/ WriteTotals
  \/ CacheTvl \/ MarkProcessed

CronStep == CronRead \/ CronPrice \/ CronSave

Next ==
  \/ \E b \in Block : IndexBalances(b) \/ StorePrices(b)
  \/ \E a \in PairAddr : RegisterPair(a)
  \/ CronStep
  \/ WorkerStep
  \/ WriteFails \/ BlockFails \/ Crash

(* The worker loop never blocks on anything but its own database calls and *)
(* timers; the cron fires on a clock, which nothing here relies on.        *)
Fairness == WF_vars(WorkerStep)

Spec == Init /\ [][Next]_vars
FairSpec == Spec /\ Fairness

------------------------------------------------------------------------------
(* Properties. *)

TypeOK ==
  /\ latest \in Block \cup {NoBlock}
  /\ pairs \subseteq PairAddr
  /\ priced \subseteq Block
  /\ status \in [Block -> {"none", "pending", "done"}]
  /\ ledger \subseteq Block \X Addr
  /\ credit \in [Addr -> [Block -> Nat]]
  /\ holdingTvl \subseteq Addr
  /\ cpc \in {"idle", "price", "save"}
  /\ cblock \in Block \cup {NoBlock}
  /\ cpc # "idle" => cblock # NoBlock
  /\ wpc \in {"poll", "next", "page", "ledger", "total", "cache", "mark"}
  /\ queue \subseteq Block
  /\ cur \in Block \cup {NoBlock}
  /\ wpc \in {"page", "ledger", "total", "cache", "mark"} => cur # NoBlock
  /\ page \in Nat
  /\ left \subseteq batch /\ batch \subseteq Addr
  /\ snapshot \in [Addr -> [Block -> Nat]]
  /\ counted \subseteq Addr
  /\ crashes \in 0..MaxCrashes /\ errors \in 0..MaxErrors
  /\ lost \subseteq Block \X Addr
  /\ swallowed \subseteq Block

(* No total ever holds more than the ledger accounts for: the points of a  *)
(* block are inside an address' stakePoint at most once, and only if the   *)
(* ledger has the row, whatever re-opens the block, fails or crashes.      *)
StakePointWithinLedger ==
  \A a \in Addr, b \in Block :
    credit[a][b] <= IF <<b, a>> \in ledger THEN 1 ELSE 0

(* A ledger row that is missing from the total is either being written at  *)
(* this moment or was cut off by a crash or an error between the two       *)
(* statements of updateHoldPoint; nothing else makes the tables differ.    *)
MissingCreditExplained ==
  \A a \in Addr, b \in Block :
    (<<b, a>> \in ledger /\ credit[a][b] = 0) => <<b, a>> \in Cut \cup lost

(* A block marked processed has paid every holder that is not a pair and   *)
(* not the vault, unless updateHoldPoint swallowed an error of that block. *)
ProcessedMeansPaid ==
  \A b \in Block :
    (status[b] = "done" /\ b \notin swallowed) =>
      \A a \in Holders(b) :
        \/ a \in pairs \cup {AquaVault}
        \/ <<b, a>> \in ledger /\ (credit[a][b] = 1 \/ <<b, a>> \in Cut \cup lost)

(* The absolute write of stakePoint never takes points away: the total it  *)
(* was computed from is still the total in the table.                      *)
StakePointNeverShrinks ==
  [][\A a \in Addr, b \in Block : credit'[a][b] >= credit[a][b]]_credit

(* What the pipeline promises, as the abstract ledger states it. *)
Promise == INSTANCE PointLedger WITH Account <- Addr, rows <- ledger
PromiseSpec == Promise!Spec

(* A scheduled block whose prices are all stored is eventually processed.  *)
PricedBlockIsProcessed ==
  \A b \in Block :
    (status[b] = "pending" /\ b \in priced) ~> (status[b] = "done")

==============================================================================
