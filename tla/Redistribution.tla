--------------------------- MODULE Redistribution ---------------------------
(***************************************************************************)
(* How points of other projects are shared out.  Every hour                *)
(* RedistributeBalanceService runs the adapters of four pools at the       *)
(* newest block and adds the balances they print to                        *)
(* redistribute_balance: what a user held, summed over the hours           *)
(* (accumulateBalance), and the user's part of the sum of the pool         *)
(* (percentage).  Every twenty minutes RedistributePointService copies     *)
(* that table, page by page, into user_staked.                             *)
(*                                                                         *)
(* Nobody waits for the transaction of an hour.  Inside it, the history    *)
(* rows are inserted through the transaction but the table is read beside  *)
(* it.  Neither does a new hour wait for the last.                         *)
(*                                                                         *)
(* A pool holds one token here.  A percentage is kept as the total it was  *)
(* divided by.  user_holding and user_withdraw, written by the same loop,  *)
(* hold what an indexer answers and are left out (see Shares).             *)
(***************************************************************************)
EXTENDS Naturals, Sequences, FiniteSets, Sums, SequencesExt

CONSTANTS
  Staker,     \* addresses of users
  Pools,      \* the pools in the order of DIRS, a sequence
  Holders,    \* Holders[p]: the addresses the adapter of pool p may print
  LastBlock,  \* bound: the last block
  Run,        \* bound: hourly runs that may be under way together
  MaxHours,   \* bound: hours
  PageSize,   \* BATCH_SIZE
  MaxFaults   \* bound: failed passes and ends of the process

Pool  == ToSet(Pools)
Block == 1..LastBlock
Key   == Staker \X Pool

ASSUME RedistributionAssumption ==
  /\ LastBlock \in Nat \ {0} /\ MaxHours \in Nat /\ MaxFaults \in Nat
  /\ Pools \in Seq(Pool) \ {<<>>}  \* DIRS names four
  /\ PageSize \in Nat \ {0} /\ IsFiniteSet(Staker)
  /\ Holders \in [Pool -> SUBSET Staker]

VARIABLES
  block,      \* the explorer's newest block at the last hour
  history,    \* redistribute_balance_history: <<key, block>>
  hourly,     \* redistribute_balance, in the order the rows lie in
  staked,     \* user_staked: per key, a row of hourly
  users,      \* users
  run,        \* per hourly run: the pool it is at (0: none), its block and hour
  open,       \* transactions under way
  offset, got,   \* fetchDataFromHourlyData: where it is, what it has read
  lpc,        \* the loop of RedistributePointService
  hours, faults,
  raced       \* history: pools with two transactions under way at once

hourlyTables == <<history, hourly, staked, users>>
reading      == <<offset, got, lpc>>
bounds       == <<hours, faults>>
shareVars    == <<block, hourlyTables, run, open, reading, bounds, raced>>

Idle == [at |-> 0, block |-> 0, hour |-> 0]
(* An address holds as much of a pool as the number of the block: what     *)
(* differs from hour to hour is who the adapter prints.                    *)
Held(b) == b

------------------------------------------------------------------------------
(* The tables. *)

HourlyRow(k)   == CHOOSE r \in ToSet(hourly) : r.key = k
Known      == {r.key : r \in ToSet(hourly)}
Accumulated(k) == IF k \in Known THEN HourlyRow(k).sum ELSE 0
PoolTotal(p)   == SumOver([k \in Known |-> HourlyRow(k).sum], {k \in Known : k[2] = p})

(* A transaction of a pool: the users printed and the block; when they are *)
(* read, the pool's total and the sums there were.                         *)
Opened(r, us) == [pool |-> Pools[run[r].at], block |-> run[r].block, hour |-> run[r].hour,
                  printed |-> us, stage |-> "insert", total |-> 0, sums |-> [u \in us |-> 0]]
Inserts(t) == {<<<<u, t.pool>>, t.block>> : u \in t.printed}

(* The pool's total after the batch, which every row of it is divided by.  *)
NewTotal(t) == t.total + Cardinality(t.printed) * Held(t.block)

NewSum(t, u) == t.sums[u] + Held(t.block)

RowsOf(t) == {[key |-> <<u, t.pool>>, sum |-> NewSum(t, u), of |-> NewTotal(t),
               balance |-> Held(t.block)] : u \in t.printed}

(* Mutant of Upsert: rows are appended, as an insert without ON CONFLICT. *)
UpsertAppends(rows) == hourly \o SetToSeq(rows)

(* An upsert writes new versions of rows behind the others, which keep     *)
(* their order: Nth(S, n) is the n-th of the places S.                     *)
Nth(S, n)  == CHOOSE i \in S : Cardinality({j \in S : j <= i}) = n
Kept(rows) == {i \in DOMAIN hourly : \A n \in rows : n.key # hourly[i].key}
Upsert(rows) ==
  [n \in 1..Cardinality(Kept(rows)) |-> hourly[Nth(Kept(rows), n)]] \o SetToSeq(rows)

------------------------------------------------------------------------------
ShareInit ==
  /\ block = 1
  /\ history = {} /\ hourly = <<>> /\ staked = [k \in {} |-> <<>>] /\ users = {}
  /\ run = [r \in Run |-> Idle] /\ open = {}
  /\ offset = 0 /\ got = <<>> /\ lpc = "read"
  /\ hours = 0 /\ faults = 0 /\ raced = {}

(* The process ends, or starts again after a transaction of an hour was    *)
(* rejected: nobody handles the rejection.                                 *)
Restarted ==
  /\ run' = [r \in Run |-> Idle] /\ open' = {}
  /\ offset' = 0 /\ got' = <<>> /\ lpc' = "read"

Crash ==
  /\ faults < MaxFaults /\ faults' = faults + 1
  /\ Restarted
  /\ UNCHANGED <<block, hourlyTables, hours, raced>>

------------------------------------------------------------------------------
(* RedistributeBalanceService *)

(* The cron job fires and takes the newest block.  There may have been     *)
(* none since the last hour.                                               *)
Hour(r) ==
  /\ run[r] = Idle /\ hours < MaxHours /\ hours' = hours + 1
  /\ block' \in {block, block + 1} \cap Block
  /\ run' = [run EXCEPT ![r] = [at |-> 1, block |-> block', hour |-> hours']]
  /\ UNCHANGED <<hourlyTables, open, reading, faults, raced>>

Advance(r) ==
  run' = IF run[r].at = Len(Pools) THEN [run EXCEPT ![r] = Idle] ELSE [run EXCEPT ![r].at = @ + 1]

(* The adapter of the pool prints users, each once; updateCumulativeData   *)
(* opens a transaction and returns.  Without a row nothing is opened.      *)
Adapter(r) ==
  /\ run[r] # Idle
  /\ \E us \in SUBSET Holders[Pools[run[r].at]] :
       open' = IF us = {} THEN open ELSE open \cup {Opened(r, us)}
  /\ Advance(r)
  /\ UNCHANGED <<block, hourlyTables, reading, bounds, raced>>

(* The adapter fails: the next pool follows.  If it does not even compile, *)
(* the hour is over for the pools behind it as well.                       *)
AdapterFails(r) ==
  /\ run[r] # Idle
  /\ Advance(r) \/ run' = [run EXCEPT ![r] = Idle]
  /\ UNCHANGED <<block, hourlyTables, open, reading, bounds, raced>>

(* Mutant of Inserted: a row that exists is left as it is. *)
InsertedIgnoring(t) == FALSE

(* The history is keyed by user, token, pool and block.                    *)
Inserted(t) == Inserts(t) \cap history # {}

Becomes(t, n) == open' = (open \ {t}) \cup {n}

(* The insert waits for other transactions with a row of the same key; it  *)
(* is rejected, and ends the process, if the row is there.                 *)
InsertHistory(t) ==
  /\ t.stage = "insert"
  /\ \A o \in open : o.stage # "insert" => Inserts(o) \cap Inserts(t) = {}
  /\ IF Inserted(t)
     THEN Restarted /\ UNCHANGED raced
     ELSE /\ Becomes(t, [t EXCEPT !.stage = "read"])
          /\ raced' = raced \cup {o.pool : o \in {x \in open \ {t} :
                                                    x.pool = t.pool /\ x.stage # "insert"}}
          /\ UNCHANGED <<run, reading>>
  /\ UNCHANGED <<block, hourlyTables, bounds>>

(* The totals and the rows, which see what is committed.  Between the two  *)
(* queries only another transaction of the pool could make a difference.   *)
ReadTable(t) ==
  /\ t.stage = "read"
  /\ Becomes(t, [t EXCEPT !.stage = "commit", !.total = PoolTotal(t.pool),
                          !.sums = [u \in t.printed |-> Accumulated(<<u, t.pool>>)]])
  /\ UNCHANGED <<block, hourlyTables, run, reading, bounds, raced>>

(* Only the rows of the batch get a new percentage. *)
Commit(t) ==
  /\ t.stage = "commit"
  /\ history' = history \cup Inserts(t)
  /\ hourly' = Upsert(RowsOf(t))
  /\ open' = open \ {t}
  /\ UNCHANGED <<block, staked, users, run, reading, bounds, raced>>

------------------------------------------------------------------------------
(* RedistributePointService *)

(* A page, by offset and limit, in no stated order. *)
ReadPage ==
  /\ lpc = "read"
  /\ LET page == SubSeq(hourly, offset + 1, Min({Len(hourly), offset + PageSize})) IN
       /\ got' = got \o page
       /\ IF Len(page) = PageSize
          THEN offset' = offset + PageSize /\ lpc' = "read"
          ELSE offset' = 0 /\ lpc' = "users"
  /\ UNCHANGED <<block, hourlyTables, run, open, bounds, raced>>

PassEnds == lpc' = "read" /\ offset' = 0 /\ got' = <<>>

(* insertOrUpdateUsers: user_staked refers to users. *)
InsertUsers ==
  /\ lpc = "users" /\ lpc' = "staked"
  /\ users' = users \cup {got[i].key[1] : i \in DOMAIN got}
  /\ UNCHANGED <<block, history, hourly, staked, run, open, offset, got, bounds, raced>>

(* Mutant of UpsertStaked: only the first batch is written. *)
UpsertStakedOnce ==
  /\ lpc = "staked"
  /\ LET batch == SubSeq(got, 1, Min({Len(got), PageSize}))
         rows  == ToSet(batch)
         keys  == {r.key : r \in rows}
     IN  staked' = [k \in DOMAIN staked \cup keys |->
                      IF k \in keys THEN CHOOSE r \in rows : r.key = k ELSE staked[k]]
  /\ PassEnds
  /\ UNCHANGED <<block, history, hourly, users, run, open, bounds, raced>>

(* addManyOrUpdate, a batch at a time.  Two versions of a row in one batch *)
(* are an error and end the pass.                                          *)
UpsertStaked ==
  /\ lpc = "staked"
  /\ LET batch == SubSeq(got, 1, Min({Len(got), PageSize}))
         rest  == SubSeq(got, PageSize + 1, Len(got))
         rows  == ToSet(batch)
         keys  == {r.key : r \in rows}
     IN  IF Cardinality(keys) < Len(batch)
         THEN PassEnds /\ UNCHANGED staked
         ELSE /\ staked' = [k \in DOMAIN staked \cup keys |->
                              IF k \in keys THEN CHOOSE r \in rows : r.key = k ELSE staked[k]]
              /\ IF rest = <<>> THEN PassEnds ELSE got' = rest /\ UNCHANGED <<lpc, offset>>
  /\ UNCHANGED <<block, history, hourly, users, run, open, bounds, raced>>

(* An answer is missing or a share cannot be computed: the pass is logged. *)
PassFails ==
  /\ faults < MaxFaults /\ faults' = faults + 1
  /\ got # <<>> /\ PassEnds
  /\ UNCHANGED <<block, hourlyTables, run, open, hours, raced>>

------------------------------------------------------------------------------
TxStep   == \E t \in open : InsertHistory(t) \/ ReadTable(t) \/ Commit(t)
LoopStep == ReadPage \/ InsertUsers \/ UpsertStaked

ShareNext ==
  \/ Crash
  \/ \E r \in Run : Hour(r) \/ Adapter(r) \/ AdapterFails(r)
  \/ TxStep \/ LoopStep \/ PassFails

(* The database answers and the loop comes round; an hour ends.            *)
ShareFairness == WF_shareVars(TxStep) /\ WF_shareVars(LoopStep) /\ \A r \in Run : WF_shareVars(Adapter(r))

ShareSpec == ShareInit /\ [][ShareNext]_shareVars /\ ShareFairness

------------------------------------------------------------------------------
(* Properties. *)

Row == [key : Key, sum : Nat, of : Nat, balance : Nat]

ShareTypeOK ==
  /\ block \in Block /\ history \subseteq Key \X Block
  /\ hourly \in Seq(Row) /\ Cardinality(Known) = Len(hourly)
  /\ DOMAIN staked \subseteq Key /\ \A k \in DOMAIN staked : staked[k] \in Row
  /\ users \subseteq Staker /\ \A k \in DOMAIN staked : k[1] \in users
  /\ \A r \in Run : run[r].at \in 0..Len(Pools) /\ run[r].block \in 0..block
  /\ \A t \in open : t.pool \in Pool /\ t.printed \subseteq Staker /\ t.block \in Block
  /\ got \in Seq(Row) /\ offset \in Nat /\ lpc \in {"read", "users", "staked"}
  /\ raced \subseteq Pool

HistoryOf(k)   == SumOver([b \in Block |-> Held(b)], {b \in Block : <<k, b>> \in history})
PoolHistory(p) == SumOver([k \in Key |-> HistoryOf(k)], {k \in Key : k[2] = p})

(* Every balance counts exactly once: a row is the sum of the user's       *)
(* history, however often an hour is cut short, a block comes up twice or  *)
(* the process dies, and its share is never above one or relative to more  *)
(* than the pool has.  The one exception is a pool two of whose            *)
(* transactions were under way together.                                   *)
SumIsHistory ==
  \A p \in Pool \ raced : \A u \in Staker :
    /\ Accumulated(<<u, p>>) = HistoryOf(<<u, p>>)
    /\ <<u, p>> \in Known => /\ HourlyRow(<<u, p>>).sum <= HourlyRow(<<u, p>>).of
                             /\ HourlyRow(<<u, p>>).of <= PoolHistory(p)

(* The copy catches up with the table once the hours stop, although a page *)
(* may miss a row that an hour moved behind it, or read it twice.          *)
StakedCatchesUp == <>[](\A k \in Known : k \in DOMAIN staked /\ staked[k] = HourlyRow(k))

==============================================================================
