------------------------------ MODULE LpPoints ------------------------------
(***************************************************************************)
(* The three workers that write the ledger blockAddressPointOfLp and the   *)
(* totals pointsOfLp: CalTvlPointService pays the balances of a project at *)
(* a snapshot block, CalTxPointService the transactions of a project in a  *)
(* range of blocks, BridgePointService a bridge transfer (what a pass of   *)
(* it does otherwise is BridgePoint).  They are in one process, each on    *)
(* database connections of its own.                                        *)
(*                                                                         *)
(* A worker reads the totals first, adds in memory, and writes the sums    *)
(* back as absolute values in a transaction (READ COMMITTED) that it       *)
(* starts with useTransaction.  The handlers of the first two resolve      *)
(* inside the transaction, so the worker is free before COMMIT is          *)
(* answered; the bridge worker waits for it.                               *)
(*                                                                         *)
(* A total is kept as what it is made of: totals[a][<<t, b>>] is how many  *)
(* times the points of type t and block b are inside the stakePoint of a.  *)
(***************************************************************************)
EXTENDS Naturals, FiniteSets

CONSTANTS
  User, Pair,    \* an account is a user in a pair
  Block,         \* block numbers
  TvlJob, TxJob, \* rows of tvlProcessingStatus and of txProcessingStatus
  Transfer,      \* bridge transfers, as jobs: loaded when indexed, done when passed
  RowsOf,        \* RowsOf[j]: the keys <<b, a>> a job has points for
  PromptCommit,  \* whether COMMIT is answered before the worker goes on
  MaxCrashes,    \* bound: how often the process may die
  MaxFailures    \* bound: how many reads, passes or transactions may fail

Account == User \X Pair
Key     == Block \X Account
Job     == TvlJob \cup TxJob \cup Transfer
Type    == {"tvl", "tx", "bridge"}
Source  == Type \X Block

ASSUME JobAssumption ==
  TvlJob \cap TxJob = {} /\ Transfer \cap (TvlJob \cup TxJob) = {}
ASSUME RowsAssumption == RowsOf \in [Job -> SUBSET Key]
TypeOf(j) == IF j \in TvlJob THEN "tvl" ELSE IF j \in TxJob THEN "tx" ELSE "bridge"

(* A snapshot is of one block, a transfer of one account in one; no two    *)
(* jobs of a type have a key in common: a pair belongs to one project, its *)
(* blocks or ranges are disjoint.  (Two transfers of one key: BridgePoint.)*)
(* No project has the bridge's address as its pair.                        *)
ASSUME SnapshotAssumption ==
  /\ \A j \in TvlJob : \A k, l \in RowsOf[j] : k[1] = l[1]
  /\ \A j \in Transfer : Cardinality(RowsOf[j]) = 1
ASSUME DisjointAssumption ==
  \A i, j \in Job : (i # j /\ (TypeOf(i) = TypeOf(j) \/ i \in Transfer))
                      => RowsOf[i] \cap RowsOf[j] = {}
ASSUME LpBoundAssumption ==
  PromptCommit \in BOOLEAN /\ MaxCrashes \in Nat /\ MaxFailures \in Nat

VARIABLES
  status,     \* the two status tables, and the pointer of the bridge worker
  ledger,     \* blockAddressPointOfLp: the type of the row of a key
  totals,     \* pointsOfLp: a function of the accounts that have a row
  open,       \* transactions whose statements have run and not yet committed
  pc,         \* per worker: where it is
  queue,      \* per worker: what is left of the last find()
  job,        \* per worker: the job being computed
  rows,       \* per worker: the ledger rows computed
  snapshot,   \* per worker: the totals read
  crashes, failures,
  cuts,       \* history: bridge passes that ended with a payment but no pointer
  clobbered   \* history: credits that a later absolute write took out

tables == <<status, ledger, totals>>
locals == <<pc, queue, job, rows, snapshot>>
bounds == <<crashes, failures, cuts>>
vars   == <<tables, open, locals, bounds, clobbered>>

Worker == {"tvl", "tx", "bridge"}
JobsOf(w) == {j \in Job : TypeOf(j) = w}
NoRow  == "none"
NoJob  == "nothing"
Nobody == [a \in {} |-> 0]
Zero   == [s \in Source |-> 0]

------------------------------------------------------------------------------
(* What a job adds up in memory. *)

AccountsOf(S) == {k[2] : k \in S}

(* The total of a, as read, plus the points of rows S of job j.            *)
Sum(j, S, read, a) ==
  LET old == IF a \in DOMAIN read THEN read[a] ELSE Zero IN
  [s \in Source |-> old[s] + IF s[1] = TypeOf(j) /\ <<s[2], a>> \in S THEN 1 ELSE 0]

(* Mutant of Written: an account that had no total yet is forgotten. *)
WrittenKnownOnly(j, S, read) == AccountsOf(S) \cap DOMAIN read

(* The tx worker writes every account it read, changed or not              *)
(* (addressPointMap); the others write those they have points for.         *)
Written(j, S, read) ==
  IF j \in TxJob THEN AccountsOf(S) \cup DOMAIN read ELSE AccountsOf(S)

Transaction(j, S, read) ==
  [job |-> j, rows |-> S, totals |-> [a \in Written(j, S, read) |-> Sum(j, S, read, a)]]

(* Two transactions that insert or update the same row wait for each other.*)
Conflict(t, u) ==
  \/ t.rows \cap u.rows # {}
  \/ DOMAIN t.totals \cap DOMAIN u.totals # {}

(* A worker whose COMMIT is always prompt has no transaction open when it  *)
(* reads again.                                                            *)
Busy(w) == \E t \in open : t.job \in JobsOf(w)

------------------------------------------------------------------------------
Init ==
  /\ status = [j \in Job |-> "none"]
  /\ ledger = [k \in Key |-> NoRow]
  /\ totals = Nobody
  /\ open = {}
  /\ pc = [w \in Worker |-> "poll"]
  /\ queue = [w \in Worker |-> {}]
  /\ job = [w \in Worker |-> NoJob]
  /\ rows = [w \in Worker |-> {}]
  /\ snapshot = [w \in Worker |-> Nobody]
  /\ crashes = 0 /\ failures = 0 /\ cuts = 0 /\ clobbered = {}

(* The adapter data of a scheduled job is stored and adapterProcessed set  *)
(* (GenAdapterDataService); or a transfer is indexed.                      *)
Load(j) ==
  /\ status[j] = "none"
  /\ status' = [status EXCEPT ![j] = "loaded"]
  /\ UNCHANGED <<ledger, totals, open, locals, bounds, clobbered>>

------------------------------------------------------------------------------
(* runProcess of either worker. *)

Goto(w, label, q, j, S, read) ==
  /\ pc' = [pc EXCEPT ![w] = label]
  /\ queue' = [queue EXCEPT ![w] = q]
  /\ job' = [job EXCEPT ![w] = j]
  /\ rows' = [rows EXCEPT ![w] = S]
  /\ snapshot' = [snapshot EXCEPT ![w] = read]

(* Mutant of Poll: both workers look into both status tables. *)
PollAnyTable(w) ==
  /\ w # "bridge" /\ pc[w] = "poll" /\ ~Busy(w)
  /\ LET pending == {j \in Job : status[j] = "loaded"} IN
       /\ pending # {}
       /\ Goto(w, "next", pending, NoJob, {}, Nobody)
  /\ UNCHANGED <<tables, open, bounds, clobbered>>

(* find({ pointProcessed: false, adapterProcessed: true }).  The ten       *)
(* seconds between two polls are taken to outlast a COMMIT.                *)
Poll(w) ==
  /\ w # "bridge" /\ pc[w] = "poll" /\ ~Busy(w)
  /\ LET pending == {j \in JobsOf(w) : status[j] = "loaded"} IN
       /\ pending # {}
       /\ Goto(w, "next", pending, NoJob, {}, Nobody)
  /\ UNCHANGED <<tables, open, bounds, clobbered>>

EndOfQueue(w) ==
  /\ w # "bridge" /\ pc[w] = "next" /\ queue[w] = {}
  /\ Goto(w, "poll", {}, NoJob, {}, Nobody)
  /\ UNCHANGED <<tables, open, bounds, clobbered>>

(* getAddressTvlMap: the keys of the block that have a tvl row already are *)
(* left out.                                                               *)
ReadLedger(j) ==
  /\ pc["tvl"] = "next" /\ j \in queue["tvl"]
  /\ PromptCommit => ~Busy("tvl")
  /\ Goto("tvl", "totals", queue["tvl"] \ {j}, j, {k \in RowsOf[j] : ledger[k] # "tvl"}, Nobody)
  /\ UNCHANGED <<tables, open, bounds, clobbered>>

(* Mutant of ReadTxs: an empty range is skipped and not marked processed. *)
ReadTxsSkips(j) ==
  /\ pc["tx"] = "next" /\ j \in queue["tx"]
  /\ PromptCommit => ~Busy("tx")
  /\ IF RowsOf[j] = {}
     THEN Goto("tx", "next", queue["tx"] \ {j}, NoJob, {}, Nobody)
     ELSE Goto("tx", "totals", queue["tx"] \ {j}, j, RowsOf[j], Nobody)
  /\ UNCHANGED <<tables, open, bounds, clobbered>>

(* getProjectTxsByBlockNumber: every transaction of the range.  An empty   *)
(* range is marked processed at once.                                      *)
ReadTxs(j) ==
  /\ pc["tx"] = "next" /\ j \in queue["tx"]
  /\ PromptCommit => ~Busy("tx")
  /\ IF RowsOf[j] = {}
     THEN /\ status' = [status EXCEPT ![j] = "done"]
          /\ Goto("tx", "next", queue["tx"] \ {j}, NoJob, {}, Nobody)
     ELSE /\ Goto("tx", "totals", queue["tx"] \ {j}, j, RowsOf[j], Nobody)
          /\ UNCHANGED status
  /\ UNCHANGED <<ledger, totals, open, bounds, clobbered>>

(* getPointByAddresses, getPointMapForAddresses: the totals of the users,  *)
(* in every pair they have a total in.                                     *)
ReadTotals(w) ==
  /\ pc[w] = "totals"
  /\ LET users == {a[1] : a \in AccountsOf(rows[w])} IN
       Goto(w, "write", queue[w], job[w], rows[w],
            [a \in {x \in DOMAIN totals : x[1] \in users} |-> totals[a]])
  /\ UNCHANGED <<tables, open, bounds, clobbered>>

(* updateUserPoint: getPointByAddress reads the total of the transfer's    *)
(* account alone, before the transaction.                                  *)
ReadTotal(j) ==
  /\ pc["bridge"] = "poll" /\ j \in Transfer /\ status[j] = "loaded"
  /\ Goto("bridge", "write", {}, j, RowsOf[j],
          [a \in DOMAIN totals \cap AccountsOf(RowsOf[j]) |-> totals[a]])
  /\ UNCHANGED <<tables, open, bounds, clobbered>>

(* The pass of the transfer ends: the pointer moves over it.               *)
PassTransfer ==
  /\ pc["bridge"] = "next" /\ ~Busy("bridge")
  /\ status' = [status EXCEPT ![job["bridge"]] = "done"]
  /\ Goto("bridge", "poll", {}, NoJob, {}, Nobody)
  /\ UNCHANGED <<ledger, totals, open, bounds, clobbered>>

(* The statements of the transaction, up to resolve().  They wait for the  *)
(* row locks of the transactions that are open.                            *)
RunTransaction(w) ==
  /\ pc[w] = "write"
  /\ LET t == Transaction(job[w], rows[w], snapshot[w]) IN
       /\ \A u \in open : ~Conflict(t, u)
       /\ open' = open \cup {t}
  /\ Goto(w, "next", queue[w], IF w = "bridge" THEN job[w] ELSE NoJob, {}, Nobody)
  /\ UNCHANGED <<tables, bounds, clobbered>>

(* Mutants of Commit: the rows of the ledger, or the status, left out. *)
CommitWithoutRows(t) ==
  /\ t \in open
  /\ open' = open \ {t}
  /\ totals' = [a \in DOMAIN totals \cup DOMAIN t.totals |->
                  IF a \in DOMAIN t.totals THEN t.totals[a] ELSE totals[a]]
  /\ status' = IF t.job \in Transfer THEN status ELSE [status EXCEPT ![t.job] = "done"]
  /\ UNCHANGED <<ledger, locals, bounds, clobbered>>

CommitWithoutStatus(t) ==
  /\ t \in open
  /\ open' = open \ {t}
  /\ ledger' = [k \in Key |->
                  IF k \in t.rows /\ ledger[k] = NoRow THEN TypeOf(t.job) ELSE ledger[k]]
  /\ totals' = [a \in DOMAIN totals \cup DOMAIN t.totals |->
                  IF a \in DOMAIN t.totals THEN t.totals[a] ELSE totals[a]]
  /\ UNCHANGED <<status, locals, bounds, clobbered>>

(* The status that a transaction sets: none is set for a transfer.         *)
StatusAfter(j) == IF j \in Transfer THEN status ELSE [status EXCEPT ![j] = "done"]

(* COMMIT: the rows (ON CONFLICT DO NOTHING, on the primary key            *)
(* blockNumber, address, pairAddress; a transfer's row may only replace    *)
(* its own), the totals and the status together.                           *)
Commit(t) ==
  /\ t \in open
  /\ open' = open \ {t}
  /\ ledger' = [k \in Key |->
                  IF k \in t.rows /\ ledger[k] = NoRow THEN TypeOf(t.job) ELSE ledger[k]]
  /\ totals' = [a \in DOMAIN totals \cup DOMAIN t.totals |->
                  IF a \in DOMAIN t.totals THEN t.totals[a] ELSE totals[a]]
  /\ status' = StatusAfter(t.job)
  /\ clobbered' = clobbered \cup
       {x \in Account \X Source : /\ x[1] \in DOMAIN totals \cap DOMAIN t.totals
                                  /\ t.totals[x[1]][x[2]] < totals[x[1]][x[2]]}
  /\ UNCHANGED <<locals, bounds>>

------------------------------------------------------------------------------
(* Failures. *)

(* A read throws: the catch of runProcess is around the loop of the tvl    *)
(* and the tx worker, so the worker logs it and ends; nothing starts it    *)
(* again but a restart.                                                    *)
WorkerFails(w) ==
  /\ w # "bridge" /\ pc[w] \in {"poll", "next", "totals"} /\ failures < MaxFailures
  /\ failures' = failures + 1
  /\ Goto(w, "dead", {}, NoJob, {}, Nobody)
  /\ UNCHANGED <<tables, open, crashes, cuts, clobbered>>

(* The transfer of the pass is paid, committed, and not passed yet.        *)
PaidNotPassed == pc["bridge"] = "next" /\ ~Busy("bridge")
CutsAfter == cuts + IF PaidNotPassed THEN 1 ELSE 0

(* A statement of the bridge worker's pass throws, in the transaction or   *)
(* behind it: the catch is around one pass, and the next one starts again  *)
(* from the pointer in the database, in the same process.  A COMMIT whose  *)
(* answer is lost is Commit followed by this.                              *)
PassFails ==
  /\ pc["bridge"] \in {"write", "next"} /\ failures < MaxFailures
  /\ failures' = failures + 1 /\ cuts' = CutsAfter
  /\ open' = {t \in open : t.job \notin Transfer}
  /\ Goto("bridge", "poll", {}, NoJob, {}, Nobody)
  /\ UNCHANGED <<tables, crashes, clobbered>>

(* The process dies: also when a transaction of the tvl or the tx worker   *)
(* fails, whose rejected promise nobody handles.  What is not committed is *)
(* rolled back.                                                            *)
Crash ==
  /\ crashes < MaxCrashes
  /\ crashes' = crashes + 1 /\ cuts' = CutsAfter
  /\ open' = {}
  /\ pc' = [w \in Worker |-> "poll"]
  /\ queue' = [w \in Worker |-> {}]
  /\ job' = [w \in Worker |-> NoJob]
  /\ rows' = [w \in Worker |-> {}]
  /\ snapshot' = [w \in Worker |-> Nobody]
  /\ UNCHANGED <<tables, failures, clobbered>>

------------------------------------------------------------------------------
Step(w) ==
  \/ Poll(w) \/ EndOfQueue(w) \/ ReadTotals(w) \/ RunTransaction(w)
  \/ w = "tvl" /\ \E j \in TvlJob : ReadLedger(j)
  \/ w = "tx" /\ \E j \in TxJob : ReadTxs(j)
  \/ w = "bridge" /\ ((\E j \in Transfer : ReadTotal(j)) \/ PassTransfer)

CommitSome == \E t \in open : Commit(t)

Next ==
  \/ \E j \in Job : Load(j)
  \/ \E w \in Worker : Step(w) \/ WorkerFails(w)
  \/ CommitSome
  \/ PassFails
  \/ Crash

(* Each worker is a loop over its own queries and timers, and the database *)
(* answers every COMMIT.                                                   *)
Fairness == (\A w \in Worker : WF_vars(Step(w))) /\ WF_vars(CommitSome)

Spec == Init /\ [][Next]_vars
FairSpec == Spec /\ Fairness

------------------------------------------------------------------------------
(* Properties. *)

Credit(a, s) == IF a \in DOMAIN totals THEN totals[a][s] ELSE 0

TypeOK ==
  /\ status \in [Job -> {"none", "loaded", "done"}]
  /\ ledger \in [Key -> Type \cup {NoRow}]
  /\ DOMAIN totals \subseteq Account
  /\ \A a \in DOMAIN totals : totals[a] \in [Source -> Nat]
  /\ \A t \in open : /\ t.job \in Job /\ t.rows \subseteq RowsOf[t.job]
                     /\ DOMAIN t.totals \subseteq Account
  /\ pc \in [Worker -> {"poll", "next", "totals", "write", "dead"}]
  /\ \A w \in Worker : /\ queue[w] \subseteq JobsOf(w)
                       /\ pc[w] \in {"totals", "write"} => job[w] \in JobsOf(w)
                       /\ w = "bridge" /\ pc[w] = "next" => job[w] \in Transfer
                       /\ rows[w] \subseteq Key
                       /\ DOMAIN snapshot[w] \subseteq Account
  /\ crashes \in 0..MaxCrashes /\ failures \in 0..MaxFailures /\ cuts \in Nat
  /\ clobbered \subseteq Account \X Source

(* The points of a block and type enter a total at most once, whatever the *)
(* workers overwrite and however often a pass fails or the process dies    *)
(* between the reads of a job and its COMMIT.  Those of a transfer, whose  *)
(* pointer moves in a statement of its own, enter it once more for every   *)
(* pass that ended between the two, by an error that runProcess catches or *)
(* with the process.                                                       *)
AtMost(s) == 1 + IF s[1] = "bridge" THEN cuts ELSE 0
CreditedAtMostOnce == \A a \in Account, s \in Source : Credit(a, s) <= AtMost(s)

(* A total and the ledger disagree about the points of a block only where  *)
(* an absolute write took the points out again, where the row of the block *)
(* was written by another worker, or where a transfer was paid again by    *)
(* the pass that followed one that ended, caught or in a crash, before it  *)
(* moved the pointer: there is no other way to lose or to invent points.   *)
TotalsExplained ==
  \A a \in Account, s \in Source :
    LET row == ledger[<<s[2], a>>] IN
      \/ Credit(a, s) = 1 /\ row = s[1]
      \/ Credit(a, s) = 0 /\ row # s[1]
      \/ Credit(a, s) = 0 /\ <<a, s>> \in clobbered
      \/ row \notin {NoRow, s[1]}
      \/ s[1] = "bridge" /\ row = s[1] /\ Credit(a, s) \in 2..AtMost(s)

(* The points of a job that is done are inside the total, unless an        *)
(* absolute write computed from older totals took them out again.          *)
DoneMeansPaid ==
  \A j \in Job : status[j] = "done" =>
    \A k \in RowsOf[j] :
      \/ Credit(k[2], <<TypeOf(j), k[1]>>) >= 1
      \/ <<k[2], <<TypeOf(j), k[1]>>>> \in clobbered

(* pointsOfLp.stakePoint is the sum of holdPoint over the ledger rows of   *)
(* the account, the way migration CalculateAndUpdateTotalPoints computes   *)
(* it: at any time every row is inside the total once, and nothing else.   *)
TotalsMatchLedger ==
  \A a \in Account, s \in Source :
    Credit(a, s) = IF ledger[<<s[2], a>>] = s[1] THEN 1 ELSE 0

(* The unique index on blockNumber, address, pairAddress and type keeps a  *)
(* row of each type apart: what a done job computed is in the ledger.      *)
TypesCoexist ==
  \A j \in Job : status[j] = "done" => \A k \in RowsOf[j] : ledger[k] = TypeOf(j)

(* The workers catch up: each job whose adapter data is loaded, and each   *)
(* transfer, is paid in the end, as long as no failed read has ended its   *)
(* worker.  (Jobs are finitely many and are loaded once, so this is        *)
(* status = "loaded" leads to "done", for every job.)                      *)
LoadedJobIsPaid ==
  <>[](\A w \in Worker : \A j \in JobsOf(w) : status[j] = "loaded" => pc[w] = "dead")

==============================================================================
