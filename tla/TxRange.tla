------------------------------- MODULE TxRange -------------------------------
(***************************************************************************)
(* How the transactions of one project get paid range by range.  There is  *)
(* one row of txProcessingStatus per project and three writers of it:      *)
(*   - the cron of UpdatePointStatusService moves the row to the next      *)
(*     range of blocks;                                                    *)
(*   - GenAdapterDataService runs the adapter for the range and stores the *)
(*     transactions in transactionDataOfPoints;                            *)
(*   - CalTxPointService turns the transactions of the range into points.  *)
(* Each of them reads the row, works, and writes every column of the row   *)
(* back from the copy it read ({...status, x: true}), so a slow worker     *)
(* writes an old range over a newer one.                                   *)
(***************************************************************************)
EXTENDS Integers, FiniteSets

CONSTANTS
  MaxBlock,    \* bound: the chain stops growing here
  LookBack,    \* length of the first range: 10000 blocks
  MaxCrons,    \* bound: how often the cron fires
  MaxCrashes,  \* bound: how often the process may die
  MaxGaps      \* bound: how often a worker fails or an adapter leaves no file

ASSUME RangeAssumption ==
  /\ MaxBlock \in Nat /\ LookBack \in Nat
  /\ MaxCrons \in Nat /\ MaxCrashes \in Nat /\ MaxGaps \in Nat

Height == 1..MaxBlock

VARIABLES
  head,         \* the newest block of the explorer
  row,          \* txProcessingStatus of the project
  data,         \* blocks whose transactions are in transactionDataOfPoints
  paid,         \* paid[b]: how often block b was added to the totals
  ledger,       \* blocks whose rows are in blockAddressPointOfLp
  cpc, cread, cend,     \* the cron: where it is, the row and the head it read
  jpc, jrow,            \* the adapter job: where it is, the row it read
  kpc, krow, kblocks,   \* CalTx: where it is, the row and the data it read
  late,         \* status writes that were issued and not awaited
  crons, crashes, gaps,
  skipped,      \* history: blocks given up, by the cron or an empty adapter run
  overtaken     \* history: the cron once wrote although the row had moved on

tables == <<row, data, paid, ledger>>
cron   == <<cpc, cread, cend>>
adapter == <<jpc, jrow>>
calc   == <<kpc, krow, kblocks>>
history == <<skipped, overtaken>>
vars   == <<head, tables, cron, adapter, calc, late, crons, crashes, gaps, history>>

NoRow == [start |-> 0, end |-> 0, adapter |-> TRUE, point |-> TRUE]

(* WHERE "blockNumber" BETWEEN start AND end *)
RangeOf(r) == {b \in Height : r.start <= b /\ b <= r.end}

------------------------------------------------------------------------------
Init ==
  /\ head = 1
  /\ row = NoRow /\ data = {} /\ paid = [b \in Height |-> 0] /\ ledger = {}
  /\ cpc = "idle" /\ cread = NoRow /\ cend = 0
  /\ jpc = "idle" /\ jrow = NoRow
  /\ kpc = "idle" /\ krow = NoRow /\ kblocks = {}
  /\ late = {} /\ crons = 0 /\ crashes = 0 /\ gaps = 0
  /\ skipped = {} /\ overtaken = FALSE

NewBlock ==
  /\ head < MaxBlock
  /\ head' = head + 1
  /\ UNCHANGED <<tables, cron, adapter, calc, late, crons, crashes, gaps, history>>

------------------------------------------------------------------------------
(* UpdatePointStatusService.runTask and updateTxProcessStatus. *)

CronRead ==
  /\ cpc = "idle" /\ crons < MaxCrons
  /\ cpc' = "write" /\ cread' = row /\ cend' = head
  /\ crons' = crons + 1
  /\ UNCHANGED <<head, tables, adapter, calc, late, crashes, gaps, history>>

(* Mutants of NextRange: the last block again, and one block left out. *)
NextRangeOverlaps(r, newest) ==
  [start |-> IF r = NoRow THEN newest - LookBack ELSE r.end,
   end |-> newest, adapter |-> FALSE, point |-> FALSE]
NextRangeGap(r, newest) ==
  [start |-> IF r = NoRow THEN newest - LookBack ELSE r.end + 2,
   end |-> newest, adapter |-> FALSE, point |-> FALSE]

(* The next range starts behind the row that was read, finished or not. *)
NextRange(r, newest) ==
  [start   |-> IF r = NoRow THEN newest - LookBack ELSE r.end + 1,
   end     |-> newest,
   adapter |-> FALSE,
   point   |-> FALSE]

CronWrite ==
  /\ cpc = "write"
  /\ row' = NextRange(cread, cend)
  /\ skipped' = skipped \cup IF cread = NoRow THEN 1..(cend - LookBack - 1)
                            ELSE IF cread.point THEN {} ELSE RangeOf(cread)
  /\ overtaken' = (overtaken \/ row.end > cread.end)
  /\ cpc' = "idle" /\ cread' = NoRow /\ cend' = 0
  /\ UNCHANGED <<head, data, paid, ledger, adapter, calc, late, crons, crashes, gaps>>

------------------------------------------------------------------------------
(* GenAdapterDataService.pipeTxData and processTxData. *)

JobPoll ==
  /\ jpc = "idle" /\ ~row.adapter
  /\ jpc' = "run" /\ jrow' = row
  /\ UNCHANGED <<head, tables, cron, calc, late, crons, crashes, gaps, history>>

(* The adapter leaves a file with the transactions of the range. *)
JobLoad ==
  /\ jpc = "run"
  /\ data' = data \cup RangeOf(jrow)
  /\ jpc' = "mark"
  /\ UNCHANGED <<head, row, paid, ledger, jrow, cron, calc, late, crons, crashes, gaps,
                 history>>

(* It exits with 0 and leaves no file: genCSVDataToDb resolves to no rows  *)
(* and the range counts as processed.                                      *)
JobNoFile ==
  /\ jpc = "run" /\ gaps < MaxGaps
  /\ gaps' = gaps + 1
  /\ skipped' = skipped \cup RangeOf(jrow)
  /\ jpc' = "mark"
  /\ UNCHANGED <<head, tables, jrow, cron, calc, late, crons, crashes, overtaken>>

(* It fails, or the write of its mark does: the error is logged and the    *)
(* row stays as it is.                                                     *)
JobFails ==
  /\ jpc \in {"run", "mark"} /\ gaps < MaxGaps
  /\ gaps' = gaps + 1
  /\ jpc' = "idle" /\ jrow' = NoRow
  /\ UNCHANGED <<head, tables, cron, calc, late, crons, crashes, history>>

(* The list of adapters cannot be read: that is in runProcess itself, and  *)
(* its catch is around the loop, so nothing runs adapters until a restart. *)
JobDies ==
  /\ jpc = "idle" /\ gaps < MaxGaps
  /\ gaps' = gaps + 1
  /\ jpc' = "dead"
  /\ UNCHANGED <<head, tables, jrow, cron, calc, late, crons, crashes, history>>

JobMark ==
  /\ jpc = "mark"
  /\ row' = [jrow EXCEPT !.adapter = TRUE]
  /\ jpc' = "idle" /\ jrow' = NoRow
  /\ UNCHANGED <<head, data, paid, ledger, cron, calc, late, crons, crashes, gaps, history>>

------------------------------------------------------------------------------
(* CalTxPointService. *)

(* Mutant of CalcPoll: adapterProcessed is not looked at. *)
CalcPollEarly ==
  /\ kpc = "idle" /\ ~row.point /\ late = {}
  /\ kpc' = "read" /\ krow' = row
  /\ UNCHANGED <<head, tables, kblocks, cron, adapter, late, crons, crashes, gaps, history>>

(* The ten seconds between two polls are taken to outlast a status write   *)
(* that was issued before them.                                            *)
CalcPoll ==
  /\ kpc = "idle" /\ row.adapter /\ ~row.point /\ late = {}
  /\ kpc' = "read" /\ krow' = row
  /\ UNCHANGED <<head, tables, kblocks, cron, adapter, late, crons, crashes, gaps, history>>

(* Mutant of CalcRead: an empty range is left as it is.                    *)
CalcReadSkips ==
  /\ kpc = "read"
  /\ LET found == data \cap RangeOf(krow) IN
       IF found = {}
       THEN kpc' = "idle" /\ krow' = NoRow /\ kblocks' = {}
       ELSE kpc' = "write" /\ kblocks' = found /\ UNCHANGED krow
  /\ UNCHANGED <<head, tables, late, cron, adapter, crons, crashes, gaps, history>>

(* No transactions: the row is marked without waiting for the write. *)
CalcRead ==
  /\ kpc = "read"
  /\ LET found == data \cap RangeOf(krow) IN
       IF found = {}
       THEN /\ late' = late \cup {[krow EXCEPT !.point = TRUE]}
            /\ kpc' = "idle" /\ krow' = NoRow /\ kblocks' = {}
       ELSE /\ kpc' = "write" /\ kblocks' = found
            /\ UNCHANGED <<krow, late>>
  /\ UNCHANGED <<head, tables, cron, adapter, crons, crashes, gaps, history>>

LateMark ==
  \E r \in late :
    /\ row' = r
    /\ late' = late \ {r}
    /\ UNCHANGED <<head, data, paid, ledger, cron, adapter, calc, crons, crashes, gaps,
                   history>>

(* Mutant of CalcCommit: the row is written back as it was read. *)
CalcCommitUnmarked ==
  /\ kpc = "write"
  /\ ledger' = ledger \cup kblocks
  /\ paid' = [b \in Height |-> IF b \in kblocks THEN paid[b] + 1 ELSE paid[b]]
  /\ row' = krow
  /\ kpc' = "idle" /\ krow' = NoRow /\ kblocks' = {}
  /\ UNCHANGED <<head, data, cron, adapter, late, crons, crashes, gaps, history>>

(* One transaction: the ledger rows, the totals and the status. *)
CalcCommit ==
  /\ kpc = "write"
  /\ ledger' = ledger \cup kblocks
  /\ paid' = [b \in Height |-> IF b \in kblocks THEN paid[b] + 1 ELSE paid[b]]
  /\ row' = [krow EXCEPT !.point = TRUE]
  /\ kpc' = "idle" /\ krow' = NoRow /\ kblocks' = {}
  /\ UNCHANGED <<head, data, cron, adapter, late, crons, crashes, gaps, history>>

(* A read throws, of the row or of what the transaction needs: the catch   *)
(* of runProcess is around the loop, so CalTx has ended until a restart.   *)
CalcDies ==
  /\ kpc # "dead" /\ gaps < MaxGaps
  /\ gaps' = gaps + 1
  /\ kpc' = "dead" /\ krow' = NoRow /\ kblocks' = {}
  /\ UNCHANGED <<head, tables, cron, adapter, late, crons, crashes, history>>

------------------------------------------------------------------------------
(* The process dies.  An interrupted cron run is not made up for. *)
Crash ==
  /\ crashes < MaxCrashes
  /\ crashes' = crashes + 1
  /\ cpc' = "idle" /\ cread' = NoRow /\ cend' = 0
  /\ jpc' = "idle" /\ jrow' = NoRow
  /\ kpc' = "idle" /\ krow' = NoRow /\ kblocks' = {}
  /\ late' = {}
  /\ UNCHANGED <<head, tables, crons, gaps, history>>

JobStep  == JobPoll \/ JobLoad \/ JobMark
CalcStep == CalcPoll \/ CalcRead \/ CalcCommit

Next ==
  \/ NewBlock
  \/ CronRead \/ CronWrite
  \/ JobStep \/ JobNoFile \/ JobFails \/ JobDies
  \/ CalcStep \/ LateMark \/ CalcDies
  \/ Crash

(* Both workers are loops over queries and timers, as long as they have    *)
(* not ended (JobDies, CalcDies); an issued write reaches the database.    *)
Fairness == WF_vars(JobStep) /\ WF_vars(CalcStep) /\ WF_vars(LateMark)

Spec == Init /\ [][Next]_vars
FairSpec == Spec /\ Fairness

------------------------------------------------------------------------------
(* Properties. *)

(* However stale the copies are that the cron, the adapter job and CalTx   *)
(* write back, no block is added to the totals twice (CalTx does not look  *)
(* whether a block is in the ledger already), unless the row was marked,   *)
(* paid and marked again between the cron's own read and write.            *)
PaidOnce == ~overtaken => \A b \in Height : paid[b] <= 1

(* A range that is waiting for its points holds no block that was paid: no *)
(* stale write re-opens a finished range, with the same exception.         *)
PendingRangeIsUnpaid ==
  (~row.point /\ ~overtaken) => \A b \in RangeOf(row) : paid[b] = 0

(* A range that is marked finished has every stored transaction of its     *)
(* blocks in the ledger, with the same exception.                          *)
FinishedRangeIsPaid ==
  (row.point /\ ~overtaken) => data \cap RangeOf(row) \subseteq ledger

(* Every block behind the row is in the ledger, or it was given up in one  *)
(* of three ways: it is older than the first range, the cron moved the row *)
(* on before the range was finished, or the adapter left no file for it.   *)
UnpaidIsSkipped ==
  \A b \in Height : (row.start > b /\ b \notin ledger) => b \in skipped

(* A range that waits for its points is finished, or an older one is       *)
(* written over it as finished: the row does not stay pending for ever,    *)
(* unless a failed read has ended one of the workers and no restart comes. *)
PendingRangeFinishes ==
  (~row.point) ~> (row.point \/ [](jpc = "dead" \/ kpc = "dead"))

==============================================================================
