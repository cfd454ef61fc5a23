------------------------------ MODULE BaseData ------------------------------
(***************************************************************************)
(* BaseDataService follows the blocks of the explorer and records when an  *)
(* address made its first deposit; the loyalty booster of every other      *)
(* worker rests on that time.  Its loop, and the loop of                   *)
(* DirectPointService, are started, stopped and restarted by AppService    *)
(* through the class Worker: a stop clears the worker's promise and waits  *)
(* for the loop to notice, a start makes a loop if there is no promise.    *)
(*                                                                         *)
(* The two loops notice differently: the one of BaseData after every pass, *)
(* the one of DirectPoint only when it had a block to pay.                 *)
(*                                                                         *)
(* The prices that a pass asks for are stored without being waited for, in *)
(* a table that nothing here reads (DirectPoint.StorePrices).              *)
(***************************************************************************)
EXTENDS Naturals, FiniteSets

CONSTANTS
  User,        \* addresses
  MaxBlock,    \* bound: the last block
  Depositors,  \* Depositors[b]: the senders of the deposits of block b
  Handler,     \* bound: deliveries of the event blocksRevertDetected
  MaxFaults    \* bound: passes that fail and ends of the process, together

Block  == 1..MaxBlock
Worker == {"base", "direct"}
Loop   == 1..(Cardinality(Handler) + 1)  \* loops a process may start of a worker
None   == 0  \* no block, no loop, no promise

ASSUME BaseDataAssumption ==
  /\ MaxBlock \in Nat /\ MaxFaults \in Nat /\ IsFiniteSet(Handler)
  /\ Depositors \in [Block -> SUBSET User]

VARIABLES
  latest,      \* the explorer's newest block
  first,       \* addressFirstDeposits: the block of the recorded deposit
  pointer,     \* cache: baseDataLastRunBlockNumber
  pending,     \* a block waits in directHoldProcessingStatus
  promise,     \* per worker: currentProcessPromise
  pc,          \* per worker and loop
  target, number, fresh,  \* per loop of BaseData: latestBlockNumber,
               \* lastStatisticalBlockNumber, newFirstDeposits
  hpc, awaits, \* per delivery: its state and the promises its stop returned
  faults,
  begin,       \* history, per loop of BaseData: where its pass began
  start,       \* history: where the pass began that first stored the pointer
  overlapped   \* history: an event came while another was being handled

explorer  == <<latest>>
tables    == <<first, pointer, pending>>
passLocal == <<target, number, fresh, begin>>
handling  == <<hpc, awaits, overlapped>>
vars == <<explorer, tables, promise, pc, passLocal, handling, faults, start>>

------------------------------------------------------------------------------
(* class Worker *)

Alive(w, l) == pc[w][l] \notin {"unborn", "ended"}
NextLoop(w) == CHOOSE l \in Loop : /\ pc[w][l] = "unborn"
                                   /\ \A k \in Loop : pc[w][k] = "unborn" => l <= k
NewLoop(w)  == [pc[w] EXCEPT ![NextLoop(w)] = "pass"]

(* start() makes a loop only when there is no promise.                     *)
Starting(w) == promise[w] = None

StartWorkers ==
  /\ pc' = [w \in Worker |-> IF Starting(w) THEN NewLoop(w) ELSE pc[w]]
  /\ promise' = [w \in Worker |-> IF Starting(w) THEN NextLoop(w) ELSE promise[w]]

Unborn == [l \in Loop |-> "unborn"]
Boot   == [w \in Worker |-> [Unborn EXCEPT ![1] = "pass"]]  \* onModuleInit
Fresh(l) == /\ target' = [target EXCEPT ![l] = None]
            /\ number' = [number EXCEPT ![l] = None]
            /\ fresh' = [fresh EXCEPT ![l] = {}]
            /\ begin' = [begin EXCEPT ![l] = None]

Init ==
  /\ latest = 0
  /\ first = [u \in User |-> None] /\ pointer = None /\ pending = FALSE
  /\ pc = Boot /\ promise = [w \in Worker |-> 1]
  /\ target = [l \in Loop |-> None] /\ number = [l \in Loop |-> None]
  /\ fresh = [l \in Loop |-> {}] /\ begin = [l \in Loop |-> None]
  /\ hpc = [h \in Handler |-> "none"]
  /\ awaits = [h \in Handler |-> [w \in Worker |-> None]]
  /\ faults = 0 /\ start = None /\ overlapped = FALSE

IndexBlock ==
  /\ latest < MaxBlock
  /\ latest' = latest + 1
  /\ UNCHANGED <<tables, promise, pc, passLocal, handling, faults, start>>

------------------------------------------------------------------------------
(* BaseDataService *)

Goto(w, l, from, to) == pc[w][l] = from /\ pc' = [pc EXCEPT ![w][l] = to]

(* The newest block is read before the pointer. *)
ReadLatest(l) ==
  /\ Goto("base", l, "pass", "pointer")
  /\ target' = [target EXCEPT ![l] = latest]
  /\ UNCHANGED <<explorer, tables, promise, number, fresh, begin, handling, faults, start>>

(* Without a pointer the pass begins at the newest block. *)
ReadPointer(l) ==
  /\ LET from == IF pointer = None THEN target[l] ELSE pointer IN
       /\ number' = [number EXCEPT ![l] = from]
       /\ begin' = [begin EXCEPT ![l] = from]
       /\ Goto("base", l, "pointer", IF from <= target[l] THEN "sync" ELSE "store")
  /\ UNCHANGED <<explorer, tables, promise, target, fresh, handling, faults, start>>

(* The senders of deposits that have no row yet.                           *)
NewDepositors(b) == {u \in Depositors[b] : first[u] = None}

(* syncToTheLatestBlock: the deposits of the block and the rows there are. *)
(* A block without a row, which is the case while the explorer is empty,   *)
(* is null and ends the pass.                                              *)
Sync(l) ==
  /\ IF number[l] \in 1..latest
     THEN /\ Goto("base", l, "sync", "insert")
          /\ fresh' = [fresh EXCEPT ![l] = NewDepositors(number[l])]
          /\ UNCHANGED <<target, number, begin>>
     ELSE Goto("base", l, "sync", "wait") /\ Fresh(l)
  /\ UNCHANGED <<explorer, tables, promise, handling, faults, start>>

(* addManyIgnoreConflicts *)
Insert(l) ==
  /\ first' = [u \in User |-> IF u \in fresh[l] /\ first[u] = None THEN number[l] ELSE first[u]]
  /\ Goto("base", l, "insert", IF number[l] < target[l] THEN "sync" ELSE "store")
  /\ number' = [number EXCEPT ![l] = @ + 1]
  /\ fresh' = [fresh EXCEPT ![l] = {}]
  /\ UNCHANGED <<explorer, pointer, pending, promise, target, begin, handling, faults, start>>

(* Mutant of StorePointer: the block after the last is skipped. *)
StorePointerAfter(l) ==
  /\ Goto("base", l, "store", "wait")
  /\ pointer' = number[l] + 1
  /\ start' = IF start = None THEN begin[l] ELSE start
  /\ Fresh(l)
  /\ UNCHANGED <<explorer, first, pending, promise, handling, faults>>

(* The pointer is stored once, when the whole pass is done. *)
StorePointer(l) ==
  /\ Goto("base", l, "store", "wait")
  /\ pointer' = number[l]
  /\ start' = IF start = None THEN begin[l] ELSE start
  /\ Fresh(l)
  /\ UNCHANGED <<explorer, first, pending, promise, handling, faults>>

(* The loop goes on as long as its worker has a promise, its own or not.   *)
CheckPromise(w, l) ==
  /\ Goto(w, l, "wait", IF promise[w] = None THEN "ended" ELSE "pass")
  /\ UNCHANGED <<explorer, tables, promise, passLocal, handling, faults, start>>

------------------------------------------------------------------------------
(* DirectPointService: the cron opens a block, the loop pays what is open. *)
(* A pass without a block goes on to the next whatever the promise says,   *)
(* and changes nothing.                                                    *)
Schedule ==
  /\ ~pending /\ pending' = TRUE
  /\ UNCHANGED <<explorer, first, pointer, promise, pc, passLocal, handling, faults, start>>

(* Mutant of PayPending: the loop goes on without looking at the promise. *)
PayPendingOn(l) ==
  /\ pending /\ pending' \in BOOLEAN
  /\ pc["direct"][l] = "pass" /\ UNCHANGED pc
  /\ UNCHANGED <<explorer, first, pointer, promise, passLocal, handling, faults, start>>

(* Whether the block could be paid or not, the promise is looked at next.  *)
PayPending(l) ==
  /\ pending /\ pending' \in BOOLEAN
  /\ Goto("direct", l, "pass", "wait")
  /\ UNCHANGED <<explorer, first, pointer, promise, passLocal, handling, faults, start>>

------------------------------------------------------------------------------
(* AppService.handleBlocksRevert.  Nothing in the repository emits the     *)
(* event: it is the environment's.                                         *)

(* stopWorkers: every promise is cleared, and waited for.                  *)
StopWorkers(h) ==
  /\ hpc[h] = "none"
  /\ hpc' = [hpc EXCEPT ![h] = "stopping"]
  /\ awaits' = [awaits EXCEPT ![h] = promise]
  /\ promise' = [w \in Worker |-> None]
  /\ overlapped' = (overlapped \/ \E g \in Handler : hpc[g] = "stopping")
  /\ UNCHANGED <<explorer, tables, pc, passLocal, faults, start>>

(* Mutant of Stopped: nothing is waited for. *)
StoppedAtOnce(h) == TRUE

Stopped(h) == \A w \in Worker : awaits[h][w] # None => ~Alive(w, awaits[h][w])

Restart(h) ==
  /\ hpc[h] = "stopping" /\ Stopped(h)
  /\ hpc' = [hpc EXCEPT ![h] = "handled"]
  /\ awaits' = [awaits EXCEPT ![h] = [w \in Worker |-> None]]
  /\ StartWorkers
  /\ UNCHANGED <<explorer, tables, passLocal, overlapped, faults, start>>

------------------------------------------------------------------------------
(* A query throws; runProcess logs it and waits for the next pass. *)
PassFails(l) ==
  /\ pc["base"][l] \in {"pointer", "sync", "insert", "store"} /\ faults < MaxFaults
  /\ faults' = faults + 1
  /\ pc' = [pc EXCEPT !["base"][l] = "wait"]
  /\ Fresh(l)
  /\ UNCHANGED <<explorer, tables, promise, handling, start>>

(* The process ends (onModuleDestroy waits for nothing) and starts again.  *)
Crash ==
  /\ faults < MaxFaults
  /\ faults' = faults + 1
  /\ pc' = Boot /\ promise' = [w \in Worker |-> 1]
  /\ target' = [l \in Loop |-> None] /\ number' = [l \in Loop |-> None]
  /\ fresh' = [l \in Loop |-> {}] /\ begin' = [l \in Loop |-> None]
  /\ hpc' = [h \in Handler |-> IF hpc[h] = "stopping" THEN "handled" ELSE hpc[h]]
  /\ awaits' = [h \in Handler |-> [w \in Worker |-> None]]
  /\ UNCHANGED <<explorer, tables, overlapped, start>>

------------------------------------------------------------------------------
BaseStep(l) ==
  \/ ReadLatest(l) \/ ReadPointer(l) \/ Sync(l) \/ Insert(l) \/ StorePointer(l)
  \/ CheckPromise("base", l)

DirectStep(l) == PayPending(l) \/ CheckPromise("direct", l)

Next ==
  \/ IndexBlock \/ Schedule \/ Crash
  \/ \E l \in Loop : BaseStep(l) \/ DirectStep(l) \/ PassFails(l)
  \/ \E h \in Handler : StopWorkers(h) \/ Restart(h)

(* The loops and the waiting handlers go on, and the cron job of           *)
(* DirectPoint comes round every eight hours.                              *)
Fairness ==
  /\ \A l \in Loop : WF_vars(BaseStep(l)) /\ WF_vars(DirectStep(l))
  /\ \A h \in Handler : WF_vars(Restart(h))
  /\ WF_vars(Schedule)

Spec == Init /\ [][Next]_vars /\ Fairness

------------------------------------------------------------------------------
(* Properties. *)

TypeOK ==
  /\ latest \in 0..MaxBlock
  /\ first \in [User -> {None} \cup Block] /\ pointer \in 0..(latest + 1)
  /\ pending \in BOOLEAN
  /\ promise \in [Worker -> {None} \cup Loop]
  /\ pc \in [Worker -> [Loop -> {"unborn", "pass", "pointer", "sync", "insert", "store",
                                 "wait", "ended"}]]
  /\ target \in [Loop -> 0..latest] /\ number \in [Loop -> 0..(latest + 1)]
  /\ fresh \in [Loop -> SUBSET User] /\ begin \in [Loop -> 0..(latest + 1)]
  /\ hpc \in [Handler -> {"none", "stopping", "handled"}]
  /\ awaits \in [Handler -> [Worker -> {None} \cup Loop]]
  /\ \A w \in Worker : promise[w] # None => Alive(w, promise[w])
  /\ faults \in 0..MaxFaults /\ start \in 0..(latest + 1) /\ overlapped \in BOOLEAN

(* Unless two events were handled at once, in which case two loops of the  *)
(* same worker may run side by side for good: the recorded deposit is the  *)
(* earliest the service could see, although blocks are read again after a  *)
(* failure, a crash or a restart; and every depositor of a block behind    *)
(* the pointer is recorded.                                                *)
FirstDepositIsEarliest ==
  ~overlapped =>
    /\ \A u \in User : first[u] # None =>
         /\ u \in Depositors[first[u]]
         /\ start # None => \A b \in start..(first[u] - 1) : u \notin Depositors[b]
    /\ start # None => \A b \in start..(pointer - 1) : \A u \in Depositors[b] : first[u] # None

(* Every block gets behind the pointer: no sequence of events, crashes and *)
(* failures leaves the service stopped, not even when DirectPoint has      *)
(* nothing to pay and does not notice that it is to stop.                  *)
EveryBlockIsPassed == \A b \in Block : (b <= latest) ~> (b < pointer)

==============================================================================
