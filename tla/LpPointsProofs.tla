--------------------------- MODULE LpPointsProofs ---------------------------
(***************************************************************************)
(* Theorems about LpPoints for any accounts, blocks and jobs, and any      *)
(* number of crashes, failed reads and failed passes.                      *)
(***************************************************************************)
EXTENDS LpPoints, TLAPS

(* How often s is inside the entry of a in f, a table of totals or a copy. *)
Val(f, a, s) == IF a \in DOMAIN f THEN f[a][s] ELSE 0

Owner(j, a, s) == TypeOf(j) = s[1] /\ <<s[2], a>> \in RowsOf[j]
OpenFor(j)     == \E t \in open : t.job = j
Computing(w)   == pc[w] \in {"totals", "write"}

(* What the type invariant leaves open: copies of totals are totals, and   *)
(* the bridge worker has no queue and does not die alone.                  *)
Values ==
  /\ \A t \in open : \A a \in DOMAIN t.totals : t.totals[a] \in [Source -> Nat]
  /\ \A w \in Worker : \A a \in DOMAIN snapshot[w] : snapshot[w][a] \in [Source -> Nat]
  /\ pc["bridge"] \in {"poll", "next", "write"}
  /\ DOMAIN queue = Worker /\ DOMAIN job = Worker
  /\ DOMAIN rows = Worker /\ DOMAIN snapshot = Worker
  /\ \A w \in Worker : Computing(w) => rows[w] \subseteq RowsOf[job[w]]

Types == TypeOK /\ Values

(* A job is in one place: still in a queue, being computed, in an open     *)
(* transaction, or done.  All its rows are computed.                       *)
Queued ==
  \A w \in Worker : \A j \in queue[w] : status[j] = "loaded" /\ ~OpenFor(j)
Computed ==
  \A w \in Worker : Computing(w) =>
    /\ status[job[w]] = "loaded" /\ ~OpenFor(job[w]) /\ job[w] \notin queue[w]
    /\ rows[w] = RowsOf[job[w]]
Opened ==
  /\ \A t \in open :
       /\ status[t.job] = "loaded" /\ t.rows = RowsOf[t.job]
       /\ t.job \in Transfer => pc["bridge"] = "next" /\ job["bridge"] = t.job
  /\ \A t, v \in open : t.job = v.job => t = v
Passing == pc["bridge"] = "next" => status[job["bridge"]] = "loaded"
Recorded ==
  \A k \in Key : ledger[k] = "tvl" => \E j \in TvlJob : k \in RowsOf[j] /\ status[j] = "done"

Jobs == Queued /\ Computed /\ Opened /\ Passing /\ Recorded

(* A job whose points are in the tables: done, or the transfer that is     *)
(* paid and not passed.                                                    *)
Done(j) == status[j] = "done" \/ (j \in Transfer /\ PaidNotPassed /\ job["bridge"] = j)

(* How often s may be inside a total of a now.                             *)
Limit(a, s) == (IF \E j \in Job : Owner(j, a, s) /\ Done(j) THEN 1 ELSE 0)
             + (IF s[1] = "bridge" THEN cuts ELSE 0)

(* Totals and their copies keep to the limit; an open transaction does but *)
(* for the points of its own job.                                          *)
Limited ==
  \A a \in Account, s \in Source :
    /\ Val(totals, a, s) <= Limit(a, s)
    /\ \A w \in Worker : Val(snapshot[w], a, s) <= Limit(a, s)
    /\ \A t \in open : \/ Val(t.totals, a, s) <= Limit(a, s)
                       \/ Owner(t.job, a, s) /\ Val(t.totals, a, s) <= AtMost(s)

Paid(a, s)  == Val(totals, a, s) >= 1 \/ <<a, s>> \in clobbered
PaidKeys(j) == \A k \in RowsOf[j] : Paid(k[2], <<TypeOf(j), k[1]>>)

(* The points of a job are paid when it is done, or will be by its open    *)
(* transaction; and what is in a total has a row, or gets it together with *)
(* the total.                                                              *)
PaidWhenDone ==
  /\ \A j \in Job : status[j] = "done" => PaidKeys(j)
  /\ pc["bridge"] = "next" /\ ~OpenFor(job["bridge"]) => PaidKeys(job["bridge"])
  /\ \A t \in open : \A k \in RowsOf[t.job] :
       Val(t.totals, k[2], <<TypeOf(t.job), k[1]>>) >= 1
HasRow ==
  \A a \in Account, s \in Source :
    LET k == <<s[2], a>> IN
      /\ Val(totals, a, s) > 0 => ledger[k] # NoRow
      /\ \A w \in Worker : Val(snapshot[w], a, s) > 0 => ledger[k] # NoRow
      /\ \A t \in open : Val(t.totals, a, s) > 0 => ledger[k] # NoRow \/ k \in t.rows
      /\ ledger[k] = s[1] => Paid(a, s)

IInv == Types /\ Jobs /\ Limited /\ PaidWhenDone /\ HasRow

------------------------------------------------------------------------------
(* The kinds of jobs and what a transaction writes. *)

(* A job is of the type of the worker it is for. *)
LEMMA KindsOfJobs ==
  /\ \A j \in Job : TypeOf(j) \in Worker /\ TypeOf(j) \in Type
  /\ \A j \in Job : TypeOf(j) = "tvl" <=> j \in TvlJob
  /\ \A j \in Job : TypeOf(j) = "tx" <=> j \in TxJob
  /\ \A j \in Job : TypeOf(j) = "bridge" <=> j \in Transfer
BY JobAssumption DEF TypeOf, Job, Worker, Type

(* The accounts of a set of keys are accounts. *)
LEMMA AccountsAreAccounts ==
  ASSUME NEW S, S \subseteq Key
  PROVE  AccountsOf(S) \subseteq Account
BY DEF AccountsOf, Key

(* A transaction writes accounts only, and totals of the totals' type.     *)
LEMMA TransactionTypes ==
  ASSUME NEW j \in Job, NEW S, S \subseteq Key, NEW read, DOMAIN read \subseteq Account,
         \A a \in DOMAIN read : read[a] \in [Source -> Nat]
  PROVE  LET t == Transaction(j, S, read) IN
           /\ t.job = j /\ t.rows = S
           /\ DOMAIN t.totals = Written(j, S, read)
           /\ DOMAIN t.totals \subseteq Account
           /\ \A a \in DOMAIN t.totals : t.totals[a] \in [Source -> Nat]
<1>1. Written(j, S, read) \subseteq Account
  BY AccountsAreAccounts DEF Written
<1>2. Zero \in [Source -> Nat]
  BY DEF Zero
<1>3. \A a : Sum(j, S, read, a) \in [Source -> Nat]
  BY <1>2 DEF Sum
<1> QED
  BY <1>1, <1>3 DEF Transaction

(* To the entries it writes it adds one for each row of the job.           *)
LEMMA TransactionAdds ==
  ASSUME NEW j \in Job, NEW S, S \subseteq Key, NEW read, DOMAIN read \subseteq Account,
         \A a \in DOMAIN read : read[a] \in [Source -> Nat],
         NEW a \in Account, NEW s \in Source
  PROVE  LET t == Transaction(j, S, read) IN
           Val(t.totals, a, s) =
             IF a \notin Written(j, S, read) THEN 0
             ELSE IF s[1] = TypeOf(j) /\ <<s[2], a>> \in S THEN Val(read, a, s) + 1
                  ELSE Val(read, a, s)
<1>1. \A x \in Account : Sum(j, S, read, x)[s] =
        Val(read, x, s) + IF s[1] = TypeOf(j) /\ <<s[2], x>> \in S THEN 1 ELSE 0
  BY DEF Sum, Val, Zero
<1>2. Val(read, a, s) \in Nat
  BY DEF Val
<1> QED
  BY <1>1, <1>2 DEF Transaction, Val

------------------------------------------------------------------------------
(* Types. *)

(* Nothing is read or open when the process starts on empty tables. *)
LEMMA InitTypes == Init => Types
BY LpBoundAssumption DEF Init, Types, TypeOK, Values, Nobody, NoJob, Worker

(* What a worker goes on with has its type, whatever label it goes to.     *)
LEMMA GotoTypes ==
  ASSUME Types, NEW w \in Worker, NEW label, NEW q, NEW j, NEW S, NEW read,
         Goto(w, label, q, j, S, read),
         label \in {"poll", "next", "totals", "write", "dead"},
         w = "bridge" => label \in {"poll", "next", "write"},
         q \subseteq JobsOf(w), label \in {"totals", "write"} => j \in JobsOf(w),
         w = "bridge" /\ label = "next" => j \in Transfer,
         S \subseteq Key, label \in {"totals", "write"} => S \subseteq RowsOf[j],
         DOMAIN read \subseteq Account, \A a \in DOMAIN read : read[a] \in [Source -> Nat]
  PROVE  /\ pc' \in [Worker -> {"poll", "next", "totals", "write", "dead"}]
         /\ \A v \in Worker : /\ queue'[v] \subseteq JobsOf(v)
                              /\ pc'[v] \in {"totals", "write"} => job'[v] \in JobsOf(v)
                              /\ v = "bridge" /\ pc'[v] = "next" => job'[v] \in Transfer
                              /\ rows'[v] \subseteq Key
                              /\ DOMAIN snapshot'[v] \subseteq Account
         /\ \A v \in Worker : \A a \in DOMAIN snapshot'[v] : snapshot'[v][a] \in [Source -> Nat]
         /\ pc'["bridge"] \in {"poll", "next", "write"}
         /\ DOMAIN queue' = Worker /\ DOMAIN job' = Worker
         /\ DOMAIN rows' = Worker /\ DOMAIN snapshot' = Worker
         /\ \A v \in Worker : pc'[v] \in {"totals", "write"} => rows'[v] \subseteq RowsOf[job'[v]]
<1> USE DEF Types, TypeOK, Values, Goto, Computing
<1>1. /\ pc' \in [Worker -> {"poll", "next", "totals", "write", "dead"}]
      /\ DOMAIN queue' = Worker /\ DOMAIN job' = Worker
      /\ DOMAIN rows' = Worker /\ DOMAIN snapshot' = Worker
  OBVIOUS
<1>2. pc'["bridge"] \in {"poll", "next", "write"}
  BY DEF Worker
<1>3. ASSUME NEW v \in Worker
      PROVE  /\ queue'[v] \subseteq JobsOf(v)
             /\ pc'[v] \in {"totals", "write"} => job'[v] \in JobsOf(v)
             /\ v = "bridge" /\ pc'[v] = "next" => job'[v] \in Transfer
             /\ rows'[v] \subseteq Key
             /\ DOMAIN snapshot'[v] \subseteq Account
             /\ \A a \in DOMAIN snapshot'[v] : snapshot'[v][a] \in [Source -> Nat]
             /\ pc'[v] \in {"totals", "write"} => rows'[v] \subseteq RowsOf[job'[v]]
  <2>1. CASE v = w
    BY <2>1
  <2>2. CASE v # w
    BY <2>2
  <2> QED
    BY <2>1, <2>2
<1> QED
  BY <1>1, <1>2, <1>3

(* Steps that move a worker, leave the tables alone and start nothing.     *)
LEMMA MoveTypes ==
  ASSUME Types, NEW w \in Worker, NEW label, NEW q, NEW j, NEW S, NEW read,
         Goto(w, label, q, j, S, read),
         label \in {"poll", "next", "totals", "write", "dead"},
         w = "bridge" => label \in {"poll", "next", "write"},
         q \subseteq JobsOf(w), label \in {"totals", "write"} => j \in JobsOf(w),
         w = "bridge" /\ label = "next" => j \in Transfer,
         S \subseteq Key, label \in {"totals", "write"} => S \subseteq RowsOf[j],
         DOMAIN read \subseteq Account, \A a \in DOMAIN read : read[a] \in [Source -> Nat],
         UNCHANGED <<ledger, totals, crashes, clobbered>>, open' \subseteq open,
         status' \in [Job -> {"none", "loaded", "done"}],
         failures' \in 0..MaxFailures, cuts' \in Nat
  PROVE  Types'
BY GotoTypes DEF Types, TypeOK, Values, Computing

(* The transaction a worker is about to run writes rows and totals.        *)
LEMMA RunTypes ==
  ASSUME Types, NEW w \in Worker, pc[w] = "write"
  PROVE  LET t == Transaction(job[w], rows[w], snapshot[w]) IN
           /\ t.job = job[w] /\ t.rows = rows[w]
           /\ DOMAIN t.totals = Written(job[w], rows[w], snapshot[w])
           /\ DOMAIN t.totals \subseteq Account
           /\ \A a \in DOMAIN t.totals : t.totals[a] \in [Source -> Nat]
<1>1. job[w] \in Job
  BY DEF Types, TypeOK, JobsOf
<1>2. rows[w] \subseteq Key /\ DOMAIN snapshot[w] \subseteq Account
  BY DEF Types, TypeOK
<1>3. \A a \in DOMAIN snapshot[w] : snapshot[w][a] \in [Source -> Nat]
  BY DEF Types, Values
<1> QED
  BY <1>1, <1>2, <1>3, TransactionTypes

(* Every action keeps every variable in its range. *)
LEMMA NextTypes == Types /\ [Next]_vars => Types'
<1> SUFFICES ASSUME Types, [Next]_vars PROVE Types'
  OBVIOUS
<1> USE DEF Types, TypeOK, Values, Computing
<1>0. DOMAIN Nobody \subseteq Account /\ \A a \in DOMAIN Nobody : Nobody[a] \in [Source -> Nat]
  BY DEF Nobody
<1>1. ASSUME NEW j \in Job, Load(j) PROVE Types'
  BY <1>1 DEF Load, locals, bounds
<1>2. ASSUME NEW w \in Worker, Poll(w) PROVE Types'
  <2> DEFINE pending == {j \in JobsOf(w) : status[j] = "loaded"}
  <2>1. Goto(w, "next", pending, NoJob, {}, Nobody) /\ w # "bridge"
    BY <1>2 DEF Poll
  <2>2. UNCHANGED <<tables, open, bounds, clobbered>>
    BY <1>2 DEF Poll
  <2>3. pending \subseteq JobsOf(w)
    OBVIOUS
  <2> HIDE DEF pending
  <2> QED
    BY <1>0, <2>1, <2>2, <2>3, MoveTypes DEF tables, bounds
<1>3. ASSUME NEW w \in Worker, EndOfQueue(w) PROVE Types'
  BY <1>0, <1>3, MoveTypes DEF EndOfQueue, tables, bounds
<1>4. ASSUME NEW w \in Worker, ReadTotals(w) PROVE Types'
  <2> DEFINE users == {a[1] : a \in AccountsOf(rows[w])}
             read  == [a \in {x \in DOMAIN totals : x[1] \in users} |-> totals[a]]
  <2>1. /\ Goto(w, "write", queue[w], job[w], rows[w], read)
        /\ pc[w] = "totals" /\ UNCHANGED <<tables, open, bounds, clobbered>>
    BY <1>4 DEF ReadTotals
  <2>2. DOMAIN read \subseteq Account /\ \A a \in DOMAIN read : read[a] \in [Source -> Nat]
    OBVIOUS
  <2> HIDE DEF read
  <2> QED
    BY <2>1, <2>2, MoveTypes DEF tables, bounds
<1>5. ASSUME NEW w \in Worker, RunTransaction(w) PROVE Types'
  <2> DEFINE t == Transaction(job[w], rows[w], snapshot[w])
  <2>1. /\ Goto(w, "next", queue[w], IF w = "bridge" THEN job[w] ELSE NoJob, {}, Nobody)
        /\ pc[w] = "write" /\ open' = open \cup {t}
        /\ UNCHANGED <<tables, bounds, clobbered>>
    BY <1>5 DEF RunTransaction
  <2>2. job[w] \in JobsOf(w) /\ job[w] \in Job /\ (w = "bridge" => job[w] \in Transfer)
    BY <2>1, KindsOfJobs DEF JobsOf
  <2>3. /\ t.job = job[w] /\ t.rows = rows[w] /\ DOMAIN t.totals \subseteq Account
        /\ \A a \in DOMAIN t.totals : t.totals[a] \in [Source -> Nat]
    BY <2>1, RunTypes
  <2> HIDE DEF t
  <2>4. t.rows \subseteq RowsOf[t.job]
    BY <2>1, <2>3
  <2> QED
    BY <1>0, <2>1, <2>2, <2>3, <2>4, GotoTypes DEF tables, bounds
<1>6. ASSUME NEW j \in TvlJob, ReadLedger(j) PROVE Types'
  BY <1>0, <1>6, MoveTypes, KindsOfJobs, RowsAssumption DEF ReadLedger, tables, bounds, Worker, JobsOf, Job
<1>7. ASSUME NEW j \in TxJob, ReadTxs(j) PROVE Types'
  <2>1. /\ j \in JobsOf("tx") /\ j \in Job /\ RowsOf[j] \subseteq Key
        /\ queue["tx"] \ {j} \subseteq JobsOf("tx") /\ "tx" \in Worker
    BY KindsOfJobs, RowsAssumption DEF JobsOf, Job, Worker
  <2>2. UNCHANGED <<ledger, totals, open, bounds, clobbered>>
    BY <1>7 DEF ReadTxs
  <2>3. CASE RowsOf[j] = {}
    <3>1. /\ status' = [status EXCEPT ![j] = "done"]
          /\ Goto("tx", "next", queue["tx"] \ {j}, NoJob, {}, Nobody)
      BY <1>7, <2>3 DEF ReadTxs
    <3>2. status' \in [Job -> {"none", "loaded", "done"}]
      BY <3>1
    <3> QED
      BY <1>0, <2>1, <2>2, <3>1, <3>2, MoveTypes DEF bounds
  <2>4. CASE RowsOf[j] # {}
    <3>1. /\ Goto("tx", "totals", queue["tx"] \ {j}, j, RowsOf[j], Nobody)
          /\ UNCHANGED status
      BY <1>7, <2>4 DEF ReadTxs
    <3> QED
      BY <1>0, <2>1, <2>2, <3>1, MoveTypes DEF bounds
  <2> QED
    BY <2>3, <2>4
<1>8. ASSUME NEW j \in Transfer, ReadTotal(j) PROVE Types'
  <2> DEFINE read == [a \in DOMAIN totals \cap AccountsOf(RowsOf[j]) |-> totals[a]]
  <2>1. /\ Goto("bridge", "write", {}, j, RowsOf[j], read)
        /\ UNCHANGED <<tables, open, bounds, clobbered>>
    BY <1>8 DEF ReadTotal
  <2>2. DOMAIN read \subseteq Account /\ \A a \in DOMAIN read : read[a] \in [Source -> Nat]
    OBVIOUS
  <2>3. j \in JobsOf("bridge") /\ RowsOf[j] \subseteq Key
    BY KindsOfJobs, RowsAssumption DEF JobsOf, Job
  <2> HIDE DEF read
  <2> QED
    BY <2>1, <2>2, <2>3, MoveTypes DEF tables, bounds, Worker
<1>9. CASE PassTransfer
  BY <1>0, <1>9, MoveTypes DEF PassTransfer, bounds, Worker, Job
<1>10. ASSUME NEW t \in open, Commit(t) PROVE Types'
  <2>1. /\ open' = open \ {t} /\ UNCHANGED <<locals, bounds>>
        /\ status' = StatusAfter(t.job)
    BY <1>10 DEF Commit
  <2>2. status' \in [Job -> {"none", "loaded", "done"}]
    BY <2>1 DEF StatusAfter
  <2>3. ledger' \in [Key -> Type \cup {NoRow}]
    <3>1. TypeOf(t.job) \in Type
      BY KindsOfJobs
    <3> QED
      BY <1>10, <3>1 DEF Commit
  <2>4. /\ DOMAIN totals' = DOMAIN totals \cup DOMAIN t.totals
        /\ \A a \in DOMAIN totals' :
             totals'[a] = IF a \in DOMAIN t.totals THEN t.totals[a] ELSE totals[a]
    BY <1>10 DEF Commit
  <2>5. DOMAIN totals' \subseteq Account /\ \A a \in DOMAIN totals' : totals'[a] \in [Source -> Nat]
    BY <2>4
  <2>6. clobbered' \subseteq Account \X Source
    BY <1>10 DEF Commit
  <2> QED
    BY <2>1, <2>2, <2>3, <2>5, <2>6 DEF locals, bounds
<1>11. ASSUME NEW w \in Worker, WorkerFails(w) PROVE Types'
  BY <1>0, <1>11, MoveTypes, LpBoundAssumption DEF WorkerFails, tables
<1>14. CASE PassFails
  <2>1. /\ Goto("bridge", "poll", {}, NoJob, {}, Nobody) /\ "bridge" \in Worker
        /\ UNCHANGED <<ledger, totals, crashes, clobbered, status>> /\ open' \subseteq open
    BY <1>14 DEF PassFails, tables, Worker
  <2>2. failures' \in 0..MaxFailures /\ cuts' \in Nat
    BY <1>14, LpBoundAssumption DEF PassFails, CutsAfter
  <2> QED
    BY <1>0, <2>1, <2>2, MoveTypes
<1>12. CASE Crash
  <2>1. /\ open' = {} /\ UNCHANGED <<tables, failures, clobbered>>
        /\ pc' = [w \in Worker |-> "poll"] /\ queue' = [w \in Worker |-> {}]
        /\ job' = [w \in Worker |-> NoJob] /\ rows' = [w \in Worker |-> {}]
        /\ snapshot' = [w \in Worker |-> Nobody]
    BY <1>12 DEF Crash
  <2>2. crashes' \in 0..MaxCrashes /\ cuts' \in Nat
    BY <1>12, LpBoundAssumption DEF Crash, CutsAfter
  <2>3. pc'["bridge"] = "poll"
    BY <2>1 DEF Worker
  <2> QED
    BY <1>0, <2>1, <2>2, <2>3 DEF tables
<1>13. CASE UNCHANGED vars
  BY <1>13 DEF vars, tables, locals, bounds
<1> QED
  BY <1>1, <1>2, <1>3, <1>4, <1>5, <1>6, <1>7, <1>8, <1>9, <1>10, <1>11, <1>12, <1>13, <1>14
  DEF Next, Step, CommitSome

(* Every variable keeps its type. *)
THEOREM LpTypeCorrect == Spec => []TypeOK
<1>1. Types => TypeOK
  BY DEF Types
<1> QED
  BY <1>1, InitTypes, NextTypes, PTL DEF Spec

------------------------------------------------------------------------------
(* A job is in one place. *)

(* Before the first poll no job is anywhere. *)
LEMMA InitJobs == Init => Jobs
BY DEF Init, Jobs, Queued, Computed, Opened, Passing, Recorded, Computing, Worker, NoRow

(* Workers have no job in common. *)
LEMMA JobsApart ==
  ASSUME NEW v \in Worker, NEW w \in Worker, v # w
  PROVE  JobsOf(v) \cap JobsOf(w) = {}
BY DEF JobsOf

(* Steps that move a worker to a job that is nowhere else, or to none.     *)
LEMMA MoveJobs ==
  ASSUME Types, Jobs, NEW w \in Worker, NEW label, NEW q, NEW j, NEW S, NEW read,
         Goto(w, label, q, j, S, read),
         \A i \in q : status[i] = "loaded" /\ ~OpenFor(i),
         label \in {"totals", "write"} =>
           status[j] = "loaded" /\ ~OpenFor(j) /\ j \notin q /\ S = RowsOf[j],
         w = "bridge" => label # "next" /\ \A t \in open' : t.job \notin Transfer,
         UNCHANGED <<status, ledger>>, open' \subseteq open
  PROVE  Jobs'
<1> USE DEF Types, Values, Goto
<1>1. pc' = [pc EXCEPT ![w] = label] /\ DOMAIN pc = Worker
  BY DEF TypeOK
<1>2. Queued'
  <2> SUFFICES ASSUME NEW v \in Worker, NEW i \in queue'[v]
               PROVE  status[i] = "loaded" /\ ~OpenFor(i)
    BY DEF Queued, OpenFor
  <2>1. CASE v = w
    BY <2>1
  <2>2. CASE v # w
    BY <2>2 DEF Jobs, Queued
  <2> QED
    BY <2>1, <2>2
<1>3. Computed'
  <2> SUFFICES ASSUME NEW v \in Worker, pc'[v] \in {"totals", "write"}
               PROVE  /\ status[job'[v]] = "loaded" /\ ~OpenFor(job'[v])
                      /\ job'[v] \notin queue'[v] /\ rows'[v] = RowsOf[job'[v]]
    BY DEF Computed, Computing, OpenFor
  <2>1. CASE v = w
    BY <1>1, <2>1
  <2>2. CASE v # w
    BY <1>1, <2>2 DEF Jobs, Computed, Computing
  <2> QED
    BY <2>1, <2>2
<1>4. Opened'
  <2>1. CASE w = "bridge"
    BY <2>1 DEF Jobs, Opened
  <2>2. CASE w # "bridge"
    BY <1>1, <2>2 DEF Jobs, Opened, Worker
  <2> QED
    BY <2>1, <2>2
<1>5. Passing'
  BY <1>1 DEF Jobs, Passing, Worker
<1>6. Recorded'
  BY DEF Jobs, Recorded
<1> QED
  BY <1>2, <1>3, <1>4, <1>5, <1>6 DEF Jobs

(* A transaction takes over the job of its worker. *)
LEMMA RunJobs ==
  ASSUME Types, Jobs, NEW w \in Worker, RunTransaction(w)
  PROVE  Jobs'
<1> DEFINE t == Transaction(job[w], rows[w], snapshot[w])
           n == IF w = "bridge" THEN job[w] ELSE NoJob
<1>1. /\ Goto(w, "next", queue[w], n, {}, Nobody) /\ pc[w] = "write" /\ open' = open \cup {t}
      /\ UNCHANGED <<status, ledger>>
  BY DEF RunTransaction, tables
<1>2. t.job = job[w] /\ t.rows = rows[w]
  BY <1>1, RunTypes
<1>3. /\ status[job[w]] = "loaded" /\ ~OpenFor(job[w]) /\ job[w] \notin queue[w]
      /\ rows[w] = RowsOf[job[w]]
  BY <1>1 DEF Jobs, Computed, Computing
<1>4. job[w] \in JobsOf(w) /\ (w # "bridge" => job[w] \notin Transfer)
  BY <1>1, KindsOfJobs DEF Types, TypeOK, JobsOf
<1> HIDE DEF t
<1>5. /\ pc' = [pc EXCEPT ![w] = "next"] /\ queue' = [queue EXCEPT ![w] = queue[w]]
      /\ job' = [job EXCEPT ![w] = n] /\ rows' = [rows EXCEPT ![w] = {}]
      /\ DOMAIN pc = Worker /\ DOMAIN job = Worker /\ DOMAIN rows = Worker
  BY <1>1 DEF Goto, Types, TypeOK, Values
<1>6. \A v \in Worker : queue'[v] = queue[v]
  BY <1>5 DEF Types, Values
<1>7. \A i : i # job[w] /\ ~OpenFor(i) => ~OpenFor(i)'
  BY <1>1, <1>2 DEF OpenFor
<1>8. Queued'
  <2> SUFFICES ASSUME NEW v \in Worker, NEW i \in queue[v]
               PROVE  status[i] = "loaded" /\ ~OpenFor(i)'
    BY <1>1, <1>6 DEF Queued
  <2>1. i # job[w]
    <3>1. i \in JobsOf(v)
      BY DEF Types, TypeOK
    <3> QED
      BY <1>3, <1>4, <3>1, JobsApart
  <2> QED
    BY <1>7, <2>1 DEF Jobs, Queued
<1>9. Computed'
  <2> SUFFICES ASSUME NEW v \in Worker, pc'[v] \in {"totals", "write"}
               PROVE  /\ status[job'[v]] = "loaded" /\ ~(\E u \in open' : u.job = job'[v])
                      /\ job'[v] \notin queue[v] /\ rows'[v] = RowsOf[job'[v]]
    BY <1>1, <1>6 DEF Computed, Computing, OpenFor
  <2>1. v # w /\ pc[v] \in {"totals", "write"} /\ job'[v] = job[v] /\ rows'[v] = rows[v]
    BY <1>5
  <2>2. job[v] \in JobsOf(v)
    BY <2>1 DEF Types, TypeOK
  <2>3. job[v] # job[w]
    BY <1>4, <2>1, <2>2, JobsApart
  <2> QED
    BY <1>7, <2>1, <2>3 DEF Jobs, Computed, Computing, OpenFor
<1>10. Opened'
  <2>1. ASSUME NEW u \in open'
        PROVE  /\ status[u.job] = "loaded" /\ u.rows = RowsOf[u.job]
               /\ u.job \in Transfer => pc'["bridge"] = "next" /\ job'["bridge"] = u.job
    <3>1. CASE u = t
      BY <1>2, <1>3, <1>4, <1>5, <3>1
    <3>2. CASE u \in open
      <4>1. /\ status[u.job] = "loaded" /\ u.rows = RowsOf[u.job]
            /\ u.job \in Transfer => pc["bridge"] = "next" /\ job["bridge"] = u.job
        BY <3>2 DEF Jobs, Opened
      <4>2. u.job \in Transfer => w # "bridge"
        BY <1>1, <4>1
      <4> QED
        BY <1>5, <4>1, <4>2 DEF Worker
    <3> QED
      BY <1>1, <3>1, <3>2
  <2>2. \A u, v \in open' : u.job = v.job => u = v
    BY <1>1, <1>2, <1>3 DEF Jobs, Opened, OpenFor
  <2> QED
    BY <1>1, <2>1, <2>2 DEF Opened
<1>11. Passing'
  BY <1>1, <1>3, <1>5 DEF Jobs, Passing, Worker
<1>12. Recorded'
  BY <1>1 DEF Jobs, Recorded
<1> QED
  BY <1>8, <1>9, <1>10, <1>11, <1>12 DEF Jobs

(* An empty range is done at once: it was only in the queue.               *)
LEMMA SkipJobs ==
  ASSUME Types, Jobs, NEW j \in TxJob, j \in queue["tx"], pc["tx"] = "next",
         Goto("tx", "next", queue["tx"] \ {j}, NoJob, {}, Nobody),
         status' = [status EXCEPT ![j] = "done"], UNCHANGED <<ledger, open>>
  PROVE  Jobs'
<1>1. /\ "tx" \in Worker /\ "bridge" \in Worker /\ j \in Job /\ j \notin Transfer
      /\ j \in JobsOf("tx")
  BY JobAssumption DEF Worker, Job, JobsOf, TypeOf
<1>2. \A i \in Job : (status')[i] = IF i = j THEN "done" ELSE status[i]
  BY DEF Types, TypeOK
<1>3. status[j] = "loaded" /\ ~OpenFor(j)
  BY <1>1 DEF Jobs, Queued
<1>4. /\ pc' = pc
      /\ queue' = [queue EXCEPT !["tx"] = queue["tx"] \ {j}]
      /\ job' = [job EXCEPT !["tx"] = NoJob] /\ rows' = [rows EXCEPT !["tx"] = {}]
      /\ DOMAIN queue = Worker /\ DOMAIN job = Worker /\ DOMAIN rows = Worker
  BY DEF Goto, Types, TypeOK, Values
<1>5. \A i : OpenFor(i)' = OpenFor(i)
  BY DEF OpenFor
<1>6. \A v \in Worker : v # "tx" => j \notin JobsOf(v)
  BY <1>1, JobsApart
<1>7. \A v \in Worker : JobsOf(v) \subseteq Job /\ queue[v] \subseteq JobsOf(v)
  BY DEF JobsOf, Types, TypeOK
<1>8. Queued'
  <2> SUFFICES ASSUME NEW v \in Worker, NEW i \in queue'[v]
               PROVE  (status')[i] = "loaded" /\ ~OpenFor(i)
    BY <1>5 DEF Queued
  <2>1. i \in queue[v] /\ i # j /\ i \in Job
    BY <1>4, <1>6, <1>7
  <2> QED
    BY <1>2, <2>1 DEF Jobs, Queued
<1>9. Computed'
  <2> SUFFICES ASSUME NEW v \in Worker, pc[v] \in {"totals", "write"}
               PROVE  /\ (status')[job'[v]] = "loaded" /\ ~OpenFor(job'[v])
                      /\ job'[v] \notin queue'[v] /\ rows'[v] = RowsOf[job'[v]]
    BY <1>4, <1>5 DEF Computed, Computing
  <2>1. v # "tx" /\ job'[v] = job[v] /\ rows'[v] = rows[v] /\ queue'[v] = queue[v]
    BY <1>4
  <2>2. job[v] \in JobsOf(v)
    BY DEF Types, TypeOK
  <2>3. job[v] # j /\ job[v] \in Job
    BY <1>6, <1>7, <2>1, <2>2
  <2> QED
    BY <1>2, <2>1, <2>3 DEF Jobs, Computed, Computing
<1>10. Opened'
  <2>1. \A t \in open : t.job \in Job /\ t.job # j
    BY <1>3 DEF OpenFor, Types, TypeOK
  <2>2. job'["bridge"] = job["bridge"]
    BY <1>1, <1>4
  <2> QED
    BY <1>2, <1>4, <2>1, <2>2 DEF Jobs, Opened
<1>11. Passing'
  <2>1. job'["bridge"] = job["bridge"] /\ (pc["bridge"] = "next" => job["bridge"] \in Transfer)
    BY <1>1, <1>4 DEF Types, TypeOK
  <2> QED
    BY <1>1, <1>2, <1>4, <2>1 DEF Jobs, Passing, Job
<1>12. Recorded'
  BY <1>1, <1>2 DEF Jobs, Recorded, Job
<1> QED
  BY <1>8, <1>9, <1>10, <1>11, <1>12 DEF Jobs

(* The pointer moves over a transfer that is nowhere else. *)
LEMMA PassJobs ==
  ASSUME Types, Jobs, PassTransfer
  PROVE  Jobs'
<1> DEFINE j == job["bridge"]
<1>1. /\ pc["bridge"] = "next" /\ ~Busy("bridge") /\ UNCHANGED <<ledger, open>>
      /\ status' = [status EXCEPT ![j] = "done"]
      /\ Goto("bridge", "poll", {}, NoJob, {}, Nobody)
  BY DEF PassTransfer
<1>2. "bridge" \in Worker /\ j \in Transfer /\ j \in Job /\ j \in JobsOf("bridge")
  BY <1>1, KindsOfJobs DEF Types, TypeOK, Worker, Job, JobsOf
<1> HIDE DEF j
<1>3. \A i \in Job : (status')[i] = IF i = j THEN "done" ELSE status[i]
  BY <1>1 DEF Types, TypeOK
<1>4. /\ pc' = [pc EXCEPT !["bridge"] = "poll"] /\ queue' = [queue EXCEPT !["bridge"] = {}]
      /\ job' = [job EXCEPT !["bridge"] = NoJob] /\ rows' = [rows EXCEPT !["bridge"] = {}]
      /\ DOMAIN pc = Worker /\ DOMAIN queue = Worker /\ DOMAIN job = Worker /\ DOMAIN rows = Worker
  BY <1>1 DEF Goto, Types, TypeOK, Values
<1>5. \A i : OpenFor(i)' = OpenFor(i)
  BY <1>1 DEF OpenFor
<1>6. \A v \in Worker : v # "bridge" => j \notin JobsOf(v)
  BY <1>2, JobsApart
<1>7. \A v \in Worker : JobsOf(v) \subseteq Job /\ queue[v] \subseteq JobsOf(v)
  BY DEF JobsOf, Types, TypeOK
<1>8. \A t \in open : t.job \in Job /\ t.job \notin Transfer
  BY <1>1, KindsOfJobs DEF Busy, JobsOf, Types, TypeOK
<1>9. Queued'
  <2> SUFFICES ASSUME NEW v \in Worker, NEW i \in queue'[v]
               PROVE  (status')[i] = "loaded" /\ ~OpenFor(i)
    BY <1>5 DEF Queued
  <2>1. i \in queue[v] /\ v # "bridge"
    BY <1>4
  <2>2. i \in Job /\ i # j
    BY <1>6, <1>7, <2>1
  <2> QED
    BY <1>3, <2>1, <2>2 DEF Jobs, Queued
<1>10. Computed'
  <2> SUFFICES ASSUME NEW v \in Worker, pc'[v] \in {"totals", "write"}
               PROVE  /\ (status')[job'[v]] = "loaded" /\ ~OpenFor(job'[v])
                      /\ job'[v] \notin queue'[v] /\ rows'[v] = RowsOf[job'[v]]
    BY <1>5 DEF Computed, Computing
  <2>1. /\ v # "bridge" /\ job'[v] = job[v] /\ rows'[v] = rows[v] /\ queue'[v] = queue[v]
        /\ pc[v] \in {"totals", "write"}
    BY <1>4
  <2>2. job[v] \in JobsOf(v)
    BY <2>1 DEF Types, TypeOK
  <2>3. job[v] # j /\ job[v] \in Job
    BY <1>6, <1>7, <2>1, <2>2
  <2> QED
    BY <1>3, <2>1, <2>3 DEF Jobs, Computed, Computing
<1>11. Opened'
  BY <1>1, <1>2, <1>3, <1>8 DEF Jobs, Opened
<1>12. Passing'
  BY <1>2, <1>4 DEF Passing
<1>13. Recorded'
  BY <1>1, <1>3 DEF Jobs, Recorded, Job
<1> QED
  BY <1>9, <1>10, <1>11, <1>12, <1>13 DEF Jobs

(* The job of a transaction that commits is in no other place. *)
LEMMA CommitJobs ==
  ASSUME Types, Jobs, NEW t \in open, Commit(t)
  PROVE  Jobs'
<1>1. /\ open' = open \ {t} /\ UNCHANGED locals /\ status' = StatusAfter(t.job)
      /\ ledger' = [k \in Key |->
           IF k \in t.rows /\ ledger[k] = NoRow THEN TypeOf(t.job) ELSE ledger[k]]
  BY DEF Commit
<1>2. t.job \in Job /\ status[t.job] = "loaded" /\ t.rows = RowsOf[t.job]
  BY DEF Types, TypeOK, Jobs, Opened
<1>3. /\ \A i \in Job : i # t.job => (status')[i] = status[i]
      /\ t.job \in Transfer => status' = status
      /\ t.job \notin Transfer => (status')[t.job] = "done"
  BY <1>1, <1>2 DEF StatusAfter, Types, TypeOK
<1>4. \A i : ~OpenFor(i) => ~OpenFor(i)' /\ i # t.job
  BY <1>1 DEF OpenFor
<1>5. /\ \A v \in Worker : queue[v] \subseteq Job
      /\ \A v \in Worker : pc[v] \in {"totals", "write"} => job[v] \in Job
      /\ \A u \in open : u.job \in Job
  BY DEF Types, TypeOK, JobsOf
<1>6. Queued'
  BY <1>1, <1>3, <1>4, <1>5 DEF Jobs, Queued, locals
<1>7. Computed'
  BY <1>1, <1>3, <1>4, <1>5 DEF Jobs, Computed, Computing, locals
<1>8. Opened'
  BY <1>1, <1>3, <1>5 DEF Jobs, Opened, locals
<1>9. Passing'
  <2>1. pc["bridge"] = "next" => job["bridge"] \in Transfer
    BY DEF Types, TypeOK, Worker
  <2> QED
    BY <1>1, <1>3, <2>1 DEF Jobs, Passing, locals, Job
<1>10. Recorded'
  <2> SUFFICES ASSUME NEW k \in Key, ledger'[k] = "tvl"
               PROVE  \E j \in TvlJob : k \in RowsOf[j] /\ (status')[j] = "done"
    BY DEF Recorded
  <2>1. CASE k \in t.rows /\ ledger[k] = NoRow
    <3>1. t.job \in TvlJob /\ t.job \notin Transfer
      BY <1>1, <1>2, <2>1, KindsOfJobs, JobAssumption
    <3> QED
      BY <1>2, <1>3, <2>1, <3>1
  <2>2. CASE ~(k \in t.rows /\ ledger[k] = NoRow)
    <3>1. ledger[k] = "tvl"
      BY <1>1, <2>2
    <3> QED
      BY <1>2, <1>3, <3>1 DEF Jobs, Recorded, Job
  <2> QED
    BY <2>1, <2>2
<1> QED
  BY <1>6, <1>7, <1>8, <1>9, <1>10 DEF Jobs

(* Every action moves a job from one place to the next. *)
LEMMA NextJobs == Types /\ Jobs /\ [Next]_vars => Jobs'
<1> SUFFICES ASSUME Types, Jobs, [Next]_vars PROVE Jobs'
  OBVIOUS
<1>1. ASSUME NEW j \in Job, Load(j) PROVE Jobs'
  <2>1. /\ status' = [status EXCEPT ![j] = "loaded"] /\ status[j] = "none"
        /\ UNCHANGED <<ledger, open, locals>> /\ status \in [Job -> {"none", "loaded", "done"}]
    BY <1>1 DEF Load, Types, TypeOK
  <2>2. \A i : status[i] = "loaded" => (status')[i] = "loaded"
    BY <2>1
  <2>3. \A i \in Job : status[i] = "done" => (status')[i] = "done"
    BY <2>1
  <2> QED
    BY <2>1, <2>2, <2>3
    DEF Jobs, Queued, Computed, Opened, Passing, Recorded, OpenFor, Computing, locals, Job
<1>2. ASSUME NEW w \in Worker, Poll(w) PROVE Jobs'
  <2> DEFINE pending == {j \in JobsOf(w) : status[j] = "loaded"}
  <2>1. /\ Goto(w, "next", pending, NoJob, {}, Nobody) /\ w # "bridge"
        /\ UNCHANGED <<status, ledger, open>> /\ ~Busy(w)
    BY <1>2 DEF Poll, tables
  <2>2. \A i \in pending : status[i] = "loaded" /\ ~OpenFor(i)
    BY <2>1 DEF Busy, OpenFor
  <2> HIDE DEF pending
  <2> QED
    BY <2>1, <2>2, MoveJobs
<1>3. ASSUME NEW w \in Worker, EndOfQueue(w) PROVE Jobs'
  BY <1>3, MoveJobs DEF EndOfQueue, tables
<1>4. ASSUME NEW w \in Worker, ReadTotals(w) PROVE Jobs'
  <2> DEFINE read == [a \in {x \in DOMAIN totals : x[1] \in {b[1] : b \in AccountsOf(rows[w])}}
                        |-> totals[a]]
  <2>1. /\ Goto(w, "write", queue[w], job[w], rows[w], read) /\ pc[w] = "totals"
        /\ UNCHANGED <<status, ledger, open>>
    BY <1>4 DEF ReadTotals, tables
  <2> HIDE DEF read
  <2>2. w # "bridge"
    BY <2>1 DEF Types, Values
  <2>3. /\ \A i \in queue[w] : status[i] = "loaded" /\ ~OpenFor(i)
        /\ status[job[w]] = "loaded" /\ ~OpenFor(job[w]) /\ job[w] \notin queue[w]
        /\ rows[w] = RowsOf[job[w]]
    BY <2>1 DEF Jobs, Queued, Computed, Computing
  <2> QED
    BY <2>1, <2>2, <2>3, MoveJobs
<1>5. ASSUME NEW w \in Worker, RunTransaction(w) PROVE Jobs'
  BY <1>5, RunJobs
<1>6. ASSUME NEW j \in TvlJob, ReadLedger(j) PROVE Jobs'
  <2> DEFINE S == {k \in RowsOf[j] : ledger[k] # "tvl"}
  <2>1. /\ Goto("tvl", "totals", queue["tvl"] \ {j}, j, S, Nobody) /\ j \in queue["tvl"]
        /\ UNCHANGED <<status, ledger, open>> /\ "tvl" \in Worker
    BY <1>6 DEF ReadLedger, tables, Worker
  <2>2. \A i \in queue["tvl"] : status[i] = "loaded" /\ ~OpenFor(i)
    BY <2>1 DEF Jobs, Queued
  <2>3. S = RowsOf[j]
    <3>1. SUFFICES ASSUME NEW k \in RowsOf[j], ledger[k] = "tvl" PROVE FALSE
      OBVIOUS
    <3>2. k \in Key /\ j \in Job
      BY RowsAssumption DEF Job
    <3>3. PICK i \in TvlJob : k \in RowsOf[i] /\ status[i] = "done"
      BY <3>1, <3>2 DEF Jobs, Recorded
    <3>4. i # j
      BY <2>1, <2>2, <3>3
    <3>5. i \in Job /\ TypeOf(i) = TypeOf(j)
      BY DEF Job, TypeOf
    <3> QED
      BY <3>2, <3>3, <3>4, <3>5, DisjointAssumption
  <2> HIDE DEF S
  <2> QED
    BY <2>1, <2>2, <2>3, MoveJobs
<1>7. ASSUME NEW j \in TxJob, ReadTxs(j) PROVE Jobs'
  <2>1. /\ j \in queue["tx"] /\ pc["tx"] = "next" /\ UNCHANGED <<ledger, open>>
        /\ "tx" \in Worker /\ j \in Job /\ j \notin Transfer
    BY <1>7, JobAssumption DEF ReadTxs, Worker, Job
  <2>2. \A i \in queue["tx"] : status[i] = "loaded" /\ ~OpenFor(i)
    BY <2>1 DEF Jobs, Queued
  <2>3. CASE RowsOf[j] # {}
    <3>1. /\ Goto("tx", "totals", queue["tx"] \ {j}, j, RowsOf[j], Nobody) /\ UNCHANGED status
      BY <1>7, <2>3 DEF ReadTxs
    <3> QED
      BY <2>1, <2>2, <3>1, MoveJobs
  <2>4. CASE RowsOf[j] = {}
    <3>1. /\ Goto("tx", "next", queue["tx"] \ {j}, NoJob, {}, Nobody)
          /\ status' = [status EXCEPT ![j] = "done"]
      BY <1>7, <2>4 DEF ReadTxs
    <3> QED
      BY <2>1, <2>2, <3>1, SkipJobs
  <2> QED
    BY <2>3, <2>4
<1>8. ASSUME NEW j \in Transfer, ReadTotal(j) PROVE Jobs'
  <2> DEFINE read == [a \in DOMAIN totals \cap AccountsOf(RowsOf[j]) |-> totals[a]]
  <2>1. /\ Goto("bridge", "write", {}, j, RowsOf[j], read) /\ pc["bridge"] = "poll"
        /\ UNCHANGED <<status, ledger, open>> /\ "bridge" \in Worker /\ status[j] = "loaded"
    BY <1>8 DEF ReadTotal, tables, Worker
  <2> HIDE DEF read
  <2>2. \A t \in open : t.job \notin Transfer
    BY <2>1 DEF Jobs, Opened
  <2> QED
    BY <2>1, <2>2, MoveJobs DEF OpenFor
<1>9. CASE PassTransfer
  BY <1>9, PassJobs
<1>10. ASSUME NEW t \in open, Commit(t) PROVE Jobs'
  BY <1>10, CommitJobs
<1>11. ASSUME NEW w \in Worker, WorkerFails(w) PROVE Jobs'
  BY <1>11, MoveJobs DEF WorkerFails, tables
<1>14. CASE PassFails
  <2>1. /\ Goto("bridge", "poll", {}, NoJob, {}, Nobody) /\ "bridge" \in Worker
        /\ UNCHANGED <<status, ledger>> /\ open' \subseteq open
        /\ \A t \in open' : t.job \notin Transfer
    BY <1>14 DEF PassFails, tables, Worker
  <2> QED
    BY <2>1, MoveJobs
<1>12. CASE Crash
  <2>1. /\ open' = {} /\ UNCHANGED <<status, ledger>>
        /\ \A w \in Worker : pc'[w] = "poll" /\ queue'[w] = {}
    BY <1>12 DEF Crash, tables
  <2> QED
    BY <2>1 DEF Jobs, Queued, Computed, Opened, Passing, Recorded, Computing, Worker
<1>13. CASE UNCHANGED vars
  BY <1>13 DEF vars, tables, locals, Jobs, Queued, Computed, Opened, Passing, Recorded, OpenFor, Computing
<1> QED
  BY <1>1, <1>2, <1>3, <1>4, <1>5, <1>6, <1>7, <1>8, <1>9, <1>10, <1>11, <1>12, <1>13, <1>14
  DEF Next, Step, CommitSome

------------------------------------------------------------------------------
(* What a step can do to totals, rows and copies. *)

(* Values are natural numbers, and nobody has points in the empty table.   *)
LEMMA ValuesAreNat ==
  ASSUME Types, NEW a \in Account, NEW s \in Source
  PROVE  /\ Val(totals, a, s) \in Nat
         /\ \A w \in Worker : Val(snapshot[w], a, s) \in Nat
         /\ \A t \in open : Val(t.totals, a, s) \in Nat
         /\ Val(Nobody, a, s) = 0
BY DEF Types, TypeOK, Values, Val, Nobody

(* A read copies totals as they are, of some accounts. *)
LEMMA CopiesOfTotals ==
  ASSUME NEW S, NEW a \in Account, NEW s \in Source
  PROVE  Val([x \in DOMAIN totals \cap S |-> totals[x]], a, s) \in {0, Val(totals, a, s)}
BY DEF Val

(* A transaction adds one to the totals its job has points for.            *)
LEMMA RunAdds ==
  ASSUME Types, Jobs, NEW w \in Worker, pc[w] = "write", NEW a \in Account, NEW s \in Source
  PROVE  LET t == Transaction(job[w], rows[w], snapshot[w]) IN
           /\ Val(t.totals, a, s) \in Nat
           /\ Owner(job[w], a, s) => Val(t.totals, a, s) = Val(snapshot[w], a, s) + 1
           /\ ~Owner(job[w], a, s) => Val(t.totals, a, s) <= Val(snapshot[w], a, s)
<1> DEFINE i == job[w]
           S == rows[w]
           read == snapshot[w]
<1>1. /\ i \in Job /\ S \subseteq Key /\ DOMAIN read \subseteq Account
      /\ \A x \in DOMAIN read : read[x] \in [Source -> Nat]
  BY DEF Types, TypeOK, Values, JobsOf
<1>2. S = RowsOf[i]
  BY DEF Jobs, Computed, Computing
<1>3. Val(read, a, s) \in Nat
  BY ValuesAreNat
<1> HIDE DEF i, S, read
<1>4. Val(Transaction(i, S, read).totals, a, s) =
        IF a \notin Written(i, S, read) THEN 0
        ELSE IF s[1] = TypeOf(i) /\ <<s[2], a>> \in S THEN Val(read, a, s) + 1
             ELSE Val(read, a, s)
  BY <1>1, TransactionAdds
<1>5. <<s[2], a>> \in S => a \in Written(i, S, read)
  BY DEF Written, AccountsOf
<1>6. /\ Val(Transaction(i, S, read).totals, a, s) \in Nat
      /\ Owner(i, a, s) => Val(Transaction(i, S, read).totals, a, s) = Val(read, a, s) + 1
      /\ ~Owner(i, a, s) => Val(Transaction(i, S, read).totals, a, s) <= Val(read, a, s)
  BY <1>2, <1>3, <1>4, <1>5 DEF Owner
<1> QED
  BY <1>6 DEF i, S, read

(* Any step runs a transaction, commits one, or leaves the tables alone:   *)
(* it can end a transaction, and make copies of totals.                    *)
LEMMA KindsOfSteps ==
  ASSUME Types, [Next]_vars
  PROVE  \/ /\ UNCHANGED <<ledger, totals, clobbered>> /\ open' \subseteq open
            /\ \A v \in Worker, a \in Account, s \in Source :
                 Val((snapshot')[v], a, s) \in {0, Val(snapshot[v], a, s), Val(totals, a, s)}
         \/ \E w \in Worker : RunTransaction(w)
         \/ CommitSome
<1> DEFINE Quiet == /\ UNCHANGED <<ledger, totals, clobbered>> /\ open' \subseteq open
                    /\ \A v \in Worker, a \in Account, s \in Source :
                         Val((snapshot')[v], a, s) \in {0, Val(snapshot[v], a, s), Val(totals, a, s)}
<1> SUFFICES ASSUME ~CommitSome, ~\E w \in Worker : RunTransaction(w) PROVE Quiet
  OBVIOUS
<1>0. ASSUME NEW w \in Worker, NEW label, NEW q, NEW j, NEW S, NEW read,
             Goto(w, label, q, j, S, read), UNCHANGED <<ledger, totals, clobbered>>,
             open' \subseteq open,
             \A a \in Account, s \in Source : Val(read, a, s) \in {0, Val(totals, a, s)}
      PROVE  Quiet
  <2>1. \A v \in Worker : (snapshot')[v] = IF v = w THEN read ELSE snapshot[v]
    BY <1>0 DEF Goto, Types, Values
  <2> QED
    BY <1>0, <2>1
<1>00. \A a \in Account, s \in Source : Val(Nobody, a, s) = 0
  BY ValuesAreNat
<1> HIDE DEF Quiet
<1>1. ASSUME NEW j \in Job, Load(j) PROVE Quiet
  BY <1>1 DEF Load, locals, Quiet
<1>2. ASSUME NEW w \in Worker, Poll(w) PROVE Quiet
  BY <1>0, <1>00, <1>2 DEF Poll, tables
<1>3. ASSUME NEW w \in Worker, EndOfQueue(w) PROVE Quiet
  BY <1>0, <1>00, <1>3 DEF EndOfQueue, tables
<1>4. ASSUME NEW w \in Worker, ReadTotals(w) PROVE Quiet
  <2> DEFINE users == {a[1] : a \in AccountsOf(rows[w])}
             read  == [a \in {x \in DOMAIN totals : x[1] \in users} |-> totals[a]]
  <2>1. /\ Goto(w, "write", queue[w], job[w], rows[w], read)
        /\ UNCHANGED <<ledger, totals, open, clobbered>>
    BY <1>4 DEF ReadTotals, tables
  <2>2. \A a \in Account, s \in Source : Val(read, a, s) \in {0, Val(totals, a, s)}
    BY DEF Val
  <2> HIDE DEF read
  <2> QED
    BY <1>0, <2>1, <2>2
<1>6. ASSUME NEW j \in TvlJob, ReadLedger(j) PROVE Quiet
  BY <1>0, <1>00, <1>6 DEF ReadLedger, tables, Worker
<1>7. ASSUME NEW j \in TxJob, ReadTxs(j) PROVE Quiet
  BY <1>0, <1>00, <1>7 DEF ReadTxs, Worker
<1>8. ASSUME NEW j \in Transfer, ReadTotal(j) PROVE Quiet
  <2> DEFINE read == [a \in DOMAIN totals \cap AccountsOf(RowsOf[j]) |-> totals[a]]
  <2>1. /\ Goto("bridge", "write", {}, j, RowsOf[j], read) /\ "bridge" \in Worker
        /\ UNCHANGED <<ledger, totals, open, clobbered>>
    BY <1>8 DEF ReadTotal, tables, Worker
  <2>2. \A a \in Account, s \in Source : Val(read, a, s) \in {0, Val(totals, a, s)}
    BY CopiesOfTotals
  <2> HIDE DEF read
  <2> QED
    BY <1>0, <2>1, <2>2
<1>9. CASE PassTransfer
  BY <1>0, <1>00, <1>9 DEF PassTransfer, Worker
<1>11. ASSUME NEW w \in Worker, WorkerFails(w) PROVE Quiet
  BY <1>0, <1>00, <1>11 DEF WorkerFails, tables
<1>14. CASE PassFails
  <2>1. /\ Goto("bridge", "poll", {}, NoJob, {}, Nobody) /\ "bridge" \in Worker
        /\ UNCHANGED <<ledger, totals, clobbered>> /\ open' \subseteq open
    BY <1>14 DEF PassFails, tables, Worker
  <2> QED
    BY <1>0, <1>00, <2>1
<1>12. CASE Crash
  BY <1>00, <1>12 DEF Crash, tables, Quiet
<1>13. CASE UNCHANGED vars
  BY <1>13 DEF vars, tables, locals, Quiet
<1> QED
  BY <1>1, <1>2, <1>3, <1>4, <1>6, <1>7, <1>8, <1>9, <1>11, <1>12, <1>13, <1>14
  DEF Next, Step

(* A job that is done stays done. *)
LEMMA StatusStays ==
  ASSUME Types, [Next]_vars, NEW j \in Job, status[j] = "done"
  PROVE  (status')[j] = "done"
<1> USE DEF Types, TypeOK
<1>1. ASSUME NEW i \in Job, Load(i) PROVE (status')[j] = "done"
  BY <1>1 DEF Load
<1>2. ASSUME NEW i \in TxJob, ReadTxs(i) PROVE (status')[j] = "done"
  BY <1>2 DEF ReadTxs
<1>3. CASE PassTransfer
  BY <1>3 DEF PassTransfer
<1>4. ASSUME NEW t \in open, Commit(t) PROVE (status')[j] = "done"
  BY <1>4 DEF Commit, StatusAfter
<1> QED
  BY <1>1, <1>2, <1>3, <1>4
  DEF Next, Step, CommitSome, Poll, EndOfQueue, ReadTotals, RunTransaction, ReadLedger, ReadTotal,
      WorkerFails, PassFails, Crash, vars, tables

(* The bridge worker goes on from "next" only when it passes the transfer  *)
(* or when its pass ends; nothing else counts passes that are cut.         *)
LEMMA BridgeStays ==
  ASSUME Types, [Next]_vars, ~Crash, ~PassFails
  PROVE  /\ cuts' = cuts
         /\ pc["bridge"] = "next" /\ ~PassTransfer =>
              (pc')["bridge"] = "next" /\ (job')["bridge"] = job["bridge"]
<1> USE DEF Types, TypeOK, Values
<1>0. ASSUME NEW w \in Worker, NEW label, NEW q, NEW j, NEW S, NEW read,
             Goto(w, label, q, j, S, read), w # "bridge" \/ pc["bridge"] # "next"
      PROVE  pc["bridge"] = "next" => (pc')["bridge"] = "next" /\ (job')["bridge"] = job["bridge"]
  BY <1>0 DEF Goto, Worker
<1> DEFINE Stays == /\ cuts' = cuts
                    /\ pc["bridge"] = "next" /\ ~PassTransfer =>
                         (pc')["bridge"] = "next" /\ (job')["bridge"] = job["bridge"]
<1> SUFFICES Stays
  OBVIOUS
<1>1. ASSUME NEW j \in Job, Load(j) PROVE Stays
  BY <1>1 DEF Load, locals, bounds
<1>2. ASSUME NEW w \in Worker, Poll(w) PROVE Stays
  BY <1>0, <1>2 DEF Poll, bounds
<1>3. ASSUME NEW w \in Worker, EndOfQueue(w) PROVE Stays
  BY <1>0, <1>3 DEF EndOfQueue, bounds
<1>4. ASSUME NEW w \in Worker, ReadTotals(w) PROVE Stays
  <2>1. w # "bridge" /\ UNCHANGED bounds
    BY <1>4 DEF ReadTotals
  <2> QED
    BY <1>0, <1>4, <2>1 DEF ReadTotals, bounds
<1>5. ASSUME NEW w \in Worker, RunTransaction(w) PROVE Stays
  <2>1. (w # "bridge" \/ pc["bridge"] # "next") /\ UNCHANGED bounds
    BY <1>5 DEF RunTransaction
  <2> QED
    BY <1>0, <1>5, <2>1 DEF RunTransaction, bounds
<1>6. ASSUME NEW j \in TvlJob, ReadLedger(j) PROVE Stays
  BY <1>0, <1>6 DEF ReadLedger, bounds, Worker
<1>7. ASSUME NEW j \in TxJob, ReadTxs(j) PROVE Stays
  BY <1>0, <1>7 DEF ReadTxs, bounds, Worker
<1>8. ASSUME NEW j \in Transfer, ReadTotal(j) PROVE Stays
  BY <1>8 DEF ReadTotal, bounds
<1>9. CASE PassTransfer
  BY <1>9 DEF PassTransfer, bounds
<1>10. ASSUME NEW t \in open, Commit(t) PROVE Stays
  BY <1>10 DEF Commit, bounds, locals
<1>11. ASSUME NEW w \in Worker, WorkerFails(w) PROVE Stays
  BY <1>0, <1>11 DEF WorkerFails
<1>12. CASE UNCHANGED vars
  BY <1>12 DEF vars, bounds, locals
<1> HIDE DEF Stays
<1> QED
  BY <1>1, <1>2, <1>3, <1>4, <1>5, <1>6, <1>7, <1>8, <1>9, <1>10, <1>11, <1>12
  DEF Next, Step, CommitSome

(* A payment stays committed: nobody else opens a transaction of a bridge. *)
LEMMA BusyStays ==
  ASSUME Types, [Next]_vars, PaidNotPassed
  PROVE  ~Busy("bridge")'
<1>1. pc["bridge"] = "next" /\ \A t \in open : t.job \notin JobsOf("bridge")
  BY DEF PaidNotPassed, Busy
<1>2. CASE open' \subseteq open
  BY <1>1, <1>2 DEF Busy
<1>3. ASSUME NEW w \in Worker, RunTransaction(w) PROVE ~Busy("bridge")'
  <2> DEFINE t == Transaction(job[w], rows[w], snapshot[w])
  <2>1. open' = open \cup {t} /\ pc[w] = "write"
    BY <1>3 DEF RunTransaction
  <2>2. t.job = job[w] /\ job[w] \in JobsOf(w) /\ w # "bridge" /\ "bridge" \in Worker
    BY <1>1, <2>1, RunTypes DEF Types, TypeOK, Worker
  <2> HIDE DEF t
  <2>3. t.job \notin JobsOf("bridge")
    BY <2>2, JobsApart
  <2> QED
    BY <1>1, <2>1, <2>3 DEF Busy
<1>4. ASSUME NEW t \in open, Commit(t) PROVE open' \subseteq open
  BY <1>4 DEF Commit
<1> QED
  BY <1>2, <1>3, <1>4, KindsOfSteps DEF CommitSome

------------------------------------------------------------------------------
(* No points enter a total twice. *)

(* A row has points of one job of a type. *)
LEMMA OwnerUnique ==
  ASSUME NEW i \in Job, NEW j \in Job, NEW a, NEW s, Owner(i, a, s), Owner(j, a, s)
  PROVE  i = j
BY DisjointAssumption DEF Owner

(* The limit is a number. *)
LEMMA LimitIsNat ==
  ASSUME Types, NEW a \in Account, NEW s \in Source
  PROVE  Limit(a, s) \in Nat
BY DEF Limit, Types, TypeOK

(* What may be there at most is a number in the next state too, and the    *)
(* limit is that number if a job of it is done.                            *)
LEMMA LimitIsNatNext ==
  ASSUME Types', NEW a \in Account, NEW s \in Source
  PROVE  /\ Limit(a, s)' \in Nat /\ AtMost(s)' \in Nat
         /\ \A j \in Job : Owner(j, a, s) /\ Done(j)' => Limit(a, s)' = AtMost(s)'
<1>1. cuts' \in Nat
  BY DEF Types, TypeOK
<1> DEFINE paid == \E j \in Job : Owner(j, a, s) /\ Done(j)'
           past == IF s[1] = "bridge" THEN cuts' ELSE 0
<1>2. Limit(a, s)' = (IF paid THEN 1 ELSE 0) + past /\ AtMost(s)' = 1 + past
  BY DEF Limit, Owner, AtMost
<1>3. past \in Nat
  BY <1>1
<1>4. \A j \in Job : Owner(j, a, s) /\ Done(j)' => paid
  OBVIOUS
<1> HIDE DEF paid, past
<1>5. Limit(a, s)' \in Nat /\ AtMost(s)' \in Nat /\ (paid => Limit(a, s)' = AtMost(s)')
  BY <1>2, <1>3
<1> QED
  BY <1>4, <1>5

(* A job stays done, but for a transfer whose pointer had not moved when   *)
(* its pass ended.                                                         *)
LEMMA DoneStays ==
  ASSUME Types, [Next]_vars, NEW j \in Job, Done(j),
         ~((Crash \/ PassFails) /\ PaidNotPassed /\ j \in Transfer)
  PROVE  Done(j)'
<1>1. CASE status[j] = "done"
  BY <1>1, StatusStays DEF Done
<1>2. CASE j \in Transfer /\ PaidNotPassed /\ job["bridge"] = j
  <2>1. CASE PassTransfer
    BY <1>2, <2>1 DEF PassTransfer, Types, TypeOK, Done
  <2>2. CASE ~PassTransfer
    <3>1. (pc')["bridge"] = "next" /\ (job')["bridge"] = j
      BY <1>2, <2>2, BridgeStays DEF PaidNotPassed
    <3>2. ~Busy("bridge")'
      BY <1>2, BusyStays
    <3> QED
      BY <1>2, <3>1, <3>2 DEF Done, PaidNotPassed
  <2> QED
    BY <2>1, <2>2
<1> QED
  BY <1>1, <1>2 DEF Done

(* A pass that ends between payment and pointer is counted. *)
LEMMA CutsGrow ==
  ASSUME Types, [Next]_vars
  PROVE  /\ cuts \in Nat /\ cuts' \in {cuts, cuts + 1}
         /\ (Crash \/ PassFails) /\ PaidNotPassed => cuts' = cuts + 1
<1>1. cuts \in Nat
  BY DEF Types, TypeOK
<1>2. CASE ~Crash /\ ~PassFails
  BY <1>1, <1>2, BridgeStays
<1>3. CASE Crash \/ PassFails
  BY <1>1, <1>3 DEF Crash, PassFails, CutsAfter
<1> QED
  BY <1>2, <1>3, <1>1

(* No step lowers the limit: a pass that is cut may undo a transfer, and   *)
(* counts.                                                                 *)
LEMMA LimitGrows ==
  ASSUME Types, [Next]_vars, NEW a \in Account, NEW s \in Source
  PROVE  Limit(a, s) <= Limit(a, s)' /\ AtMost(s) <= AtMost(s)'
<1> DEFINE paid == \E j \in Job : Owner(j, a, s) /\ Done(j)
           once == IF paid THEN 1 ELSE 0
           past == IF s[1] = "bridge" THEN cuts ELSE 0
<1>0. /\ cuts \in Nat /\ cuts' \in {cuts, cuts + 1}
      /\ (Crash \/ PassFails) /\ PaidNotPassed => cuts' = cuts + 1
  BY CutsGrow
<1>1. past \in Nat /\ past' \in {past, past + 1}
  BY <1>0
<1>2. /\ Limit(a, s) = once + past /\ Limit(a, s)' = once' + past'
      /\ AtMost(s) = 1 + past /\ AtMost(s)' = 1 + past'
  BY DEF Limit, AtMost
<1>3. (paid => paid') \/ past' = past + 1
  <2>1. CASE (Crash \/ PassFails) /\ PaidNotPassed /\ s[1] = "bridge"
    BY <1>0, <2>1
  <2>2. CASE ~((Crash \/ PassFails) /\ PaidNotPassed /\ s[1] = "bridge")
    <3>1. \A j \in Job : Owner(j, a, s) /\ j \in Transfer => s[1] = "bridge"
      BY KindsOfJobs DEF Owner
    <3> QED
      BY <2>2, <3>1, DoneStays DEF Owner
  <2> QED
    BY <2>1, <2>2
<1>4. once \in {0, 1} /\ once' \in {0, 1} /\ (once <= once' \/ past' = past + 1)
  BY <1>3
<1>5. ASSUME NEW p \in Nat, NEW q \in Nat, NEW m \in Nat, NEW n \in Nat,
             q = p \/ q = p + 1, m <= 1, m <= n \/ q = p + 1
      PROVE  m + p <= n + q /\ 1 + p <= 1 + q
  BY <1>5
<1>6. /\ past \in Nat /\ past' \in Nat /\ once \in Nat /\ once' \in Nat /\ once <= 1
      /\ (past' = past \/ past' = past + 1) /\ (once <= once' \/ past' = past + 1)
  BY <1>1, <1>4
<1> HIDE DEF once, past
<1>7. once + past <= once' + past' /\ 1 + past <= 1 + past'
  BY <1>5, <1>6
<1> QED
  BY <1>2, <1>7

(* Empty tables and copies keep to any limit. *)
LEMMA InitLimited == Init => Limited
<1> SUFFICES ASSUME Init PROVE Limited
  OBVIOUS
<1>1. Types
  BY InitTypes
<1>2. /\ totals = Nobody /\ open = {} /\ \A w \in Worker : snapshot[w] = Nobody
  BY DEF Init
<1>3. \A a \in Account, s \in Source : Limit(a, s) \in Nat /\ Val(Nobody, a, s) = 0
  BY <1>1, LimitIsNat, ValuesAreNat
<1> QED
  BY <1>2, <1>3 DEF Limited

(* What a transaction of job j writes keeps to the limit of the next state,*)
(* but for the points of j itself, which are not in the tables yet.        *)
LEMMA RunLimited ==
  ASSUME Types, Jobs, Limited, [Next]_vars, NEW w \in Worker, RunTransaction(w),
         NEW a \in Account, NEW s \in Source
  PROVE  LET t == Transaction(job[w], rows[w], snapshot[w]) IN
           \/ Val(t.totals, a, s) <= Limit(a, s)'
           \/ Owner(job[w], a, s) /\ Val(t.totals, a, s) <= AtMost(s)'
<1> PICK i \in Job : i = job[w]
  BY DEF Types, TypeOK, JobsOf, RunTransaction
<1> DEFINE v == Val(Transaction(job[w], rows[w], snapshot[w]).totals, a, s)
           c == Val(snapshot[w], a, s)
<1>1. pc[w] = "write"
  BY DEF RunTransaction
<1>2. TypeOf(i) = w /\ status[i] = "loaded"
  BY <1>1 DEF Types, TypeOK, JobsOf, Jobs, Computed, Computing
<1>3. v \in Nat /\ c \in Nat /\ Limit(a, s) \in Nat /\ Limit(a, s)' \in Nat
  BY <1>1, RunAdds, ValuesAreNat, LimitIsNat, LimitIsNatNext, NextTypes
<1>4. c <= Limit(a, s) /\ Limit(a, s) <= Limit(a, s)' /\ AtMost(s) <= AtMost(s)'
  BY LimitGrows DEF Limited
<1>5. (Owner(i, a, s) => v = c + 1) /\ (~Owner(i, a, s) => v <= c)
  BY <1>1, RunAdds
<1> HIDE DEF v, c
<1>6. CASE ~Owner(i, a, s)
  BY <1>3, <1>4, <1>5, <1>6 DEF v
<1>7. CASE Owner(i, a, s)
  <2>1. ~Done(i)
    BY <1>1, <1>2, KindsOfJobs DEF Done, PaidNotPassed
  <2>2. ~\E j \in Job : Owner(j, a, s) /\ Done(j)
    BY <1>7, <2>1, OwnerUnique
  <2>3. AtMost(s) = 1 + Limit(a, s) /\ AtMost(s)' \in Nat
    BY <2>2, LimitIsNatNext, NextTypes DEF Limit, AtMost, Types, TypeOK
  <2> QED
    BY <1>3, <1>4, <1>5, <1>7, <2>3 DEF v
<1> QED
  BY <1>6, <1>7

(* Limit is at most AtMost; and a credit is the entry of the table.        *)
LEMMA LimitIsAtMost ==
  ASSUME Types, NEW a \in Account, NEW s \in Source
  PROVE  Limit(a, s) <= AtMost(s) /\ AtMost(s) \in Nat /\ Credit(a, s) = Val(totals, a, s)
BY DEF Limit, AtMost, Credit, Val, Types, TypeOK

(* After its COMMIT the points of a job are in the tables. *)
LEMMA CommitDone ==
  ASSUME Types, Jobs, NEW t \in open, Commit(t)
  PROVE  Done(t.job)'
<1>1. /\ t.job \in Job /\ open' = open \ {t} /\ UNCHANGED locals
      /\ status' = StatusAfter(t.job) /\ status \in [Job -> {"none", "loaded", "done"}]
  BY DEF Types, TypeOK, Commit
<1>2. CASE t.job \notin Transfer
  BY <1>1, <1>2 DEF StatusAfter, Done
<1>3. CASE t.job \in Transfer
  <2>1. pc["bridge"] = "next" /\ job["bridge"] = t.job
    BY <1>3 DEF Jobs, Opened
  <2>2. ASSUME NEW u \in open, u.job \in JobsOf("bridge") PROVE u = t
    BY <2>1, <2>2, KindsOfJobs DEF Jobs, Opened, JobsOf
  <2>3. ~Busy("bridge")'
    BY <1>1, <2>2 DEF Busy
  <2> QED
    BY <1>1, <1>3, <2>1, <2>3 DEF Done, PaidNotPassed, locals
<1> QED
  BY <1>2, <1>3

(* Every action keeps totals, copies and transactions to the limit. *)
LEMMA NextLimited == Types /\ Jobs /\ Limited /\ [Next]_vars => Limited'
<1> SUFFICES ASSUME Types, Jobs, Limited, [Next]_vars,
                    NEW a \in Account, NEW s \in Source
             PROVE  /\ Val(totals', a, s) <= Limit(a, s)'
                    /\ \A w \in Worker : Val((snapshot')[w], a, s) <= Limit(a, s)'
                    /\ \A t \in open' :
                         \/ Val(t.totals, a, s) <= Limit(a, s)'
                         \/ Owner(t.job, a, s) /\ Val(t.totals, a, s) <= AtMost(s)'
  BY DEF Limited, Val, Owner, AtMost
<1> DEFINE now  == Limit(a, s)
           then == Limit(a, s)'
           most == AtMost(s)
           will == AtMost(s)'
           Keeps(t) == \/ Val(t.totals, a, s) <= then
                       \/ Owner(t.job, a, s) /\ Val(t.totals, a, s) <= will
<1>1. /\ now \in Nat /\ then \in Nat /\ now <= then
      /\ most \in Nat /\ will \in Nat /\ most <= will
  BY LimitIsNat, LimitIsNatNext, LimitGrows, NextTypes, LimitIsAtMost
<1>2. /\ Val(totals, a, s) \in Nat /\ Val(totals, a, s) <= now
      /\ \A w \in Worker : Val(snapshot[w], a, s) \in Nat /\ Val(snapshot[w], a, s) <= now
      /\ \A t \in open : /\ Val(t.totals, a, s) \in Nat
                         /\ \/ Val(t.totals, a, s) <= now
                            \/ Owner(t.job, a, s) /\ Val(t.totals, a, s) <= most
      /\ Val(Nobody, a, s) = 0
  BY ValuesAreNat DEF Limited
<1> HIDE DEF now, then, most, will
<1>3. /\ Val(totals, a, s) <= then
      /\ \A w \in Worker : Val(snapshot[w], a, s) <= then
      /\ \A t \in open : Keeps(t)
  BY <1>1, <1>2
<1> HIDE DEF Keeps
<1>4. ASSUME UNCHANGED totals, open' \subseteq open,
             \A v \in Worker :
               Val((snapshot')[v], a, s) \in {0, Val(snapshot[v], a, s), Val(totals, a, s)}
      PROVE  /\ Val(totals', a, s) <= then
             /\ \A w \in Worker : Val((snapshot')[w], a, s) <= then
             /\ \A t \in open' : Keeps(t)
  BY <1>1, <1>3, <1>4
<1>5. ASSUME NEW w \in Worker, RunTransaction(w)
      PROVE  /\ Val(totals', a, s) <= then
             /\ \A v \in Worker : Val((snapshot')[v], a, s) <= then
             /\ \A t \in open' : Keeps(t)
  <2> DEFINE t == Transaction(job[w], rows[w], snapshot[w])
  <2>1. /\ open' = open \cup {t} /\ UNCHANGED totals /\ pc[w] = "write"
        /\ Goto(w, "next", queue[w], IF w = "bridge" THEN job[w] ELSE NoJob, {}, Nobody)
    BY <1>5 DEF RunTransaction, tables
  <2>2. t.job = job[w]
    BY <2>1, RunTypes
  <2>3. Keeps(t)
    BY <1>5, <2>2, RunLimited DEF Keeps, then, will
  <2>4. \A v \in Worker : (snapshot')[v] = IF v = w THEN Nobody ELSE snapshot[v]
    BY <2>1 DEF Goto, Types, Values
  <2> HIDE DEF t
  <2> QED
    BY <1>1, <1>2, <1>3, <2>1, <2>3, <2>4
<1>6. ASSUME NEW t \in open, Commit(t)
      PROVE  /\ Val(totals', a, s) <= then
             /\ \A v \in Worker : Val((snapshot')[v], a, s) <= then
             /\ \A u \in open' : Keeps(u)
  <2>1. open' = open \ {t} /\ UNCHANGED snapshot
    BY <1>6 DEF Commit, locals
  <2>2. Val(totals', a, s) \in {Val(t.totals, a, s), Val(totals, a, s)}
    BY <1>6 DEF Commit, Val
  <2>3. Val(t.totals, a, s) <= then
    <3>1. ASSUME Owner(t.job, a, s) PROVE then = will
      <4>1. t.job \in Job /\ Done(t.job)'
        BY <1>6, CommitDone DEF Types, TypeOK
      <4> QED
        BY <3>1, <4>1, LimitIsNatNext, NextTypes DEF then, will
    <3> QED
      BY <1>1, <1>2, <1>3, <3>1 DEF Keeps
  <2> QED
    BY <1>3, <2>1, <2>2, <2>3
<1> QED
  BY <1>4, <1>5, <1>6, KindsOfSteps DEF CommitSome, Keeps, then, will

------------------------------------------------------------------------------
(* What is done is paid. *)

(* A commit writes the totals of its transaction over those stored, and    *)
(* notes what it takes out.                                                *)
LEMMA CommitTotals ==
  ASSUME NEW t \in open, Commit(t), NEW a \in Account, NEW s \in Source
  PROVE  /\ Val(totals', a, s) = IF a \in DOMAIN t.totals THEN t.totals[a][s] ELSE Val(totals, a, s)
         /\ <<a, s>> \in clobbered => <<a, s>> \in clobbered'
         /\ a \in DOMAIN totals \cap DOMAIN t.totals /\ t.totals[a][s] < totals[a][s]
              => <<a, s>> \in clobbered'
BY DEF Commit, Val

(* Points that are paid stay paid, or are known to be overwritten.         *)
LEMMA PaidStays ==
  ASSUME Types, [Next]_vars, NEW a \in Account, NEW s \in Source, Paid(a, s)
  PROVE  Paid(a, s)'
<1>1. CASE UNCHANGED <<totals, clobbered>>
  BY <1>1 DEF Paid, Val
<1>2. ASSUME NEW w \in Worker, RunTransaction(w) PROVE UNCHANGED <<totals, clobbered>>
  BY <1>2 DEF RunTransaction, tables
<1>3. ASSUME NEW t \in open, Commit(t) PROVE Paid(a, s)'
  <2>1. Val(totals, a, s) \in Nat /\ Val(t.totals, a, s) \in Nat
    BY ValuesAreNat
  <2>2. CASE a \in DOMAIN t.totals /\ a \in DOMAIN totals
    BY <1>3, <2>1, <2>2, CommitTotals DEF Paid, Val
  <2>3. CASE a \notin DOMAIN t.totals \/ a \notin DOMAIN totals
    BY <1>3, <2>1, <2>3, CommitTotals DEF Paid, Val
  <2> QED
    BY <2>2, <2>3
<1> QED
  BY <1>1, <1>2, <1>3, KindsOfSteps DEF CommitSome

(* A job that is paid stays paid, in the same sense. *)
LEMMA PaidKeysStay ==
  ASSUME Types, [Next]_vars, NEW j \in Job, PaidKeys(j)
  PROVE  PaidKeys(j)'
<1>1. \A k \in RowsOf[j] : k[2] \in Account /\ <<TypeOf(j), k[1]>> \in Source
  BY RowsAssumption, KindsOfJobs DEF Key, Source
<1> QED
  BY <1>1, PaidStays DEF PaidKeys

(* A commit pays its job. *)
LEMMA CommitPays ==
  ASSUME Types, Jobs, PaidWhenDone, NEW t \in open, Commit(t)
  PROVE  PaidKeys(t.job)'
<1> SUFFICES ASSUME NEW k \in RowsOf[t.job]
             PROVE  Val(totals', k[2], <<TypeOf(t.job), k[1]>>) >= 1
  BY DEF PaidKeys, Paid, Val
<1>1. t.job \in Job
  BY DEF Types, TypeOK
<1>2. k[2] \in Account /\ <<TypeOf(t.job), k[1]>> \in Source
  BY <1>1, RowsAssumption, KindsOfJobs DEF Key, Source
<1>3. Val(t.totals, k[2], <<TypeOf(t.job), k[1]>>) >= 1
  BY DEF PaidWhenDone
<1>4. k[2] \in DOMAIN t.totals
  BY <1>3 DEF Val
<1> QED
  BY <1>2, <1>3, <1>4, CommitTotals DEF Val

(* A job becomes done in one of three ways. *)
LEMMA NewlyDone ==
  ASSUME Types, [Next]_vars, NEW j \in Job, status[j] # "done", (status')[j] = "done"
  PROVE  \/ RowsOf[j] = {}
         \/ PassTransfer /\ j = job["bridge"]
         \/ \E t \in open : Commit(t) /\ t.job = j
<1> USE DEF Types, TypeOK
<1>1. ASSUME NEW i \in Job, Load(i) PROVE FALSE
  BY <1>1 DEF Load
<1>2. ASSUME NEW i \in TxJob, ReadTxs(i) PROVE RowsOf[j] = {}
  BY <1>2 DEF ReadTxs
<1>3. CASE PassTransfer
  BY <1>3 DEF PassTransfer
<1>4. ASSUME NEW t \in open, Commit(t) PROVE t.job = j
  BY <1>4 DEF Commit, StatusAfter
<1> QED
  BY <1>1, <1>2, <1>3, <1>4
  DEF Next, Step, CommitSome, Poll, EndOfQueue, ReadTotals, RunTransaction, ReadLedger, ReadTotal,
      WorkerFails, PassFails, Crash, vars, tables

(* The bridge worker comes to the pointer after a transaction only, and    *)
(* stays there until the transaction is committed.                         *)
LEMMA BridgeWasNext ==
  ASSUME Types, [Next]_vars, (pc')["bridge"] = "next", ~RunTransaction("bridge"), ~CommitSome
  PROVE  pc["bridge"] = "next" /\ (job')["bridge"] = job["bridge"] /\ open \subseteq open'
<1> USE DEF Types, TypeOK, Values
<1> DEFINE Same == /\ pc["bridge"] = "next" /\ (job')["bridge"] = job["bridge"]
                   /\ open \subseteq open'
<1> SUFFICES Same
  OBVIOUS
<1>0. ASSUME NEW w \in Worker, w # "bridge", NEW label, NEW q, NEW j, NEW S, NEW read,
             Goto(w, label, q, j, S, read), open \subseteq open'
      PROVE  Same
  BY <1>0 DEF Goto, Worker
<1>00. ASSUME NEW label, NEW q, NEW j, NEW S, NEW read,
              Goto("bridge", label, q, j, S, read), label # "next"
       PROVE  FALSE
  BY <1>00 DEF Goto, Worker
<1> HIDE DEF Same
<1>1. ASSUME NEW j \in Job, Load(j) PROVE Same
  BY <1>1 DEF Load, locals, Same
<1>2. ASSUME NEW w \in Worker, Poll(w) PROVE Same
  BY <1>0, <1>2 DEF Poll
<1>3. ASSUME NEW w \in Worker, EndOfQueue(w) PROVE Same
  BY <1>0, <1>3 DEF EndOfQueue
<1>4. ASSUME NEW w \in Worker, ReadTotals(w) PROVE Same
  BY <1>0, <1>4 DEF ReadTotals
<1>5. ASSUME NEW w \in Worker, RunTransaction(w) PROVE Same
  <2>1. w # "bridge" /\ open \subseteq open'
    BY <1>5 DEF RunTransaction
  <2> QED
    BY <1>0, <1>5, <2>1 DEF RunTransaction
<1>6. ASSUME NEW j \in TvlJob, ReadLedger(j) PROVE Same
  BY <1>0, <1>6 DEF ReadLedger, Worker
<1>7. ASSUME NEW j \in TxJob, ReadTxs(j) PROVE Same
  BY <1>0, <1>7 DEF ReadTxs, Worker
<1>8. ASSUME NEW j \in Transfer, ReadTotal(j) PROVE FALSE
  BY <1>00, <1>8 DEF ReadTotal
<1>9. CASE PassTransfer
  BY <1>00, <1>9 DEF PassTransfer
<1>11. ASSUME NEW w \in Worker, WorkerFails(w) PROVE Same
  BY <1>0, <1>11 DEF WorkerFails
<1>12. CASE Crash
  BY <1>12 DEF Crash, Worker
<1>13. CASE UNCHANGED vars
  BY <1>13 DEF vars, locals, Same
<1>14. CASE PassFails
  BY <1>00, <1>14 DEF PassFails
<1> QED
  BY <1>1, <1>2, <1>3, <1>4, <1>5, <1>6, <1>7, <1>8, <1>9, <1>11, <1>12, <1>13, <1>14
  DEF Next, Step

(* An open transaction has the points of its job. *)
LEMMA RunPays ==
  ASSUME Types, Jobs, NEW w \in Worker, RunTransaction(w), NEW k \in RowsOf[job[w]]
  PROVE  Val(Transaction(job[w], rows[w], snapshot[w]).totals, k[2], <<TypeOf(job[w]), k[1]>>) >= 1
<1> PICK i \in Job : i = job[w]
  BY DEF Types, TypeOK, JobsOf, RunTransaction
<1> DEFINE s == <<TypeOf(i), k[1]>>
<1>1. k \in Key /\ k[2] \in Account /\ s \in Source /\ k = <<k[1], k[2]>>
  BY RowsAssumption, KindsOfJobs DEF Key, Source
<1>2. Owner(i, k[2], s)
  BY <1>1 DEF Owner
<1>3. pc[w] = "write" /\ Val(snapshot[w], k[2], s) \in Nat
  BY <1>1, ValuesAreNat DEF RunTransaction
<1> HIDE DEF s
<1>4. Val(Transaction(job[w], rows[w], snapshot[w]).totals, k[2], s) = Val(snapshot[w], k[2], s) + 1
  BY <1>1, <1>2, <1>3, RunAdds
<1> QED
  BY <1>3, <1>4 DEF s

(* No job is done at first. *)
LEMMA InitPaidWhenDone == Init => PaidWhenDone
BY DEF Init, PaidWhenDone, Worker

(* No action marks a job done whose points are not paid. *)
LEMMA NextPaidWhenDone == Types /\ Jobs /\ PaidWhenDone /\ [Next]_vars => PaidWhenDone'
<1> SUFFICES ASSUME Types, Jobs, PaidWhenDone, [Next]_vars PROVE PaidWhenDone'
  OBVIOUS
<1>1. ASSUME NEW j \in Job, (status')[j] = "done" PROVE PaidKeys(j)'
  <2>1. CASE status[j] = "done"
    BY <2>1, PaidKeysStay DEF PaidWhenDone
  <2>2. CASE RowsOf[j] = {}
    BY <2>2 DEF PaidKeys
  <2>3. CASE PassTransfer /\ j = job["bridge"]
    <3>1. pc["bridge"] = "next" /\ ~OpenFor(job["bridge"])
      <4>1. job["bridge"] \in JobsOf("bridge")
        BY <2>3, KindsOfJobs DEF PassTransfer, Types, TypeOK, JobsOf, Worker
      <4> QED
        BY <2>3, <4>1 DEF PassTransfer, Busy, OpenFor
    <3>2. PaidKeys(j)
      BY <2>3, <3>1 DEF PaidWhenDone
    <3> QED
      BY <3>2, PaidKeysStay
  <2>4. CASE \E t \in open : Commit(t) /\ t.job = j
    BY <2>4, CommitPays
  <2> QED
    BY <1>1, <2>1, <2>2, <2>3, <2>4, NewlyDone
<1>2. ASSUME NEW j, (pc')["bridge"] = "next", j = (job')["bridge"], ~\E t \in open' : t.job = j
      PROVE  PaidKeys(j)'
  <2>1. CASE RunTransaction("bridge")
    <3> DEFINE t == Transaction(job["bridge"], rows["bridge"], snapshot["bridge"])
    <3>1. /\ "bridge" \in Worker /\ pc["bridge"] = "write" /\ t \in open'
          /\ (job')["bridge"] = job["bridge"]
      BY <2>1 DEF RunTransaction, Goto, Worker, Types, Values
    <3>2. t.job = job["bridge"]
      BY <3>1, RunTypes
    <3> QED
      BY <1>2, <3>1, <3>2
  <2>2. ASSUME NEW t \in open, Commit(t) PROVE PaidKeys(j)'
    <3>1. UNCHANGED <<pc, job>> /\ open' = open \ {t}
      BY <2>2 DEF Commit, locals
    <3>2. j \in Job
      BY <1>2, <3>1 DEF Types, TypeOK, Worker, Job
    <3>3. CASE t.job = j
      BY <2>2, <3>3, CommitPays
    <3>4. CASE t.job # j
      <4>1. PaidKeys(j)
        BY <1>2, <3>1, <3>4 DEF PaidWhenDone, OpenFor
      <4> QED
        BY <3>2, <4>1, PaidKeysStay
    <3> QED
      BY <3>3, <3>4
  <2>3. CASE ~RunTransaction("bridge") /\ ~CommitSome
    <3>1. pc["bridge"] = "next" /\ j = job["bridge"] /\ open \subseteq open'
      BY <1>2, <2>3, BridgeWasNext
    <3>2. PaidKeys(j) /\ j \in Job
      BY <1>2, <3>1 DEF PaidWhenDone, OpenFor, Types, TypeOK, Worker, Job
    <3> QED
      BY <3>2, PaidKeysStay
  <2> QED
    BY <2>1, <2>2, <2>3 DEF CommitSome
<1>3. ASSUME NEW t \in open', NEW k \in RowsOf[t.job]
      PROVE  Val(t.totals, k[2], <<TypeOf(t.job), k[1]>>) >= 1
  <2>1. CASE t \in open
    BY <2>1 DEF PaidWhenDone
  <2>2. ASSUME NEW w \in Worker, RunTransaction(w), t \notin open
        PROVE  Val(t.totals, k[2], <<TypeOf(t.job), k[1]>>) >= 1
    <3>1. t = Transaction(job[w], rows[w], snapshot[w]) /\ pc[w] = "write"
      BY <2>2 DEF RunTransaction
    <3>2. t.job = job[w]
      BY <3>1, RunTypes
    <3> QED
      BY <2>2, <3>1, <3>2, RunPays
  <2>3. CASE CommitSome
    BY <2>1, <2>3 DEF CommitSome, Commit
  <2> QED
    BY <2>1, <2>2, <2>3, KindsOfSteps
<1>4. ASSUME (pc')["bridge"] = "next", ~\E t \in open' : t.job = (job')["bridge"]
      PROVE  \A k \in RowsOf[(job')["bridge"]] :
               \/ Val(totals', k[2], <<TypeOf((job')["bridge"]), k[1]>>) >= 1
               \/ <<k[2], <<TypeOf((job')["bridge"]), k[1]>>>> \in clobbered'
  BY <1>2, <1>4 DEF PaidKeys, Paid, Val
<1> QED
  BY <1>1, <1>3, <1>4 DEF PaidWhenDone, OpenFor, PaidKeys, Paid, Val

------------------------------------------------------------------------------
(* What is in a total has a row. *)

(* Rows are never deleted or given another type. *)
LEMMA RowStays ==
  ASSUME Types, [Next]_vars, NEW k \in Key, ledger[k] # NoRow
  PROVE  ledger'[k] = ledger[k]
<1>1. ASSUME NEW t \in open, Commit(t) PROVE ledger'[k] = ledger[k]
  BY <1>1 DEF Commit
<1>2. ASSUME NEW w \in Worker, RunTransaction(w) PROVE ledger' = ledger
  BY <1>2 DEF RunTransaction, tables
<1> QED
  BY <1>1, <1>2, KindsOfSteps DEF CommitSome

(* Nothing is in a total at first, and there is no row. *)
LEMMA InitHasRow == Init => HasRow
<1> SUFFICES ASSUME Init PROVE HasRow
  OBVIOUS
<1>1. Types
  BY InitTypes
<1>2. /\ totals = Nobody /\ open = {} /\ \A w \in Worker : snapshot[w] = Nobody
      /\ ledger = [k \in Key |-> NoRow]
  BY DEF Init
<1> SUFFICES ASSUME NEW a \in Account, NEW s \in Source, NEW k, k = <<s[2], a>>
             PROVE  /\ Val(totals, a, s) = 0
                    /\ \A w \in Worker : Val(snapshot[w], a, s) = 0
                    /\ ledger[k] = NoRow /\ s[1] # NoRow
  BY <1>2 DEF HasRow
<1>3. Val(Nobody, a, s) = 0
  BY <1>1, ValuesAreNat
<1>4. k \in Key /\ s[1] # NoRow
  BY DEF Key, Source, Type, NoRow
<1> QED
  BY <1>2, <1>3, <1>4

(* No action puts points into a total without their row. *)
LEMMA NextHasRow == Types /\ Jobs /\ PaidWhenDone /\ HasRow /\ [Next]_vars => HasRow'
<1> SUFFICES ASSUME Types, Jobs, PaidWhenDone, HasRow, [Next]_vars,
                    NEW a \in Account, NEW s \in Source, NEW k, k = <<s[2], a>>
             PROVE  /\ Val(totals', a, s) > 0 => ledger'[k] # NoRow
                    /\ \A w \in Worker : Val((snapshot')[w], a, s) > 0 => ledger'[k] # NoRow
                    /\ \A t \in open' : Val(t.totals, a, s) > 0 => ledger'[k] # NoRow \/ k \in t.rows
                    /\ ledger'[k] = s[1] => Paid(a, s)'
  BY DEF HasRow, Val
<1> DEFINE Rows == /\ Val(totals', a, s) > 0 => ledger'[k] # NoRow
                   /\ \A w \in Worker : Val((snapshot')[w], a, s) > 0 => ledger'[k] # NoRow
                   /\ \A t \in open' : Val(t.totals, a, s) > 0 => ledger'[k] # NoRow \/ k \in t.rows
           Kept == ledger'[k] = s[1] => Paid(a, s)'
<1> SUFFICES Rows /\ Kept
  OBVIOUS
<1>1. k \in Key /\ s[1] # NoRow
  BY DEF Key, Source, Type, NoRow
<1>2. /\ Val(totals, a, s) > 0 => ledger[k] # NoRow
      /\ \A w \in Worker : Val(snapshot[w], a, s) > 0 => ledger[k] # NoRow
      /\ \A t \in open : Val(t.totals, a, s) > 0 => ledger[k] # NoRow \/ k \in t.rows
      /\ ledger[k] = s[1] => Paid(a, s)
  BY DEF HasRow
<1>3. ledger[k] # NoRow => ledger'[k] # NoRow
  BY <1>1, RowStays
<1>4. ledger[k] = s[1] => Paid(a, s)'
  BY <1>2, PaidStays
<1>5. ASSUME UNCHANGED <<ledger, totals>>, open' \subseteq open,
             \A v \in Worker :
               Val((snapshot')[v], a, s) \in {0, Val(snapshot[v], a, s), Val(totals, a, s)}
      PROVE  Rows /\ Kept
  <2>1. Rows
    BY <1>2, <1>5
  <2> QED
    BY <1>4, <1>5, <2>1
<1>6. ASSUME NEW w \in Worker, RunTransaction(w) PROVE Rows /\ Kept
  <2> DEFINE t == Transaction(job[w], rows[w], snapshot[w])
  <2>1. /\ open' = open \cup {t} /\ UNCHANGED <<ledger, totals>> /\ pc[w] = "write"
        /\ Goto(w, "next", queue[w], IF w = "bridge" THEN job[w] ELSE NoJob, {}, Nobody)
    BY <1>6 DEF RunTransaction, tables
  <2>2. t.rows = rows[w] /\ rows[w] = RowsOf[job[w]]
    BY <2>1, RunTypes DEF Jobs, Computed, Computing
  <2>3. \A v \in Worker : (snapshot')[v] = IF v = w THEN Nobody ELSE snapshot[v]
    BY <2>1 DEF Goto, Types, Values
  <2>4. Val(Nobody, a, s) = 0 /\ Val(snapshot[w], a, s) \in Nat /\ Val(t.totals, a, s) \in Nat
    BY <2>1, ValuesAreNat, RunAdds
  <2>5. /\ Owner(job[w], a, s) => k \in rows[w]
        /\ ~Owner(job[w], a, s) => Val(t.totals, a, s) <= Val(snapshot[w], a, s)
    BY <2>1, <2>2, RunAdds DEF Owner
  <2> HIDE DEF t
  <2>6. Val(t.totals, a, s) > 0 => ledger[k] # NoRow \/ k \in t.rows
    BY <1>2, <2>2, <2>4, <2>5
  <2>7. Rows
    BY <1>2, <2>1, <2>3, <2>4, <2>6
  <2> QED
    BY <1>4, <2>1, <2>7
<1>7. ASSUME NEW t \in open, Commit(t) PROVE Rows /\ Kept
  <2>1. /\ open' = open \ {t} /\ UNCHANGED snapshot
        /\ ledger'[k] = IF k \in t.rows /\ ledger[k] = NoRow THEN TypeOf(t.job) ELSE ledger[k]
    BY <1>1, <1>7 DEF Commit, locals
  <2>2. TypeOf(t.job) # NoRow /\ t.rows = RowsOf[t.job] /\ t.job \in Job
    BY DEF Types, TypeOK, TypeOf, NoRow, Jobs, Opened
  <2>3. Val(totals', a, s) \in {Val(t.totals, a, s), Val(totals, a, s)}
    BY <1>7, CommitTotals DEF Val
  <2>4. Rows
    BY <1>2, <1>3, <2>1, <2>2, <2>3
  <2>5. Kept
    <3>1. CASE k \in t.rows /\ ledger[k] = NoRow /\ TypeOf(t.job) = s[1]
      <4>1. PaidKeys(t.job)'
        BY <1>7, CommitPays
      <4>2. k[1] = s[2] /\ k[2] = a /\ s = <<s[1], s[2]>>
        BY DEF Source
      <4> QED
        BY <2>2, <3>1, <4>1, <4>2 DEF PaidKeys
    <3>2. CASE ledger[k] = s[1]
      BY <1>4, <3>2
    <3> QED
      BY <2>1, <3>1, <3>2
  <2> QED
    BY <2>4, <2>5
<1> HIDE DEF Rows, Kept
<1> QED
  BY <1>5, <1>6, <1>7, KindsOfSteps DEF CommitSome

------------------------------------------------------------------------------
(* The invariant and what it implies. *)

(* The invariant holds at first. *)
LEMMA InitInvariant == Init => IInv
BY InitTypes, InitJobs, InitLimited, InitPaidWhenDone, InitHasRow DEF IInv

(* Every action preserves the invariant. *)
LEMMA NextInvariant == IInv /\ [Next]_vars => IInv'
BY NextTypes, NextJobs, NextLimited, NextPaidWhenDone, NextHasRow DEF IInv

(* The limit of a source is at most what CreditedAtMostOnce allows. *)
LEMMA InvariantCredits == IInv => CreditedAtMostOnce
<1> SUFFICES ASSUME IInv, NEW a \in Account, NEW s \in Source PROVE Credit(a, s) <= AtMost(s)
  BY DEF CreditedAtMostOnce
<1>1. Types
  BY DEF IInv
<1>2. Val(totals, a, s) <= Limit(a, s)
  BY DEF IInv, Limited
<1> QED
  BY <1>1, <1>2, LimitIsAtMost, LimitIsNat, ValuesAreNat

(* DoneMeansPaid is a part of the invariant. *)
LEMMA InvariantPays == IInv => DoneMeansPaid
BY DEF IInv, PaidWhenDone, PaidKeys, Paid, Val, Credit, DoneMeansPaid

(* A total that is positive has a row; a row without total is overwritten. *)
LEMMA InvariantExplains == IInv => TotalsExplained
<1> SUFFICES ASSUME IInv, NEW a \in Account, NEW s \in Source,
                    NEW row, row = ledger[<<s[2], a>>],
                    NEW c, c = Credit(a, s), NEW m, m = AtMost(s)
             PROVE  \/ c = 1 /\ row = s[1]
                    \/ c = 0 /\ row # s[1]
                    \/ c = 0 /\ <<a, s>> \in clobbered
                    \/ row \notin {NoRow, s[1]}
                    \/ s[1] = "bridge" /\ row = s[1] /\ c \in 2..m
  BY DEF TotalsExplained
<1>1. Types /\ CreditedAtMostOnce
  BY InvariantCredits DEF IInv
<1>2. c \in Nat /\ m \in Nat /\ c <= m /\ (s[1] # "bridge" => m = 1)
  BY <1>1, LimitIsAtMost, ValuesAreNat DEF CreditedAtMostOnce, AtMost
<1>3. (c > 0 => row # NoRow) /\ (row = s[1] => c >= 1 \/ <<a, s>> \in clobbered)
  BY <1>1, LimitIsAtMost DEF IInv, HasRow, Paid
<1> QED
  BY <1>2, <1>3

(* The points of a block and type enter a total at most once, those of a   *)
(* transfer once more for every pass that ended between its payment and    *)
(* the pointer: for any number of accounts, blocks and jobs, any           *)
(* interleaving of the three workers, commits that are late, and any       *)
(* number of crashes, failed reads and failed passes.                      *)
THEOREM LpCreditedAtMostOnce == Spec => []CreditedAtMostOnce
BY InitInvariant, NextInvariant, InvariantCredits, PTL DEF Spec

(* What a done job earned is inside the totals, unless an absolute write   *)
(* computed from older totals took it out: no job is marked processed      *)
(* before its points are stored, whichever way it became done.             *)
THEOREM LpDoneMeansPaid == Spec => []DoneMeansPaid
BY InitInvariant, NextInvariant, InvariantPays, PTL DEF Spec

(* The totals and the ledger disagree in the ways TotalsExplained names    *)
(* and in no others.                                                       *)
THEOREM LpTotalsExplained == Spec => []TotalsExplained
BY InitInvariant, NextInvariant, InvariantExplains, PTL DEF Spec
==============================================================================
