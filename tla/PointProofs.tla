---------------------------- MODULE PointProofs ----------------------------
(***************************************************************************)
(* Theorems about DirectPoint for every set of addresses and blocks, every *)
(* page and batch size and any number of crashes and failed statements;    *)
(* and about the computations of Formulas, which points are made of, for   *)
(* all sets of tokens, users, pairs and blocks.                            *)
(***************************************************************************)
EXTENDS DirectPoint, Formulas, DataTheorems, SequenceTheorems, TLAPS

------------------------------------------------------------------------------
(* Direct-hold points. *)

(* What holds while the worker is between the reads of a page and the last *)
(* statement of its writes: the totals read are still the totals stored,   *)
(* rows still to be written are in neither table, and rows whose credit is *)
(* still to be written are in the ledger only.                             *)
PageInFlight ==
  /\ wpc = "ledger" =>
       /\ \A a \in batch : snapshot[a] = credit[a] /\ credit[a][cur] = 0
       /\ \A a \in batch : (<<cur, a>> \in ledger) <=> (a \notin left)
  /\ wpc = "total" =>
       \A a \in left : /\ snapshot[a] = credit[a]
                       /\ credit[a][cur] = 0
                       /\ <<cur, a>> \in ledger

IInv == TypeOK /\ StakePointWithinLedger /\ MissingCreditExplained /\ PageInFlight

(* A statement writes some of the records left, and no others. *)
LEMMA NextBatchIsPart ==
  ASSUME NEW S
  PROVE  NextBatch(S) \subseteq S
BY DEF NextBatch

(* The initial tables and local variables have their types. *)
LEMMA InitTypeOK == Init => TypeOK
<1> USE BoundAssumption
<1>1. NoCredits \in [Addr -> [Block -> Nat]]
  BY DEF NoCredits
<1> QED
  BY <1>1 DEF Init, TypeOK, NoBlock

(* Every action keeps every variable in its range. *)
LEMMA NextTypeOK == TypeOK /\ [Next]_vars => TypeOK'
<1> SUFFICES ASSUME TypeOK, [Next]_vars PROVE TypeOK'
  OBVIOUS
<1> USE BoundAssumption, BlockAssumption, PairAssumption DEF TypeOK, NoBlock
<1>0. NoCredits \in [Addr -> [Block -> Nat]]
  BY DEF NoCredits
<1>1. ASSUME NEW b \in Block, IndexBalances(b) PROVE TypeOK'
  BY <1>1 DEF IndexBalances, tables, cron, worker, history
<1>prices. ASSUME NEW b \in Block, StorePrices(b) PROVE TypeOK'
  BY <1>prices DEF StorePrices, tables, cron, worker, history
<1>2. ASSUME NEW a \in PairAddr, RegisterPair(a) PROVE TypeOK'
  BY <1>2 DEF RegisterPair, tables, cron, worker, history
<1>3. CASE CronRead
  BY <1>3 DEF CronRead, outside, tables, worker, history
<1>4. CASE CronPrice
  BY <1>4 DEF CronPrice, tables, worker, history
<1>5. CASE CronSave
  BY <1>5 DEF CronSave, outside, tables, worker, history
<1>6. CASE Poll
  BY <1>0, <1>6 DEF Poll, Local, outside, tables, cron, history
<1>7. CASE StartBlock
  <2>1. UNCHANGED <<outside, status, tables, cron, history>>
    BY <1>7 DEF StartBlock
  <2>2. PICK b \in queue :
          \/ Local("page", queue \ {b}, b, 0, {}, {}, NoCredits, {})
          \/ Local("next", queue \ {b}, NoBlock, 0, {}, {}, NoCredits, {})
    BY <1>7 DEF StartBlock
  <2>3. b \in Block /\ queue \ {b} \subseteq Block
    OBVIOUS
  <2>4. CASE Local("page", queue \ {b}, b, 0, {}, {}, NoCredits, {})
    BY <1>0, <2>1, <2>3, <2>4 DEF Local, outside, tables, cron, history
  <2>5. CASE Local("next", queue \ {b}, NoBlock, 0, {}, {}, NoCredits, {})
    BY <1>0, <2>1, <2>3, <2>5 DEF Local, outside, tables, cron, history
  <2> QED
    BY <2>2, <2>4, <2>5
<1>8. CASE EndOfQueue
  BY <1>0, <1>8 DEF EndOfQueue, Local, outside, tables, cron, history
<1>9. CASE ReadPage
  <2> DEFINE todo == Uncredited(cur, PageOf(cur, page))
  <2>1. todo \subseteq Addr
    BY DEF Uncredited, PageOf, Holders
  <2>2. UNCHANGED <<outside, status, tables, cron, history>> /\ wpc = "page"
    BY <1>9 DEF ReadPage
  <2>3. \/ NextPage
        \/ Local("ledger", queue, cur, page, todo, todo, credit, counted \cup todo)
    BY <1>9 DEF ReadPage
  <2> HIDE DEF todo
  <2>4. CASE NextPage
    BY <1>0, <2>2, <2>4 DEF NextPage, Local, outside, tables, cron, history
  <2>5. CASE Local("ledger", queue, cur, page, todo, todo, credit, counted \cup todo)
    BY <2>1, <2>2, <2>5 DEF Local, outside, tables, cron, history
  <2> QED
    BY <2>3, <2>4, <2>5
<1>10. CASE EndOfPages
  BY <1>0, <1>10 DEF EndOfPages, Local, outside, tables, cron, history
<1>11. CASE WriteLedger
  <2>1. {<<cur, a>> : a \in NextBatch(left)} \subseteq Block \X Addr
    BY <1>11, NextBatchIsPart DEF WriteLedger
  <2> QED
    BY <1>11, <2>1 DEF WriteLedger, Local, outside, cron, history
<1>12. CASE WriteTotals
  <2> DEFINE rest == left \ NextBatch(left)
  <2>1. cur \in Block /\ wpc = "total"
    BY <1>12 DEF WriteTotals
  <2>2. \A a \in Addr : NewTotal(a) \in [Block -> Nat]
    BY <2>1 DEF NewTotal
  <2>3. credit' \in [Addr -> [Block -> Nat]]
    BY <1>12, <2>2 DEF WriteTotals
  <2>4. UNCHANGED <<ledger, holdingTvl, outside, status, cron, history>>
    BY <1>12 DEF WriteTotals
  <2>5. \/ NextPage
        \/ Local("total", queue, cur, page, batch, rest, snapshot, counted)
    BY <1>12 DEF WriteTotals
  <2>6. rest \subseteq batch
    OBVIOUS
  <2> HIDE DEF rest
  <2>7. CASE NextPage
    BY <1>0, <2>1, <2>3, <2>4, <2>7 DEF NextPage, Local, outside, cron, history
  <2>8. CASE Local("total", queue, cur, page, batch, rest, snapshot, counted)
    BY <2>1, <2>3, <2>4, <2>6, <2>8 DEF Local, outside, cron, history
  <2> QED
    BY <2>5, <2>7, <2>8
<1>13. CASE CacheTvl
  BY <1>0, <1>13 DEF CacheTvl, Local, outside, cron, history
<1>14. CASE MarkProcessed
  BY <1>0, <1>14 DEF MarkProcessed, LeaveBlock, Local, outside, tables, cron, history
<1>15. Cut \subseteq Block \X Addr
  BY DEF Cut
<1>16. CASE WriteFails
  BY <1>0, <1>15, <1>16 DEF WriteFails, NextPage, Local, outside, tables, cron
<1>17. CASE BlockFails
  BY <1>0, <1>17 DEF BlockFails, LeaveBlock, Local, outside, tables, cron
<1>18. CASE Crash
  BY <1>0, <1>15, <1>18 DEF Crash, Local, outside, tables
<1>19. CASE UNCHANGED vars
  BY <1>19 DEF vars, outside, tables, cron, worker, history
<1> QED
  BY <1>1, <1>2, <1>3, <1>4, <1>5, <1>6, <1>7, <1>8, <1>9, <1>10, <1>11, <1>12, <1>13,
     <1>14, <1>16, <1>17, <1>18, <1>19, <1>prices DEF Next, CronStep, WorkerStep

(* Every variable of the pipeline stays in its range. *)
THEOREM TypeCorrect == Spec => []TypeOK
<1>1. Init => TypeOK
  BY InitTypeOK
<1>2. TypeOK /\ [Next]_vars => TypeOK'
  BY NextTypeOK
<1> QED
  BY <1>1, <1>2, PTL DEF Spec

------------------------------------------------------------------------------
(* How the steps of the pipeline touch the two tables. *)

(* The worker is not between the two writes of a page. *)
Outside == wpc \notin {"ledger", "total"}

(* A step that leaves the worker and the tables alone. *)
LEMMA QuietStep ==
  ASSUME IInv, TypeOK', UNCHANGED <<ledger, credit, lost, worker>>
  PROVE  IInv'
BY DEF IInv, StakePointWithinLedger, MissingCreditExplained, PageInFlight, Cut, worker

(* A step of the worker from outside the writes to outside the writes. *)
LEMMA MoveStep ==
  ASSUME IInv, TypeOK', UNCHANGED <<ledger, credit, lost>>, Outside, Outside'
  PROVE  IInv'
<1>1. StakePointWithinLedger'
  BY DEF IInv, StakePointWithinLedger
<1>2. Cut = {}
  BY DEF Cut, Outside
<1>3. MissingCreditExplained'
  BY <1>2 DEF IInv, MissingCreditExplained
<1>4. PageInFlight'
  BY DEF PageInFlight, Outside
<1> QED
  BY <1>1, <1>3, <1>4 DEF IInv

(* A step that gives the page up: what it had begun is written off. *)
LEMMA CutStep ==
  ASSUME IInv, TypeOK', UNCHANGED <<ledger, credit>>, lost' = lost \cup Cut, Outside'
  PROVE  IInv'
<1>1. StakePointWithinLedger'
  BY DEF IInv, StakePointWithinLedger
<1>2. MissingCreditExplained'
  BY DEF IInv, MissingCreditExplained
<1>3. PageInFlight'
  BY DEF PageInFlight, Outside
<1> QED
  BY <1>1, <1>2, <1>3 DEF IInv

(* Reading a page: the rows to be written are in neither table. *)
LEMMA ReadPageStep ==
  ASSUME IInv, TypeOK', ReadPage
  PROVE  IInv'
<1> DEFINE todo == Uncredited(cur, PageOf(cur, page))
<1>1. wpc = "page" /\ UNCHANGED <<ledger, credit, lost>>
  BY DEF ReadPage, tables, history
<1>2. \A a \in todo : a \in Addr /\ <<cur, a>> \notin ledger
  BY DEF Uncredited, PageOf, Holders
<1>3. cur \in Block
  BY <1>1 DEF IInv, TypeOK, NoBlock
<1>4. \A a \in todo : credit[a][cur] = 0
  <2> SUFFICES ASSUME NEW a \in todo PROVE credit[a][cur] = 0
    OBVIOUS
  <2>1. a \in Addr /\ credit \in [Addr -> [Block -> Nat]]
    BY <1>2 DEF IInv, TypeOK
  <2>2. credit[a][cur] <= 0
    BY <1>2, <1>3 DEF IInv, StakePointWithinLedger
  <2> QED
    BY <1>3, <2>1, <2>2
<1>5. \/ NextPage
      \/ Local("ledger", queue, cur, page, todo, todo, credit, counted \cup todo)
  BY DEF ReadPage
<1> HIDE DEF todo
<1>6. CASE NextPage
  <2>1. Outside /\ Outside'
    BY <1>1, <1>6 DEF Outside, NextPage, Local
  <2> QED
    BY <1>1, <2>1, MoveStep
<1>7. CASE Local("ledger", queue, cur, page, todo, todo, credit, counted \cup todo)
  <2>1. /\ wpc' = "ledger" /\ cur' = cur
        /\ batch' = todo /\ left' = todo /\ snapshot' = credit
    BY <1>7 DEF Local
  <2>2. StakePointWithinLedger'
    BY <1>1 DEF IInv, StakePointWithinLedger
  <2>3. Cut = {}
    BY <1>1 DEF Cut
  <2>4. MissingCreditExplained'
    BY <1>1, <2>3 DEF IInv, MissingCreditExplained
  <2>5. \A a \in todo : snapshot'[a] = credit'[a] /\ credit'[a][cur'] = 0
    BY <1>1, <1>4, <2>1
  <2>6. \A a \in todo : (<<cur', a>> \in ledger') <=> (a \notin left')
    BY <1>1, <1>2, <2>1
  <2>7. PageInFlight'
    BY <2>1, <2>5, <2>6 DEF PageInFlight
  <2> QED
    BY <2>2, <2>4, <2>7 DEF IInv
<1> QED
  BY <1>5, <1>6, <1>7

(* One statement of the ledger: the new rows are cut until they are paid. *)
LEMMA WriteLedgerStep ==
  ASSUME IInv, TypeOK', WriteLedger
  PROVE  IInv'
<1> DEFINE some == NextBatch(left)
           rest == left \ some
<1>1. /\ wpc = "ledger" /\ UNCHANGED <<credit, lost>>
      /\ ledger' = ledger \cup {<<cur, a>> : a \in some}
  BY DEF WriteLedger, history
<1>2. some \subseteq left /\ left \subseteq batch /\ batch \subseteq Addr
  BY NextBatchIsPart DEF IInv, TypeOK
<1>3. /\ \A a \in batch : snapshot[a] = credit[a] /\ credit[a][cur] = 0
      /\ \A a \in batch : (<<cur, a>> \in ledger) <=> (a \notin left)
  BY <1>1 DEF IInv, PageInFlight
<1>4. /\ cur' = cur /\ batch' = batch /\ snapshot' = snapshot
      /\ \/ wpc' = "total" /\ left' = batch /\ rest = {}
         \/ wpc' = "ledger" /\ left' = rest
  BY DEF WriteLedger, Local
<1>5. cur \in Block
  BY <1>1 DEF IInv, TypeOK, NoBlock
<1> HIDE DEF some
<1>6. StakePointWithinLedger'
  <2> SUFFICES ASSUME NEW a \in Addr, NEW b \in Block
               PROVE  credit[a][b] <= IF <<b, a>> \in ledger' THEN 1 ELSE 0
    BY <1>1 DEF StakePointWithinLedger
  <2>1. credit[a][b] <= IF <<b, a>> \in ledger THEN 1 ELSE 0
    BY DEF IInv, StakePointWithinLedger
  <2>2. credit[a][b] \in Nat
    BY DEF IInv, TypeOK
  <2> QED
    BY <1>1, <2>1, <2>2
<1>7. Cut' = {<<cur, a>> : a \in (batch \ left) \cup some}
  BY <1>2, <1>4 DEF Cut
<1>8. MissingCreditExplained'
  <2> SUFFICES ASSUME NEW a \in Addr, NEW b \in Block,
                      <<b, a>> \in ledger', credit[a][b] = 0
               PROVE  <<b, a>> \in Cut' \cup lost
    BY <1>1 DEF MissingCreditExplained
  <2>1. CASE <<b, a>> \in ledger
    <3>1. <<b, a>> \in Cut \cup lost
      BY <2>1 DEF IInv, MissingCreditExplained
    <3>2. Cut = {<<cur, x>> : x \in batch \ left}
      BY <1>1 DEF Cut
    <3> QED
      BY <1>7, <3>1, <3>2
  <2>2. CASE <<b, a>> \in {<<cur, x>> : x \in some}
    BY <1>7, <2>2
  <2> QED
    BY <1>1, <2>1, <2>2
<1>9. \A a \in batch : (<<cur, a>> \in ledger') <=> (a \notin rest)
  BY <1>1, <1>2, <1>3
<1>10. PageInFlight'
  <2>1. CASE wpc' = "total" /\ left' = batch /\ rest = {}
    BY <1>1, <1>3, <1>4, <1>9, <2>1 DEF PageInFlight
  <2>2. CASE wpc' = "ledger" /\ left' = rest
    BY <1>1, <1>3, <1>4, <1>9, <2>2 DEF PageInFlight
  <2> QED
    BY <1>4, <2>1, <2>2
<1> QED
  BY <1>6, <1>8, <1>10 DEF IInv

------------------------------------------------------------------------------
(* What one statement of the totals does, as long as the totals it starts  *)
(* from are the ones in the table: it pays the rows for the first time.    *)
LEMMA WriteTotalsPays ==
  ASSUME IInv, WriteTotals
  PROVE  /\ cur \in Block
         /\ NextBatch(left) \subseteq left /\ left \subseteq Addr
         /\ \A a \in left : <<cur, a>> \in ledger /\ credit[a][cur] = 0
         /\ \A a \in left : snapshot[a] = credit[a]
         /\ credit' = [a \in Addr |-> IF a \in NextBatch(left)
                                      THEN [credit[a] EXCEPT ![cur] = 1]
                                      ELSE credit[a]]
<1>1. wpc = "total"
  BY DEF WriteTotals
<1>2. cur \in Block /\ left \subseteq Addr /\ credit \in [Addr -> [Block -> Nat]]
  BY <1>1 DEF IInv, TypeOK, NoBlock
<1>3. NextBatch(left) \subseteq left
  BY NextBatchIsPart
<1>4. \A a \in left : /\ <<cur, a>> \in ledger /\ credit[a][cur] = 0
                      /\ snapshot[a] = credit[a]
  BY <1>1 DEF IInv, PageInFlight
<1> DEFINE Paid(a) == [credit[a] EXCEPT ![cur] = 1]
<1>5. \A a \in left : NewTotal(a) = Paid(a)
  <2> SUFFICES ASSUME NEW a \in left PROVE NewTotal(a) = Paid(a)
    OBVIOUS
  <2>1. snapshot[a] = credit[a] /\ credit[a][cur] = 0
    BY <1>4
  <2>2. credit[a][cur] + 1 = 1
    BY <2>1
  <2> QED
    BY <2>1, <2>2 DEF NewTotal
<1> HIDE DEF Paid
<1>6. credit' = [a \in Addr |-> IF a \in NextBatch(left) THEN NewTotal(a) ELSE credit[a]]
  BY DEF WriteTotals
<1>7. credit' = [a \in Addr |-> IF a \in NextBatch(left) THEN Paid(a) ELSE credit[a]]
  BY <1>3, <1>5, <1>6
<1>8. credit' = [a \in Addr |-> IF a \in NextBatch(left)
                               THEN [credit[a] EXCEPT ![cur] = 1]
                               ELSE credit[a]]
  BY <1>7, Zenon DEF Paid
<1> QED
  BY <1>2, <1>3, <1>4, <1>8, Zenon

(* One statement of the totals: what is written is no longer cut.          *)
LEMMA WriteTotalsStep ==
  ASSUME IInv, TypeOK', WriteTotals
  PROVE  IInv'
<1> DEFINE some == NextBatch(left)
           rest == left \ some
<1>1. wpc = "total" /\ UNCHANGED <<ledger, lost>>
  BY DEF WriteTotals, history
<1>2. /\ cur \in Block /\ some \subseteq left /\ left \subseteq Addr
      /\ \A a \in left : <<cur, a>> \in ledger /\ credit[a][cur] = 0
      /\ \A a \in left : snapshot[a] = credit[a]
      /\ credit' = [a \in Addr |-> IF a \in some
                                   THEN [credit[a] EXCEPT ![cur] = 1]
                                   ELSE credit[a]]
  BY WriteTotalsPays
<1>3. \/ wpc' = "page" /\ rest = {}
      \/ /\ wpc' = "total" /\ cur' = cur /\ left' = rest
         /\ snapshot' = snapshot
  BY DEF WriteTotals, NextPage, Local
<1> HIDE DEF some
<1>4. credit \in [Addr -> [Block -> Nat]]
  BY DEF IInv, TypeOK
<1>5. \A a \in Addr, b \in Block :
        credit'[a][b] = IF a \in some /\ b = cur THEN 1 ELSE credit[a][b]
  BY <1>2, <1>4
<1>6. StakePointWithinLedger'
  <2> SUFFICES ASSUME NEW a \in Addr, NEW b \in Block
               PROVE  credit'[a][b] <= IF <<b, a>> \in ledger THEN 1 ELSE 0
    BY <1>1 DEF StakePointWithinLedger
  <2>1. credit[a][b] <= IF <<b, a>> \in ledger THEN 1 ELSE 0
    BY DEF IInv, StakePointWithinLedger
  <2> QED
    BY <1>2, <1>5, <2>1
<1>7. Cut = {<<cur, a>> : a \in left}
  BY <1>1 DEF Cut
<1>8. {<<cur, a>> : a \in rest} \subseteq Cut'
  BY <1>3 DEF Cut
<1>9. MissingCreditExplained'
  <2> SUFFICES ASSUME NEW a \in Addr, NEW b \in Block,
                      <<b, a>> \in ledger, credit'[a][b] = 0
               PROVE  <<b, a>> \in Cut' \cup lost
    BY <1>1 DEF MissingCreditExplained
  <2>1. ~(a \in some /\ b = cur) /\ credit[a][b] = 0
    BY <1>5
  <2>2. <<b, a>> \in Cut \cup lost
    BY <2>1 DEF IInv, MissingCreditExplained
  <2> QED
    BY <1>7, <1>8, <2>1, <2>2
<1>10. PageInFlight'
  <2>1. CASE wpc' = "page"
    BY <2>1 DEF PageInFlight
  <2>2. CASE /\ wpc' = "total" /\ cur' = cur /\ left' = rest
             /\ snapshot' = snapshot
    <3>1. \A a \in rest : a \in left /\ a \notin some /\ a \in Addr
      BY <1>2
    <3>2. \A a \in rest : credit'[a] = credit[a]
      BY <1>2, <3>1
    <3>3. \A a \in left' : /\ snapshot'[a] = credit'[a]
                          /\ credit'[a][cur'] = 0
                          /\ <<cur', a>> \in ledger'
      BY <1>1, <1>2, <2>2, <3>1, <3>2
    <3> QED
      BY <2>2, <3>3 DEF PageInFlight
  <2> QED
    BY <1>3, <2>1, <2>2
<1> QED
  BY <1>6, <1>9, <1>10 DEF IInv

------------------------------------------------------------------------------
(* The invariant holds on empty tables. *)
LEMMA InitIInv == Init => IInv
<1> SUFFICES ASSUME Init PROVE IInv
  OBVIOUS
<1>1. TypeOK
  BY InitTypeOK
<1>2. ledger = {} /\ wpc = "poll" /\ credit = NoCredits
  BY DEF Init
<1>3. StakePointWithinLedger
  BY <1>2 DEF StakePointWithinLedger, NoCredits
<1>4. MissingCreditExplained /\ PageInFlight
  BY <1>2 DEF MissingCreditExplained, PageInFlight
<1> QED
  BY <1>1, <1>3, <1>4 DEF IInv

(* The invariant is inductive: one step per action. *)
LEMMA NextIInv == IInv /\ [Next]_vars => IInv'
<1> SUFFICES ASSUME IInv, [Next]_vars PROVE IInv'
  OBVIOUS
<1>1. TypeOK'
  BY NextTypeOK DEF IInv
<1>2. ASSUME NEW b \in Block, IndexBalances(b) PROVE IInv'
  BY <1>1, <1>2, QuietStep DEF IndexBalances, tables, history
<1>prices. ASSUME NEW b \in Block, StorePrices(b) PROVE IInv'
  BY <1>1, <1>prices, QuietStep DEF StorePrices, tables, history
<1>3. ASSUME NEW a \in PairAddr, RegisterPair(a) PROVE IInv'
  BY <1>1, <1>3, QuietStep DEF RegisterPair, tables, history
<1>4. CASE CronRead
  BY <1>1, <1>4, QuietStep DEF CronRead, tables, history
<1>5. CASE CronPrice
  BY <1>1, <1>5, QuietStep DEF CronPrice, tables, history
<1>6. CASE CronSave
  BY <1>1, <1>6, QuietStep DEF CronSave, tables, history
<1>7. CASE Poll
  BY <1>1, <1>7, MoveStep DEF Poll, Local, Outside, tables, history
<1>8. CASE StartBlock
  <2>1. wpc = "next" /\ wpc' \in {"page", "next"} /\ UNCHANGED <<ledger, credit, lost>>
    BY <1>8 DEF StartBlock, Local, tables, history
  <2> QED
    BY <1>1, <2>1, MoveStep DEF Outside
<1>9. CASE EndOfQueue
  BY <1>1, <1>9, MoveStep DEF EndOfQueue, Local, Outside, tables, history
<1>10. CASE ReadPage
  BY <1>1, <1>10, ReadPageStep
<1>11. CASE EndOfPages
  BY <1>1, <1>11, MoveStep DEF EndOfPages, Local, Outside, tables, history
<1>12. CASE WriteLedger
  BY <1>1, <1>12, WriteLedgerStep
<1>13. CASE WriteTotals
  BY <1>1, <1>13, WriteTotalsStep
<1>14. CASE CacheTvl
  BY <1>1, <1>14, MoveStep DEF CacheTvl, Local, Outside, history
<1>15. CASE MarkProcessed
  BY <1>1, <1>15, MoveStep DEF MarkProcessed, LeaveBlock, Local, Outside, tables, history
<1>16. CASE WriteFails
  BY <1>1, <1>16, CutStep DEF WriteFails, NextPage, Local, Outside, tables
<1>17. CASE BlockFails
  BY <1>1, <1>17, MoveStep DEF BlockFails, LeaveBlock, Local, Outside, tables
<1>18. CASE Crash
  BY <1>1, <1>18, CutStep DEF Crash, Local, Outside, tables
<1>19. CASE UNCHANGED vars
  BY <1>1, <1>19, QuietStep DEF vars, tables, history
<1> QED
  BY <1>2, <1>3, <1>4, <1>5, <1>6, <1>7, <1>8, <1>9, <1>10, <1>11, <1>12, <1>13,
     <1>14, <1>15, <1>16, <1>17, <1>18, <1>19, <1>prices DEF Next, CronStep, WorkerStep

(* The invariant holds in every state. *)
LEMMA Inductive == Spec => []IInv
<1> QED
  BY InitIInv, NextIInv, PTL DEF Spec

(* The points of a block are in a total at most once and never without a   *)
(* ledger row, for any number of crashes, errors and re-opened blocks.     *)
THEOREM LedgerBoundsTotals == Spec => []StakePointWithinLedger
<1>1. IInv => StakePointWithinLedger
  BY DEF IInv
<1> QED
  BY <1>1, Inductive, PTL

(* Only a crash or an error between the two statements of updateHoldPoint  *)
(* can keep the points of a ledger row out of the total.                   *)
THEOREM OnlyACutLosesPoints == Spec => []MissingCreditExplained
<1>1. IInv => MissingCreditExplained
  BY DEF IInv
<1> QED
  BY <1>1, Inductive, PTL

------------------------------------------------------------------------------
(* Every action but the two writes leaves the tables alone. *)
LEMMA OnlyWritesTouchTables ==
  ASSUME [Next]_vars, ~WriteLedger, ~WriteTotals
  PROVE  UNCHANGED <<ledger, credit>>
BY DEF Next, CronStep, WorkerStep, IndexBalances, StorePrices, RegisterPair, CronRead, CronPrice,
       CronSave, Poll, StartBlock, EndOfQueue, ReadPage, EndOfPages, CacheTvl,
       MarkProcessed, WriteFails, BlockFails, Crash, vars, tables

(* No step takes points out of a total: the total that is written back was *)
(* computed from the total in the table.                                   *)
THEOREM TotalsOnlyGrow == Spec => StakePointNeverShrinks
<1> DEFINE Grows == \A a \in Addr, b \in Block : credit'[a][b] >= credit[a][b]
<1>1. IInv /\ [Next]_vars => [Grows]_credit
  <2> SUFFICES ASSUME IInv, [Next]_vars PROVE [Grows]_credit
    OBVIOUS
  <2>1. CASE WriteTotals
    <3>1. credit \in [Addr -> [Block -> Nat]]
      BY DEF IInv, TypeOK
    <3>2. \A a \in Addr, b \in Block : credit'[a][b] \in {1, credit[a][b]}
      BY <2>1, <3>1, WriteTotalsPays
    <3>3. ASSUME NEW a \in Addr, NEW b \in Block PROVE credit'[a][b] >= credit[a][b]
      <4>1. credit[a][b] <= IF <<b, a>> \in ledger THEN 1 ELSE 0
        BY DEF IInv, StakePointWithinLedger
      <4>2. credit[a][b] \in Nat /\ credit[a][b] <= 1
        BY <3>1, <4>1
      <4> QED
        BY <3>2, <4>2
    <3> QED
      BY <3>3
  <2>2. CASE WriteLedger
    BY <2>2 DEF WriteLedger
  <2>3. CASE ~WriteLedger /\ ~WriteTotals
    BY <2>3, OnlyWritesTouchTables
  <2> QED
    BY <2>1, <2>2, <2>3
<1> QED
  BY <1>1, Inductive, PTL DEF Spec, StakePointNeverShrinks

(* The pipeline implements the abstract ledger: a row is recorded once, a  *)
(* total takes a recorded row at most once, and no step does anything else.*)
THEOREM KeepsItsPromise == Spec => PromiseSpec
<1>1. Init => Promise!Init
  BY DEF Init, Promise!Init, NoCredits
<1>2. IInv /\ [Next]_vars => [Promise!Next]_Promise!ledgerVars
  <2> SUFFICES ASSUME IInv, [Next]_vars PROVE [Promise!Next]_Promise!ledgerVars
    OBVIOUS
  <2>1. CASE WriteLedger
    <3>1. wpc = "ledger" /\ UNCHANGED credit
      BY <2>1 DEF WriteLedger
    <3>2. cur \in Block /\ NextBatch(left) \subseteq Addr
      BY <3>1, NextBatchIsPart DEF IInv, TypeOK, NoBlock
    <3>3. \A a \in NextBatch(left) : <<cur, a>> \notin ledger
      BY <3>1, NextBatchIsPart DEF IInv, TypeOK, PageInFlight
    <3>4. ledger' = ledger \cup {<<cur, a>> : a \in NextBatch(left)}
      BY <2>1 DEF WriteLedger
    <3>5. Promise!Record(cur, NextBatch(left))
      BY <3>1, <3>2, <3>3, <3>4 DEF Promise!Record
    <3> QED
      BY <3>2, <3>5 DEF Promise!Next
  <2>2. CASE WriteTotals
    <3>1. cur \in Block /\ NextBatch(left) \subseteq Addr
      BY <2>2, WriteTotalsPays
    <3>2. Promise!Settle(cur, NextBatch(left))
      BY <2>2, WriteTotalsPays DEF Promise!Settle, WriteTotals
    <3> QED
      BY <3>1, <3>2 DEF Promise!Next
  <2>3. CASE ~WriteLedger /\ ~WriteTotals
    BY <2>3, OnlyWritesTouchTables DEF Promise!ledgerVars
  <2> QED
    BY <2>1, <2>2, <2>3
<1> QED
  BY <1>1, <1>2, Inductive, PTL DEF Spec, PromiseSpec, Promise!Spec


------------------------------------------------------------------------------
(* A block marked processed has paid. *)

(* What was to be entered of an address in a block is entered.             *)
Enters(rows, out, b, a) == a \in out \cup {AquaVault} \/ <<b, a>> \in rows
Entered(b, a) == Enters(ledger, pairs, b, a)

(* The pages before the one the worker is at are entered, of that page all *)
(* but what is left to be written, and when no page is left every holder.  *)
PagesEntered ==
  cur \notin swallowed =>
    /\ wpc \in {"page", "ledger", "total"} =>
         \A a \in Holders(cur) : Place(Holders(cur), a) <= page * PageLimit => Entered(cur, a)
    /\ wpc = "ledger" => \A a \in PageOf(cur, page) : a \in left \/ Entered(cur, a)
    /\ wpc = "total" => \A a \in PageOf(cur, page) : Entered(cur, a)
    /\ wpc \in {"cache", "mark"} => \A a \in Holders(cur) : Entered(cur, a)
DoneIsEntered ==
  \A b \in Block : (status[b] = "done" /\ b \notin swallowed) =>
    \A a \in Holders(b) : Entered(b, a)

Covered == PagesEntered /\ DoneIsEntered

(* Addresses are numbered, and page p is the addresses at the places from  *)
(* p times the limit on.                                                   *)
LEMMA HolderFacts ==
  ASSUME NEW b
  PROVE  /\ Holders(b) \subseteq Nat /\ IsFiniteSet(Holders(b)) /\ Holders(b) \subseteq Addr
         /\ \A a : Rank(Holders(b), a) = Place(Holders(b), a)
<1>1. Holders(b) \subseteq Addr
  BY DEF Holders
<1> QED
  BY <1>1, AddrAssumption, FS_Subset DEF Rank, Place

(* A page begins where the last one ended.                                 *)
LEMMA PageFacts ==
  ASSUME NEW b, NEW p \in Nat
  PROVE  /\ p * PageLimit \in Nat /\ (p + 1) * PageLimit = p * PageLimit + PageLimit
         /\ PageOf(b, p) = {a \in Holders(b) : /\ p * PageLimit < Place(Holders(b), a)
                                               /\ Place(Holders(b), a) <= (p + 1) * PageLimit}
         /\ PageOf(b, p) \subseteq Holders(b)
<1>1. p * PageLimit \in Nat /\ (p + 1) * PageLimit = p * PageLimit + PageLimit
  BY SizeAssumption
<1>2. PageOf(b, p) = {a \in Holders(b) : /\ p * PageLimit < Place(Holders(b), a)
                                         /\ Place(Holders(b), a) <= (p + 1) * PageLimit}
  BY HolderFacts DEF PageOf
<1> QED
  BY <1>1, <1>2

(* If a page and those before it are entered, the next can be read.        *)
LEMMA PageDone ==
  ASSUME NEW b, NEW p \in Nat,
         \A a \in Holders(b) : Place(Holders(b), a) <= p * PageLimit => Entered(b, a),
         \A a \in PageOf(b, p) : Entered(b, a)
  PROVE  \A a \in Holders(b) : Place(Holders(b), a) <= (p + 1) * PageLimit => Entered(b, a)
<1> SUFFICES ASSUME NEW a \in Holders(b), Place(Holders(b), a) <= (p + 1) * PageLimit
             PROVE  Entered(b, a)
  OBVIOUS
<1>1. Place(Holders(b), a) \in Nat /\ p * PageLimit \in Nat
  BY HolderFacts, PlaceFacts, PageFacts
<1>2. Place(Holders(b), a) <= p * PageLimit \/ a \in PageOf(b, p)
  BY <1>1, PageFacts
<1> QED
  BY <1>2

(* An empty page is behind the last holder.                                *)
LEMMA EmptyPageIsLast ==
  ASSUME NEW b, NEW p \in Nat, PageOf(b, p) = {}
  PROVE  \A a \in Holders(b) : Place(Holders(b), a) <= p * PageLimit
<1>1. \A a \in Holders(b) : ~ (/\ p * PageLimit < Place(Holders(b), a)
                              /\ Place(Holders(b), a) <= p * PageLimit + PageLimit)
  BY PageFacts
<1>2. p * PageLimit \in Nat /\ PageLimit \in Nat \ {0}
  BY PageFacts, SizeAssumption
<1> HIDE DEF Holders
<1> QED
  BY <1>1, <1>2, HolderFacts, PlacesHaveNoGaps

(* What is entered stays entered. *)
LEMMA TablesGrow ==
  ASSUME [Next]_vars
  PROVE  /\ pairs \subseteq pairs' /\ ledger \subseteq ledger' /\ swallowed \subseteq swallowed'
         /\ \A b, a : Entered(b, a) => Enters(ledger', pairs', b, a)
<1>1. pairs \subseteq pairs' /\ ledger \subseteq ledger' /\ swallowed \subseteq swallowed'
  BY DEF Next, CronStep, WorkerStep, IndexBalances, StorePrices, RegisterPair, CronRead, CronPrice,
       CronSave, Poll, StartBlock, EndOfQueue, ReadPage, EndOfPages, WriteLedger, WriteTotals,
       CacheTvl, MarkProcessed, WriteFails, BlockFails, Crash, vars, tables, outside, history
<1> QED
  BY <1>1 DEF Entered, Enters

(* A step that leaves the worker where it is. *)
LEMMA WorkerRests ==
  ASSUME [Next]_vars, PagesEntered, UNCHANGED worker
  PROVE  PagesEntered'
<1>1. /\ wpc' = wpc /\ cur' = cur /\ page' = page /\ left' = left
      /\ cur \notin swallowed' => cur \notin swallowed
  BY TablesGrow DEF worker
<1> QED
  BY <1>1, TablesGrow DEF PagesEntered, Entered

(* Before the first page there is nothing to have entered; between blocks  *)
(* neither.                                                                *)
LEMMA NothingToEnter ==
  ASSUME \/ wpc' \in {"poll", "next"}
         \/ wpc' = "page" /\ page' = 0
  PROVE  PagesEntered'
<1>1. CASE wpc' \in {"poll", "next"}
  BY <1>1 DEF PagesEntered
<1>2. CASE wpc' = "page" /\ page' = 0
  <2>1. page' * PageLimit = 0
    BY <1>2, SizeAssumption
  <2>2. \A a \in Holders(cur') : ~ (Place(Holders(cur'), a) <= 0)
    BY HolderFacts, PlaceFacts
  <2> QED
    BY <1>2, <2>1, <2>2 DEF PagesEntered
<1> QED
  BY <1>1, <1>2

(* The worker goes to the next page when it has entered this one, or lost  *)
(* a statement of it.                                                      *)
LEMMA NextPageStep ==
  ASSUME IInv, [Next]_vars, PagesEntered, NextPage, wpc \in {"page", "ledger", "total"},
         cur \notin swallowed' => \A a \in PageOf(cur, page) : Entered(cur, a)
  PROVE  PagesEntered'
<1>1. wpc' = "page" /\ cur' = cur /\ page' = page + 1 /\ page \in Nat
  BY DEF NextPage, Local, IInv, TypeOK
<1>2. cur \notin swallowed' =>
        \A a \in Holders(cur) :
          Place(Holders(cur), a) <= (page + 1) * PageLimit => Enters(ledger', pairs', cur, a)
  <2> SUFFICES ASSUME cur \notin swallowed'
               PROVE  \A a \in Holders(cur) :
                        Place(Holders(cur), a) <= (page + 1) * PageLimit
                          => Enters(ledger', pairs', cur, a)
    OBVIOUS
  <2>1. cur \notin swallowed
    BY TablesGrow
  <2>2. \A a \in Holders(cur) : Place(Holders(cur), a) <= page * PageLimit => Entered(cur, a)
    BY <2>1 DEF PagesEntered
  <2>3. \A a \in Holders(cur) :
          Place(Holders(cur), a) <= (page + 1) * PageLimit => Entered(cur, a)
    BY <1>1, <2>2, PageDone
  <2> QED
    BY <2>3, TablesGrow
<1> QED
  BY <1>1, <1>2 DEF PagesEntered, Entered

(* The worker keeps its pages, one step per action of it.                  *)
LEMMA NextPagesEntered == IInv /\ PagesEntered /\ [Next]_vars => PagesEntered'
<1> SUFFICES ASSUME IInv, PagesEntered, [Next]_vars PROVE PagesEntered'
  OBVIOUS
<1>0. page \in Nat /\ left \subseteq batch
  BY DEF IInv, TypeOK
<1>1. CASE \E b \in Block : IndexBalances(b) \/ StorePrices(b)
  BY <1>1, WorkerRests DEF IndexBalances, StorePrices
<1>2. CASE \E a \in PairAddr : RegisterPair(a)
  BY <1>2, WorkerRests DEF RegisterPair
<1>3. CASE CronStep
  BY <1>3, WorkerRests DEF CronStep, CronRead, CronPrice, CronSave
<1>4. CASE Poll \/ EndOfQueue \/ MarkProcessed \/ BlockFails \/ Crash
  BY <1>4, NothingToEnter DEF Poll, EndOfQueue, MarkProcessed, BlockFails, Crash, LeaveBlock, Local
<1>5. CASE StartBlock
  <2>1. wpc' = "next" \/ (wpc' = "page" /\ page' = 0)
    BY <1>5 DEF StartBlock, Local
  <2> QED
    BY <2>1, NothingToEnter
<1>6. CASE ReadPage
  <2> DEFINE todo == Uncredited(cur, PageOf(cur, page))
  <2>1. wpc = "page" /\ UNCHANGED <<ledger, pairs, swallowed>>
    BY <1>6 DEF ReadPage, outside, tables, history
  <2>2. \A a \in PageOf(cur, page) : a \in todo \/ Entered(cur, a)
    BY DEF Uncredited, Entered, Enters
  <2>3. \/ todo = {} /\ NextPage
        \/ Local("ledger", queue, cur, page, todo, todo, credit, counted \cup todo)
    BY <1>6 DEF ReadPage
  <2> HIDE DEF todo
  <2>4. CASE todo = {} /\ NextPage
    BY <2>1, <2>2, <2>4, NextPageStep
  <2>5. CASE Local("ledger", queue, cur, page, todo, todo, credit, counted \cup todo)
    <3>1. wpc' = "ledger" /\ cur' = cur /\ page' = page /\ left' = todo
      BY <2>5 DEF Local
    <3> QED
      BY <2>1, <2>2, <3>1 DEF PagesEntered, Entered
  <2> QED
    BY <2>3, <2>4, <2>5
<1>7. CASE EndOfPages
  <2>1. wpc = "page" /\ PageOf(cur, page) = {} /\ wpc' = "cache" /\ cur' = cur
        /\ UNCHANGED <<ledger, pairs, swallowed>>
    BY <1>7 DEF EndOfPages, Local, outside, tables, history
  <2>2. \A a \in Holders(cur) : Place(Holders(cur), a) <= page * PageLimit
    BY <1>0, <2>1, EmptyPageIsLast
  <2> QED
    BY <2>1, <2>2 DEF PagesEntered, Entered
<1>8. CASE WriteLedger
  <2> DEFINE some == NextBatch(left)
             rest == left \ some
  <2>1. /\ wpc = "ledger" /\ UNCHANGED <<pairs, swallowed>>
        /\ ledger' = ledger \cup {<<cur, a>> : a \in some}
    BY <1>8 DEF WriteLedger, outside, history
  <2>2. /\ cur' = cur /\ page' = page
        /\ \/ wpc' = "total" /\ rest = {}
           \/ wpc' = "ledger" /\ left' = rest
    BY <1>8 DEF WriteLedger, Local
  <2> HIDE DEF some
  <2>3. \A a \in left : a \in rest \/ Enters(ledger', pairs', cur, a)
    BY <2>1 DEF Enters
  <2>4. \A a \in PageOf(cur, page) :
          cur \notin swallowed => a \in rest \/ Enters(ledger', pairs', cur, a)
    BY <2>1, <2>3, TablesGrow DEF PagesEntered
  <2>5. \A a \in Holders(cur) :
          cur \notin swallowed /\ Place(Holders(cur), a) <= page * PageLimit
            => Enters(ledger', pairs', cur, a)
    BY <2>1, TablesGrow DEF PagesEntered
  <2> QED
    BY <2>1, <2>2, <2>4, <2>5 DEF PagesEntered, Entered
<1>9. CASE WriteTotals
  <2>1. wpc = "total" /\ UNCHANGED <<ledger, pairs, swallowed>>
    BY <1>9 DEF WriteTotals, outside, history
  <2>2. NextPage \/ (wpc' = "total" /\ cur' = cur /\ page' = page)
    BY <1>9 DEF WriteTotals, Local
  <2>3. CASE NextPage
    <3>1. cur \notin swallowed' => \A a \in PageOf(cur, page) : Entered(cur, a)
      BY <2>1 DEF PagesEntered
    <3> QED
      BY <2>1, <2>3, <3>1, NextPageStep
  <2>4. CASE wpc' = "total" /\ cur' = cur /\ page' = page
    BY <2>1, <2>4 DEF PagesEntered, Entered
  <2> QED
    BY <2>2, <2>3, <2>4
<1>10. CASE CacheTvl
  <2>1. /\ wpc = "cache" /\ wpc' = "mark" /\ cur' = cur
        /\ UNCHANGED <<ledger, pairs, swallowed>>
    BY <1>10 DEF CacheTvl, Local, outside, history
  <2> QED
    BY <2>1 DEF PagesEntered, Entered
<1>11. CASE WriteFails
  <2>1. wpc \in {"ledger", "total"} /\ NextPage /\ cur \in swallowed'
    BY <1>11 DEF WriteFails
  <2> QED
    BY <2>1, NextPageStep
<1>12. CASE UNCHANGED vars
  BY <1>12, WorkerRests DEF vars
<1> QED
  BY <1>1, <1>2, <1>3, <1>4, <1>5, <1>6, <1>7, <1>8, <1>9, <1>10, <1>11, <1>12
     DEF Next, WorkerStep

(* A block is marked when all its holders are entered. *)
LEMMA NextDone == IInv /\ Covered /\ [Next]_vars => DoneIsEntered'
<1> SUFFICES ASSUME IInv, Covered, [Next]_vars,
                    NEW b \in Block, status'[b] = "done", b \notin swallowed', NEW a \in Holders(b)
             PROVE  Enters(ledger', pairs', b, a)
  BY DEF DoneIsEntered, Entered
<1>1. b \notin swallowed
  BY TablesGrow
<1>2. CASE status[b] = "done"
  BY <1>1, <1>2, TablesGrow DEF Covered, DoneIsEntered
<1>3. CASE status[b] # "done"
  <2>1. MarkProcessed \/ CronSave
    BY <1>3 DEF Next, CronStep, WorkerStep, IndexBalances, StorePrices, RegisterPair, CronRead,
         CronPrice, Poll, StartBlock, EndOfQueue, ReadPage, EndOfPages, WriteLedger, WriteTotals,
         CacheTvl, WriteFails, BlockFails, Crash, vars
  <2>2. CASE CronSave
    BY <1>3, <2>2 DEF CronSave, IInv, TypeOK
  <2>3. CASE MarkProcessed
    <3>1. wpc = "mark" /\ b = cur
      BY <1>3, <2>3 DEF MarkProcessed, IInv, TypeOK
    <3>2. Entered(b, a)
      BY <1>1, <3>1 DEF Covered, PagesEntered
    <3> QED
      BY <3>2, TablesGrow
  <2> QED
    BY <2>1, <2>2, <2>3
<1> QED
  BY <1>2, <1>3

(* A block marked processed has paid every holder that is not a pair and   *)
(* not the vault, unless an error of it was swallowed or a crash or an     *)
(* error cut a row off: for any number of holders and any page size.       *)
THEOREM ProcessedBlocksArePaid == Spec => []ProcessedMeansPaid
<1>1. Init => Covered
  BY DEF Init, Covered, PagesEntered, DoneIsEntered
<1>2. IInv /\ Covered /\ [Next]_vars => Covered'
  BY NextPagesEntered, NextDone DEF Covered
<1>3. IInv /\ Covered => ProcessedMeansPaid
  <2> SUFFICES ASSUME IInv, Covered, NEW b \in Block, status[b] = "done", b \notin swallowed,
                      NEW a \in Holders(b), a \notin pairs \cup {AquaVault}
               PROVE  <<b, a>> \in ledger /\ (credit[a][b] = 1 \/ <<b, a>> \in Cut \cup lost)
    BY DEF ProcessedMeansPaid
  <2>1. <<b, a>> \in ledger /\ a \in Addr
    BY HolderFacts DEF Covered, DoneIsEntered, Entered, Enters
  <2>2. credit[a][b] <= 1 /\ credit[a][b] \in Nat
    BY <2>1 DEF IInv, TypeOK, StakePointWithinLedger
  <2>3. credit[a][b] = 0 => <<b, a>> \in Cut \cup lost
    BY <2>1 DEF IInv, MissingCreditExplained
  <2>4. credit[a][b] = 0 \/ credit[a][b] = 1
    BY <2>2
  <2> QED
    BY <2>1, <2>3, <2>4
<1> QED
  BY <1>1, <1>2, <1>3, Inductive, PTL DEF Spec
------------------------------------------------------------------------------
(* Prices. *)

(* A sum of nothings. *)
LEMMA SumOfNothing ==
  ASSUME NEW f, NEW S, IsFiniteSet(S), \A x \in S : f[x] = 0
  PROVE  SumOver(f, S) = 0
<1>1. SumOver(f, S) = 0 * Cardinality(S) /\ Cardinality(S) \in Nat
  BY SumOfEqual, FS_CardinalityType
<1> QED
  BY <1>1

(* At prices p the balances b with the weights w come to the sum of what   *)
(* each is worth.                                                          *)
Worth(b, w, p) == [t \in Token |-> b[t] * TokenPrice(t, p) * w[t]]

(* A worth is a number. *)
LEMMA WorthFacts ==
  ASSUME NEW b \in [Token -> Nat], NEW w \in [Token -> Nat], NEW p \in [AllPriceIds -> Nat]
  PROVE  /\ Worth(b, w, p) \in [Token -> Nat]
         /\ \A t \in Token : b[t] = 0 \/ w[t] = 0 => Worth(b, w, p)[t] = 0
         /\ Dollars(b, w, p) = SumOver(Worth(b, w, p), Token) /\ IsFiniteSet(Token)
<1>1. ASSUME NEW t \in Token PROVE TokenPrice(t, p) \in Nat
  BY DEF TokenPrice, AllPriceIds
<1>2. ASSUME NEW t \in Token
      PROVE  /\ b[t] * TokenPrice(t, p) * w[t] \in Nat
             /\ b[t] = 0 \/ w[t] = 0 => b[t] * TokenPrice(t, p) * w[t] = 0
  <2>1. b[t] \in Nat /\ w[t] \in Nat /\ TokenPrice(t, p) \in Nat
    BY <1>1
  <2>2. \A x, y, z \in Nat : x * y * z \in Nat /\ (x = 0 \/ z = 0 => x * y * z = 0)
    OBVIOUS
  <2> QED
    BY <2>1, <2>2
<1>3. Worth(b, w, p) \in [Token -> Nat]
  BY <1>2 DEF Worth
<1>4. \A t \in Token : b[t] = 0 \/ w[t] = 0 => Worth(b, w, p)[t] = 0
  BY <1>2 DEF Worth
<1> QED
  BY <1>3, <1>4, FormulaAssumption DEF Dollars, Worth

(* What a worth is asked of. *)
WorthAsked(a) ==
  /\ a.prices \in [AllPriceIds -> Nat] /\ a.priced \subseteq AllPriceIds
  /\ a.balances \in [Token -> Nat] /\ a.booster \in Partial(Token, Nat)

(* The weights of the tokens, and the prices that the worker of the pools  *)
(* goes by.                                                                *)
Weights(a) == [t \in Token |-> PoolTokenBooster(a.booster, t)]
Assumed(a) == LpPrices(Restrict(a.prices, a.priced))

(* They are numbers, and a price that is stored is the true one.           *)
LEMMA AssumedFacts ==
  ASSUME NEW a, WorthAsked(a)
  PROVE  /\ Weights(a) \in [Token -> Nat]
         /\ \A t \in Token \ DOMAIN a.booster : Weights(a)[t] = 0
         /\ Assumed(a) \in [AllPriceIds -> Nat]
         /\ \A t \in AllPriceIds : Assumed(a)[t] = IF t \in a.priced THEN a.prices[t] ELSE 1
<1>1. PICK E \in SUBSET Token : a.booster \in [E -> Nat]
  BY DEF WorthAsked, Partial
<1>2. \A t \in Token : PoolTokenBooster(a.booster, t) \in Nat
  BY <1>1 DEF PoolTokenBooster
<1>3. \A t \in Token \ DOMAIN a.booster : PoolTokenBooster(a.booster, t) = 0
  BY DEF PoolTokenBooster
<1>4. /\ DOMAIN Restrict(a.prices, a.priced) = a.priced
      /\ \A t \in a.priced : Restrict(a.prices, a.priced)[t] = a.prices[t]
  BY DEF Restrict
<1>5. \A t \in AllPriceIds : Assumed(a)[t] = IF t \in a.priced THEN a.prices[t] ELSE 1
  BY <1>4 DEF Assumed, LpPrices
<1>6. Assumed(a) \in [AllPriceIds -> Nat]
  BY <1>4 DEF Assumed, LpPrices, WorthAsked
<1> QED
  BY <1>2, <1>3, <1>5, <1>6 DEF Weights

(* The worker of the pools counts what that of the holders would, and what *)
(* is true unless a price that matters is missing: whatever the tokens,    *)
(* the balances, the weights and the prices.                               *)
LEMMA WorthsAgree ==
  ASSUME NEW a, WorthAsked(a)
  PROVE  WorthAgrees(a)
<1> DEFINE b == a.balances
           w == Weights(a)
           p == Assumed(a)
           q == a.prices
           counts(t) == b[t] > 0 /\ t \in DOMAIN a.booster
           missing(t) == t \in AllPriceIds \ a.priced
           stored == Restrict(a.prices, a.priced)
           hold == HoldPrices(stored)
<1>1. /\ b \in [Token -> Nat] /\ w \in [Token -> Nat] /\ p \in [AllPriceIds -> Nat]
      /\ q \in [AllPriceIds -> Nat] /\ Eth \in AllPriceIds /\ Eth \in Token
      /\ \A t \in Token \ DOMAIN a.booster : w[t] = 0
      /\ \A t \in AllPriceIds : p[t] = IF t \in a.priced THEN q[t] ELSE 1
  BY AssumedFacts, PriceAssumption DEF WorthAsked, AllPriceIds
<1>2. /\ LpBasePoint(b, a.booster, p) = <<Dollars(b, w, p), p[Eth]>>
      /\ LpBasePoint(b, a.booster, q) = <<Dollars(b, w, q), q[Eth]>>
  BY DEF LpBasePoint, EthPrice, Weights
<1>3. hold # <<>> => LpBasePoint(b, a.booster, p) = HoldBasePoint(b, w, hold[1])
  <2> SUFFICES ASSUME hold # <<>> PROVE LpBasePoint(b, a.booster, p) = HoldBasePoint(b, w, hold[1])
    OBVIOUS
  <2>1. AllPriceIds \subseteq DOMAIN stored /\ hold[1] = Restrict(stored, AllPriceIds)
    BY DEF HoldPrices
  <2>2. p = [t \in AllPriceIds |-> stored[t]]
    BY <2>1 DEF Assumed, LpPrices
  <2>3. p = hold[1]
    BY <2>1, <2>2 DEF Restrict
  <2> QED
    BY <1>2, <2>3 DEF HoldBasePoint, EthPrice
<1> DEFINE X == Worth(b, w, p)
           Y == Worth(b, w, q)
<1>4. /\ X \in [Token -> Nat] /\ Y \in [Token -> Nat] /\ IsFiniteSet(Token)
      /\ Dollars(b, w, p) = SumOver(X, Token) /\ Dollars(b, w, q) = SumOver(Y, Token)
      /\ \A t \in Token : b[t] = 0 \/ w[t] = 0 => X[t] = 0 /\ Y[t] = 0
  <2> HIDE DEF b, w, p, q
  <2> QED
    BY <1>1, WorthFacts
<1>5. ASSUME \A t \in Token \ {Eth} : ~(counts(t) /\ (missing(t) \/ missing(Eth)))
      PROVE  SumOver(X, Token) * q[Eth] = SumOver(Y, Token) * p[Eth]
  <2>1. CASE missing(Eth)
    <3>1. \A t \in Token \ {Eth} : X[t] = 0 /\ Y[t] = 0
      <4>1. \A t \in Token \ {Eth} : b[t] = 0 \/ w[t] = 0
        <5> SUFFICES ASSUME NEW t \in Token \ {Eth}, b[t] # 0 PROVE w[t] = 0
          OBVIOUS
        <5>1. b[t] > 0
          BY <1>1
        <5>2. t \notin DOMAIN a.booster
          BY <1>5, <2>1, <5>1
        <5> QED
          BY <1>1, <5>2
      <4> QED
        BY <1>4, <4>1
    <3> HIDE DEF X, Y
    <3>2. IsFiniteSet(Token \ {Eth})
      BY <1>4, FS_Subset
    <3>3. SumOver(X, Token \ {Eth}) = 0 /\ SumOver(Y, Token \ {Eth}) = 0
      BY <3>1, <3>2, SumOfNothing
    <3>4. /\ SumOver(X, Token) = X[Eth] + SumOver(X, Token \ {Eth})
          /\ SumOver(Y, Token) = Y[Eth] + SumOver(Y, Token \ {Eth})
      BY <1>1, <1>4, SumRemove
    <3>5. X[Eth] = b[Eth] * p[Eth] * w[Eth] /\ Y[Eth] = b[Eth] * q[Eth] * w[Eth]
      BY <1>1 DEF X, Y, Worth, TokenPrice, AllPriceIds
    <3>6. p[Eth] \in Nat /\ q[Eth] \in Nat /\ b[Eth] \in Nat /\ w[Eth] \in Nat
      BY <1>1
    <3> HIDE DEF b, w, p, q
    <3>7. \A k, l, m, n \in Nat : (k * l * m) * n = (k * n * m) * l
      OBVIOUS
    <3>8. X[Eth] + 0 = X[Eth] /\ Y[Eth] + 0 = Y[Eth]
      BY <1>1, <1>4
    <3> QED
      BY <3>3, <3>4, <3>5, <3>6, <3>7, <3>8
  <2>2. CASE ~missing(Eth)
    <3>1. p[Eth] = q[Eth]
      BY <1>1, <2>2
    <3>2. \A t \in Token : X[t] = Y[t]
      <4> SUFFICES ASSUME NEW t \in Token PROVE X[t] = Y[t]
        OBVIOUS
      <4>1. CASE b[t] = 0 \/ w[t] = 0
        BY <1>4, <4>1
      <4>2. CASE b[t] # 0 /\ w[t] # 0
        <5>1. counts(t)
          BY <1>1, <4>2
        <5>2. ~missing(t)
          BY <1>5, <2>2, <5>1
        <5>3. TokenPrice(t, p) = TokenPrice(t, q)
          BY <1>1, <5>2 DEF TokenPrice, AllPriceIds
        <5> QED
          BY <5>3 DEF Worth
      <4> QED
        BY <4>1, <4>2
    <3> HIDE DEF X, Y
    <3>3. SumOver(X, Token) = SumOver(Y, Token)
      BY <1>4, <3>2, SumSame
    <3> QED
      BY <3>1, <3>3
  <2> QED
    BY <2>1, <2>2
<1>6. \/ SumOver(X, Token) * q[Eth] = SumOver(Y, Token) * p[Eth]
      \/ \E t \in Token \ {Eth} : counts(t) /\ (missing(t) \/ missing(Eth))
  <2> HIDE DEF counts, missing, X, Y, p, q
  <2> QED
    BY <1>5
<1>7. <<Dollars(b, w, p), p[Eth]>>[1] = Dollars(b, w, p) /\ <<Dollars(b, w, p), p[Eth]>>[2] = p[Eth]
      /\ <<Dollars(b, w, q), q[Eth]>>[1] = Dollars(b, w, q) /\ <<Dollars(b, w, q), q[Eth]>>[2] = q[Eth]
  OBVIOUS
<1>8. LET lp == LpBasePoint(b, a.booster, p)
          real == LpBasePoint(b, a.booster, q)
      IN  \/ lp[1] * real[2] = real[1] * lp[2]
          \/ \E t \in Token \ {Eth} : counts(t) /\ (missing(t) \/ missing(Eth))
  <2> HIDE DEF counts, missing, X, Y, p, q, b, w
  <2> QED
    BY <1>2, <1>4, <1>6, <1>7
<1> QED
  BY <1>3, <1>8 DEF WorthAgrees, Assumed, Weights

(* A chart of any length. *)
IsChart(c) == c \in Seq(Nat) /\ Ascending(c)

(* Nothing in a chart is later than its last time. *)
LEMMA ChartFacts ==
  ASSUME NEW c, IsChart(c), c # <<>>
  PROVE  /\ Last(c) \in Nat /\ Len(c) \in DOMAIN c /\ Last(c) = c[Len(c)]
         /\ \A i \in DOMAIN c : c[i] \in Nat /\ c[i] <= Last(c)
<1>1. c \in Seq(Nat) /\ Len(c) \in Nat /\ DOMAIN c = 1..Len(c) /\ \A i \in 1..Len(c) : c[i] \in Nat
  BY DEF IsChart
<1>2. Len(c) # 0
  BY <1>1
<1>3. Len(c) \in DOMAIN c /\ Last(c) = c[Len(c)]
  BY <1>1, <1>2 DEF Last
<1>4. ASSUME NEW i \in DOMAIN c PROVE c[i] <= c[Len(c)]
  <2>1. i = Len(c) \/ i < Len(c)
    BY <1>1
  <2>2. i < Len(c) => c[i] < c[Len(c)]
    BY <1>3 DEF IsChart, Ascending
  <2> QED
    BY <1>1, <1>3, <2>1, <2>2
<1> QED
  BY <1>1, <1>3, <1>4

(* A quotient, rounded down. *)
LEMMA QuotientFacts ==
  ASSUME NEW t \in Nat, NEW h \in Nat, h > 0
  PROVE  t \div h \in Nat /\ h * (t \div h) <= t /\ t < h * (t \div h) + h
OBVIOUS

(* Two times of one hour are less than an hour apart. *)
LEMMA HourFacts ==
  ASSUME NEW t \in Nat, NEW ts \in Nat, InHour(t, ts)
  PROVE  t + Hour > ts
<1>1. Hour \in Nat /\ Hour > 0 /\ t \div Hour = ts \div Hour
  BY PriceAssumption DEF InHour
<1>2. PICK q \in Nat : q = t \div Hour
  BY <1>1, QuotientFacts
<1>3. Hour * q <= t /\ ts < Hour * q + Hour
  BY <1>1, <1>2, QuotientFacts
<1>4. Hour * q \in Nat
  BY <1>1
<1> QED
  BY <1>1, <1>3, <1>4

(* A block gets no price that is an hour old, and none only if there is    *)
(* none: whatever the cached chart, the answer, the block and the hour.    *)
LEMMA ServedPricesAreFresh ==
  ASSUME NEW cached, IsChart(cached), NEW answer, NEW ts \in Nat,
         answer = <<>> \/ \E c : IsChart(c) /\ answer = <<c>>
  PROVE  PriceAgrees(cached, answer, ts)
<1> DEFINE p == PriceAt(cached, answer, ts)
           hit == FromCache(cached, ts)
           hour == {i \in DOMAIN cached : InHour(cached[i], ts)}
<1>0. Hour \in Nat /\ Hour > 0 /\ Expiration \in Nat /\ Expiration <= Hour
  BY PriceAssumption
<1>1. DOMAIN cached \subseteq Nat /\ \A i \in DOMAIN cached : cached[i] \in Nat
  BY DEF IsChart
<1>2. CASE hour # {}
  <2>1. Min(hour) \in hour
    <3>1. \E i \in hour : \A j \in hour : i <= j
      <4> HIDE DEF hour
      <4>1. hour \subseteq Nat
        BY <1>1 DEF hour
      <4> QED
        BY <1>2, <4>1, LeastNumber
    <3> HIDE DEF hour
    <3> QED
      BY <3>1 DEF Min
  <2>2. hit = <<cached[Min(hour)]>>
    BY <1>2 DEF FromCache
  <2>3. p = <<cached[Min(hour)]>>
    BY <2>2 DEF PriceAt
  <2>4. cached[Min(hour)] + Hour > ts
    BY <1>1, <2>1, HourFacts
  <2>5. p # <<>> /\ p[1] + Hour > ts
    BY <2>3, <2>4
  <2> QED
    BY <2>5 DEF PriceAgrees
<1>3. CASE hour = {} /\ cached # <<>> /\ Last(cached) + Expiration > ts
  <2>1. p = <<Last(cached)>>
    BY <1>3 DEF PriceAt, FromCache
  <2>2. Last(cached) + Hour > ts
    BY <1>0, <1>3, ChartFacts
  <2>3. p # <<>> /\ p[1] + Hour > ts
    BY <2>1, <2>2
  <2> QED
    BY <2>3 DEF PriceAgrees
<1>4. CASE hour = {} /\ ~(cached # <<>> /\ Last(cached) + Expiration > ts)
  <2>1. p = FromProvider(answer, ts)
    BY <1>4 DEF PriceAt, FromCache
  <2>2. \A i \in DOMAIN cached : cached[i] < ts
    <3> SUFFICES ASSUME NEW i \in DOMAIN cached PROVE cached[i] < ts
      OBVIOUS
    <3>1. cached # <<>>
      OBVIOUS
    <3>2. cached[i] <= Last(cached) /\ Last(cached) \in Nat /\ cached[i] \in Nat
      BY <3>1, ChartFacts
    <3>3. ~(Last(cached) + Expiration > ts) /\ Expiration >= 1
      BY <1>4, <3>1, PriceAssumption
    <3> QED
      BY <1>0, <3>2, <3>3
  <2>3. CASE answer = <<>>
    <3>1. p = <<>>
      BY <2>1, <2>3 DEF FromProvider
    <3> QED
      BY <2>2, <2>3, <3>1 DEF PriceAgrees
  <2>4. ASSUME NEW c, IsChart(c), answer = <<c>> PROVE PriceAgrees(cached, answer, ts)
    <3>1. answer # <<>> /\ answer[1] = c /\ (answer = <<<<>>>> <=> c = <<>>)
      BY <2>4
    <3>2. CASE c = <<>>
      <4>1. p = <<>> /\ DOMAIN c = {}
        BY <2>1, <3>1, <3>2 DEF FromProvider
      <4> QED
        BY <2>2, <3>1, <4>1 DEF PriceAgrees
    <3>3. CASE c # <<>> /\ Last(c) + Hour <= ts
      <4>1. p = <<>>
        BY <2>1, <3>1, <3>3 DEF FromProvider
      <4>2. \A i \in DOMAIN c : ~(c[i] + Hour > ts)
        BY <1>0, <2>4, <3>3, ChartFacts
      <4> QED
        BY <2>2, <3>1, <4>1, <4>2 DEF PriceAgrees
    <3>4. CASE c # <<>> /\ ~(Last(c) + Hour <= ts)
      <4>1. p = <<Last(c)>>
        BY <2>1, <3>1, <3>4 DEF FromProvider
      <4>2. Last(c) + Hour > ts
        BY <1>0, <2>4, <3>4, ChartFacts
      <4>3. p # <<>> /\ p[1] + Hour > ts
        BY <4>1, <4>2
      <4> QED
        BY <4>3 DEF PriceAgrees
    <3> QED
      BY <3>2, <3>3, <3>4
  <2> QED
    BY <2>3, <2>4
<1> QED
  BY <1>2, <1>3, <1>4

(* Numbers by induction. *)
LEMMA NumberInduction ==
  ASSUME NEW P, 0 \in P, \A n \in Nat : n \in P => n + 1 \in P
  PROVE  \A n \in Nat : n \in P
<1> DEFINE Bad == {n \in Nat : n \notin P}
<1>1. ASSUME Bad # {} PROVE FALSE
  <2>1. PICK n \in Bad : \A m \in Bad : n <= m
    BY <1>1, LeastNumber
  <2>2. n \in Nat /\ n # 0 /\ n - 1 \in Nat /\ ~(n <= n - 1) /\ (n - 1) + 1 = n
    BY <2>1
  <2>3. n - 1 \in P
    BY <2>1, <2>2
  <2> QED
    BY <2>1, <2>2, <2>3
<1> QED
  BY <1>1

(* The attempts counted up to each of the first n answers. *)
IsCount(rs, n, g) == g = [i \in 0..n |-> IF i = 0 THEN 0 ELSE NextAttempt(rs[i], g[i - 1])]
Counted(rs) == CHOOSE g : IsCount(rs, Len(rs), g)
Decided(rs) ==
  {i \in DOMAIN rs : rs[i] \in {200, 404} \/ (rs[i] # 429 /\ Counted(rs)[i - 1] >= Attempts)}

(* A request in these words. *)
LEMMA RequestByCount ==
  ASSUME NEW rs
  PROVE  Request(rs) = IF Decided(rs) = {} THEN "waiting"
                       ELSE IF rs[Min(Decided(rs))] = 200 THEN "chart" ELSE "null"
BY DEF Request, Decided, Counted, IsCount

(* There is such a count. *)
LEMMA CountExists ==
  ASSUME NEW rs
  PROVE  \A n \in Nat : \E g : IsCount(rs, n, g)
<1> DEFINE P == {n \in Nat : \E g : IsCount(rs, n, g)}
<1>1. 0 \in P
  <2> DEFINE h == [i \in 0..0 |-> 0]
  <2>1. h = [i \in 0..0 |-> IF i = 0 THEN 0 ELSE NextAttempt(rs[i], h[i - 1])]
    OBVIOUS
  <2> HIDE DEF h
  <2> QED
    BY <2>1 DEF IsCount
<1>2. ASSUME NEW n \in Nat, n \in P PROVE n + 1 \in P
  <2>1. PICK g : IsCount(rs, n, g)
    BY <1>2
  <2> DEFINE h == [i \in 0..(n + 1) |-> IF i <= n THEN g[i] ELSE NextAttempt(rs[n + 1], g[n])]
  <2>2. /\ DOMAIN g = 0..n /\ g[0] = 0
        /\ \A i \in 0..n : i # 0 => g[i] = NextAttempt(rs[i], g[i - 1])
    BY <2>1 DEF IsCount
  <2>3. ASSUME NEW i \in 0..(n + 1)
        PROVE  h[i] = IF i = 0 THEN 0 ELSE NextAttempt(rs[i], h[i - 1])
    <3>1. CASE i = 0
      BY <2>2, <3>1
    <3>2. CASE i # 0 /\ i <= n
      <4>1. h[i] = g[i] /\ h[i - 1] = g[i - 1]
        BY <3>2
      <4> QED
        BY <2>2, <3>2, <4>1
    <3>3. CASE i = n + 1
      <4>1. h[i] = NextAttempt(rs[n + 1], g[n]) /\ h[i - 1] = g[n] /\ i # 0
        BY <3>3
      <4> QED
        BY <3>3, <4>1
    <3> QED
      BY <3>1, <3>2, <3>3
  <2>4. h = [i \in 0..(n + 1) |-> IF i = 0 THEN 0 ELSE NextAttempt(rs[i], h[i - 1])]
    BY <2>3
  <2> HIDE DEF h
  <2>5. IsCount(rs, n + 1, h)
    BY <2>4 DEF IsCount
  <2> QED
    BY <2>5
<1>3. \A n \in Nat : n \in P
  <2> HIDE DEF P
  <2> QED
    BY <1>1, <1>2, NumberInduction
<1> QED
  BY <1>3

(* The count is of the answers since the last that said to wait. *)
LEMMA CountFacts ==
  ASSUME NEW rs, Len(rs) \in Nat
  PROVE  \A i \in 0..Len(rs) :
           /\ Counted(rs)[i] \in 0..i
           /\ \A j \in 1..i : j > i - Counted(rs)[i] => rs[j] # 429
<1> DEFINE g == Counted(rs)
           Good(i) == g[i] \in 0..i /\ \A j \in 1..i : j > i - g[i] => rs[j] # 429
           P == {i \in Nat : i <= Len(rs) => Good(i)}
<1>1. IsCount(rs, Len(rs), g)
  BY CountExists DEF Counted
<1>2. /\ g[0] = 0
      /\ \A i \in 0..Len(rs) : i # 0 => g[i] = NextAttempt(rs[i], g[i - 1])
  <2> HIDE DEF g
  <2> QED
    BY <1>1 DEF IsCount
<1> HIDE DEF g
<1>3. 0 \in P
  BY <1>2
<1>4. ASSUME NEW n \in Nat, n \in P PROVE n + 1 \in P
  <2> SUFFICES ASSUME n + 1 <= Len(rs) PROVE Good(n + 1)
    OBVIOUS
  <2>1. Good(n) /\ g[n + 1] = NextAttempt(rs[n + 1], g[n])
    BY <1>2, <1>4
  <2>2. CASE rs[n + 1] = 429
    <3>1. g[n + 1] = 0
      BY <2>1, <2>2 DEF NextAttempt
    <3> QED
      BY <3>1
  <2>3. CASE rs[n + 1] # 429
    <3>1. g[n + 1] = g[n] + 1 /\ g[n] \in 0..n
      BY <2>1, <2>3 DEF NextAttempt
    <3>2. ASSUME NEW j \in 1..(n + 1), j > n + 1 - g[n + 1] PROVE rs[j] # 429
      <4>1. j = n + 1 \/ (j \in 1..n /\ j > n - g[n])
        BY <3>1, <3>2
      <4> QED
        BY <2>1, <2>3, <4>1
    <3>3. g[n + 1] \in 0..(n + 1)
      BY <3>1
    <3> QED
      BY <3>2, <3>3
  <2> QED
    BY <2>2, <2>3
<1>5. \A n \in Nat : n \in P
  <2> HIDE DEF P
  <2> QED
    BY <1>3, <1>4, NumberInduction
<1> QED
  BY <1>5 DEF g

(* A request is given up only for an unknown token, or once the attempts   *)
(* are used up on answers of which none said to wait: whatever the answers *)
(* and however many.                                                       *)
LEMMA RequestsAreRetried ==
  ASSUME NEW rs, rs \in Seq(Nat)
  PROVE  RequestAgrees(rs)
<1> SUFFICES ASSUME Request(rs) = "null"
             PROVE  \E i \in DOMAIN rs :
                      \/ rs[i] = 404
                      \/ i > Attempts /\ \A j \in i - Attempts..i : rs[j] \notin {200, 429}
  BY DEF RequestAgrees
<1>1. Len(rs) \in Nat /\ DOMAIN rs = 1..Len(rs) /\ Attempts \in Nat
  BY PriceAssumption
<1> DEFINE g == Counted(rs)
<1>2. Decided(rs) # {} /\ rs[Min(Decided(rs))] # 200
  BY RequestByCount
<1>3. PICK i \in Decided(rs) : \A j \in Decided(rs) : i <= j
  <2>1. Decided(rs) \subseteq Nat
    BY <1>1 DEF Decided
  <2> QED
    BY <1>2, <2>1, LeastNumber
<1>4. Min(Decided(rs)) \in Decided(rs) /\ \A j \in Decided(rs) : Min(Decided(rs)) <= j
  BY <1>3 DEF Min
<1>5. PICK m \in Decided(rs) : m = Min(Decided(rs))
  BY <1>4
<1>6. /\ m \in 1..Len(rs) /\ rs[m] # 200 /\ (rs[m] = 404 \/ (rs[m] # 429 /\ g[m - 1] >= Attempts))
      /\ \A j \in 1..(m - 1) : rs[j] # 200
  <2>1. m \in 1..Len(rs) /\ (rs[m] \in {200, 404} \/ (rs[m] # 429 /\ g[m - 1] >= Attempts))
    BY <1>1, <1>5 DEF Decided
  <2>2. ASSUME NEW j \in 1..(m - 1), rs[j] = 200 PROVE FALSE
    <3>1. j \in Decided(rs) /\ ~(m <= j)
      BY <1>1, <2>1, <2>2 DEF Decided
    <3> QED
      BY <1>4, <1>5, <3>1
  <2> QED
    BY <1>2, <1>5, <2>1, <2>2
<1>7. CASE rs[m] = 404
  BY <1>1, <1>6, <1>7
<1>8. CASE rs[m] # 404
  <2>1. rs[m] # 429 /\ g[m - 1] >= Attempts /\ m - 1 \in 0..Len(rs) /\ m \in Nat
    BY <1>1, <1>6, <1>8
  <2>2. g[m - 1] \in 0..(m - 1) /\ \A j \in 1..(m - 1) : j > m - 1 - g[m - 1] => rs[j] # 429
    BY <1>1, <2>1, CountFacts
  <2> HIDE DEF g
  <2>3. m > Attempts
    BY <1>1, <2>1, <2>2
  <2>4. ASSUME NEW j \in m - Attempts..m PROVE rs[j] \notin {200, 429}
    <3>1. j = m \/ (j \in 1..(m - 1) /\ j > m - 1 - g[m - 1])
      BY <1>1, <2>1, <2>2, <2>3
    <3> QED
      BY <1>6, <2>1, <2>2, <3>1
  <2> QED
    BY <1>1, <1>6, <2>3, <2>4
<1> QED
  BY <1>7, <1>8

(* An input is of one of the kinds, and stays what it is. *)
LEMMA InputFacts ==
  ASSUME FormulaInit
  PROVE  /\ input.of = "price" => input \in PriceInputs
         /\ input.of = "request" => input \in RequestInputs
         /\ input.of = "worth" => input \in WorthInputs
         /\ input.of = "share" => input \in ShareInputs
         /\ input.of = "day" => input \in DayInputs
         /\ input.of = "snapshots" => input \in SnapshotInputs
         /\ input.of = "projects" => input \in ProjectInputs
<1>1. /\ input \in PriceInputs => input.of = "price"
      /\ input \in RequestInputs => input.of = "request"
      /\ input \in WorthInputs => input.of = "worth"
      /\ input \in ShareInputs => input.of = "share"
  BY DEF PriceInputs, RequestInputs, WorthInputs, ShareInputs
<1>2. /\ input \in SnapshotInputs => input.of = "snapshots"
      /\ input \in ProjectInputs => input.of = "projects"
  BY DEF SnapshotInputs, ProjectInputs
<1>3. input \in DayInputs => input.of = "day"
  BY DEF DayInputs
<1>4. input \in ConfigurationInputs =>
        input.of \in {"block", "count", "moment", "multiplier", "configured", "project"}
  BY DEF ConfigurationInputs
<1>5. \/ input \in PriceInputs \/ input \in RequestInputs \/ input \in WorthInputs
      \/ input \in ConfigurationInputs \/ input \in ShareInputs
      \/ input \in DayInputs \/ input \in SnapshotInputs \/ input \in ProjectInputs
  BY DEF FormulaInit, StatisticsInputs
<1> QED
  BY <1>1, <1>2, <1>3, <1>4, <1>5

(* The input of a behaviour stays the one it began with. *)
LEMMA InputStays == FormulaSpec => []FormulaInit
<1>1. FormulaInit /\ [FormulaNext]_input => FormulaInit'
  BY DEF FormulaNext, FormulaInit
<1> QED
  BY <1>1, PTL DEF FormulaSpec

(* A sequence of bounded length is a sequence. *)
LEMMA BoundedSequences ==
  ASSUME NEW S, NEW n \in Nat, NEW s \in BoundedSeq(S, n), NEW T, S \subseteq T
  PROVE  s \in Seq(T)
<1>1. PICK m \in 0..n : s \in [1..m -> S]
  BY DEF BoundedSeq, SeqOf
<1>2. s \in [1..m -> T]
  BY <1>1
<1> QED
  BY <1>2

(* Prices are fresh, requests are not given up early, and what is held is  *)
(* worth what its prices say, for every set of tokens, every clock and     *)
(* every number of attempts.                                               *)
THEOREM PricesAreRightForAll == FormulaSpec => []PricesAreRight
<1>1. FormulaInit => PricesAreRight
  <2> SUFFICES ASSUME FormulaInit PROVE PricesAreRight
    OBVIOUS
  <2>1. ASSUME input.of = "price" PROVE PriceAgrees(input.cached, input.answer, input.ts)
    <3>1. input \in PriceInputs
      BY <2>1, InputFacts
    <3>2. \A c \in Chart : IsChart(c)
      <4> SUFFICES ASSUME NEW c \in Chart PROVE IsChart(c)
        OBVIOUS
      <4>1. c \in BoundedSeq(Time, 2) /\ Ascending(c)
        BY DEF Chart
      <4>2. Time \subseteq Nat
        BY DEF Time
      <4>3. c \in Seq(Nat)
        BY <4>1, <4>2, BoundedSequences
      <4> QED
        BY <4>1, <4>3 DEF IsChart
    <3>3. /\ input.cached \in Chart /\ input.ts \in Nat
          /\ input.answer = <<>> \/ \E c \in Chart : input.answer = <<c>>
      BY <3>1 DEF PriceInputs, Time
    <3>4. IsChart(input.cached) /\ (input.answer = <<>> \/ \E c : IsChart(c) /\ input.answer = <<c>>)
      BY <3>2, <3>3
    <3> QED
      BY <3>3, <3>4, ServedPricesAreFresh
  <2>2. ASSUME input.of = "request" PROVE RequestAgrees(input.statuses)
    <3>1. input \in RequestInputs
      BY <2>2, InputFacts
    <3>2. input.statuses \in BoundedSeq(Status, Attempts + 3)
      BY <3>1 DEF RequestInputs
    <3>3. Attempts + 3 \in Nat
      BY PriceAssumption
    <3>4. Status \subseteq Nat
      BY DEF Status
    <3>5. input.statuses \in Seq(Nat)
      BY <3>2, <3>3, <3>4, BoundedSequences
    <3> QED
      BY <3>5, RequestsAreRetried
  <2>3. ASSUME input.of = "worth" PROVE WorthAgrees(input)
    <3>1. input \in WorthInputs
      BY <2>3, InputFacts
    <3>2. /\ input.prices \in [AllPriceIds -> 1..3] /\ input.priced \in SUBSET AllPriceIds
          /\ input.balances \in [Token -> 0..2] /\ input.booster \in Partial(Token, 1..2)
      BY <3>1 DEF WorthInputs
    <3>3. input.prices \in [AllPriceIds -> Nat] /\ input.balances \in [Token -> Nat]
      BY <3>2
    <3>4. input.booster \in Partial(Token, Nat)
      <4>1. PICK E \in SUBSET Token : input.booster \in [E -> 1..2]
        BY <3>2 DEF Partial
      <4>2. input.booster \in [E -> Nat]
        BY <4>1
      <4> QED
        BY <4>1, <4>2 DEF Partial
    <3>5. WorthAsked(input)
      BY <3>2, <3>3, <3>4 DEF WorthAsked
    <3> QED
      BY <3>5, WorthsAgree
  <2> QED
    BY <2>1, <2>2, <2>3 DEF PricesAreRight
<1> QED
  BY <1>1, InputStays, PTL

------------------------------------------------------------------------------
(* Shares. *)

(* Two sums over one set. *)
LEMMA SumPlus ==
  ASSUME NEW f, NEW g, NEW h, NEW S, IsFiniteSet(S),
         \A x \in S : f[x] \in Nat /\ g[x] \in Nat /\ h[x] = f[x] + g[x]
  PROVE  SumOver(h, S) = SumOver(f, S) + SumOver(g, S)
<1> DEFINE P == {s \in SUBSET S : SumOver(h, s) = SumOver(f, s) + SumOver(g, s)}
<1>1. {} \in P
  <2>1. SumOver(f, {}) = 0 /\ SumOver(g, {}) = 0 /\ SumOver(h, {}) = 0
    BY SumEmpty
  <2> QED
    BY <2>1
<1>2. ASSUME NEW s \in SUBSET S, s # {}, \A x \in s : s \ {x} \in P
      PROVE  s \in P
  <2>1. PICK x \in s : TRUE
    BY <1>2
  <2> DEFINE t == s \ {x}
  <2>2. IsFiniteSet(s) /\ IsFiniteSet(t)
    BY FS_Subset
  <2>3. \A y \in s : f[y] \in Nat /\ g[y] \in Nat /\ h[y] = f[y] + g[y] /\ h[y] \in Nat
    OBVIOUS
  <2>4. SumOver(h, t) = SumOver(f, t) + SumOver(g, t)
    BY <1>2
  <2> HIDE DEF P
  <2>5. /\ SumOver(f, s) = f[x] + SumOver(f, t)
        /\ SumOver(g, s) = g[x] + SumOver(g, t)
        /\ SumOver(h, s) = h[x] + SumOver(h, t)
    BY <2>2, <2>3, SumRemove
  <2>6. \A y \in t : f[y] \in Nat /\ g[y] \in Nat
    BY <2>3
  <2> HIDE DEF t
  <2>7. SumOver(f, t) \in Nat /\ SumOver(g, t) \in Nat
    BY <2>2, <2>6, SumIsNumber
  <2>8. SumOver(h, s) = SumOver(f, s) + SumOver(g, s)
    BY <2>3, <2>4, <2>5, <2>7
  <2> QED
    BY <2>8 DEF P
<1> HIDE DEF P
<1>3. S \in P
  BY <1>1, <1>2, SetInduction
<1> QED
  BY <1>3 DEF P

(* A sum of one. *)
LEMMA SumOfOne ==
  ASSUME NEW f, NEW x, f[x] \in Nat
  PROVE  SumOver(f, {x}) = f[x]
<1>1. IsFiniteSet({}) /\ x \notin {} /\ \A y \in {} \cup {x} : f[y] \in Nat
  BY FS_EmptySet
<1>2. SumOver(f, {} \cup {x}) = f[x] + SumOver(f, {}) /\ SumOver(f, {}) = 0 /\ {} \cup {x} = {x}
  BY <1>1, SumAdd, SumEmpty
<1> QED
  BY <1>2

(* What is nothing need not be counted. *)
LEMMA SumOfPart ==
  ASSUME NEW f, NEW S, IsFiniteSet(S), \A x \in S : f[x] \in Nat,
         NEW T \in SUBSET S, \A x \in S \ T : f[x] = 0
  PROVE  SumOver(f, S) = SumOver(f, T)
<1>1. IsFiniteSet(T) /\ IsFiniteSet(S \ T) /\ T \cap (S \ T) = {} /\ T \cup (S \ T) = S
  BY FS_Subset
<1>2. SumOver(f, S) = SumOver(f, T) + SumOver(f, S \ T)
  BY <1>1, SumUnion
<1>3. SumOver(f, S \ T) = 0 /\ SumOver(f, T) \in Nat
  BY <1>1, SumOfNothing, SumIsNumber
<1> QED
  BY <1>2, <1>3

(* An answer of any number of users and withdrawals. *)
IsAnswer(a) ==
  /\ DOMAIN a.held \subseteq User /\ DOMAIN a.failed \subseteq User /\ IsFiniteSet(DOMAIN a.withdrawn)
  /\ \A u \in DOMAIN a.held : a.held[u].balance \in Nat /\ a.held[u].since \in 0..Now
  /\ \A u \in DOMAIN a.failed : a.failed[u] \in Nat
  /\ \A i \in DOMAIN a.withdrawn :
       LET w == a.withdrawn[i] IN
       /\ w.user \in User /\ w.balance \in Nat /\ w.since \in 0..Now
       /\ Until(w.at) \in Nat /\ w.since <= Until(w.at)
  /\ a.pool # NoPool => a.pool.balance \in Nat /\ a.pool.totalSupplied \in Nat

(* The weights of an answer, user by user, and of its withdrawals. *)
Holding(a) == [u \in User |-> IF u \in DOMAIN a.held THEN HeldWeight(a.held[u]) ELSE 0]
Failing(a) == [u \in User |-> FailedOf(a, u)]
Leaving(a) == [u \in User |-> WithdrawnBy(a, u)]
Asked(a)   == [i \in DOMAIN a.withdrawn |-> WithdrawWeight(a.withdrawn[i])]

(* They are numbers. *)
LEMMA WeightFacts ==
  ASSUME NEW a, IsAnswer(a)
  PROVE  /\ Holding(a) \in [User -> Nat] /\ Failing(a) \in [User -> Nat]
         /\ Asked(a) \in [DOMAIN a.withdrawn -> Nat]
         /\ \A u \in User : u \notin DOMAIN a.failed => Failing(a)[u] = 0
<1>0. /\ Now \in Nat /\ FailedAt \in Nat /\ FailedUntil \in Nat /\ FailedAt <= Now /\ FailedAt <= FailedUntil
  BY ShareAssumption
<1>1. \A x, y \in Nat : x * y \in Nat
  OBVIOUS
<1>2. ASSUME NEW u \in DOMAIN a.held PROVE HeldWeight(a.held[u]) \in Nat
  <2>1. a.held[u].balance \in Nat /\ Now - a.held[u].since \in Nat
    BY <1>0 DEF IsAnswer
  <2> QED
    BY <1>1, <2>1 DEF HeldWeight
<1>3. ASSUME NEW u \in DOMAIN a.failed PROVE FailedOf(a, u) \in Nat
  <2>1. a.failed[u] \in Nat /\ Least(Now, FailedUntil) - FailedAt \in Nat
    BY <1>0 DEF IsAnswer, Least
  <2> QED
    BY <1>1, <2>1 DEF FailedOf, FailedWeight
<1>4. ASSUME NEW i \in DOMAIN a.withdrawn PROVE WithdrawWeight(a.withdrawn[i]) \in Nat
  <2>1. PICK w : w = a.withdrawn[i]
    OBVIOUS
  <2>2. w.balance \in Nat /\ w.since \in 0..Now /\ Until(w.at) \in Nat /\ w.since <= Until(w.at)
    BY <2>1 DEF IsAnswer
  <2>3. Least(Until(w.at), Now) - w.since \in Nat
    BY <1>0, <2>2 DEF Least
  <2> QED
    BY <1>1, <2>1, <2>2, <2>3 DEF WithdrawWeight
<1>5. \A u \in User : u \notin DOMAIN a.failed => FailedOf(a, u) = 0
  BY DEF FailedOf
<1> QED
  BY <1>2, <1>3, <1>4, <1>5 DEF Holding, Failing, Asked

(* The withdrawals, user by user, are all withdrawals. *)
LEMMA LeavingFacts ==
  ASSUME NEW a, IsAnswer(a)
  PROVE  /\ Leaving(a) \in [User -> Nat]
         /\ SumOver(Leaving(a), User) = SumOver(Asked(a), DOMAIN a.withdrawn)
<1> DEFINE D == DOMAIN a.withdrawn
           f == Asked(a)
           m == [i \in D |-> a.withdrawn[i].user]
           g == Leaving(a)
<1>1. /\ IsFiniteSet(D) /\ IsFiniteSet(User) /\ (\A i \in D : f[i] \in Nat)
      /\ \A i \in D : a.withdrawn[i].user \in User
  BY WeightFacts, FormulaAssumption DEF IsAnswer
<1>2. ASSUME NEW u \in User PROVE g[u] = SumOver(f, Class(D, m, u)) /\ g[u] \in Nat
  <2> DEFINE C == Class(D, m, u)
             h == [i \in C |-> WithdrawWeight(a.withdrawn[i])]
  <2>1. C = {i \in D : a.withdrawn[i].user = u}
    BY DEF Class
  <2>2. g[u] = SumOver(h, C)
    BY <2>1 DEF Leaving, WithdrawnBy, Add
  <2>3. IsFiniteSet(C) /\ \A i \in C : i \in D
    BY <1>1, <2>1, FS_Subset
  <2>4. \A i \in C : h[i] = f[i] /\ f[i] \in Nat
    BY <1>1, <2>3 DEF Asked
  <2> HIDE DEF C, h, f, g
  <2>5. SumOver(h, C) = SumOver(f, C)
    BY <2>3, <2>4, SumSame
  <2>6. SumOver(f, C) \in Nat
    BY <2>3, <2>4, SumIsNumber
  <2> QED
    BY <2>2, <2>5, <2>6 DEF C
<1>3. Classes(D, m, User) = D
  BY <1>1 DEF Classes
<1>4. SumOver(g, User) = SumOver(f, Classes(D, m, User))
  <2> HIDE DEF D, f, g, m
  <2> QED
    BY <1>1, <1>2, SumByClass
<1>5. g \in [User -> Nat]
  BY <1>2 DEF Leaving
<1> QED
  BY <1>3, <1>4, <1>5

(* The user and the weight of each row. *)
Owner(a)   == [r \in Rows(a) |-> r.user]
Weighed(a) == [r \in Rows(a) |-> r.weight]
Due(a) ==
  [u \in User |-> IF u \in DOMAIN a.held THEN Holding(a)[u] + Leaving(a)[u] + Failing(a)[u] ELSE Failing(a)[u]]

(* Whoever has a row has one, and it weighs what is due. *)
LEMMA RowFacts ==
  ASSUME NEW a, IsAnswer(a)
  PROVE  LET users == DOMAIN a.held \cup DOMAIN a.failed IN
         /\ \A r \in Rows(a) : r.user \in users /\ r.weight = Due(a)[r.user]
         /\ \A u \in users : \E r \in Rows(a) : r.user = u
         /\ \A r, s \in Rows(a) : r.user = s.user => r = s
         /\ IsFiniteSet(Rows(a))
<1> DEFINE H == DOMAIN a.held
           F == DOMAIN a.failed
           known == [u \in H |-> KnownRow(a, u)]
           rest  == [u \in F |-> [user |-> u, balance |-> 0, weight |-> FailedOf(a, u)]]
<1>1. H \subseteq User /\ F \subseteq User /\ IsFiniteSet(H) /\ IsFiniteSet(F) /\ IsFiniteSet(F \ H)
  <2>1. H \subseteq User /\ F \subseteq User /\ F \ H \subseteq User
    BY DEF IsAnswer
  <2> HIDE DEF H, F
  <2> QED
    BY <2>1, FS_Subset, FormulaAssumption
<1>2. Rows(a) = {known[u] : u \in H} \cup {rest[u] : u \in F \ H}
  BY DEF Rows, LeftOver
<1>3. \A u \in H : known[u].user = u /\ known[u].weight = Due(a)[u]
  BY <1>1 DEF KnownRow, Due, Holding, Leaving, Failing
<1>4. \A u \in F \ H : rest[u].user = u /\ rest[u].weight = Due(a)[u]
  BY <1>1 DEF Due, Failing
<1> HIDE DEF known, rest, H, F
<1>5. \A r \in Rows(a) : /\ r.user \in H \cup F /\ r.weight = Due(a)[r.user]
                         /\ r = IF r.user \in H THEN known[r.user] ELSE rest[r.user]
  BY <1>2, <1>3, <1>4
<1>6. \A u \in H \cup F : \E r \in Rows(a) : r.user = u
  BY <1>2, <1>3, <1>4
<1>7. \A r, s \in Rows(a) : r.user = s.user => r = s
  BY <1>5
<1>8. IsFiniteSet({known[u] : u \in H}) /\ IsFiniteSet({rest[u] : u \in F \ H})
  BY <1>1, FiniteImage
<1>9. IsFiniteSet(Rows(a))
  BY <1>2, <1>8, FS_Union
<1> QED
  BY <1>5, <1>6, <1>7, <1>9 DEF H, F

(* What the rows weigh together is what is due to their users. *)
LEMMA RowsWeigh ==
  ASSUME NEW a, IsAnswer(a)
  PROVE  SumOver(Weighed(a), Rows(a)) = SumOver(Due(a), DOMAIN a.held \cup DOMAIN a.failed)
<1> DEFINE R == Rows(a)
           A == DOMAIN a.held \cup DOMAIN a.failed
           f == Weighed(a)
           m == Owner(a)
           g == Due(a)
<1>1. /\ A \subseteq User /\ IsFiniteSet(A) /\ g \in [User -> Nat]
  <2>1. A \subseteq User /\ IsFiniteSet(User)
    BY FormulaAssumption DEF IsAnswer
  <2>2. /\ Holding(a) \in [User -> Nat] /\ Failing(a) \in [User -> Nat] /\ Leaving(a) \in [User -> Nat]
    BY WeightFacts, LeavingFacts
  <2>3. g \in [User -> Nat]
    BY <2>2 DEF Due
  <2> HIDE DEF A, g
  <2> QED
    BY <2>1, <2>3, FS_Subset
<1>2. /\ \A r \in R : r.user \in A /\ r.weight = g[r.user]
      /\ \A u \in A : \E r \in R : r.user = u
      /\ \A r, s \in R : r.user = s.user => r = s
      /\ IsFiniteSet(R)
  BY RowFacts
<1>3. \A r \in R : f[r] = g[r.user] /\ m[r] = r.user /\ f[r] \in Nat
  <2>1. \A r \in R : f[r] = r.weight /\ m[r] = r.user
    BY DEF Weighed, Owner
  <2> HIDE DEF f, m, g, A
  <2> QED
    BY <1>1, <1>2, <2>1
<1> HIDE DEF f, m, g, A, R
<1>4. ASSUME NEW u \in A PROVE g[u] = SumOver(f, Class(R, m, u))
  <2>1. PICK r \in R : r.user = u
    BY <1>2
  <2>2. Class(R, m, u) = {r}
    BY <1>2, <1>3, <2>1 DEF Class
  <2>3. f[r] \in Nat /\ f[r] = g[u]
    BY <1>3, <2>1
  <2>4. SumOver(f, {r}) = f[r]
    BY <2>3, SumOfOne
  <2> QED
    BY <2>2, <2>3, <2>4
<1>5. Classes(R, m, A) = R
  BY <1>2, <1>3 DEF Classes
<1>6. SumOver(g, A) = SumOver(f, Classes(R, m, A))
  BY <1>1, <1>2, <1>3, <1>4, SumByClass
<1> QED
  BY <1>5, <1>6 DEF f, g, R, A

(* TotalWeight, user by user. *)
LEMMA TotalFacts ==
  ASSUME NEW a, IsAnswer(a)
  PROVE  TotalWeight(a) = SumOver(Holding(a), DOMAIN a.held) + SumOver(Asked(a), DOMAIN a.withdrawn)
                            + SumOver(Failing(a), DOMAIN a.failed)
<1> DEFINE H == DOMAIN a.held
           F == DOMAIN a.failed
           D == DOMAIN a.withdrawn
           x == [u \in H |-> HeldWeight(a.held[u])]
           y == [u \in F |-> FailedOf(a, u)]
<1>1. TotalWeight(a) = SumOver(x, H) + SumOver(Asked(a), D) + SumOver(y, F)
  BY DEF TotalWeight, TokenTotal, Add, Asked
<1>2. H \subseteq User /\ F \subseteq User /\ IsFiniteSet(H) /\ IsFiniteSet(F)
  <2>1. H \subseteq User /\ F \subseteq User
    BY DEF IsAnswer
  <2> HIDE DEF H, F
  <2> QED
    BY <2>1, FS_Subset, FormulaAssumption
<1>3. (\A u \in H : x[u] = Holding(a)[u]) /\ \A u \in F : y[u] = Failing(a)[u]
  BY <1>2 DEF Holding, Failing
<1>4. Holding(a) \in [User -> Nat] /\ Failing(a) \in [User -> Nat]
  BY WeightFacts
<1> HIDE DEF x, y, H, F
<1>5. SumOver(x, H) = SumOver(Holding(a), H)
  <2>1. \A u \in H : x[u] \in Nat /\ x[u] = Holding(a)[u]
    BY <1>2, <1>3, <1>4
  <2> QED
    BY <1>2, <2>1, SumSame
<1>6. SumOver(y, F) = SumOver(Failing(a), F)
  <2>1. \A u \in F : y[u] \in Nat /\ y[u] = Failing(a)[u]
    BY <1>2, <1>3, <1>4
  <2> QED
    BY <1>2, <2>1, SumSame
<1> QED
  BY <1>1, <1>5, <1>6 DEF H, F

(* The rows of a token, and the withdrawals of users without a balance,    *)
(* add up to its total weight, whatever the answer.                        *)
LEMMA WeightsAddUp ==
  ASSUME NEW a, IsAnswer(a)
  PROVE  SumOver(Weighed(a), Rows(a)) + SumOver(Leaving(a), User \ DOMAIN a.held) = TotalWeight(a)
<1> DEFINE H == DOMAIN a.held
           F == DOMAIN a.failed
           D == DOMAIN a.withdrawn
           N == User \ H
           G == F \ H
           hw == Holding(a)
           fo == Failing(a)
           wb == Leaving(a)
           due == Due(a)
           both == [u \in User |-> hw[u] + wb[u]]
<1>1. /\ H \subseteq User /\ F \subseteq User /\ G \subseteq User /\ N \subseteq User
      /\ IsFiniteSet(H) /\ IsFiniteSet(F) /\ IsFiniteSet(G) /\ IsFiniteSet(N) /\ IsFiniteSet(User)
  <2>1. H \subseteq User /\ F \subseteq User /\ G \subseteq User /\ N \subseteq User
    BY DEF IsAnswer
  <2> HIDE DEF H, F, G, N
  <2> QED
    BY <2>1, FS_Subset, FormulaAssumption
<1>2. hw \in [User -> Nat] /\ fo \in [User -> Nat] /\ wb \in [User -> Nat]
  BY WeightFacts, LeavingFacts
<1>3. /\ \A u \in H : due[u] = both[u] + fo[u]
      /\ \A u \in G : due[u] = fo[u]
      /\ \A u \in User : both[u] = hw[u] + wb[u]
  BY <1>1 DEF Due
<1>4. SumOver(Weighed(a), Rows(a)) = SumOver(due, H \cup F)
  BY RowsWeigh
<1>6. SumOver(wb, User) = SumOver(Asked(a), D)
  BY LeavingFacts
<1>7. TotalWeight(a) = SumOver(hw, H) + SumOver(Asked(a), D) + SumOver(fo, F)
  BY TotalFacts
<1>8. \A u \in User : u \notin F => fo[u] = 0
  BY WeightFacts
<1>9. /\ H \cap G = {} /\ H \cup G = H \cup F /\ H \cap N = {} /\ H \cup N = User
      /\ (H \cap F) \cap G = {} /\ (H \cap F) \cup G = F
  BY <1>1
<1>10. \A u \in User : hw[u] \in Nat /\ fo[u] \in Nat /\ wb[u] \in Nat
  BY <1>2
<1>11. \A u \in User : both[u] \in Nat
  <2> HIDE DEF hw, fo, wb
  <2> QED
    BY <1>10
<1>12. IsFiniteSet(H \cap F) /\ H \cap F \in SUBSET H /\ H \cap F \subseteq User
  <2>1. H \cap F \subseteq H
    OBVIOUS
  <2> HIDE DEF H, F
  <2> QED
    BY <1>1, <2>1, FS_Subset
<1> HIDE DEF H, F, G, D, N, hw, fo, wb, due, both
<1>13. SumOver(due, H \cup F) = SumOver(due, H) + SumOver(due, G)
  <2>1. ASSUME NEW u \in H \cup G PROVE due[u] \in Nat
    <3>1. u \in User /\ both[u] \in Nat /\ fo[u] \in Nat
      BY <1>1, <1>10, <1>11
    <3> QED
      BY <1>3, <3>1
  <2> QED
    BY <1>1, <1>9, <2>1, SumUnion
<1>14. SumOver(due, H) = SumOver(both, H) + SumOver(fo, H)
  <2>1. \A u \in H : both[u] \in Nat /\ fo[u] \in Nat /\ due[u] = both[u] + fo[u]
    BY <1>1, <1>2, <1>3, <1>11
  <2> QED
    BY <1>1, <2>1, SumPlus
<1>15. SumOver(both, H) = SumOver(hw, H) + SumOver(wb, H)
  <2>1. \A u \in H : hw[u] \in Nat /\ wb[u] \in Nat /\ both[u] = hw[u] + wb[u]
    BY <1>1, <1>2, <1>3
  <2> QED
    BY <1>1, <2>1, SumPlus
<1>16. SumOver(due, G) = SumOver(fo, G)
  <2>1. \A u \in G : due[u] \in Nat /\ due[u] = fo[u]
    BY <1>1, <1>2, <1>3
  <2> QED
    BY <1>1, <2>1, SumSame
<1>17. SumOver(fo, H) = SumOver(fo, H \cap F)
  <2>1. (\A u \in H : fo[u] \in Nat) /\ \A u \in H \ (H \cap F) : fo[u] = 0
    BY <1>1, <1>2, <1>8
  <2> QED
    BY <1>1, <1>12, <2>1, SumOfPart
<1>18. SumOver(fo, F) = SumOver(fo, H \cap F) + SumOver(fo, G)
  <2>1. \A u \in (H \cap F) \cup G : fo[u] \in Nat
    BY <1>1, <1>2, <1>9
  <2> QED
    BY <1>1, <1>9, <1>12, <2>1, SumUnion
<1>19. SumOver(wb, User) = SumOver(wb, H) + SumOver(wb, N)
  <2>1. \A u \in H \cup N : wb[u] \in Nat
    BY <1>2, <1>9
  <2> QED
    BY <1>1, <1>9, <2>1, SumUnion
<1>20. /\ SumOver(hw, H) \in Nat /\ SumOver(wb, H) \in Nat /\ SumOver(wb, N) \in Nat
       /\ SumOver(fo, H \cap F) \in Nat /\ SumOver(fo, G) \in Nat
  <2>1. /\ \A u \in H : hw[u] \in Nat /\ wb[u] \in Nat
        /\ \A u \in N : wb[u] \in Nat
        /\ \A u \in H \cap F : fo[u] \in Nat
        /\ \A u \in G : fo[u] \in Nat
    BY <1>1, <1>2, <1>12
  <2> QED
    BY <1>1, <1>12, <2>1, SumIsNumber
<1>21. SumOver(due, H \cup F) + SumOver(wb, N) = SumOver(hw, H) + SumOver(Asked(a), D) + SumOver(fo, F)
  BY <1>6, <1>13, <1>14, <1>15, <1>16, <1>17, <1>18, <1>19, <1>20
<1>22. SumOver(Weighed(a), Rows(a)) + SumOver(wb, N) = TotalWeight(a)
  BY <1>4, <1>7, <1>21
<1> QED
  BY <1>22 DEF wb, N, H

(* Who has what of a pool, before and after it is divided. *)
Supplied(a) == [u \in DOMAIN a.held |-> a.held[u].balance]
Parts(a)    == [u \in DOMAIN a.held |-> BalanceOf(a, u)]

(* A part, times what is divided by, is no more than the whole times what  *)
(* the user has.                                                           *)
LEMMA PartFacts ==
  ASSUME NEW b \in Nat, NEW p \in Nat, NEW t \in Nat, t > 0
  PROVE  (b * p) \div t \in Nat /\ t * ((b * p) \div t) <= p * b
<1>1. b * p \in Nat /\ b * p = p * b
  OBVIOUS
<1>2. \A m \in Nat : m \div t \in Nat /\ t * (m \div t) <= m
  BY QuotientFacts
<1> QED
  BY <1>1, <1>2

(* The parts of a pool are no more than the pool, if what it is divided by *)
(* is no less than what it is divided among; one without users needs none. *)
LEMMA PartsAddUp ==
  ASSUME NEW a, IsAnswer(a), ~Throws(a), a.pool # NoPool,
         SumOver(Supplied(a), DOMAIN a.held) <= a.pool.totalSupplied
  PROVE  SumOver(Parts(a), DOMAIN a.held) <= a.pool.balance
<1> DEFINE H == DOMAIN a.held
           f == Supplied(a)
           g == Parts(a)
<1>1. PICK t \in Nat, p \in Nat : t = a.pool.totalSupplied /\ p = a.pool.balance
  BY DEF IsAnswer
<1>2. IsFiniteSet(H)
  <2>1. H \subseteq User
    BY DEF IsAnswer
  <2> QED
    BY <2>1, FS_Subset, FormulaAssumption
<1>3. \A u \in H : f[u] \in Nat
  BY DEF IsAnswer, Supplied
<1>4. \A u \in H : g[u] = (f[u] * p) \div t
  BY <1>1 DEF Parts, BalanceOf, Supplied
<1>5. t = 0 => H = {}
  BY <1>1 DEF Throws
<1>6. SumOver(f, H) <= t
  BY <1>1
<1> HIDE DEF H, f, g
<1>7. CASE H = {}
  <2>1. SumOver(g, H) = 0
    BY <1>7, SumEmpty
  <2> QED
    BY <1>1, <2>1 DEF g, H
<1>8. CASE H # {}
  <2> DEFINE x == [u \in H |-> t * g[u]]
             y == [u \in H |-> p * f[u]]
  <2>1. t > 0
    BY <1>5, <1>8
  <2>2. \A u \in H : g[u] \in Nat /\ t * g[u] <= p * f[u]
    BY <1>3, <1>4, <2>1, PartFacts
  <2>3. SumOver(x, H) = t * SumOver(g, H)
    BY <1>2, <2>2, SumScaled
  <2>4. SumOver(y, H) = p * SumOver(f, H)
    BY <1>2, <1>3, SumScaled
  <2>5. SumOver(f, H) \in Nat /\ SumOver(g, H) \in Nat
    BY <1>2, <1>3, <2>2, SumIsNumber
  <2>6. (\A u \in H : x[u] \in Nat /\ x[u] <= y[u]) /\ (\A u \in H : y[u] \in Nat) /\ H \in SUBSET H
    <3>1. \A m, n \in Nat : m * n \in Nat
      OBVIOUS
    <3> QED
      BY <1>3, <2>2, <3>1
  <2> HIDE DEF x, y
  <2>7. SumOver(x, H) <= SumOver(y, H)
    BY <1>2, <2>6, SumLeq
  <2>8. PICK m \in Nat, n \in Nat : m = SumOver(f, H) /\ n = SumOver(g, H)
    BY <2>5
  <2>9. t * n <= p * m /\ m <= t
    BY <1>6, <2>3, <2>4, <2>7, <2>8
  <2>10. p * m <= p * t /\ p * t = t * p
    BY <2>9
  <2>11. t * n <= t * p
    <3>1. t * n \in Nat /\ t * p \in Nat /\ p * m \in Nat
      OBVIOUS
    <3> QED
      BY <2>9, <2>10, <3>1
  <2>12. n <= p
    BY <2>1, <2>11
  <2> QED
    BY <1>1, <2>8, <2>12 DEF g, H
<1> QED
  BY <1>7, <1>8

(* Every answer is one. *)
LEMMA ShareFacts ==
  ASSUME FormulaInit, input.of = "share"
  PROVE  IsAnswer(input)
<1>1. /\ Balances \subseteq Nat /\ Now \in Nat
      /\ \A t \in Times : t \in 0..Now /\ Until(t) \in Nat /\ t <= Until(t)
  BY FormulaAssumption, ShareAssumption
<1>2. input \in ShareInputs
  BY InputFacts
<1>3. /\ input.held \in Partial(User, Held)
      /\ input.withdrawn \in BoundedSeq(Withdrawal, 1)
      /\ input.failed \in Partial(User, Balances)
      /\ input.pool \in {NoPool} \cup [balance : 0..3, totalSupplied : 0..3]
  BY <1>2 DEF ShareInputs
<1>4. /\ DOMAIN input.held \subseteq User
      /\ \A u \in DOMAIN input.held : input.held[u] \in Held
  BY <1>3 DEF Partial
<1>5. /\ DOMAIN input.failed \subseteq User
      /\ \A u \in DOMAIN input.failed : input.failed[u] \in Balances
  BY <1>3 DEF Partial
<1>6. PICK w \in Seq(Withdrawal) : w = input.withdrawn
  BY <1>3, BoundedSequences
<1>7. IsFiniteSet(DOMAIN w) /\ \A i \in DOMAIN w : w[i] \in Withdrawal
  <2>1. Len(w) \in Nat /\ DOMAIN w = 1..Len(w)
    OBVIOUS
  <2> QED
    BY <2>1, FS_Interval
<1>8. \A u \in DOMAIN input.held : input.held[u].balance \in Nat /\ input.held[u].since \in 0..Now
  BY <1>1, <1>4 DEF Held
<1>9. ASSUME NEW i \in DOMAIN w
      PROVE  /\ w[i].user \in User /\ w[i].balance \in Nat /\ w[i].since \in 0..Now
             /\ Until(w[i].at) \in Nat /\ w[i].since <= Until(w[i].at)
  <2>1. /\ w[i].user \in User /\ w[i].balance \in Balances /\ w[i].since \in Times /\ w[i].at \in Times
        /\ w[i].since <= w[i].at
    BY <1>7 DEF Withdrawal
  <2>2. w[i].since \in 0..Now /\ w[i].at \in 0..Now /\ Until(w[i].at) \in Nat /\ w[i].at <= Until(w[i].at)
    BY <1>1, <2>1
  <2>3. PICK x, y, z : x = w[i].since /\ y = w[i].at /\ z = Until(w[i].at)
    OBVIOUS
  <2>4. x \in 0..Now /\ y \in 0..Now /\ z \in Nat /\ x <= y /\ y <= z
    BY <2>1, <2>2, <2>3
  <2>5. x <= z
    BY <1>1, <2>4
  <2>6. w[i].balance \in Nat
    BY <1>1, <2>1
  <2> QED
    BY <2>1, <2>2, <2>3, <2>5, <2>6
<1>10. input.pool # NoPool => input.pool.balance \in Nat /\ input.pool.totalSupplied \in Nat
  BY <1>3
<1> QED
  BY <1>1, <1>4, <1>5, <1>6, <1>7, <1>8, <1>9, <1>10 DEF IsAnswer

(* RedistributePointService.fetchData, over answers of any number of users *)
(* and any weights: the rows of a token add up to its total weight, up to  *)
(* what was withdrawn by users without a balance, and the balances of a    *)
(* pool to no more than the pool.                                          *)
THEOREM SharesAddUpForAll == FormulaSpec => []SharesAddUp
<1>1. FormulaInit => SharesAddUp
  <2> SUFFICES ASSUME FormulaInit, input.of = "share", ~Throws(input) PROVE SharesAddUp
    BY DEF SharesAddUp
  <2> DEFINE a == input
             H == DOMAIN a.held
             weigh == [r \in Rows(a) |-> r.weight]
             leave == [u \in User \ H |-> WithdrawnBy(a, u)]
  <2>1. IsAnswer(a)
    BY ShareFacts
  <2>2. SumOver(Weighed(a), Rows(a)) + SumOver(Leaving(a), User \ H) = TotalWeight(a)
    BY <2>1, WeightsAddUp
  <2>3. SumOver(leave, User \ H) = SumOver(Leaving(a), User \ H)
    <3>1. IsFiniteSet(User \ H)
      BY FormulaAssumption, FS_Difference
    <3>2. Leaving(a) \in [User -> Nat]
      BY <2>1, LeavingFacts
    <3>3. \A u \in User \ H : leave[u] = Leaving(a)[u]
      BY DEF Leaving
    <3>4. \A u \in User \ H : leave[u] \in Nat /\ leave[u] = Leaving(a)[u]
      BY <3>2, <3>3
    <3> HIDE DEF leave, H
    <3> QED
      BY <3>1, <3>4, SumSame
  <2>4. a.pool # NoPool /\ SumOver(Supplied(a), H) <= a.pool.totalSupplied =>
          SumOver(Parts(a), H) <= a.pool.balance
    BY <2>1, PartsAddUp
  <2>5. SumOver(Weighed(a), Rows(a)) + SumOver(leave, User \ H) = TotalWeight(a)
    BY <2>2, <2>3
  <2> QED
    BY <2>4, <2>5 DEF SharesAddUp, Add, Weighed, Supplied, Parts
<1> QED
  BY <1>1, InputStays, PTL

------------------------------------------------------------------------------
(* Statistics. *)

(* What each contract holds, for any projects and whatever they hold.      *)
LEMMA ProjectsAgreeForAll ==
  ASSUME NEW a, AquaPair \in DOMAIN a.projects => a.projects[AquaPair] = "aqua"
  PROVE  ProjectsAgree(a)
<1> DEFINE f == a.projects
           rows == ProjectTvl(f, a.held)
           after == ProjectsAfter(f, rows)
           vault == PairAddressVault(f)
<1>0. /\ Vault \notin Tokens /\ AquaPair \notin Tokens /\ AquaPair # Vault
      /\ Unnamed # "a" /\ Unnamed # "aqua"
  BY StatisticsAssumption, FormulaAssumption
<1>1. AquaPair \notin vault
  BY <1>0 DEF PairAddressVault
<1>2. ASSUME NEW x \in vault, NEW y \in vault, RowOf(x) = RowOf(y)
      PROVE  x = y
  BY <1>1, <1>2 DEF RowOf
<1>3. ASSUME NEW r \in rows, NEW s \in rows, r.pair = s.pair
      PROVE  r = s
  <2>1. PICK x \in vault : r = [pair |-> RowOf(x), from |-> x, tvl |-> a.held[x]]
    BY DEF ProjectTvl
  <2>2. PICK y \in vault : s = [pair |-> RowOf(y), from |-> y, tvl |-> a.held[y]]
    BY DEF ProjectTvl
  <2> HIDE DEF vault, rows
  <2>3. RowOf(x) = RowOf(y)
    BY <1>3, <2>1, <2>2
  <2>4. x = y
    BY <1>2, <2>3
  <2> QED
    BY <2>1, <2>2, <2>4
<1>4. /\ DOMAIN f \subseteq DOMAIN after
      /\ \A p \in DOMAIN f : after[p] = f[p]
      /\ \A p \in DOMAIN after \ DOMAIN f : after[p] = Unnamed
  BY DEF ProjectsAfter
<1>5. ASSUME NEW p PROVE p \in PairAddressVault(after) <=> p \in vault
  <2> HIDE DEF after
  <2> QED
    BY <1>4 DEF PairAddressVault
<1>6. PairAddressVault(after) = vault
  BY <1>5
<1>7. ProjectTvl(after, a.held) = rows
  BY <1>6 DEF ProjectTvl
<1>8. ASSUME NEW n \in {"a", "aqua"} PROVE PairsOf(after, n) = PairsOf(f, n)
  <2> HIDE DEF after
  <2>1. ASSUME NEW p PROVE p \in PairsOf(after, n) <=> p \in PairsOf(f, n)
    BY <1>0, <1>4 DEF PairsOf
  <2> QED
    BY <2>1
<1> HIDE DEF rows, after
<1> QED
  BY <1>3, <1>7, <1>8 DEF ProjectsAgree, rows, after

(* Snapshots of any blocks from the first on, and a name's pairs. *)
IsReport(a) ==
  /\ DOMAIN a.worth \subseteq BlockNumbers \X Pair
  /\ a.groups \in Seq(SUBSET Pair)

(* What a name's pools held is of the block it should be, or a name before *)
(* it has another last block: for any snapshots and names in any order.    *)
LEMMA SnapshotsAgreeForAll ==
  ASSUME NEW a, IsReport(a)
  PROVE  SnapshotAgrees(a)
<1> DEFINE rows == {[block |-> k[1], pair |-> k[2], worth |-> a.worth[k]] : k \in DOMAIN a.worth}
           own(i) == SnapshotsOf(rows, a.groups[i], a.range)
           used(i) == BlockUsed(rows, a.groups, a.range, i)
           tvl(i) == StatisticTvl(rows, a.groups, a.range)[i]
           right(i) == IF own(i) = {} THEN 0 ELSE WorthAt(rows, a.groups[i], Max(own(i)))
           other(i) == \E j \in 1..(i - 1) : own(j) # {} /\ Max(own(j)) # Max(own(i) \cup {NoSnapshot})
<1>0. NBlocks \in Nat
  BY FormulaAssumption
<1>1. \A r \in rows : r.block \in 1..NBlocks
  BY DEF IsReport, BlockNumbers
<1>2. \A i \in DOMAIN a.groups : tvl(i) = WorthAt(rows, a.groups[i], used(i))
  BY DEF StatisticTvl
<1>3. DOMAIN a.groups \subseteq Nat \ {0}
  BY DEF IsReport
<1> HIDE DEF rows
<1>4. \A i : own(i) \subseteq 1..NBlocks
  BY <1>1 DEF SnapshotsOf
<1>5. ASSUME NEW i, own(i) # {}
      PROVE  /\ Max(own(i)) \in own(i) /\ Max(own(i)) \in 1..NBlocks
             /\ Max(own(i)) = Max(own(i) \cup {0})
  <2> DEFINE S == own(i)
             T == own(i) \cup {0}
  <2>1. /\ S \subseteq Nat /\ S # {} /\ (\A x \in S : x <= NBlocks) /\ S \subseteq 1..NBlocks
        /\ T \subseteq Nat /\ T # {} /\ (\A x \in T : x <= NBlocks) /\ T = S \cup {0}
    BY <1>0, <1>4, <1>5
  <2> HIDE DEF S, T
  <2>2. Max(S) \in S /\ \A y \in S : y <= Max(S)
    BY <1>0, <2>1, GreatestNumber
  <2>3. Max(T) \in T /\ \A y \in T : y <= Max(T)
    BY <1>0, <2>1, GreatestNumber
  <2>4. PICK m, n : m = Max(S) /\ n = Max(T)
    OBVIOUS
  <2>5. m \in S /\ n \in S \cup {0} /\ m <= n /\ (n \in S => n <= m) /\ m \in 1..NBlocks
    BY <2>1, <2>2, <2>3, <2>4
  <2>6. m = n
    BY <1>0, <2>1, <2>5
  <2> QED
    BY <2>2, <2>4, <2>5, <2>6 DEF S, T
<1>6. ASSUME NEW i \in DOMAIN a.groups PROVE tvl(i) = right(i) \/ other(i)
  <2> DEFINE having == {j \in 1..i : own(j) # {}}
  <2>0. i \in Nat /\ i >= 1
    BY <1>3
  <2>1. used(i) = IF having = {} THEN 0 ELSE Max(own(Min(having)))
    BY DEF BlockUsed, NoSnapshot
  <2>2. CASE having = {}
    <3>1. own(i) = {} /\ used(i) = 0
      BY <2>0, <2>1, <2>2
    <3> DEFINE none == {x \in rows : x.pair \in a.groups[i] /\ x.block = 0}
    <3>2. none = {}
      BY <1>0, <1>1
    <3>3. WorthAt(rows, a.groups[i], 0) = SumOver([r \in none |-> r.worth], none)
      BY DEF WorthAt
    <3> HIDE DEF none
    <3>4. WorthAt(rows, a.groups[i], 0) = 0
      BY <3>2, <3>3, SumEmpty
    <3> QED
      BY <1>2, <3>1, <3>4
  <2>3. CASE having # {}
    <3> DEFINE m == Min(having)
    <3>1. having \subseteq Nat
      BY <2>0
    <3>2. m \in having
      <4> HIDE DEF having
      <4>1. \E x \in having : \A y \in having : x <= y
        BY <2>3, <3>1, LeastNumber
      <4> QED
        BY <4>1 DEF Min
    <3>3. m \in 1..i /\ own(m) # {} /\ used(i) = Max(own(m))
      BY <2>1, <2>3, <3>2
    <3> HIDE DEF m, having
    <3>4. CASE m = i
      BY <1>2, <3>3, <3>4
    <3>5. CASE m # i
      <4>1. m \in 1..(i - 1)
        BY <2>0, <3>3, <3>5
      <4> SUFFICES ASSUME Max(own(m)) = Max(own(i) \cup {NoSnapshot}) PROVE tvl(i) = right(i)
        BY <3>3, <4>1
      <4>2. Max(own(m)) = Max(own(i) \cup {0})
        BY DEF NoSnapshot
      <4>3. Max(own(m)) \in 1..NBlocks
        BY <1>5, <3>3
      <4>4. own(i) # {}
        <5> SUFFICES ASSUME own(i) = {} PROVE FALSE
          OBVIOUS
        <5>1. Max(own(m)) = Max({0})
          BY <4>2
        <5>2. Max({0}) = 0
          BY DEF Max
        <5> QED
          BY <1>0, <4>3, <5>1, <5>2
      <4>5. Max(own(i)) = Max(own(m))
        BY <1>5, <4>2, <4>4
      <4> QED
        BY <1>2, <3>3, <4>4, <4>5
    <3> QED
      BY <3>4, <3>5
  <2> QED
    BY <2>2, <2>3
<1> QED
  BY <1>6 DEF SnapshotAgrees, rows

(* The blocks of a day. *)
BlocksOf(times, d) == {b \in DOMAIN times : times[b] \in DayOf(d)}

(* The range of a day is of its blocks, and holds them all. *)
LEMMA RangeFacts ==
  ASSUME NEW times, DOMAIN times = BlockNumbers, NEW d
  PROVE  /\ BlocksOf(times, d) = {} => BlockRange(times, d) = <<>>
         /\ BlocksOf(times, d) # {} =>
              LET r == BlockRange(times, d) IN
              /\ r # <<>> /\ r[1] \in BlocksOf(times, d) /\ r[2] \in BlocksOf(times, d)
              /\ \A b \in BlocksOf(times, d) : r[1] <= b /\ b <= r[2]
<1> DEFINE S == BlocksOf(times, d)
<1>0. NBlocks \in Nat
  BY FormulaAssumption
<1>1. BlockRange(times, d) = IF S = {} THEN <<>> ELSE <<Min(S), Max(S)>>
  BY DEF BlockRange, BlocksOf
<1>2. S \subseteq Nat /\ \A b \in S : b <= NBlocks
  BY <1>0 DEF BlocksOf, BlockNumbers
<1> HIDE DEF S
<1>3. CASE S # {}
  <2>1. Min(S) \in S /\ \A b \in S : Min(S) <= b
    <3>1. \E x \in S : \A y \in S : x <= y
      BY <1>2, <1>3, LeastNumber
    <3> QED
      BY <3>1 DEF Min
  <2>2. Max(S) \in S /\ \A b \in S : b <= Max(S)
    BY <1>0, <1>2, <1>3, GreatestNumber
  <2>3. PICK m, n : m = Min(S) /\ n = Max(S)
    OBVIOUS
  <2>4. BlockRange(times, d) = <<m, n>>
    BY <1>1, <1>3, <2>3
  <2>5. <<m, n>> # <<>> /\ <<m, n>>[1] = m /\ <<m, n>>[2] = n
    OBVIOUS
  <2> QED
    BY <1>3, <2>1, <2>2, <2>3, <2>4, <2>5 DEF S
<1> QED
  BY <1>1, <1>3 DEF S

(* A finite ledger of known blocks, and an earlier one. *)
IsDay(a) ==
  /\ IsFiniteSet(a.late) /\ a.early \subseteq a.late
  /\ \A r \in a.late : r.block \in BlockNumbers
  /\ a.times \in BlockTimes

(* Two sets of blocks, of which one holds the rows of the other. *)
LEMMA ActiveFacts ==
  ASSUME NEW L, IsFiniteSet(L), NEW l \in SUBSET L, NEW pr, NEW n, NEW B, NEW C,
         \A r \in l : r.block \in B => r.block \in C
  PROVE  /\ Active(l, pr, n, B) \subseteq Active(L, pr, n, C)
         /\ IsFiniteSet(Active(l, pr, n, B)) /\ IsFiniteSet(Active(L, pr, n, C))
         /\ Cardinality(Active(l, pr, n, B)) \in Nat
         /\ Cardinality(Active(l, pr, n, B)) <= Cardinality(Active(L, pr, n, C))
<1> DEFINE K == {x \in L : x.pair \in PairsOf(pr, n) /\ x.block \in C /\ x.type \in {"txNum", "txVol"}}
           who == [r \in K |-> r.address]
<1>1. IsFiniteSet(K)
  BY FS_Subset
<1>2. Active(L, pr, n, C) = {who[r] : r \in K}
  BY DEF Active
<1>3. IsFiniteSet(Active(L, pr, n, C))
  <2> HIDE DEF K, who
  <2> QED
    BY <1>1, <1>2, FiniteImage
<1>4. Active(l, pr, n, B) \subseteq Active(L, pr, n, C)
  BY DEF Active
<1> QED
  BY <1>3, <1>4, FS_Subset, FS_CardinalityType

(* Two sets have together no more than each of them. *)
LEMMA TwoSets ==
  ASSUME NEW S, IsFiniteSet(S), NEW T, IsFiniteSet(T), NEW U \in SUBSET (S \cup T)
  PROVE  /\ Cardinality(S) \in Nat /\ Cardinality(T) \in Nat /\ Cardinality(U) \in Nat
         /\ Cardinality(U) <= Cardinality(S) + Cardinality(T)
<1>1. IsFiniteSet(S \cup T) /\ IsFiniteSet(S \cap T)
  BY FS_Union, FS_Intersection
<1>2. Cardinality(S \cup T) = Cardinality(S) + Cardinality(T) - Cardinality(S \cap T)
  BY FS_Union
<1>3. /\ Cardinality(S) \in Nat /\ Cardinality(T) \in Nat
      /\ Cardinality(S \cup T) \in Nat /\ Cardinality(S \cap T) \in Nat
  BY <1>1, FS_CardinalityType
<1>4. IsFiniteSet(U) /\ Cardinality(U) <= Cardinality(S \cup T)
  BY <1>1, FS_Subset
<1>5. Cardinality(U) \in Nat
  BY <1>4, FS_CardinalityType
<1> QED
  BY <1>2, <1>3, <1>4, <1>5

(* Of the blocks of two days, each is of one of them, and none of the      *)
(* first is behind one of the second.                                      *)
LEMMA TwoDays ==
  ASSUME NEW times \in BlockTimes
  PROVE  /\ \A b \in BlockNumbers : b \in BlocksOf(times, 0) \/ b \in BlocksOf(times, 1)
         /\ \A b \in BlocksOf(times, 0), c \in BlocksOf(times, 1) : b <= c
         /\ \A b \in BlockNumbers, c \in BlocksOf(times, 0) : b <= c => b \in BlocksOf(times, 0)
<1>0. DayLength \in Nat /\ DayLength > 0 /\ NBlocks \in Nat
  BY StatisticsAssumption, FormulaAssumption
<1>1. /\ DOMAIN times = BlockNumbers
      /\ \A b \in BlockNumbers : b \in Nat /\ times[b] \in 0..(2 * DayLength - 1)
      /\ \A b, c \in BlockNumbers : b <= c => times[b] <= times[c]
  BY <1>0 DEF BlockTimes, BlockNumbers
<1>2. DayOf(0) = 0..(DayLength - 1) /\ DayOf(1) = DayLength..(2 * DayLength - 1)
  BY <1>0 DEF DayOf
<1>3. /\ \A b \in BlocksOf(times, 0) : b \in BlockNumbers /\ times[b] < DayLength
      /\ \A b \in BlocksOf(times, 1) : b \in BlockNumbers /\ times[b] >= DayLength
      /\ \A b \in BlockNumbers : times[b] < DayLength => b \in BlocksOf(times, 0)
      /\ \A b \in BlockNumbers : times[b] >= DayLength => b \in BlocksOf(times, 1)
  BY <1>0, <1>1, <1>2 DEF BlocksOf
<1>4. ASSUME NEW b \in BlockNumbers PROVE b \in BlocksOf(times, 0) \/ b \in BlocksOf(times, 1)
  BY <1>0, <1>1, <1>3
<1>5. ASSUME NEW b \in BlocksOf(times, 0), NEW c \in BlocksOf(times, 1) PROVE b <= c
  <2>1. /\ b \in BlockNumbers /\ c \in BlockNumbers
        /\ times[b] < DayLength /\ times[c] >= DayLength
    BY <1>3
  <2>2. b \in Nat /\ c \in Nat /\ times[b] \in Nat /\ times[c] \in Nat /\ (c <= b => times[c] <= times[b])
    BY <1>1, <2>1
  <2> QED
    BY <1>0, <2>1, <2>2
<1>6. ASSUME NEW b \in BlockNumbers, NEW c \in BlocksOf(times, 0), b <= c PROVE b \in BlocksOf(times, 0)
  <2>1. c \in BlockNumbers /\ times[c] < DayLength
    BY <1>3
  <2>2. times[b] \in Nat /\ times[c] \in Nat /\ times[b] <= times[c]
    BY <1>1, <1>6, <2>1
  <2> QED
    BY <1>0, <1>3, <2>1, <2>2
<1> QED
  BY <1>4, <1>5, <1>6

(* What the reports of a day are, of one with a block. *)
LEMMA ReportFacts ==
  ASSUME NEW l, NEW pr, NEW times, NEW d, BlockRange(times, d) # <<>>
  PROVE  LET r == BlockRange(times, d) IN
         /\ ProtocolDau(l, pr, times, d) =
              [n \in GroupByName(pr) |-> Cardinality(Active(l, pr, n, r[1]..r[2]))]
         /\ CumulativeDau(l, pr, times, d) =
              [n \in GroupByName(pr) |-> Cardinality(Active(l, pr, n, 0..r[2]))]
BY DEF ProtocolDau, CumulativeDau

(* The reports of two days agree, for any ledgers and any block times.     *)
LEMMA DaysAgreeForAll ==
  ASSUME NEW a, IsDay(a)
  PROVE  DayAgrees(a)
<1> DEFINE pr == a.projects
           times == a.times
           R(d) == BlockRange(times, d)
           dau(l, d) == ProtocolDau(l, pr, times, d)
           cumulative(l, d) == CumulativeDau(l, pr, times, d)
           on(d, n) == IF dau(a.late, d) = <<>> THEN 0 ELSE dau(a.late, d)[n]
           S(d) == BlocksOf(times, d)
           upTo(d, n) == Cardinality(Active(a.late, pr, n, 0..R(d)[2]))
           day(l, d, n) == Cardinality(Active(l, pr, n, R(d)[1]..R(d)[2]))
<1>0. NBlocks \in Nat /\ DOMAIN times = BlockNumbers /\ times \in BlockTimes /\ BlockNumbers = 1..NBlocks
  BY FormulaAssumption DEF IsDay, BlockTimes, BlockNumbers
<1>1. IsFiniteSet(a.late) /\ a.early \in SUBSET a.late /\ \A r \in a.late : r.block \in BlockNumbers
  BY DEF IsDay
<1>2. ASSUME NEW d PROVE /\ S(d) = {} => R(d) = <<>>
                         /\ S(d) # {} => /\ R(d) # <<>> /\ R(d)[1] \in S(d) /\ R(d)[2] \in S(d)
                                         /\ \A b \in S(d) : R(d)[1] <= b /\ b <= R(d)[2]
  BY <1>0, RangeFacts
<1>3. \A d : S(d) \subseteq BlockNumbers
  BY <1>0 DEF BlocksOf
<1>4. /\ \A b \in BlockNumbers : b \in S(0) \/ b \in S(1)
      /\ \A b \in S(0), c \in S(1) : b <= c
      /\ \A b \in BlockNumbers, c \in S(0) : b <= c => b \in S(0)
  BY <1>0, TwoDays
<1>5. ASSUME NEW d, NEW n \in DOMAIN cumulative(a.late, d)
      PROVE  /\ S(d) # {} /\ n \in GroupByName(pr)
             /\ cumulative(a.late, d)[n] = upTo(d, n)
             /\ dau(a.early, d)[n] = day(a.early, d, n)
  <2>1. R(d) # <<>>
    BY <1>5 DEF CumulativeDau
  <2>2. S(d) # {}
    BY <1>2, <2>1
  <2>3. cumulative(a.late, d) = [m \in GroupByName(pr) |-> upTo(d, m)]
    BY <2>1, ReportFacts
  <2>4. dau(a.early, d) = [m \in GroupByName(pr) |-> day(a.early, d, m)]
    BY <2>1, ReportFacts
  <2> HIDE DEF cumulative, dau, S, upTo, day
  <2> QED
    BY <1>5, <2>2, <2>3, <2>4
<1>6. ASSUME NEW d, NEW n \in GroupByName(pr)
      PROVE  on(d, n) = IF S(d) = {} THEN 0 ELSE day(a.late, d, n)
  <2>1. CASE S(d) = {}
    <3>1. R(d) = <<>>
      BY <1>2, <2>1
    <3>2. dau(a.late, d) = <<>>
      BY <3>1 DEF ProtocolDau
    <3> QED
      BY <2>1, <3>2
  <2>2. CASE S(d) # {}
    <3>1. R(d) # <<>>
      BY <1>2, <2>2
    <3>2. dau(a.late, d) = [m \in GroupByName(pr) |-> day(a.late, d, m)]
      BY <3>1, ReportFacts
    <3>3. PICK f : f = dau(a.late, d)
      OBVIOUS
    <3> HIDE DEF dau, day
    <3>4. n \in DOMAIN f /\ f[n] = day(a.late, d, n)
      BY <3>2, <3>3
    <3>5. f # <<>>
      BY <3>4
    <3> QED
      BY <2>2, <3>3, <3>4, <3>5
  <2> QED
    BY <2>1, <2>2
<1>7. ASSUME NEW d, S(d) # {}, NEW l \in SUBSET a.late, NEW n
      PROVE  day(l, d, n) \in Nat /\ day(l, d, n) <= upTo(d, n)
  <2>1. R(d)[1] \in Nat /\ R(d)[2] \in Nat
    BY <1>0, <1>2, <1>3, <1>7
  <2> DEFINE B == R(d)[1]..R(d)[2]
             C == 0..R(d)[2]
  <2>2. \A r \in l : r.block \in B => r.block \in C
    BY <2>1
  <2> HIDE DEF B, C
  <2>3. /\ Cardinality(Active(l, pr, n, B)) \in Nat
        /\ Cardinality(Active(l, pr, n, B)) <= Cardinality(Active(a.late, pr, n, C))
    BY <1>1, <2>2, ActiveFacts
  <2> QED
    BY <2>3 DEF B, C
<1>8. ASSUME NEW n, S(0) # {} PROVE upTo(0, n) <= day(a.late, 0, n)
  <2>1. R(0)[1] \in Nat /\ R(0)[2] \in Nat /\ R(0)[2] \in S(0) /\ \A b \in S(0) : R(0)[1] <= b
    BY <1>0, <1>2, <1>3, <1>8
  <2>2. \A r \in a.late : r.block \in 0..R(0)[2] => r.block \in R(0)[1]..R(0)[2]
    <3> SUFFICES ASSUME NEW r \in a.late, r.block \in 0..R(0)[2] PROVE r.block \in R(0)[1]..R(0)[2]
      OBVIOUS
    <3>1. r.block \in BlockNumbers /\ r.block <= R(0)[2] /\ r.block \in Nat
      BY <1>0, <1>1, <2>1
    <3>2. r.block \in S(0)
      BY <1>4, <2>1, <3>1
    <3> QED
      BY <2>1, <3>1, <3>2
  <2>3. a.late \in SUBSET a.late
    OBVIOUS
  <2> QED
    BY <1>1, <2>2, <2>3, ActiveFacts
<1>9. ASSUME NEW n, S(1) # {}
      PROVE  upTo(1, n) <= (IF S(0) = {} THEN 0 ELSE day(a.late, 0, n)) + day(a.late, 1, n)
  <2> DEFINE first == IF S(0) = {} THEN {} ELSE Active(a.late, pr, n, R(0)[1]..R(0)[2])
             second == Active(a.late, pr, n, R(1)[1]..R(1)[2])
             all == Active(a.late, pr, n, 0..R(1)[2])
  <2>1. a.late \in SUBSET a.late
    OBVIOUS
  <2>2. IsFiniteSet(first) /\ IsFiniteSet(second)
    <3>1. \A r \in a.late : r.block \in R(0)[1]..R(0)[2] => r.block \in R(0)[1]..R(0)[2]
      OBVIOUS
    <3>2. \A r \in a.late : r.block \in R(1)[1]..R(1)[2] => r.block \in R(1)[1]..R(1)[2]
      OBVIOUS
    <3>3. IsFiniteSet(Active(a.late, pr, n, R(0)[1]..R(0)[2])) /\ IsFiniteSet(second)
      BY <1>1, <2>1, <3>1, <3>2, ActiveFacts
    <3> QED
      BY <3>3, FS_EmptySet
  <2>3. \A r \in a.late : \/ S(0) # {} /\ r.block \in R(0)[1]..R(0)[2]
                          \/ r.block \in R(1)[1]..R(1)[2]
                          \/ r.block \notin 0..R(1)[2]
    <3> SUFFICES ASSUME NEW r \in a.late, r.block \in 0..R(1)[2]
                 PROVE  \/ S(0) # {} /\ r.block \in R(0)[1]..R(0)[2]
                        \/ r.block \in R(1)[1]..R(1)[2]
      OBVIOUS
    <3>1. PICK b \in 1..NBlocks : b = r.block
      BY <1>0, <1>1
    <3>2. CASE b \in S(0)
      <4>1. R(0)[1] \in Nat /\ R(0)[2] \in Nat /\ R(0)[1] <= b /\ b <= R(0)[2]
        BY <1>0, <1>2, <1>3, <3>2
      <4> QED
        BY <3>1, <3>2, <4>1
    <3>3. CASE b \in S(1)
      <4>1. R(1)[1] \in Nat /\ R(1)[2] \in Nat /\ R(1)[1] <= b /\ b <= R(1)[2]
        BY <1>0, <1>2, <1>3, <3>3
      <4> QED
        BY <3>1, <4>1
    <3> QED
      BY <1>0, <1>4, <3>1, <3>2, <3>3
  <2>4. all \subseteq first \cup second
    BY <2>3 DEF Active
  <2>5. Cardinality(first) = IF S(0) = {} THEN 0 ELSE day(a.late, 0, n)
    BY FS_EmptySet
  <2>6. /\ Cardinality(all) = upTo(1, n) /\ Cardinality(second) = day(a.late, 1, n)
    OBVIOUS
  <2> HIDE DEF first, second, all, day, upTo, S
  <2>7. Cardinality(all) <= Cardinality(first) + Cardinality(second)
    BY <2>2, <2>4, TwoSets
  <2> QED
    BY <2>5, <2>6, <2>7
<1>10. ASSUME NEW n, S(0) # {}, S(1) # {}
       PROVE  Cardinality(Active(a.early, pr, n, 0..R(0)[2])) <= upTo(1, n)
  <2>1. R(0)[2] \in Nat /\ R(1)[2] \in Nat /\ R(0)[2] <= R(1)[2]
    BY <1>0, <1>2, <1>3, <1>4, <1>10
  <2>2. \A r \in a.early : r.block \in 0..R(0)[2] => r.block \in 0..R(1)[2]
    BY <2>1
  <2> QED
    BY <1>1, <2>2, ActiveFacts
<1>11. \A d, n : upTo(d, n) \in Nat
  <2> SUFFICES ASSUME NEW d, NEW n PROVE upTo(d, n) \in Nat
    OBVIOUS
  <2>1. a.late \in SUBSET a.late /\ \A r \in a.late : r.block \in 0..R(d)[2] => r.block \in 0..R(d)[2]
    OBVIOUS
  <2> QED
    BY <1>1, <2>1, ActiveFacts
<1>12. \A d : S(d) # {} => \A n : day(a.late, d, n) \in Nat
  <2>1. a.late \in SUBSET a.late
    OBVIOUS
  <2> QED
    BY <1>7, <2>1
<1>13. ASSUME NEW d \in Days, NEW n \in DOMAIN cumulative(a.late, d)
       PROVE  upTo(d, n) <= SumOver([e \in 0..d |-> on(e, n)], 0..d)
  <2> DEFINE f == [e \in 0..d |-> on(e, n)]
  <2>1. S(d) # {} /\ n \in GroupByName(pr)
    BY <1>5
  <2>2. \A e \in 0..d : f[e] = IF S(e) = {} THEN 0 ELSE day(a.late, e, n)
    BY <1>6, <2>1
  <2>3. \A e \in 0..d : f[e] \in Nat
    BY <1>12, <2>2
  <2> HIDE DEF f, on, day, upTo, S
  <2>4. CASE d = 0
    <3>1. 0..d = {0} /\ 0 \in 0..d
      BY <2>4
    <3>2. SumOver(f, {0}) = f[0]
      BY <2>3, <3>1, SumOfOne
    <3>3. f[0] = day(a.late, 0, n)
      BY <2>1, <2>2, <2>4, <3>1
    <3>4. upTo(0, n) <= day(a.late, 0, n)
      BY <1>8, <2>1, <2>4
    <3>5. upTo(d, n) <= SumOver(f, 0..d)
      BY <2>4, <3>1, <3>2, <3>3, <3>4
    <3> QED
      BY <3>5 DEF f
  <2>5. CASE d = 1
    <3>1. 0..d = {0} \cup {1} /\ 0 \in 0..d /\ 1 \in 0..d /\ 1 \notin {0}
      BY <2>5
    <3>2. SumOver(f, {0}) = f[0]
      BY <2>3, <3>1, SumOfOne
    <3>3. IsFiniteSet({0}) /\ \A e \in {0} \cup {1} : f[e] \in Nat
      BY <2>3, <3>1, FS_Singleton
    <3>4. SumOver(f, {0} \cup {1}) = f[1] + SumOver(f, {0})
      BY <3>1, <3>3, SumAdd
    <3>5. f[1] = day(a.late, 1, n) /\ f[0] = IF S(0) = {} THEN 0 ELSE day(a.late, 0, n)
      BY <2>1, <2>2, <2>5, <3>1
    <3>6. upTo(1, n) <= f[0] + f[1]
      <4>1. PICK x, y : /\ x = (IF S(0) = {} THEN 0 ELSE day(a.late, 0, n))
                        /\ y = day(a.late, 1, n)
        OBVIOUS
      <4>2. upTo(1, n) <= x + y
        BY <1>9, <2>1, <2>5, <4>1
      <4>3. x = f[0] /\ y = f[1]
        BY <3>5, <4>1
      <4> QED
        BY <4>2, <4>3
    <3>7. f[1] \in Nat /\ f[0] \in Nat
      BY <2>3, <3>1
    <3>8. SumOver(f, {0} \cup {1}) = f[0] + f[1]
      <4>1. PICK x \in Nat, y \in Nat : x = f[0] /\ y = f[1]
        BY <3>7
      <4>2. SumOver(f, {0} \cup {1}) = y + x
        BY <3>2, <3>4, <4>1
      <4>3. y + x = x + y
        OBVIOUS
      <4> QED
        BY <4>1, <4>2, <4>3
    <3>9. upTo(d, n) <= SumOver(f, 0..d)
      BY <2>5, <3>1, <3>6, <3>8
    <3> QED
      BY <3>9 DEF f
  <2> QED
    BY <2>4, <2>5 DEF Days
<1>14. ASSUME NEW n \in DOMAIN cumulative(a.late, 1), cumulative(a.early, 0) # <<>>
       PROVE  cumulative(a.early, 0)[n] <= upTo(1, n)
  <2>1. S(1) # {} /\ n \in GroupByName(pr)
    BY <1>5
  <2>2. R(0) # <<>>
    BY <1>14 DEF CumulativeDau
  <2>3. S(0) # {}
    BY <1>2, <2>2
  <2>4. cumulative(a.early, 0) = [m \in GroupByName(pr) |-> Cardinality(Active(a.early, pr, m, 0..R(0)[2]))]
    BY <2>2, ReportFacts
  <2>5. cumulative(a.early, 0)[n] = Cardinality(Active(a.early, pr, n, 0..R(0)[2]))
    <3> HIDE DEF cumulative
    <3> QED
      BY <2>1, <2>4
  <2> QED
    BY <1>10, <2>1, <2>3, <2>5
<1>15. ASSUME NEW d \in Days, NEW n \in DOMAIN cumulative(a.late, d)
       PROVE  LET all == cumulative(a.late, d)[n] IN
              /\ dau(a.early, d)[n] <= all
              /\ all <= SumOver([e \in 0..d |-> on(e, n)], 0..d)
              /\ d = 1 /\ cumulative(a.early, 0) # <<>> => cumulative(a.early, 0)[n] <= all
  <2>1. cumulative(a.late, d)[n] = upTo(d, n) /\ dau(a.early, d)[n] = day(a.early, d, n) /\ S(d) # {}
    BY <1>5
  <2>2. day(a.early, d, n) <= upTo(d, n)
    BY <1>1, <1>7, <2>1
  <2>3. d = 1 /\ cumulative(a.early, 0) # <<>> => cumulative(a.early, 0)[n] <= upTo(1, n)
    BY <1>14
  <2> HIDE DEF cumulative, dau, on, upTo, day
  <2> QED
    BY <1>13, <2>1, <2>2, <2>3
<1> QED
  BY <1>15 DEF DayAgrees

(* Every input of the reports is one of theirs. *)
LEMMA StatisticsFacts ==
  ASSUME FormulaInit
  PROVE  /\ input.of = "day" => IsDay(input)
         /\ input.of = "snapshots" => IsReport(input)
         /\ input.of = "projects" =>
              (AquaPair \in DOMAIN input.projects => input.projects[AquaPair] = "aqua")
<1>1. ASSUME input.of = "day" PROVE IsDay(input)
  <2>1. PICK late \in Ledgers :
          input \in [of : {"day"}, times : BlockTimes, projects : [Pair -> {"a", "b"}],
                     early : SUBSET late, late : {late}]
    BY <1>1, InputFacts DEF DayInputs
  <2>2. input.late = late /\ input.early \subseteq late /\ input.times \in BlockTimes
    BY <2>1
  <2>3. IsFiniteSet(late) /\ late \subseteq LedgerRow
    <3>1. late = {} \/ \E r, s \in LedgerRow : late = {r} \cup {s}
      BY <2>1 DEF Ledgers
    <3>2. CASE late = {}
      BY <3>2, FS_EmptySet
    <3>3. CASE \E r, s \in LedgerRow : late = {r} \cup {s}
      <4>1. PICK r \in LedgerRow, s \in LedgerRow : late = {r} \cup {s}
        BY <3>3
      <4>2. IsFiniteSet({r}) /\ IsFiniteSet({s})
        BY FS_Singleton
      <4>3. IsFiniteSet({r} \cup {s})
        BY <4>2, FS_Union
      <4> QED
        BY <4>1, <4>3
    <3> QED
      BY <3>1, <3>2, <3>3
  <2>4. \A r \in late : r.block \in BlockNumbers
    BY <2>3 DEF LedgerRow
  <2> QED
    BY <2>2, <2>3, <2>4 DEF IsDay
<1>2. ASSUME input.of = "snapshots" PROVE IsReport(input)
  <2>1. input \in SnapshotInputs
    BY <1>2, InputFacts
  <2>2. /\ input.worth \in Partial(BlockNumbers \X Pair, 1..2)
        /\ input.groups \in {<<Pair>>} \cup {<<{p}, Pair \ {p}>> : p \in Pair}
    BY <2>1 DEF SnapshotInputs
  <2>3. DOMAIN input.worth \subseteq BlockNumbers \X Pair
    BY <2>2 DEF Partial
  <2>4. input.groups \in Seq(SUBSET Pair)
    <3>1. input.groups = <<Pair>> \/ \E p \in Pair : input.groups = <<{p}, Pair \ {p}>>
      BY <2>2
    <3> DEFINE S == SUBSET Pair
    <3>2. Pair \in S /\ \A p \in Pair : {p} \in S /\ Pair \ {p} \in S
      OBVIOUS
    <3>3. \A x, y \in S : <<x>> \in Seq(S) /\ <<x, y>> \in Seq(S)
      <4> HIDE DEF S
      <4> QED
        OBVIOUS
    <3> HIDE DEF S
    <3>4. <<Pair>> \in Seq(S) /\ \A p \in Pair : <<{p}, Pair \ {p}>> \in Seq(S)
      BY <3>2, <3>3
    <3>5. input.groups \in Seq(S)
      BY <3>1, <3>4
    <3> QED
      BY <3>5 DEF S
  <2> QED
    BY <2>3, <2>4 DEF IsReport
<1>3. ASSUME input.of = "projects", AquaPair \in DOMAIN input.projects
      PROVE  input.projects[AquaPair] = "aqua"
  <2>1. input \in ProjectInputs
    BY <1>3, InputFacts
  <2> QED
    BY <1>3, <2>1 DEF ProjectInputs
<1> QED
  BY <1>1, <1>2, <1>3

(* StatisticService and ProjectTvlService: the reports agree, whatever the *)
(* length of a day, the number of blocks, the pairs and the projects.      *)
THEOREM StatisticsAgreeForAll == FormulaSpec => []StatisticsAgree
<1>1. FormulaInit => StatisticsAgree
  <2> SUFFICES ASSUME FormulaInit PROVE StatisticsAgree
    OBVIOUS
  <2>1. input.of = "day" => DayAgrees(input)
    BY StatisticsFacts, DaysAgreeForAll
  <2>2. input.of = "snapshots" => SnapshotAgrees(input)
    BY StatisticsFacts, SnapshotsAgreeForAll
  <2>3. input.of = "projects" => ProjectsAgree(input)
    BY StatisticsFacts, ProjectsAgreeForAll
  <2> QED
    BY <2>1, <2>2, <2>3 DEF StatisticsAgree
<1> QED
  BY <1>1, InputStays, PTL

------------------------------------------------------------------------------
(* Configuration. *)

(* The tables of the seasons and of the bridges, line by line. *)
LEMMA TableLines ==
  /\ DOMAIN Seasons = 1..4 /\ DOMAIN PointsRule = 1..5
  /\ ToSet(Seasons) = {Seasons[1], Seasons[2], Seasons[3], Seasons[4]}
  /\ Seasons[1] = [season |-> 1, first |-> 0,       end |-> 2226304]
  /\ Seasons[2] = [season |-> 2, first |-> 2226304, end |-> 4087520]
  /\ Seasons[3] = [season |-> 3, first |-> 4087520, end |-> 5727189]
  /\ Seasons[4] = [season |-> 4, first |-> 5727190, end |-> 999999999]
  /\ PointsRule[1] = [start |-> 0,   end |-> 200, points |-> 5]
  /\ PointsRule[2] = [start |-> 201, end |-> 400, points |-> 4]
  /\ PointsRule[3] = [start |-> 401, end |-> 600, points |-> 3]
  /\ PointsRule[4] = [start |-> 601, end |-> 800, points |-> 2]
  /\ PointsRule[5] = [start |-> 801, end |-> 0,   points |-> 1]
<1>1. DOMAIN Seasons = 1..4 /\ DOMAIN PointsRule = 1..5
  BY DEF Seasons, PointsRule
<1>2. 1..4 = {1, 2, 3, 4}
  OBVIOUS
<1>3. ToSet(Seasons) = {Seasons[1], Seasons[2], Seasons[3], Seasons[4]}
  BY <1>1, <1>2 DEF ToSet
<1> QED
  BY <1>1, <1>3 DEF Seasons, PointsRule

(* Every block is in one season, but one block in none. *)
LEMMA SeasonsCoverAll ==
  ASSUME NEW b \in Nat
  PROVE  SeasonsCover(b)
<1>2. \A x : Cardinality({x}) = 1
  BY FS_Singleton
<1> SUFFICES ASSUME b < 999999999
             PROVE  Cardinality(SeasonsOf(b)) = IF b = 5727189 THEN 0 ELSE 1
  BY DEF SeasonsCover
<1>1. SeasonsOf(b) = {s \in {Seasons[1], Seasons[2], Seasons[3], Seasons[4]} : s.first <= b /\ b < s.end}
  BY TableLines DEF SeasonsOf
<1>3. CASE b = 5727189
  <2>1. SeasonsOf(b) = {}
    BY <1>1, <1>3, TableLines
  <2> QED
    BY <1>3, <2>1, FS_EmptySet
<1>4. CASE b # 5727189
  <2>1. \E k \in 1..4 : SeasonsOf(b) = {Seasons[k]}
    <3>1. CASE b < 2226304
      <4>1. SeasonsOf(b) = {Seasons[1]}
        BY <1>1, <3>1, TableLines
      <4> QED
        BY <4>1
    <3>2. CASE 2226304 <= b /\ b < 4087520
      <4>1. SeasonsOf(b) = {Seasons[2]}
        BY <1>1, <3>2, TableLines
      <4> QED
        BY <4>1
    <3>3. CASE 4087520 <= b /\ b < 5727189
      <4>1. SeasonsOf(b) = {Seasons[3]}
        BY <1>1, <3>3, TableLines
      <4> QED
        BY <4>1
    <3>4. CASE 5727190 <= b
      <4>1. SeasonsOf(b) = {Seasons[4]}
        BY <1>1, <3>4, TableLines
      <4> QED
        BY <4>1
    <3> QED
      BY <1>4, <3>1, <3>2, <3>3, <3>4
  <2> QED
    BY <1>2, <1>4, <2>1
<1> QED
  BY <1>3, <1>4

(* Sets of none, of one and of two. *)
LEMMA SmallCounts ==
  /\ Cardinality({}) = 0
  /\ \A x : Cardinality({x}) = 1
  /\ \A x, y : x # y => Cardinality({x, y}) = 2
<1>1. Cardinality({}) = 0 /\ \A x : Cardinality({x}) = 1
  BY FS_EmptySet, FS_Singleton
<1>2. \A x, y : x # y => Cardinality({x, y}) = 2
  <2> SUFFICES ASSUME NEW x, NEW y, x # y PROVE Cardinality({x, y}) = 2
    OBVIOUS
  <2>1. IsFiniteSet({x}) /\ Cardinality({x}) = 1 /\ y \notin {x} /\ {x} \cup {y} = {x, y}
    BY FS_Singleton
  <2>2. Cardinality({x} \cup {y}) = Cardinality({x}) + 1
    BY <2>1, FS_AddElement
  <2> QED
    BY <2>1, <2>2
<1> QED
  BY <1>1, <1>2

(* The least of one number. *)
LEMMA MinOfOne ==
  ASSUME NEW n \in Nat
  PROVE  Min({n}) = n
BY DEF Min

(* What the next transfer earns, by how many there were that day, and that *)
(* one rule says so.                                                       *)
LEMMA PointsByCount ==
  ASSUME NEW n \in Nat
  PROVE  /\ \E k \in 1..5 : RulesFor(n) = {k}
         /\ n <= 200 => CalculatePoint(n) = 5
         /\ 201 <= n /\ n <= 400 => CalculatePoint(n) = 4
         /\ 401 <= n /\ n <= 600 => CalculatePoint(n) = 3
         /\ 601 <= n /\ n <= 800 => CalculatePoint(n) = 2
         /\ 801 <= n => CalculatePoint(n) = 1
<1> DEFINE lines == RulesFor(n)
<1>1. CalculatePoint(n) = IF lines = {} THEN 0 ELSE PointsRule[Min(lines)].points
  BY DEF CalculatePoint
<1>2. lines = {i \in {1, 2, 3, 4, 5} : /\ n >= PointsRule[i].start
                                       /\ PointsRule[i].end = 0 \/ n <= PointsRule[i].end}
  <2>1. 1..5 = {1, 2, 3, 4, 5}
    OBVIOUS
  <2> QED
    BY <2>1, TableLines DEF RulesFor
<1>3. /\ n <= 200 => lines = {1}
      /\ 201 <= n /\ n <= 400 => lines = {2}
      /\ 401 <= n /\ n <= 600 => lines = {3}
      /\ 601 <= n /\ n <= 800 => lines = {4}
      /\ 801 <= n => lines = {5}
  <2> HIDE DEF lines
  <2> QED
    BY <1>2, TableLines
<1> HIDE DEF lines
<1>4. \A k \in 1..5 : lines = {k} => CalculatePoint(n) = PointsRule[k].points
  BY <1>1, MinOfOne
<1>5. \E k \in 1..5 : lines = {k}
  BY <1>3
<1>6. \E k \in 1..5 : RulesFor(n) = {k}
  BY <1>5 DEF lines
<1> QED
  BY <1>3, <1>4, <1>6, TableLines

(* Every transfer earns a point, and no more than the one before. *)
LEMMA CountsAgree ==
  ASSUME NEW n \in Nat
  PROVE  CountAgrees(n)
<1>1. n + 1 \in Nat
  OBVIOUS
<1>2. Cardinality(RulesFor(n)) = 1
  BY PointsByCount, SmallCounts
<1> QED
  BY <1>1, <1>2, PointsByCount DEF CountAgrees

(* The units of time. *)
LEMMA UnitFacts == From \in Nat /\ Day \in Nat /\ Day > 0 /\ Week = 7 * Day
<1>1. From \in Nat
  BY SMT DEF From
<1>2. Day = 86400
  BY DEF Day
<1> QED
  BY <1>1, <1>2 DEF Week

(* The lines of the withdrawals: where each begins and ends, and how long  *)
(* a withdrawal of it counts.                                              *)
LEMMA WithdrawTable ==
  /\ DOMAIN WithdrawTime = 1..9
  /\ WithdrawTime[1] = Lasts(From, From + Week, 14)
  /\ \A i \in 1..7 : WithdrawTime[i + 1] = Lasts(From + Week + (i - 1) * Day, From + Week + i * Day, 14 - i)
  /\ WithdrawTime[9] = Lasts(From + 13 * Day, 2029766400, 7)
<1> DEFINE a == Lasts(From, From + Week, 14)
           b(i) == Lasts(From + Week + (i - 1) * Day, From + Week + i * Day, 14 - i)
           c == Lasts(From + 13 * Day, 2029766400, 7)
           S == {a} \cup {b(i) : i \in 1..7} \cup {c}
           x == <<a>>
           y == [i \in 1..7 |-> b(i)]
           z == <<c>>
<1>1. WithdrawTime = (x \o y) \o z
  BY DEF WithdrawTime
<1> HIDE DEF a, b, c
<1>2. /\ a \in S /\ c \in S /\ \A i \in 1..7 : b(i) \in S
  OBVIOUS
<1> HIDE DEF S
<1>3. /\ x \in Seq(S) /\ Len(x) = 1 /\ x[1] = a
      /\ z \in Seq(S) /\ Len(z) = 1 /\ z[1] = c
  BY <1>2
<1>4. y \in Seq(S) /\ Len(y) = 7 /\ \A i \in 1..7 : y[i] = b(i)
  BY <1>2
<1> HIDE DEF x, y, z
<1>5. /\ x \o y \in Seq(S) /\ Len(x \o y) = 8
      /\ \A i \in 1..8 : (x \o y)[i] = IF i <= 1 THEN x[i] ELSE y[i - 1]
  <2>1. /\ x \o y \in Seq(S) /\ Len(x \o y) = Len(x) + Len(y)
        /\ \A i \in 1..Len(x) + Len(y) : (x \o y)[i] = IF i <= Len(x) THEN x[i] ELSE y[i - Len(x)]
    BY <1>3, <1>4, ConcatProperties
  <2>2. Len(x) = 1 /\ Len(x) + Len(y) = 8
    BY <1>3, <1>4
  <2> QED
    BY <2>1, <2>2
<1>6. PICK w \in Seq(S) : w = x \o y /\ Len(w) = 8
  BY <1>5
<1>7. /\ w \o z \in Seq(S) /\ Len(w \o z) = 9
      /\ \A i \in 1..9 : (w \o z)[i] = IF i <= 8 THEN w[i] ELSE z[i - 8]
  <2>1. /\ w \o z \in Seq(S) /\ Len(w \o z) = Len(w) + Len(z)
        /\ \A i \in 1..Len(w) + Len(z) : (w \o z)[i] = IF i <= Len(w) THEN w[i] ELSE z[i - Len(w)]
    BY <1>3, <1>6, ConcatProperties
  <2>2. Len(w) = 8 /\ Len(w) + Len(z) = 9
    BY <1>3, <1>6
  <2> QED
    BY <2>1, <2>2
<1>8. PICK v \in Seq(S) : v = w \o z /\ Len(v) = 9
  BY <1>7
<1>9. DOMAIN v = 1..9
  <2>1. DOMAIN v = 1..Len(v)
    OBVIOUS
  <2> QED
    BY <1>8, <2>1
<1>10. v[1] = a
  BY <1>3, <1>5, <1>6, <1>7, <1>8
<1>11. ASSUME NEW i \in 1..7 PROVE v[i + 1] = b(i)
  <2>1. i + 1 \in 1..9 /\ i + 1 \in 1..8 /\ i + 1 <= 8 /\ ~(i + 1 <= 1) /\ (i + 1) - 1 = i
    OBVIOUS
  <2>2. v[i + 1] = w[i + 1] /\ w[i + 1] = y[i]
    BY <1>5, <1>6, <1>7, <1>8, <2>1
  <2> QED
    BY <1>4, <2>2
<1>12. v[9] = c
  <2>1. 9 \in 1..9 /\ ~(9 <= 8) /\ 9 - 8 = 1
    OBVIOUS
  <2> QED
    BY <1>3, <1>7, <1>8, <2>1
<1>13. WithdrawTime = v
  BY <1>1, <1>6, <1>8
<1> QED
  BY <1>9, <1>10, <1>11, <1>12, <1>13 DEF a, b, c

(* A withdrawal after the first counts for a week or two, one before it    *)
(* for nothing; one line says so, but for the day that two lines of one    *)
(* period share.                                                           *)
LEMMA WithdrawalsCount ==
  ASSUME NEW t \in Int
  PROVE  /\ t >= From /\ t < 2029766400 => CountsUntil(t) - t \in 7 * Day..14 * Day
         /\ t < From => CountsUntil(t) = t
         /\ Cardinality(LinesAt(t)) = CASE t < From \/ t >= 2029766400 -> 0
                                         [] t - From \in 13 * Day..14 * Day - 1 -> 2
                                         [] OTHER -> 1
         /\ \A i, j \in LinesAt(t) : WithdrawTime[i].period = WithdrawTime[j].period
<1> DEFINE lines == LinesAt(t)
           first(i) == WithdrawTime[i].first
           end(i) == WithdrawTime[i].end
           period(i) == WithdrawTime[i].period
           last == 2029766400
<1>1. From \in Nat /\ Day \in Nat /\ Day > 0 /\ Week = 7 * Day
  BY UnitFacts
<1>2. CountsUntil(t) = IF lines = {} THEN t ELSE t + period(Min(lines))
  BY DEF CountsUntil
<1>3. \A f, e, n : Lasts(f, e, n).first = f /\ Lasts(f, e, n).end = e /\ Lasts(f, e, n).period = n * Day
  BY DEF Lasts
<1>4. first(1) = From /\ end(1) = From + Week /\ period(1) = 14 * Day
  BY <1>3, WithdrawTable
<1>5. \A i \in 1..7 : /\ first(i + 1) = From + Week + (i - 1) * Day
                      /\ end(i + 1) = From + Week + i * Day
                      /\ period(i + 1) = (14 - i) * Day
  BY <1>3, WithdrawTable
<1>6. first(9) = From + 13 * Day /\ end(9) = last /\ period(9) = 7 * Day
  BY <1>3, WithdrawTable
<1>7. lines = {i \in 1..9 : first(i) <= t /\ t < end(i)}
  BY WithdrawTable DEF LinesAt
<1> HIDE DEF lines, first, end, period, last
<1>8. /\ first(1) = From           /\ end(1) = From + 7 * Day  /\ period(1) = 14 * Day
      /\ first(2) = From + 7 * Day  /\ end(2) = From + 8 * Day  /\ period(2) = 13 * Day
      /\ first(3) = From + 8 * Day  /\ end(3) = From + 9 * Day  /\ period(3) = 12 * Day
      /\ first(4) = From + 9 * Day  /\ end(4) = From + 10 * Day /\ period(4) = 11 * Day
      /\ first(5) = From + 10 * Day /\ end(5) = From + 11 * Day /\ period(5) = 10 * Day
      /\ first(6) = From + 11 * Day /\ end(6) = From + 12 * Day /\ period(6) = 9 * Day
      /\ first(7) = From + 12 * Day /\ end(7) = From + 13 * Day /\ period(7) = 8 * Day
      /\ first(8) = From + 13 * Day /\ end(8) = From + 14 * Day /\ period(8) = 7 * Day
      /\ first(9) = From + 13 * Day /\ end(9) = last            /\ period(9) = 7 * Day
  <2>1. /\ first(1 + 1) = From + Week + (1 - 1) * Day /\ end(1 + 1) = From + Week + 1 * Day /\ period(1 + 1) = (14 - 1) * Day
        /\ first(2 + 1) = From + Week + (2 - 1) * Day /\ end(2 + 1) = From + Week + 2 * Day /\ period(2 + 1) = (14 - 2) * Day
        /\ first(3 + 1) = From + Week + (3 - 1) * Day /\ end(3 + 1) = From + Week + 3 * Day /\ period(3 + 1) = (14 - 3) * Day
        /\ first(4 + 1) = From + Week + (4 - 1) * Day /\ end(4 + 1) = From + Week + 4 * Day /\ period(4 + 1) = (14 - 4) * Day
        /\ first(5 + 1) = From + Week + (5 - 1) * Day /\ end(5 + 1) = From + Week + 5 * Day /\ period(5 + 1) = (14 - 5) * Day
        /\ first(6 + 1) = From + Week + (6 - 1) * Day /\ end(6 + 1) = From + Week + 6 * Day /\ period(6 + 1) = (14 - 6) * Day
        /\ first(7 + 1) = From + Week + (7 - 1) * Day /\ end(7 + 1) = From + Week + 7 * Day /\ period(7 + 1) = (14 - 7) * Day
    BY <1>5
  <2> QED
    BY <1>1, <1>4, <1>6, <2>1
<1>9. \A i \in 1..9 : /\ first(i) \in Int /\ first(i) >= From
                      /\ period(i) \in 7 * Day..14 * Day
  <2>1. 1..9 = {1, 2, 3, 4, 5, 6, 7, 8, 9}
    OBVIOUS
  <2> QED
    BY <1>1, <1>8, <2>1
<1>10. ASSUME t >= From, t < last PROVE lines # {}
  <2>1. \E i \in {1, 2, 3, 4, 5, 6, 7, 9} : first(i) <= t /\ t < end(i)
    BY <1>1, <1>8, <1>10
  <2> QED
    BY <1>7, <2>1
<1>11. ASSUME t < From PROVE lines = {}
  <2>1. ASSUME NEW f \in Int, f >= From, f <= t PROVE FALSE
    BY <1>1, <1>11, <2>1
  <2> QED
    BY <1>7, <1>9, <2>1
<1>12. ASSUME lines # {} PROVE Min(lines) \in 1..9
  <2>1. lines \subseteq 1..9
    BY <1>7
  <2>2. lines \subseteq Nat
    BY <2>1
  <2>3. \E x \in lines : \A y \in lines : x <= y
    BY <1>12, <2>2, LeastNumber
  <2>4. Min(lines) \in lines
    BY <2>3 DEF Min
  <2> QED
    BY <2>1, <2>4
<1>13. ASSUME t >= From, t < last PROVE CountsUntil(t) - t \in 7 * Day..14 * Day
  <2>1. PICK p : p = period(Min(lines))
    OBVIOUS
  <2>2. p \in 7 * Day..14 * Day /\ CountsUntil(t) = t + p
    BY <1>2, <1>9, <1>10, <1>12, <1>13, <2>1
  <2>3. 7 * Day \in Int /\ 14 * Day \in Int
    BY <1>1
  <2>4. \A n \in 7 * Day..14 * Day : (t + n) - t = n
    BY <2>3
  <2> QED
    BY <2>2, <2>4
<1>14. From + 14 * Day < last
  BY DEF From, Day, last
<1>15. /\ t < From \/ t >= last => lines = {}
       /\ 13 * Day <= t - From /\ t - From < 14 * Day => lines = {8, 9}
       /\ t >= From /\ t < last /\ ~(13 * Day <= t - From /\ t - From < 14 * Day) =>
            \E k \in 1..9 : lines = {k}
  <2>1. lines = {i \in {1, 2, 3, 4, 5, 6, 7, 8, 9} : first(i) <= t /\ t < end(i)}
    <3>1. 1..9 = {1, 2, 3, 4, 5, 6, 7, 8, 9}
      OBVIOUS
    <3> QED
      BY <1>7, <3>1
  <2>2. last \in Int
    BY DEF last
  <2>3. t < From \/ t >= last => lines = {}
    BY <1>1, <1>8, <1>14, <2>1, <2>2
  <2>4. 13 * Day <= t - From /\ t - From < 14 * Day => lines = {8, 9}
    BY <1>1, <1>8, <1>14, <2>1, <2>2
  <2>5. /\ t >= From /\ t < From + 7 * Day => lines = {1}
        /\ t >= From + 7 * Day /\ t < From + 8 * Day => lines = {2}
        /\ t >= From + 8 * Day /\ t < From + 9 * Day => lines = {3}
        /\ t >= From + 9 * Day /\ t < From + 10 * Day => lines = {4}
    BY <1>1, <1>8, <1>14, <2>1, <2>2
  <2>6. /\ t >= From + 10 * Day /\ t < From + 11 * Day => lines = {5}
        /\ t >= From + 11 * Day /\ t < From + 12 * Day => lines = {6}
        /\ t >= From + 12 * Day /\ t < From + 13 * Day => lines = {7}
        /\ t >= From + 14 * Day /\ t < last => lines = {9}
    BY <1>1, <1>8, <1>14, <2>1, <2>2
  <2>7. t >= From /\ t < last /\ ~(13 * Day <= t - From /\ t - From < 14 * Day) =>
          \E k \in {1, 2, 3, 4, 5, 6, 7, 9} : lines = {k}
    BY <1>1, <2>2, <2>5, <2>6
  <2> QED
    BY <2>3, <2>4, <2>7
<1>16. Cardinality(lines) = CASE t < From \/ t >= last -> 0
                              [] t - From \in 13 * Day..14 * Day - 1 -> 2
                              [] OTHER -> 1
  <2>1. Cardinality({}) = 0 /\ Cardinality({8, 9}) = 2 /\ \A k : Cardinality({k}) = 1
    <3>1. 8 # 9
      OBVIOUS
    <3> HIDE DEF lines
    <3> QED
      BY <3>1, SmallCounts, Zenon
  <2>2. t - From \in 13 * Day..14 * Day - 1 <=> 13 * Day <= t - From /\ t - From < 14 * Day
    BY <1>1
  <2>3. last \in Int
    BY DEF last
  <2>4. CASE t < From \/ t >= last
    <3>1. ~(t - From \in 13 * Day..14 * Day - 1)
      BY <1>1, <1>14, <2>2, <2>3, <2>4
    <3> QED
      BY <1>15, <2>1, <2>4, <3>1
  <2>5. CASE t - From \in 13 * Day..14 * Day - 1
    <3>1. ~(t < From \/ t >= last)
      BY <1>1, <1>14, <2>2, <2>3, <2>5
    <3> QED
      BY <1>15, <2>1, <2>2, <2>5, <3>1
  <2>6. CASE ~(t < From \/ t >= last) /\ ~(t - From \in 13 * Day..14 * Day - 1)
    <3>1. t >= From /\ t < last
      BY <1>1, <2>3, <2>6
    <3>2. PICK k \in 1..9 : lines = {k}
      BY <1>15, <2>2, <2>6, <3>1
    <3> QED
      BY <2>1, <2>6, <3>2
  <2> QED
    BY <2>4, <2>5, <2>6
<1>17. \A i, j \in lines : period(i) = period(j)
  <2>1. CASE t < From \/ t >= last
    BY <1>15, <2>1
  <2>2. CASE 13 * Day <= t - From /\ t - From < 14 * Day
    <3>1. lines = {8, 9} /\ period(8) = period(9)
      BY <1>8, <1>15, <2>2
    <3> QED
      BY <3>1
  <2>3. CASE t >= From /\ t < last /\ ~(13 * Day <= t - From /\ t - From < 14 * Day)
    <3>1. PICK k \in 1..9 : lines = {k}
      BY <1>15, <2>3
    <3> QED
      BY <3>1
  <2>4. last \in Int
    BY DEF last
  <2> QED
    BY <1>1, <2>1, <2>2, <2>3, <2>4
<1> QED
  BY <1>2, <1>11, <1>13, <1>16, <1>17 DEF last, lines, period

(* A quotient, rounded down, of a number that may be below zero. *)
LEMMA FloorFacts ==
  ASSUME NEW t \in Int, NEW h \in Nat, h > 0
  PROVE  t \div h \in Int /\ h * (t \div h) <= t /\ t < h * (t \div h) + h
OBVIOUS

(* The three weeks and the month of the early birds. *)
LEMMA EarlyBirdFacts ==
  ASSUME NEW t \in Int
  PROVE  /\ t < Phase1 + Week => EarlyBird(t) = 2000
         /\ Phase1 + Week <= t /\ t < Phase1 + 2 * Week => EarlyBird(t) = 1500
         /\ Phase1 + 2 * Week <= t /\ t < WithdrawStart => EarlyBird(t) = 1200
         /\ WithdrawStart <= t => EarlyBird(t) = 1000
         /\ Phase1 + 2 * Week <= WithdrawStart
<1> DEFINE q == (t - Phase1) \div Week
<1>1. Week \in Nat /\ Week > 0 /\ Phase1 \in Nat /\ WithdrawStart \in Int /\ Phase1 + 2 * Week <= WithdrawStart
  BY UnitFacts, PeriodAssumption
<1>2. q \in Int /\ Week * q <= t - Phase1 /\ t - Phase1 < Week * q + Week
  <2>1. t - Phase1 \in Int
    BY <1>1
  <2> QED
    BY <1>1, <2>1, FloorFacts
<1>3. EarlyBird(t) = IF q < 1 THEN 2000 ELSE IF q < 2 THEN 1500 ELSE IF t < WithdrawStart THEN 1200 ELSE 1000
  BY DEF EarlyBird
<1> HIDE DEF q
<1>4. ASSUME NEW n \in {1, 2} PROVE q < n <=> t < Phase1 + n * Week
  <2>1. ASSUME q < n PROVE t < Phase1 + n * Week
    <3>1. q + 1 <= n
      BY <1>2, <2>1
    <3>2. Week * q + Week = Week * (q + 1) /\ Week * (q + 1) <= Week * n /\ Week * n = n * Week
      BY <1>1, <1>2, <3>1
    <3>3. Week * q \in Int /\ n * Week \in Int
      BY <1>1, <1>2
    <3> QED
      BY <1>1, <1>2, <3>2, <3>3
  <2>2. ASSUME ~(q < n) PROVE ~(t < Phase1 + n * Week)
    <3>1. n <= q
      BY <1>2, <2>2
    <3>2. Week * n <= Week * q /\ Week * n = n * Week
      BY <1>1, <1>2, <3>1
    <3>3. Week * q \in Int /\ n * Week \in Int
      BY <1>1, <1>2
    <3> QED
      BY <1>1, <1>2, <3>2, <3>3
  <2> QED
    BY <2>1, <2>2
<1>5. (q < 1 <=> t < Phase1 + Week) /\ (q < 2 <=> t < Phase1 + 2 * Week)
  BY <1>1, <1>4
<1>6. Phase1 + Week <= Phase1 + 2 * Week
  BY <1>1
<1> QED
  BY <1>1, <1>3, <1>5, <1>6

(* An earlier time is never worth less. *)
LEMMA EarlyBirdFalls ==
  ASSUME NEW t \in Int, NEW u \in Int, t <= u
  PROVE  /\ EarlyBird(t) >= EarlyBird(u)
         /\ EarlyBird(t) \in Nat /\ 1000 <= EarlyBird(t) /\ EarlyBird(t) <= 2000
<1>1. PICK a, b, c : a = Phase1 + Week /\ b = Phase1 + 2 * Week /\ c = WithdrawStart
  OBVIOUS
<1>2. a \in Int /\ b \in Int /\ c \in Int /\ a <= b
  BY <1>1, UnitFacts, PeriodAssumption
<1>3. ASSUME NEW x \in Int
      PROVE  /\ x < a => EarlyBird(x) = 2000
             /\ a <= x /\ x < b => EarlyBird(x) = 1500
             /\ b <= x /\ x < c => EarlyBird(x) = 1200
             /\ c <= x => EarlyBird(x) = 1000
             /\ b <= c
  BY <1>1, EarlyBirdFacts
<1>4. EarlyBird(t) \in Nat /\ 1000 <= EarlyBird(t) /\ EarlyBird(t) <= 2000
  BY <1>2, <1>3
<1>5. EarlyBird(t) >= EarlyBird(u)
  BY <1>2, <1>3
<1> QED
  BY <1>4, <1>5

(* A deposit before the block is worth up to a half more, one in the       *)
(* second after it a little less.                                          *)
LEMMA LoyaltyFacts ==
  ASSUME NEW t \in Int
  PROVE  /\ \A d \in Int : d <= t =>
              Loyalty(t, d) \in Nat /\ 1000 <= Loyalty(t, d) /\ Loyalty(t, d) <= 1500
         /\ t >= WithdrawStart => Loyalty(t, t + 1) = 995
<1>1. Day \in Nat /\ Day > 0 /\ Phase1 \in Nat /\ WithdrawStart \in Int /\ WithdrawStart >= 0
  BY UnitFacts, PeriodAssumption
<1>2. ASSUME NEW d \in Int, d <= t PROVE Loyalty(t, d) \in Nat /\ 1000 <= Loyalty(t, d) /\ Loyalty(t, d) <= 1500
  <2> DEFINE days == (t - d) \div Day
  <2>1. days \in Nat
    <3>1. t - d \in Nat
      BY <1>2
    <3> QED
      BY <1>1, <3>1, QuotientFacts
  <2>2. Loyalty(t, d) = IF t < WithdrawStart \/ d = NoDeposit THEN 1000
                        ELSE 1000 + IF 5 * days < 500 THEN 5 * days ELSE 500
    BY DEF Loyalty
  <2> HIDE DEF days
  <2> QED
    BY <2>1, <2>2
<1>3. ASSUME t >= WithdrawStart PROVE Loyalty(t, t + 1) = 995
  <2> DEFINE days == (t - (t + 1)) \div Day
  <2>1. t - (t + 1) = -1
    OBVIOUS
  <2>2. days \in Int /\ Day * days <= -1 /\ -1 < Day * days + Day
    BY <1>1, <2>1, FloorFacts
  <2>3. Loyalty(t, t + 1) = 1000 + IF 5 * days < 500 THEN 5 * days ELSE 500
    BY <1>1, <1>3 DEF Loyalty, NoDeposit
  <2> HIDE DEF days
  <2>4. days = -1
    <3>1. days < 0
      <4> SUFFICES ASSUME days >= 0 PROVE FALSE
        BY <2>2
      <4>1. Day * days >= 0
        BY <1>1, <2>2
      <4> QED
        BY <1>1, <2>2, <4>1
    <3>2. days > -2
      <4> SUFFICES ASSUME days <= -2 PROVE FALSE
        BY <2>2
      <4>1. Day * days <= Day * (-2)
        BY <1>1, <2>2
      <4>2. Day * (-2) + Day <= -1
        BY <1>1
      <4> QED
        BY <1>1, <2>2, <4>1, <4>2
    <3> QED
      BY <2>2, <3>1, <3>2
  <2> QED
    BY <2>3, <2>4
<1> QED
  BY <1>2, <1>3

(* The boosters of a time, at every time. *)
LEMMA MomentsAgree ==
  ASSUME NEW t \in Int
  PROVE  MomentAgrees(t)
<1>1. Day \in Nat /\ Week \in Nat /\ Phase1 \in Int /\ WithdrawStart \in Int
  BY UnitFacts, PeriodAssumption
<1>2. \A u \in Int : t <= u => /\ EarlyBird(t) >= EarlyBird(u)
                             /\ EarlyBird(t) \in Nat /\ 1000 <= EarlyBird(t) /\ EarlyBird(t) <= 2000
  BY EarlyBirdFalls
<1>3. \A u \in {t + 1, t + Day, t + Week} : u \in Int /\ t <= u
  BY <1>1
<1>4. \A u \in {t + 1, t + Day, t + Week} : EarlyBird(t) >= EarlyBird(u)
  BY <1>2, <1>3
<1>5. EarlyBird(t) \in 1000..2000
  BY <1>2
<1>6. \A d \in Int : d <= t =>
        Loyalty(t, d) \in Nat /\ 1000 <= Loyalty(t, d) /\ Loyalty(t, d) <= 1500
  BY LoyaltyFacts
<1>7. \A d \in {Phase1, WithdrawStart, t - Day, t - 100 * Day, t} : d \in Int
  BY <1>1
<1>8. \A d \in {Phase1, WithdrawStart, t - Day, t - 100 * Day, t} : d <= t => Loyalty(t, d) \in 1000..1500
  <2> SUFFICES ASSUME NEW d \in {Phase1, WithdrawStart, t - Day, t - 100 * Day, t}, d <= t
               PROVE  Loyalty(t, d) \in 1000..1500
    OBVIOUS
  <2>1. Loyalty(t, d) \in Nat /\ 1000 <= Loyalty(t, d) /\ Loyalty(t, d) <= 1500
    BY <1>6, <1>7
  <2> QED
    BY <2>1
<1>9. t >= WithdrawStart => Loyalty(t, t + 1) = 995
  BY LoyaltyFacts
<1> QED
  BY <1>4, <1>5, <1>8, <1>9, WithdrawalsCount DEF MomentAgrees

(* A finite set of numbers has a greatest one. *)
LEMMA FiniteHasGreatest ==
  ASSUME NEW T, T \subseteq Nat, IsFiniteSet(T), T # {}
  PROVE  \E x \in T : \A y \in T : y <= x
<1> DEFINE P == {s \in SUBSET T : s = {} \/ \E x \in s : \A y \in s : y <= x}
<1>1. {} \in P
  OBVIOUS
<1>2. ASSUME NEW s \in SUBSET T, s # {}, \A x \in s : s \ {x} \in P
      PROVE  s \in P
  <2>1. PICK e \in s : TRUE
    BY <1>2
  <2>2. s \ {e} = {} \/ \E x \in s \ {e} : \A y \in s \ {e} : y <= x
    BY <1>2
  <2>3. \A y \in s : y \in Nat
    OBVIOUS
  <2>4. CASE s \ {e} = {}
    BY <2>1, <2>3, <2>4
  <2>5. CASE \E x \in s \ {e} : \A y \in s \ {e} : y <= x
    <3>1. PICK x \in s \ {e} : \A y \in s \ {e} : y <= x
      BY <2>5
    <3>2. CASE x <= e
      <4>1. \A y \in s : y <= e
        BY <2>3, <3>1, <3>2
      <4> QED
        BY <4>1
    <3>3. CASE ~(x <= e)
      <4>1. \A y \in s : y <= x
        BY <2>3, <3>1, <3>3
      <4> QED
        BY <3>1, <4>1
    <3> QED
      BY <3>2, <3>3
  <2> QED
    BY <2>2, <2>4, <2>5
<1> HIDE DEF P
<1>3. T \in P
  BY <1>1, <1>2, SetInduction
<1> QED
  BY <1>3 DEF P

(* A list of multipliers with times. *)
IsMultipliers(ms) ==
  /\ ms \in Seq([multiplier : Nat, timestamp : Nat]) /\ ms # <<>>

(* Its entries are numbered, and their times are numbers. *)
LEMMA MultiplierTimes ==
  ASSUME NEW ms, IsMultipliers(ms)
  PROVE  /\ DOMAIN ms = 1..Len(ms) /\ Len(ms) \in Nat /\ 1 \in DOMAIN ms
         /\ \A i \in DOMAIN ms : ms[i].timestamp \in Nat
<1> DEFINE M == [multiplier : Nat, timestamp : Nat]
<1>1. ms \in Seq(M) /\ ms # <<>> /\ \A m \in M : m.timestamp \in Nat
  BY DEF IsMultipliers
<1> HIDE DEF M
<1>2. DOMAIN ms = 1..Len(ms) /\ Len(ms) \in Nat /\ Len(ms) # 0 /\ \A i \in 1..Len(ms) : ms[i] \in M
  BY <1>1
<1> QED
  BY <1>1, <1>2

(* Of the entries at S, one comes before all others and one after.  *)
LEMMA SortedFacts ==
  ASSUME NEW ms, IsMultipliers(ms), NEW S, S \subseteq DOMAIN ms, S # {}
  PROVE  /\ FirstOf(ms, S) \in S /\ \A j \in S : ms[j].timestamp <= ms[FirstOf(ms, S)].timestamp
         /\ LastOf(ms, S) \in S /\ \A j \in S : ms[LastOf(ms, S)].timestamp <= ms[j].timestamp
<1> DEFINE at == [i \in S |-> ms[i].timestamp]
           times == {at[i] : i \in S}
<1>1. IsFiniteSet(S) /\ S \subseteq Nat /\ \A i \in S : at[i] \in Nat /\ at[i] = ms[i].timestamp
  <2>1. Len(ms) \in Nat /\ DOMAIN ms = 1..Len(ms) /\ \A i \in DOMAIN ms : ms[i].timestamp \in Nat
    BY MultiplierTimes
  <2>2. IsFiniteSet(DOMAIN ms)
    BY <2>1, FS_Interval
  <2> QED
    BY <2>1, <2>2, FS_Subset
<1> HIDE DEF at
<1>2. times \subseteq Nat /\ IsFiniteSet(times) /\ times # {}
  BY <1>1, FiniteImage
<1>3. \E n \in times : \A m \in times : m <= n
  BY <1>2, FiniteHasGreatest
<1>4. \E n \in times : \A m \in times : n <= m
  BY <1>2, LeastNumber
<1>5. PICK n \in Nat : n \in times /\ \A j \in S : at[j] <= n
  BY <1>2, <1>3
<1>6. PICK m \in Nat : m \in times /\ \A j \in S : m <= at[j]
  BY <1>2, <1>4
<1>7. PICK f \in S : at[f] = n /\ \A j \in S : at[j] = n => f <= j
  <2> DEFINE T == {i \in S : at[i] = n}
  <2>1. T \subseteq Nat /\ T # {}
    BY <1>1, <1>5
  <2>2. \E x \in T : \A y \in T : x <= y
    <3> HIDE DEF T
    <3> QED
      BY <2>1, LeastNumber
  <2> QED
    BY <2>2
<1>8. PICK l \in S : at[l] = m /\ \A j \in S : at[j] = m => j <= l
  <2> DEFINE T == {i \in S : at[i] = m}
  <2>1. T \subseteq Nat /\ T # {} /\ IsFiniteSet(T)
    BY <1>1, <1>6, FS_Subset
  <2>2. \E x \in T : \A y \in T : y <= x
    <3> HIDE DEF T
    <3> QED
      BY <2>1, FiniteHasGreatest
  <2> QED
    BY <2>2
<1>9. ASSUME NEW i \in S, NEW j \in S
      PROVE  Newer(ms, i, j) <=> (at[j] < at[i] \/ (at[i] = at[j] /\ i < j))
  <2>1. at[i] = ms[i].timestamp /\ at[j] = ms[j].timestamp /\ at[i] \in Nat /\ at[j] \in Nat
    BY <1>1
  <2>2. Newer(ms, i, j) <=> (at[i] > at[j] \/ (at[i] = at[j] /\ i < j))
    BY <2>1 DEF Newer
  <2>3. \A u, v \in Nat : u > v <=> v < u
    OBVIOUS
  <2> QED
    BY <2>1, <2>2, <2>3
<1>s. \A u, v, p, q \in Nat :
        /\ v <= u /\ p # q /\ (v = u => p <= q) => v < u \/ (u = v /\ p < q)
        /\ u <= v /\ p # q /\ (v = u => q <= p) => u < v \/ (v = u /\ q < p)
  OBVIOUS
<1>10. ASSUME NEW j \in S \ {f} PROVE Newer(ms, f, j)
  <2>1. /\ at[f] \in Nat /\ at[j] \in Nat /\ f \in Nat /\ j \in Nat
        /\ f # j /\ at[j] <= at[f] /\ (at[j] = at[f] => f <= j)
    BY <1>1, <1>5, <1>7
  <2>2. at[j] < at[f] \/ (at[f] = at[j] /\ f < j)
    BY <1>s, <2>1
  <2> QED
    BY <1>9, <2>2
<1>11. ASSUME NEW j \in S \ {l} PROVE Newer(ms, j, l)
  <2>1. /\ at[l] \in Nat /\ at[j] \in Nat /\ l \in Nat /\ j \in Nat
        /\ l # j /\ at[l] <= at[j] /\ (at[j] = at[l] => j <= l)
    BY <1>1, <1>6, <1>8
  <2>2. at[l] < at[j] \/ (at[j] = at[l] /\ j < l)
    BY <1>s, <2>1
  <2> QED
    BY <1>9, <2>2
<1>12. PICK x : x = FirstOf(ms, S)
  OBVIOUS
<1>13. x \in S /\ \A j \in S \ {x} : Newer(ms, x, j)
  BY <1>10, <1>12 DEF FirstOf
<1>14. PICK y : y = LastOf(ms, S)
  OBVIOUS
<1>15. y \in S /\ \A j \in S \ {y} : Newer(ms, j, y)
  BY <1>11, <1>14 DEF LastOf
<1>16. \A j \in S : at[j] <= at[x]
  <2> SUFFICES ASSUME NEW j \in S, j # x PROVE at[j] <= at[x]
    BY <1>1, <1>13
  <2>1. at[j] < at[x] \/ (at[x] = at[j] /\ x < j)
    BY <1>9, <1>13
  <2> QED
    BY <1>1, <1>13, <2>1
<1>17. \A j \in S : at[y] <= at[j]
  <2> SUFFICES ASSUME NEW j \in S, j # y PROVE at[y] <= at[j]
    BY <1>1, <1>15
  <2>1. at[y] < at[j] \/ (at[j] = at[y] /\ j < y)
    BY <1>9, <1>15
  <2> QED
    BY <1>1, <1>15, <2>1
<1> QED
  BY <1>1, <1>12, <1>13, <1>14, <1>15, <1>16, <1>17

(* A list of multipliers means what its times say, in any order.           *)
LEMMA MultipliersAgree ==
  ASSUME NEW ms, IsMultipliers(ms), NEW t \in Nat
  PROVE  MultiplierAgrees(ms, t)
<1> DEFINE times == {ms[i].timestamp : i \in DOMAIN ms}
           begun == {s \in times : s <= t}
           B == Begun(ms, t)
           k == IF B # {} THEN FirstOf(ms, B) ELSE LastOf(ms, DOMAIN ms)
<1>1. /\ ms # <<>> /\ DOMAIN ms # {} /\ times # {} /\ times \subseteq Nat
      /\ \A i \in DOMAIN ms : ms[i].timestamp \in Nat
  BY MultiplierTimes DEF IsMultipliers
<1>2. AddressMultiplier(ms, t) = ms[k].multiplier
  BY <1>1 DEF AddressMultiplier, MultiplierAt
<1>3. B = {i \in DOMAIN ms : ms[i].timestamp <= t}
  BY <1>1 DEF Begun
<1>4. k \in DOMAIN ms /\ ms[k].timestamp = IF begun # {} THEN Max(begun) ELSE Min(times)
  <2>1. CASE B # {}
    <3>1. k \in B /\ \A j \in B : ms[j].timestamp <= ms[k].timestamp
      BY <1>3, <2>1, SortedFacts
    <3>2. k \in DOMAIN ms
      BY <1>3, <3>1
    <3>3. begun = {ms[j].timestamp : j \in B}
      BY <1>3
    <3> HIDE DEF k, B, begun
    <3>4. ms[k].timestamp \in begun /\ \A s \in begun : s <= ms[k].timestamp
      BY <3>1, <3>3
    <3>5. begun \subseteq Nat
      BY <1>1 DEF begun
    <3>6. \A x \in begun : (\A y \in begun : y <= x) => x = ms[k].timestamp
      <4> SUFFICES ASSUME NEW x \in begun, \A y \in begun : y <= x PROVE x = ms[k].timestamp
        OBVIOUS
      <4>1. PICK z \in Nat : z = ms[k].timestamp
        BY <3>4, <3>5
      <4>2. x \in Nat /\ x <= z /\ z <= x
        BY <3>4, <3>5, <4>1
      <4> QED
        BY <4>1, <4>2
    <3>7. Max(begun) = ms[k].timestamp
      BY <3>4, <3>6 DEF Max
    <3> QED
      BY <3>2, <3>4, <3>7
  <2>2. CASE B = {}
    <3>1. begun = {}
      BY <1>3, <2>2
    <3>2. k \in DOMAIN ms /\ \A j \in DOMAIN ms : ms[k].timestamp <= ms[j].timestamp
      BY <1>1, <2>2, SortedFacts
    <3> HIDE DEF k, B, begun
    <3>3. ms[k].timestamp \in times /\ \A s \in times : ms[k].timestamp <= s
      BY <3>2
    <3>4. \A x \in times : (\A y \in times : x <= y) => x = ms[k].timestamp
      <4> SUFFICES ASSUME NEW x \in times, \A y \in times : x <= y PROVE x = ms[k].timestamp
        OBVIOUS
      <4>1. PICK z \in Nat : z = ms[k].timestamp
        BY <1>1, <3>3
      <4>2. x \in Nat /\ x <= z /\ z <= x
        BY <1>1, <3>3, <4>1
      <4> QED
        BY <4>1, <4>2
    <3> HIDE DEF times
    <3>5. Min(times) = ms[k].timestamp
      BY <3>3, <3>4 DEF Min
    <3> QED
      BY <3>1, <3>2, <3>5
  <2> QED
    BY <2>1, <2>2
<1> HIDE DEF k
<1> QED
  BY <1>2, <1>4 DEF MultiplierAgrees

(* A list in the order of its times, none of which is after n. *)
Rising(ms, n) ==
  /\ IsMultipliers(ms) /\ n \in Nat
  /\ \A i, j \in DOMAIN ms : i < j => ms[i].timestamp < ms[j].timestamp
  /\ \A i \in DOMAIN ms : ms[i].timestamp <= n

(* A list of one entry. *)
LEMMA RisingAlone ==
  ASSUME NEW m \in Nat, NEW t \in Nat
  PROVE  Rising(Then(m, t), t)
<1> DEFINE M == [multiplier : Nat, timestamp : Nat]
           e == [multiplier |-> m, timestamp |-> t]
<1>1. e \in M /\ e.timestamp = t
  OBVIOUS
<1> HIDE DEF M, e
<1>2. <<e>> \in Seq(M) /\ <<e>> # <<>> /\ DOMAIN <<e>> = {1} /\ <<e>>[1] = e
  BY <1>1
<1>3. PICK s : s = <<e>>
  OBVIOUS
<1>4. IsMultipliers(s)
  BY <1>2, <1>3 DEF IsMultipliers, M
<1>5. DOMAIN s = {1} /\ s[1].timestamp = t
  BY <1>1, <1>2, <1>3
<1>6. Rising(s, t)
  BY <1>4, <1>5 DEF Rising
<1> QED
  BY <1>3, <1>6 DEF Then, e

(* A later entry behind a list. *)
LEMMA RisingThen ==
  ASSUME NEW s, NEW n, Rising(s, n), NEW m \in Nat, NEW t \in Nat, n < t
  PROVE  Rising(s \o Then(m, t), t)
<1> DEFINE M == [multiplier : Nat, timestamp : Nat]
           z == Then(m, t)
<1>1. /\ s \in Seq(M) /\ s # <<>> /\ z \in Seq(M) /\ z # <<>>
      /\ n \in Nat /\ (\A i, j \in DOMAIN s : i < j => s[i].timestamp < s[j].timestamp)
      /\ \A i \in DOMAIN s : s[i].timestamp <= n
      /\ IsMultipliers(s)
  BY RisingAlone DEF Rising, IsMultipliers
<1>2. Len(z) = 1 /\ z[1].timestamp = t
  BY DEF Then
<1>3. DOMAIN s = 1..Len(s) /\ Len(s) \in Nat /\ \A i \in DOMAIN s : s[i].timestamp \in Nat
  BY <1>1, MultiplierTimes
<1> HIDE DEF z, M
<1>4. /\ s \o z \in Seq(M) /\ Len(s \o z) = Len(s) + Len(z)
      /\ \A i \in 1..Len(s) + Len(z) : (s \o z)[i] = IF i <= Len(s) THEN s[i] ELSE z[i - Len(s)]
  BY <1>1, ConcatProperties
<1>5. PICK w \in Seq(M) : /\ w = s \o z /\ Len(w) = Len(s) + 1
                          /\ \A i \in 1..Len(s) + 1 : w[i] = IF i <= Len(s) THEN s[i] ELSE z[i - Len(s)]
  BY <1>2, <1>4
<1>6. DOMAIN w = 1..Len(s) + 1
  <2>1. DOMAIN w = 1..Len(w)
    OBVIOUS
  <2> QED
    BY <1>5, <2>1
<1>7. \A i \in DOMAIN w : (i \in DOMAIN s /\ w[i] = s[i]) \/ (i = Len(s) + 1 /\ w[i].timestamp = t)
  <2> SUFFICES ASSUME NEW i \in 1..Len(s) + 1, i \notin DOMAIN s
               PROVE  i = Len(s) + 1 /\ w[i].timestamp = t
    BY <1>3, <1>5, <1>6
  <2>1. i = Len(s) + 1 /\ ~(i <= Len(s)) /\ i - Len(s) = 1
    BY <1>3
  <2> QED
    BY <1>2, <1>5, <2>1
<1>8. w # <<>>
  BY <1>3, <1>5
<1>9. IsMultipliers(w)
  BY <1>8 DEF IsMultipliers, M
<1>10. ASSUME NEW i \in DOMAIN w PROVE w[i].timestamp \in Nat /\ w[i].timestamp <= t /\ (i \in DOMAIN s => w[i].timestamp < t)
  <2>1. CASE i \in DOMAIN s /\ w[i] = s[i]
    BY <1>1, <1>3, <2>1
  <2>2. CASE i = Len(s) + 1 /\ w[i].timestamp = t
    BY <1>3, <2>2
  <2> QED
    BY <1>7, <2>1, <2>2
<1>11. ASSUME NEW i \in DOMAIN w, NEW j \in DOMAIN w, i < j
       PROVE  w[i].timestamp < w[j].timestamp
  <2>1. i \in DOMAIN s /\ w[i] = s[i]
    BY <1>3, <1>6, <1>7, <1>11
  <2>2. CASE j \in DOMAIN s /\ w[j] = s[j]
    BY <1>1, <1>11, <2>1, <2>2
  <2>3. CASE w[j].timestamp = t
    BY <1>10, <2>1, <2>3
  <2> QED
    BY <1>7, <2>2, <2>3
<1>12. Rising(w, t)
  BY <1>9, <1>10, <1>11 DEF Rising
<1> QED
  BY <1>5, <1>12 DEF z

(* The configured lists are in the order of their times. *)
LEMMA ConfiguredLists ==
  ASSUME NEW ms \in TokenMultipliers \cup AddressMultipliers
  PROVE  \E n : Rising(ms, n)
<1> DEFINE Good(s) == \E n : Rising(s, n)
           cat(x, y) == x \o y
<1>1. \A m \in Nat : From0(m) = Then(m, 0)
  BY DEF From0, Then
<1>2. \A m, t \in Nat : Rising(Then(m, t), t)
  BY RisingAlone
<1>3. \A m, k, t \in Nat : 0 < t => Rising(From0(m) \o Then(k, t), t)
  <2> SUFFICES ASSUME NEW m \in Nat, NEW k \in Nat, NEW t \in Nat, 0 < t
               PROVE  Rising(From0(m) \o Then(k, t), t)
    OBVIOUS
  <2>1. PICK s : s = From0(m)
    OBVIOUS
  <2>2. Rising(s, 0)
    BY <1>1, <1>2, <2>1
  <2>3. Rising(s \o Then(k, t), t)
    BY <2>2, RisingThen
  <2> QED
    BY <2>1, <2>3
<1>4. \A m, k, t, l, u \in Nat : 0 < t /\ t < u => Rising(From0(m) \o Then(k, t) \o Then(l, u), u)
  <2> SUFFICES ASSUME NEW m \in Nat, NEW k \in Nat, NEW t \in Nat, NEW l \in Nat, NEW u \in Nat,
                      0 < t, t < u
               PROVE  Rising(From0(m) \o Then(k, t) \o Then(l, u), u)
    OBVIOUS
  <2>1. PICK s : s = From0(m) \o Then(k, t)
    OBVIOUS
  <2>2. Rising(s, t)
    BY <1>3, <2>1
  <2>3. Rising(s \o Then(l, u), u)
    BY <2>2, RisingThen
  <2> QED
    BY <2>1, <2>3
<1>5. \A m, k, t, l, u, p, v \in Nat :
        0 < t /\ t < u /\ u < v => Rising(From0(m) \o Then(k, t) \o Then(l, u) \o Then(p, v), v)
  <2> SUFFICES ASSUME NEW m \in Nat, NEW k \in Nat, NEW t \in Nat, NEW l \in Nat, NEW u \in Nat,
                      NEW p \in Nat, NEW v \in Nat, 0 < t, t < u, u < v
               PROVE  Rising(From0(m) \o Then(k, t) \o Then(l, u) \o Then(p, v), v)
    OBVIOUS
  <2>1. PICK s : s = From0(m) \o Then(k, t) \o Then(l, u)
    OBVIOUS
  <2>2. Rising(s, u)
    BY <1>4, <2>1
  <2>3. Rising(s \o Then(p, v), v)
    BY <2>2, RisingThen
  <2> QED
    BY <2>1, <2>3
<1>6. Good(From0(500)) /\ Good(From0(100)) /\ Good(From0(300))
  BY SMT, <1>1, <1>2
<1>7. Good(Then(100, 1718856000)) /\ Good(Then(100, 1717516800))
  BY SMT, <1>2
<1>8. \A m, k, t \in Nat : 0 < t => Good(cat(From0(m), Then(k, t)))
  BY <1>3
<1>9. \A m, k, t, l, u \in Nat : 0 < t /\ t < u => Good(cat(cat(From0(m), Then(k, t)), Then(l, u)))
  BY <1>4
<1>t. TokenMultipliers =
    { From0(500), From0(100),
      cat(From0(200), Then(500, 1715594400)), cat(From0(250), Then(500, 1715594400)),
      cat(From0(300), Then(500, 1715594400)),
      cat(From0(200), Then(100, 1720713600)), cat(From0(200), Then(0, 1717516800)),
      cat(From0(150), Then(100, 1717516800)), cat(From0(150), Then(0, 1717516800)),
      cat(From0(150), Then(100, 1712138400)),
      cat(cat(cat(From0(150), Then(180, 1711015200)), Then(150, 1712224800)), Then(100, 1717516800)),
      cat(cat(From0(150), Then(100, 1717516800)), Then(0, 1720087200)),
      cat(cat(From0(150), Then(200, 1716825600)), Then(100, 1720713600)),
      cat(cat(From0(100), Then(120, 1711015200)), Then(100, 1717516800)),
      cat(cat(From0(100), Then(115, 1712559600)), Then(100, 1717516800)),
      cat(From0(100), Then(0, 1720087200)), cat(From0(100), Then(0, 1717516800)),
      cat(From0(100), Then(0, 1720713600)),
      Then(100, 1718856000), Then(100, 1717516800) }
  BY DEF TokenMultipliers
<1>a. AddressMultipliers = {From0(300), cat(From0(225), Then(0, 1718593542))}
  BY DEF AddressMultipliers
<1>c. \A m, k, t, l, u, p, v \in Nat :
        0 < t /\ t < u /\ u < v => Good(cat(cat(cat(From0(m), Then(k, t)), Then(l, u)), Then(p, v)))
  BY <1>5
<1> HIDE DEF Good, cat
<1>10. /\ Good(cat(From0(200), Then(500, 1715594400)))
       /\ Good(cat(From0(250), Then(500, 1715594400)))
       /\ Good(cat(From0(300), Then(500, 1715594400)))
       /\ Good(cat(From0(200), Then(100, 1720713600)))
       /\ Good(cat(From0(200), Then(0, 1717516800)))
       /\ Good(cat(From0(150), Then(100, 1717516800)))
  BY SMT, <1>8
<1>11. /\ Good(cat(From0(150), Then(0, 1717516800)))
       /\ Good(cat(From0(150), Then(100, 1712138400)))
       /\ Good(cat(From0(100), Then(0, 1720087200)))
       /\ Good(cat(From0(100), Then(0, 1717516800)))
       /\ Good(cat(From0(100), Then(0, 1720713600)))
       /\ Good(cat(From0(225), Then(0, 1718593542)))
  BY SMT, <1>8
<1>12. /\ Good(cat(cat(From0(150), Then(100, 1717516800)), Then(0, 1720087200)))
       /\ Good(cat(cat(From0(150), Then(200, 1716825600)), Then(100, 1720713600)))
       /\ Good(cat(cat(From0(100), Then(120, 1711015200)), Then(100, 1717516800)))
       /\ Good(cat(cat(From0(100), Then(115, 1712559600)), Then(100, 1717516800)))
  BY SMT, <1>9
<1>13. /\ Good(cat(cat(cat(From0(150), Then(180, 1711015200)), Then(150, 1712224800)), Then(100, 1717516800)))
  BY SMT, <1>c
<1>14. \A s \in TokenMultipliers : Good(s)
  BY SMT, <1>6, <1>7, <1>10, <1>11, <1>12, <1>13, <1>t
<1>15. \A s \in AddressMultipliers : Good(s)
  BY SMT, <1>6, <1>7, <1>10, <1>11, <1>12, <1>13, <1>a
<1> QED
  BY <1>14, <1>15 DEF Good

(* The times of such a list are all different. *)
LEMMA RisingIsInjective ==
  ASSUME NEW ms, NEW n, Rising(ms, n)
  PROVE  IsInjective([i \in DOMAIN ms |-> ms[i].timestamp])
<1>1. /\ DOMAIN ms \subseteq Nat /\ \A i \in DOMAIN ms : ms[i].timestamp \in Nat
      /\ \A i, j \in DOMAIN ms : i < j => ms[i].timestamp < ms[j].timestamp
  BY MultiplierTimes DEF Rising
<1>2. \A i, j \in DOMAIN ms : ms[i].timestamp = ms[j].timestamp => i = j
  <2> SUFFICES ASSUME NEW i \in DOMAIN ms, NEW j \in DOMAIN ms, ms[i].timestamp = ms[j].timestamp, i # j
               PROVE  FALSE
    OBVIOUS
  <2>1. i < j \/ j < i
    BY <1>1
  <2> QED
    BY <1>1, <2>1
<1> QED
  BY <1>2 DEF IsInjective

(* The projects of the tables. *)
LEMMA ProjectTables ==
  /\ TvlPaths = {"layerbank", "aqua", "izumi", "interport", "novaswap", "steer", "logx", "agx",
                 "wagmi", "zkdx", "shoebill", "desyn", "sumer", "predx"}
  /\ DOMAIN TxVolBooster = {"logx", "eddy", "agx", "wagmi", "zkdx", "interport"}
  /\ DOMAIN TxNumBooster = {"allspark", "rubic", "skyrangers", "zns"}
  /\ \A p \in DOMAIN TxVolBooster : TxVolBooster[p] \in 1..999
  /\ \A p \in DOMAIN TxNumBooster : TxNumBooster[p] \in 1..1000
<1>1. TvlPaths = {"layerbank", "aqua", "izumi", "interport", "novaswap", "steer", "logx", "agx",
                  "wagmi", "zkdx", "shoebill", "desyn", "sumer", "predx"}
  BY DEF TvlPaths, ProjectTokenBooster
<1>2. DOMAIN TxVolBooster = {"logx", "eddy", "agx", "wagmi", "zkdx", "interport"}
  BY DEF TxVolBooster
<1>3. DOMAIN TxNumBooster = {"allspark", "rubic", "skyrangers", "zns"}
  BY DEF TxNumBooster
<1>4. \A p \in DOMAIN TxVolBooster : TxVolBooster[p] \in 1..999
  BY SMT, <1>2 DEF TxVolBooster
<1>5. \A p \in DOMAIN TxNumBooster : TxNumBooster[p] \in 1..1000
  BY SMT, <1>3 DEF TxNumBooster
<1> QED
  BY <1>1, <1>2, <1>3, <1>4, <1>5

(* Every project of the tables has a directory and a job, and writes rows  *)
(* of two types only if it is one of the five.                             *)
LEMMA ProjectsOfTables ==
  ASSUME NEW name \in Directories \cup TvlPaths \cup TxPaths
  PROVE  ProjectAgrees(name)
<1> DEFINE V == DOMAIN TxVolBooster
           N == DOMAIN TxNumBooster
           R == RowTypes(name)
<1>1. TxPaths = V \cup N
  BY DEF TxPaths
<1>2. /\ name \in Directories
      /\ name \in TvlPaths \/ name \in V \/ name \in N
      /\ ~(name \in V /\ name \in N)
      /\ name \in TwoTypes <=> (name \in TvlPaths /\ (name \in V \/ name \in N))
  BY <1>1, ProjectTables DEF Directories, TwoTypes
<1>3. \A t : t \in R <=> \/ t = "tvl" /\ name \in TvlPaths
                         \/ t = "txVol" /\ name \in V
                         \/ t = "txNum" /\ name \in N
  BY DEF RowTypes
<1>4. "txVol" \in R => ProjectBooster(name, TxVolBooster) \in 1..999
  BY <1>3, ProjectTables DEF ProjectBooster
<1>5. "txNum" \in R => ProjectBooster(name, TxNumBooster) \in 1..1000
  BY <1>3, ProjectTables DEF ProjectBooster
<1> HIDE DEF V, N, R
<1>6. Cardinality({}) = 0 /\ \A x : Cardinality({x}) = 1
  BY SmallCounts
<1>7. \A x, y : x # y => Cardinality({x, y}) = 2
  BY SmallCounts
<1>8. /\ R # {} /\ Cardinality(R \ {"tvl"}) <= 1
      /\ Cardinality(R) > 1 <=> (name \in TvlPaths /\ (name \in V \/ name \in N))
  <2>1. CASE name \in TvlPaths /\ name \in V
    <3>1. R = {"tvl", "txVol"} /\ R \ {"tvl"} = {"txVol"}
      BY <1>2, <1>3, <2>1
    <3>2. Cardinality(R) = 2
      BY <1>7, <3>1
    <3>3. Cardinality(R \ {"tvl"}) = 1
      BY <1>6, <3>1
    <3> QED
      BY <2>1, <3>1, <3>2, <3>3
  <2>2. CASE name \in TvlPaths /\ name \in N
    <3>1. R = {"tvl", "txNum"} /\ R \ {"tvl"} = {"txNum"}
      BY <1>2, <1>3, <2>2
    <3>2. Cardinality(R) = 2
      BY <1>7, <3>1
    <3>3. Cardinality(R \ {"tvl"}) = 1
      BY <1>6, <3>1
    <3> QED
      BY <2>2, <3>1, <3>2, <3>3
  <2>3. CASE name \in TvlPaths /\ name \notin V /\ name \notin N
    <3>1. R = {"tvl"} /\ R \ {"tvl"} = {}
      BY <1>3, <2>3
    <3> QED
      BY <1>6, <2>3, <3>1
  <2>4. CASE name \notin TvlPaths
    <3>1. PICK t : R = {t} /\ R \ {"tvl"} = {t}
      BY <1>2, <1>3, <2>4
    <3>2. Cardinality(R) = 1 /\ Cardinality(R \ {"tvl"}) = 1
      BY <1>6, <3>1
    <3> QED
      BY <2>4, <3>1, <3>2
  <2> QED
    BY <2>1, <2>2, <2>3, <2>4
<1> QED
  BY <1>2, <1>4, <1>5, <1>8 DEF ProjectAgrees, V, N, R

(* A question about the tables is of one of the kinds. *)
LEMMA TableInputFacts ==
  ASSUME FormulaInit
  PROVE  /\ input.of = "block" => input.block \in Blocks
         /\ input.of = "count" => input.count \in Counts
         /\ input.of = "moment" => input.t \in Moments
         /\ input.of = "multiplier" => input.ms \in Multipliers /\ input.t \in {From - 1, From, From + Day}
         /\ input.of = "configured" => /\ input.ms \in TokenMultipliers \cup AddressMultipliers
                                       /\ input.t \in Turns
         /\ input.of = "project" => input.name \in Directories \cup TvlPaths \cup TxPaths
<1> DEFINE kinds == {"block", "count", "moment", "multiplier", "configured", "project"}
<1>1. /\ input \in PriceInputs => input.of \notin kinds
      /\ input \in RequestInputs => input.of \notin kinds
      /\ input \in WorthInputs => input.of \notin kinds
      /\ input \in ShareInputs => input.of \notin kinds
  BY DEF PriceInputs, RequestInputs, WorthInputs, ShareInputs
<1>2. /\ input \in SnapshotInputs => input.of \notin kinds
      /\ input \in ProjectInputs => input.of \notin kinds
  BY DEF SnapshotInputs, ProjectInputs
<1>3. input \in DayInputs => input.of \notin kinds
  BY DEF DayInputs
<1>4. input.of \in kinds => input \in ConfigurationInputs
  BY <1>1, <1>2, <1>3 DEF FormulaInit, StatisticsInputs
<1>5. SUFFICES ASSUME input \in ConfigurationInputs
      PROVE  /\ input.of = "block" => input.block \in Blocks
             /\ input.of = "count" => input.count \in Counts
             /\ input.of = "moment" => input.t \in Moments
             /\ input.of = "multiplier" => input.ms \in Multipliers /\ input.t \in {From - 1, From, From + Day}
             /\ input.of = "configured" => /\ input.ms \in TokenMultipliers \cup AddressMultipliers
                                           /\ input.t \in Turns
             /\ input.of = "project" => input.name \in Directories \cup TvlPaths \cup TxPaths
  BY <1>4
<1>6. PICK B, C, M, L, T, K, U, P :
        /\ B = Blocks /\ C = Counts /\ M = Moments /\ L = Multipliers /\ T = {From - 1, From, From + Day}
        /\ K = TokenMultipliers \cup AddressMultipliers /\ U = Turns
        /\ P = Directories \cup TvlPaths \cup TxPaths
  OBVIOUS
<1>7. \/ input \in [of : {"block"}, block : B]
      \/ input \in [of : {"count"}, count : C]
      \/ input \in [of : {"moment"}, t : M]
      \/ input \in [of : {"multiplier"}, ms : L, t : T]
      \/ input \in {[of |-> "configured", ms |-> ms, t |-> t] : ms \in K, t \in U}
      \/ input \in [of : {"project"}, name : P]
  BY <1>5, <1>6 DEF ConfigurationInputs
<1>8. /\ input.of = "block" => input.block \in B
      /\ input.of = "count" => input.count \in C
      /\ input.of = "moment" => input.t \in M
      /\ input.of = "multiplier" => input.ms \in L /\ input.t \in T
      /\ input.of = "configured" => input.ms \in K /\ input.t \in U
      /\ input.of = "project" => input.name \in P
  BY <1>7
<1> QED
  BY <1>6, <1>8

(* The moments that are asked for are numbers. *)
LEMMA MomentsAreNumbers == Moments \subseteq Int
<1> DEFINE Lines == ToSet(WithdrawTime)
           S == {l.first : l \in Lines} \cup {l.end : l \in Lines}
                  \cup {Phase1 + n * Week : n \in 0..5} \cup {WithdrawStart + n * Day : n \in 0..102}
<1>1. Moments = Around(S)
  BY DEF Moments
<1>2. From \in Int /\ Day \in Int /\ Week \in Int /\ Phase1 \in Int /\ WithdrawStart \in Int
  BY UnitFacts, PeriodAssumption
<1>3. PICK last \in Int : WithdrawTime[9] = Lasts(From + 13 * Day, last, 7)
  <2>1. 2029766400 \in Int
    BY SMT
  <2> QED
    BY <2>1, WithdrawTable
<1>4. \A f, e, n : Lasts(f, e, n).first = f /\ Lasts(f, e, n).end = e
  BY DEF Lasts
<1>5. WithdrawTime[1].first \in Int /\ WithdrawTime[1].end \in Int
  BY <1>2, <1>4, WithdrawTable
<1>6. WithdrawTime[9].first \in Int /\ WithdrawTime[9].end \in Int
  BY <1>2, <1>3, <1>4
<1>7. \A i \in 1..7 : WithdrawTime[i + 1].first \in Int /\ WithdrawTime[i + 1].end \in Int
  <2> SUFFICES ASSUME NEW i \in 1..7 PROVE WithdrawTime[i + 1].first \in Int /\ WithdrawTime[i + 1].end \in Int
    OBVIOUS
  <2>1. From + Week + (i - 1) * Day \in Int /\ From + Week + i * Day \in Int
    BY <1>2
  <2>2. /\ WithdrawTime[i + 1].first = From + Week + (i - 1) * Day
        /\ WithdrawTime[i + 1].end = From + Week + i * Day
    BY <1>4, WithdrawTable
  <2> QED
    BY <2>1, <2>2
<1>8. \A j \in 1..9 : WithdrawTime[j].first \in Int /\ WithdrawTime[j].end \in Int
  <2> SUFFICES ASSUME NEW j \in 1..9, j # 1, j # 9
               PROVE  WithdrawTime[j].first \in Int /\ WithdrawTime[j].end \in Int
    BY <1>5, <1>6
  <2>1. j - 1 \in 1..7 /\ (j - 1) + 1 = j
    OBVIOUS
  <2> QED
    BY <1>7, <2>1
<1>9. \A l \in Lines : l.first \in Int /\ l.end \in Int
  <2>1. DOMAIN WithdrawTime = 1..9
    BY WithdrawTable
  <2> QED
    BY <1>8, <2>1 DEF ToSet
<1>10. S \subseteq Int
  <2> HIDE DEF Lines
  <2> QED
    BY <1>2, <1>9
<1> HIDE DEF S
<1>11. \A x \in Around(S) : \E n \in S : x \in {n - 1, n, n + 1}
  BY DEF Around
<1> QED
  BY <1>1, <1>10, <1>11

(* The tables agree with each other and with what they mean, at every      *)
(* boundary of them, whatever the start of the first phase is, with the    *)
(* two exceptions that TablesAgree names: the block between two seasons    *)
(* and the day of the withdrawals that two lines share.                    *)
THEOREM TablesAgreeForAll == FormulaSpec => []TablesAgree
<1>1. FormulaInit => TablesAgree
  <2> SUFFICES ASSUME FormulaInit PROVE TablesAgree
    OBVIOUS
  <2>1. ASSUME input.of = "block" PROVE SeasonsCover(input.block)
    <3>1. input.block \in Nat
      BY <2>1, TableInputFacts DEF Blocks
    <3> QED
      BY <3>1, SeasonsCoverAll
  <2>2. ASSUME input.of = "moment" PROVE MomentAgrees(input.t)
    BY <2>2, TableInputFacts, MomentsAreNumbers, MomentsAgree
  <2>3. ASSUME input.of = "multiplier" PROVE MultiplierAgrees(input.ms, input.t)
    <3>1. input.ms \in Multipliers /\ input.t \in {From - 1, From, From + Day}
      BY <2>3, TableInputFacts
    <3>2. From - 1 \in Nat
      BY SMT DEF From
    <3>3. input.t \in Nat /\ From \in Nat /\ From + Day \in Nat
      BY <3>1, <3>2, UnitFacts
    <3>4. PICK n \in 1..3 : input.ms \in [1..n -> [multiplier : 1..2, timestamp : {0, From, From + Day}]]
      BY <3>1 DEF Multipliers
    <3> DEFINE M == [multiplier : Nat, timestamp : Nat]
    <3>5. input.ms \in [1..n -> M]
      BY <3>3, <3>4
    <3>6. IsMultipliers(input.ms)
      <4> HIDE DEF M
      <4>1. input.ms \in Seq(M) /\ Len(input.ms) = n
        BY <3>5
      <4>2. input.ms # <<>>
        BY <4>1
      <4> QED
        BY <4>1, <4>2 DEF IsMultipliers, M
    <3> QED
      BY <3>3, <3>6, MultipliersAgree
  <2>4. ASSUME input.of = "configured"
        PROVE  /\ MultiplierAgrees(input.ms, input.t)
               /\ IsInjective([i \in DOMAIN input.ms |-> input.ms[i].timestamp])
    <3>1. input.ms \in TokenMultipliers \cup AddressMultipliers /\ input.t \in Nat
      BY <2>4, TableInputFacts DEF Turns
    <3>2. PICK n : Rising(input.ms, n)
      BY <3>1, ConfiguredLists
    <3>3. MultiplierAgrees(input.ms, input.t)
      BY <3>1, <3>2, MultipliersAgree DEF Rising
    <3>4. IsInjective([i \in DOMAIN input.ms |-> input.ms[i].timestamp])
      BY <3>2, RisingIsInjective
    <3> QED
      BY <3>3, <3>4
  <2>5. ASSUME input.of = "count" PROVE CountAgrees(input.count)
    <3>1. input.count \in Nat
      BY <2>5, TableInputFacts DEF Counts
    <3> QED
      BY <3>1, CountsAgree
  <2>6. ASSUME input.of = "project" PROVE ProjectAgrees(input.name)
    BY <2>6, TableInputFacts, ProjectsOfTables
  <2> QED
    BY <2>1, <2>2, <2>3, <2>4, <2>5, <2>6 DEF TablesAgree
<1> QED
  BY <1>1, InputStays, PTL
=============================================================================
