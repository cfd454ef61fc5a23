---------------------------- MODULE AdapterProofs ----------------------------
(***************************************************************************)
(* Theorems about the adapters and about the ranges of blocks they are run *)
(* for: TxRange for a chain of any length, a first range of any length and *)
(* any number of cron runs, crashes and failing workers; the feeds of      *)
(* AdapterFeeds for any number of rows, any size of a page and any number  *)
(* of retries; the event entities of Subgraphs, and what the index of      *)
(* zkDX, AGX and the multipool knows of their contracts, for any users and *)
(* any number of transactions.  SubgraphProofs has the other subgraphs.    *)
(***************************************************************************)
EXTENDS TxRange, Adapters, DataTheorems, SequenceTheorems, TLAPS

------------------------------------------------------------------------------
(* The ranges. *)

RangeRow == [start : Int, end : Int, adapter : BOOLEAN, point : BOOLEAN]

(* What JobMark and CalTx write back. *)
Adapted(r)  == [r EXCEPT !.adapter = TRUE]
Concluded(r) == [r EXCEPT !.point = TRUE]

Types ==
  /\ head \in Nat /\ 1 <= head
  /\ row \in RangeRow /\ cread \in RangeRow /\ jrow \in RangeRow /\ krow \in RangeRow /\ late \subseteq RangeRow
  /\ data \subseteq Height /\ ledger \subseteq Height /\ skipped \subseteq Int
  /\ paid \in [Height -> Nat] /\ kblocks \subseteq Height
  /\ cpc \in {"idle", "write"} /\ cend \in Int
  /\ jpc \in {"idle", "run", "mark", "dead"} /\ kpc \in {"idle", "read", "write", "dead"}

(* A row has a block, and begins at most one behind its end.               *)
Shape(r)    == r = NoRow \/ (1 <= r.end /\ r.start <= r.end + 1)
Finished(r) == r.point => r.adapter

(* The row and the copies of it: the cron works on one that is not newer   *)
(* than the head it read, the adapter on one that is not adapted, CalTx on *)
(* one that is, and it waits until its late writes are done.               *)
Shapes ==
  /\ Shape(row) /\ Finished(row) /\ Shape(cread) /\ \A r \in late : Shape(r) /\ r.point /\ r.adapter
  /\ cpc = "idle" => cread = NoRow
  /\ cpc = "write" => 1 <= cend /\ cread.end <= cend /\ Finished(cread)
  /\ row.end <= head /\ (cpc = "write" => cend <= head) /\ cread.end <= head
  /\ jrow.end <= head /\ krow.end <= head /\ \A r \in late : r.end <= head
  /\ jpc \in {"run", "mark"} => Shape(jrow) /\ jrow # NoRow /\ ~jrow.adapter /\ ~jrow.point
  /\ kpc \in {"read", "write"} => Shape(krow) /\ krow # NoRow /\ krow.adapter /\ ~krow.point /\ late = {}
  /\ jpc \in {"idle", "dead"} => jrow = NoRow
  /\ kpc \in {"idle", "dead"} => krow = NoRow
  /\ kpc # "write" => kblocks = {}
  /\ kblocks \subseteq RangeOf(krow)
  /\ \A r1, r2 \in late : r1 = r2

(* What a row or a copy of it says of the blocks: those behind it are in   *)
(* the ledger or were given up, so are its own if it is finished, and they *)
(* are stored or were given up if it is adapted.                           *)
Known  == ledger \cup skipped
Stored == data \cup skipped

Says(r, known, stored) ==
  /\ \A b \in Height : b < r.start => b \in known
  /\ r.point => RangeOf(r) \subseteq known
  /\ r.adapter => RangeOf(r) \subseteq stored

Truthful ==
  /\ Says(row, Known, Stored) /\ Says(cread, Known, Stored)
  /\ Says(jrow, Known, Stored) /\ Says(krow, Known, Stored)
  /\ \A r \in late : Says(r, Known, Stored)
  /\ jpc = "mark" => RangeOf(jrow) \subseteq Stored
  /\ kpc = "write" => RangeOf(krow) \subseteq kblocks \cup Known

(* The blocks that were paid lie behind r, or not beyond it. *)
Paid == {b \in Height : paid[b] > 0}
Behind(r, blocks) == \A b \in blocks : b < r.start
Within(r, blocks) == \A b \in blocks : b <= r.end

(* Ranges follow each other, as long as the cron is not overtaken: what is *)
(* paid lies behind every copy that may still be paid; while the adapter   *)
(* works there is nothing for CalTx to begin; and what the adapter works   *)
(* on, or the row has come to, lies beyond what CalTx works on.            *)
InOrder ==
  /\ \A b \in Height : paid[b] <= 1
  /\ Within(row, Paid) /\ (~row.point => Behind(row, Paid))
  /\ jpc \in {"run", "mark"} => Behind(jrow, Paid) /\ (row.adapter => row.point)
  /\ kpc \in {"read", "write"} =>
       /\ Behind(krow, Paid)
       /\ row = krow \/ krow.end < row.start
       /\ jpc \in {"run", "mark"} => krow.end < jrow.start
  /\ kpc = "write" => data \cap RangeOf(krow) \subseteq kblocks
  /\ \A r \in late :
       /\ Within(r, Paid)
       /\ (~row.point /\ r = Concluded(row)) \/ r.end < row.start
       /\ jpc \in {"run", "mark"} => r.end < jrow.start
       /\ data \cap RangeOf(r) = {}
  /\ row.point /\ jpc \in {"run", "mark"} => row.end < jrow.start
  /\ row.point => data \cap RangeOf(row) \subseteq ledger

Ordered == ~overtaken => InOrder

IInv == Types /\ Shapes /\ Truthful /\ Ordered

------------------------------------------------------------------------------
(* Types. *)

(* Marking a row touches one column. *)
LEMMA MarkedRows ==
  ASSUME NEW r \in RangeRow
  PROVE  /\ Adapted(r) \in RangeRow /\ Concluded(r) \in RangeRow
         /\ Adapted(r).start = r.start /\ Adapted(r).end = r.end
         /\ Adapted(r).adapter /\ Adapted(r).point = r.point
         /\ Concluded(r).start = r.start /\ Concluded(r).end = r.end
         /\ Concluded(r).point /\ Concluded(r).adapter = r.adapter
BY Zenon DEF RangeRow, Adapted, Concluded

(* The row the cron writes, field by field. *)
LEMMA NextRanges ==
  ASSUME NEW r \in RangeRow, NEW c \in Int
  PROVE  /\ NextRange(r, c) \in RangeRow
         /\ NextRange(r, c).start = IF r = NoRow THEN c - LookBack ELSE r.end + 1
         /\ NextRange(r, c).end = c
         /\ ~NextRange(r, c).adapter /\ ~NextRange(r, c).point
<1>1. LookBack \in Int /\ r.end \in Int
  BY RangeAssumption DEF RangeRow
<1>2. (IF r = NoRow THEN c - LookBack ELSE r.end + 1) \in Int
  BY <1>1
<1> QED
  BY <1>2, Zenon DEF RangeRow, NextRange

(* There is no row, field by field. *)
LEMMA NoRowFields ==
  /\ NoRow \in RangeRow
  /\ NoRow.start = 0 /\ NoRow.end = 0 /\ NoRow.adapter /\ NoRow.point
<1>1. 0 \in Int
  OBVIOUS
<1> QED
  BY <1>1, Zenon DEF NoRow, RangeRow

(* A range is a set of blocks. *)
LEMMA RangesAreBlocks == \A r : RangeOf(r) \subseteq Height /\ RangeOf(r) \subseteq Int
<1>1. Height \subseteq Int
  BY DEF Height
<1> QED
  BY <1>1 DEF RangeOf

(* A chain begins, and every copy is empty. *)
LEMMA InitTypes == Init => Types
<1> SUFFICES ASSUME Init PROVE Types
  OBVIOUS
<1> QED
  BY NoRowFields DEF Init, Types

(* Every action keeps every variable in its range. *)
LEMMA NextTypes == Types /\ [Next]_vars => Types'
<1> SUFFICES ASSUME Types, [Next]_vars PROVE Types'
  OBVIOUS
<1> USE DEF Types, tables, cron, adapter, calc, history
<1>0. NoRow \in RangeRow
  BY NoRowFields
<1>1. CASE NewBlock
  BY <1>1 DEF NewBlock
<1>2. CASE CronRead
  BY <1>2 DEF CronRead
<1>3. CASE CronWrite
  <2>1. NextRange(cread, cend) \in RangeRow
    BY NextRanges
  <2>2. RangeOf(cread) \subseteq Height
    BY DEF RangeOf
  <2>4. row' = NextRange(cread, cend) /\ UNCHANGED <<head, data, paid, ledger, adapter, calc, late>>
        /\ cpc' = "idle" /\ cread' = NoRow /\ cend' = 0
    BY <1>3 DEF CronWrite
  <2>3. 1..(cend - LookBack - 1) \subseteq Int /\ Height \subseteq Int
    BY DEF Height
  <2>5. skipped' \subseteq Int
    BY <1>3, <2>2, <2>3 DEF CronWrite
  <2> QED
    BY <1>0, <2>1, <2>4, <2>5
<1>4. CASE JobPoll
  BY <1>4 DEF JobPoll
<1>5. CASE JobLoad
  BY <1>5 DEF JobLoad, RangeOf
<1>6. CASE JobNoFile
  <2>1. skipped' \subseteq Int
    BY <1>6, RangesAreBlocks DEF JobNoFile
  <2> QED
    BY <1>6, <2>1 DEF JobNoFile
<1>7. CASE JobFails
  BY <1>0, <1>7 DEF JobFails
<1>8. CASE JobMark
  <2>1. row' = Adapted(jrow)
    BY <1>8 DEF JobMark, Adapted
  <2> QED
    BY <1>0, <1>8, <2>1, MarkedRows DEF JobMark
<1>9. CASE CalcPoll
  BY <1>9 DEF CalcPoll
<1>10. CASE CalcRead
  <2> DEFINE found == data \cap RangeOf(krow)
  <2>1. late' = late \cup {Concluded(krow)} \/ late' = late
    BY <1>10 DEF CalcRead, Concluded
  <2>2. late' \subseteq RangeRow
    BY <2>1, MarkedRows
  <2>3. /\ kpc' \in {"idle", "write"} /\ (krow' = krow \/ krow' = NoRow)
        /\ kblocks' = {} \/ kblocks' = found
    BY <1>10 DEF CalcRead
  <2>4. UNCHANGED <<head, tables, cron, adapter, skipped>>
    BY <1>10 DEF CalcRead
  <2> HIDE DEF found
  <2>5. found \subseteq Height
    BY DEF found
  <2> QED
    BY <1>0, <2>2, <2>3, <2>4, <2>5
<1>11. CASE CalcCommit
  <2>1. row' = Concluded(krow)
    BY <1>11 DEF CalcCommit, Concluded
  <2>2. paid' \in [Height -> Nat] /\ ledger' \subseteq Height
    BY <1>11 DEF CalcCommit
  <2>3. /\ UNCHANGED <<head, data, cron, adapter, late, skipped>>
        /\ kpc' = "idle" /\ krow' = NoRow /\ kblocks' = {}
    BY <1>11 DEF CalcCommit
  <2> QED
    BY <1>0, <2>1, <2>2, <2>3, MarkedRows
<1>12. CASE LateMark
  BY <1>12 DEF LateMark
<1>13. CASE Crash
  BY <1>0, <1>13 DEF Crash
<1>14. CASE UNCHANGED vars
  BY <1>14 DEF vars
<1>15. CASE JobDies
  BY <1>15 DEF JobDies
<1>16. CASE CalcDies
  BY <1>0, <1>16 DEF CalcDies
<1> QED
  BY <1>1, <1>2, <1>3, <1>4, <1>5, <1>6, <1>7, <1>8, <1>9, <1>10, <1>11, <1>12, <1>13,
     <1>14, <1>15, <1>16 DEF Next, JobStep, CalcStep

------------------------------------------------------------------------------
(* Shapes. *)

(* The row behind a row, and a row that is marked, have the shape of rows. *)
LEMMA NextRangeShape ==
  ASSUME NEW r \in RangeRow, NEW c \in Int, 1 <= c, r.end <= c
  PROVE  Shape(NextRange(r, c)) /\ NextRange(r, c) # NoRow
<1> DEFINE s == IF r = NoRow THEN c - LookBack ELSE r.end + 1
<1>1. r.end \in Int /\ LookBack \in Nat
  BY RangeAssumption DEF RangeRow
<1>2. s <= c + 1
  BY <1>1
<1>3. NextRange(r, c).start = s /\ NextRange(r, c).end = c /\ ~NextRange(r, c).point
  BY NextRanges
<1> HIDE DEF s
<1> QED
  BY <1>2, <1>3, NoRowFields DEF Shape

(* No mark changes the shape. *)
LEMMA MarkedShape ==
  ASSUME NEW r \in RangeRow, Shape(r), r # NoRow
  PROVE  Shape(Adapted(r)) /\ Shape(Concluded(r))
BY MarkedRows DEF Shape

(* In the first state there is no row. *)
LEMMA InitShapes == Init => Shapes
<1> SUFFICES ASSUME Init PROVE Shapes
  OBVIOUS
<1>1. Shape(NoRow) /\ Finished(NoRow)
  BY NoRowFields DEF Shape, Finished
<1> QED
  BY <1>1, NoRowFields DEF Init, Shapes

(* Every action keeps the shapes of the rows it writes and copies. *)
LEMMA NextShapes == Types /\ Shapes /\ [Next]_vars => Shapes'
<1> SUFFICES ASSUME Types, Shapes, [Next]_vars PROVE Shapes'
  OBVIOUS
<1> USE DEF Types, Shapes, tables, cron, adapter, calc, history
<1>0. /\ NoRow \in RangeRow /\ Shape(NoRow) /\ Finished(NoRow) /\ NoRow.end = 0 /\ NoRow.adapter
      /\ NoRow.point
  BY NoRowFields DEF Shape, Finished
<1>a. \A r \in RangeRow : r.end \in Int /\ r.start \in Int
  BY DEF RangeRow
<1>1. CASE NewBlock
  BY <1>1, <1>a DEF NewBlock
<1>2. CASE CronRead
  BY <1>2, <1>a DEF CronRead
<1>3. CASE CronWrite
  <2>1. /\ row' = NextRange(cread, cend) /\ UNCHANGED <<head, adapter, calc, late>>
        /\ cpc = "write" /\ cpc' = "idle" /\ cread' = NoRow /\ cend' = 0
    BY <1>3 DEF CronWrite
  <2>2. /\ Shape(row') /\ row'.end = cend /\ ~row'.point
    BY <2>1, NextRangeShape, NextRanges
  <2> QED
    BY <1>0, <1>a, <2>1, <2>2 DEF Finished
<1>4. CASE JobPoll
  BY <1>4, <1>0, <1>a DEF JobPoll, Finished
<1>5. CASE JobLoad
  BY <1>5 DEF JobLoad
<1>6. CASE JobNoFile
  BY <1>6 DEF JobNoFile
<1>7. CASE JobFails
  BY <1>0, <1>7 DEF JobFails
<1>8. CASE JobMark
  <2>1. /\ row' = Adapted(jrow) /\ UNCHANGED <<head, cron, calc, late>>
        /\ jpc = "mark" /\ jpc' = "idle" /\ jrow' = NoRow
    BY <1>8 DEF JobMark, Adapted
  <2>2. /\ Shape(row') /\ row'.end = jrow.end /\ Finished(row')
    BY <2>1, MarkedShape, MarkedRows DEF Finished
  <2> QED
    BY <1>0, <1>a, <2>1, <2>2
<1>9. CASE CalcPoll
  BY <1>9, <1>0, <1>a DEF CalcPoll
<1>10. CASE CalcRead
  <2> DEFINE found == data \cap RangeOf(krow)
  <2>1. UNCHANGED <<head, tables, cron, adapter>> /\ kpc = "read"
    BY <1>10 DEF CalcRead
  <2>2. CASE found = {}
    <3>1. late' = {Concluded(krow)} /\ kpc' = "idle" /\ krow' = NoRow /\ kblocks' = {}
      BY <1>10, <2>1, <2>2 DEF CalcRead, Concluded
    <3>2. \A r \in late' : Shape(r) /\ r.point /\ r.adapter /\ r.end <= head
      BY <2>1, <3>1, MarkedShape, MarkedRows
    <3> QED
      BY <1>0, <1>a, <2>1, <3>1, <3>2
  <2>3. CASE found # {}
    BY <1>10, <2>1, <2>3 DEF CalcRead
  <2> QED
    BY <2>2, <2>3
<1>11. CASE CalcCommit
  <2>1. /\ row' = Concluded(krow) /\ UNCHANGED <<head, cron, adapter, late>>
        /\ kpc = "write" /\ kpc' = "idle" /\ krow' = NoRow /\ kblocks' = {}
    BY <1>11 DEF CalcCommit, Concluded
  <2>2. /\ Shape(row') /\ row'.end = krow.end /\ Finished(row')
    BY <2>1, MarkedShape, MarkedRows DEF Finished
  <2> QED
    BY <1>0, <1>a, <2>1, <2>2
<1>12. CASE LateMark
  BY <1>12 DEF LateMark, Finished
<1>13. CASE Crash
  BY <1>0, <1>13 DEF Crash
<1>14. CASE UNCHANGED vars
  BY <1>14 DEF vars
<1>15. CASE JobDies
  BY <1>15 DEF JobDies
<1>16. CASE CalcDies
  BY <1>0, <1>16 DEF CalcDies
<1> QED
  BY <1>1, <1>2, <1>3, <1>4, <1>5, <1>6, <1>7, <1>8, <1>9, <1>10, <1>11, <1>12, <1>13,
     <1>14, <1>15, <1>16 DEF Next, JobStep, CalcStep

------------------------------------------------------------------------------
(* What the rows say. *)

(* What a row says stays true when more is known and stored. *)
LEMMA MoreIsSaid ==
  ASSUME NEW r, NEW known, NEW stored, NEW known2, NEW stored2,
         known \subseteq known2, stored \subseteq stored2, Says(r, known, stored)
  PROVE  Says(r, known2, stored2)
BY DEF Says

(* A mark is true when the blocks it is about are known or stored. *)
LEMMA MarksAreSaid ==
  ASSUME NEW r \in RangeRow, NEW known, NEW stored, Says(r, known, stored)
  PROVE  /\ RangeOf(r) \subseteq stored => Says(Adapted(r), known, stored)
         /\ RangeOf(r) \subseteq known => Says(Concluded(r), known, stored)
         /\ RangeOf(Adapted(r)) = RangeOf(r) /\ RangeOf(Concluded(r)) = RangeOf(r)
<1>1. RangeOf(Adapted(r)) = RangeOf(r) /\ RangeOf(Concluded(r)) = RangeOf(r)
  BY MarkedRows DEF RangeOf
<1> QED
  BY <1>1, MarkedRows DEF Says

(* The row the cron writes tells the truth once what lies between is given *)
(* up: the blocks before the first range, or a range that is not finished. *)
LEMMA NextRangeIsSaid ==
  ASSUME NEW r \in RangeRow, NEW c \in Int, NEW known, NEW stored, Says(r, known, stored),
         r = NoRow => 1..(c - LookBack - 1) \subseteq known,
         r # NoRow /\ ~r.point => RangeOf(r) \subseteq known
  PROVE  Says(NextRange(r, c), known, stored)
<1> DEFINE n == NextRange(r, c)
<1>0. /\ ~n.point /\ ~n.adapter
      /\ n.start = IF r = NoRow THEN c - LookBack ELSE r.end + 1
  BY NextRanges
<1>1. r.end \in Int /\ r.start \in Int /\ LookBack \in Nat
  BY RangeAssumption DEF RangeRow
<1> SUFFICES ASSUME NEW b \in Height, b < n.start PROVE b \in known
  BY <1>0 DEF Says
<1> HIDE DEF n
<1>b. b \in Int /\ 1 <= b
  BY DEF Height
<1>2. CASE r = NoRow
  BY <1>0, <1>1, <1>b, <1>2
<1>3. CASE r # NoRow
  <2>1. b < r.start \/ b \in RangeOf(r)
    BY <1>0, <1>1, <1>b, <1>3 DEF RangeOf
  <2> QED
    BY <1>3, <2>1 DEF Says
<1> QED
  BY <1>2, <1>3

(* In the first state nothing is said of any block. *)
LEMMA InitTruthful == Init => Truthful
<1> SUFFICES ASSUME Init PROVE Truthful
  OBVIOUS
<1>1. RangeOf(NoRow) = {} /\ \A b \in Height : ~(b < NoRow.start)
  BY NoRowFields DEF RangeOf, Height
<1>2. Says(NoRow, Known, Stored)
  BY <1>1 DEF Says
<1> QED
  BY <1>2 DEF Init, Truthful

(* Every action writes rows that tell the truth. *)
LEMMA NextTruthful == Types /\ Shapes /\ Truthful /\ [Next]_vars => Truthful'
<1> SUFFICES ASSUME Types, Shapes, Truthful, [Next]_vars PROVE Truthful'
  OBVIOUS
<1> USE DEF Types, Truthful, tables, cron, adapter, calc, history
<1>0. Says(NoRow, Known', Stored')
  BY NoRowFields DEF Says, RangeOf, Height
<1>1. CASE NewBlock
  BY <1>1 DEF NewBlock, Known, Stored
<1>2. CASE CronRead
  BY <1>2 DEF CronRead, Known, Stored
<1>3. CASE CronWrite
  <2>1. /\ row' = NextRange(cread, cend) /\ UNCHANGED <<head, data, ledger, adapter, calc, late>>
        /\ cpc = "write" /\ cpc' = "idle" /\ cread' = NoRow /\ cend' = 0
        /\ skipped \subseteq skipped'
    BY <1>3 DEF CronWrite
  <2>2. Known \subseteq Known' /\ Stored \subseteq Stored'
    BY <2>1 DEF Known, Stored
  <2>3. /\ cread = NoRow => 1..(cend - LookBack - 1) \subseteq Known'
        /\ cread # NoRow /\ ~cread.point => RangeOf(cread) \subseteq Known'
    BY <1>3 DEF CronWrite, Known
  <2>4. Says(cread, Known', Stored')
    BY <2>2, MoreIsSaid
  <2>5. Says(row', Known', Stored')
    BY <2>1, <2>3, <2>4, NextRangeIsSaid
  <2> QED
    BY <1>0, <2>1, <2>2, <2>5, MoreIsSaid
<1>4. CASE JobPoll
  BY <1>4 DEF JobPoll, Known, Stored
<1>5. CASE JobLoad
  <2>1. /\ UNCHANGED <<head, row, ledger, jrow, cron, calc, late, skipped>>
        /\ jpc' = "mark" /\ data' = data \cup RangeOf(jrow)
    BY <1>5 DEF JobLoad
  <2>2. Known \subseteq Known' /\ Stored \subseteq Stored' /\ RangeOf(jrow) \subseteq Stored'
    BY <2>1 DEF Known, Stored
  <2> QED
    BY <1>0, <2>1, <2>2, MoreIsSaid
<1>6. CASE JobNoFile
  <2>1. /\ UNCHANGED <<head, row, data, ledger, jrow, cron, calc, late>>
        /\ jpc' = "mark" /\ skipped' = skipped \cup RangeOf(jrow)
    BY <1>6 DEF JobNoFile
  <2>2. Known \subseteq Known' /\ Stored \subseteq Stored' /\ RangeOf(jrow) \subseteq Stored'
    BY <2>1 DEF Known, Stored
  <2> QED
    BY <1>0, <2>1, <2>2, MoreIsSaid
<1>7. CASE JobFails
  BY <1>0, <1>7 DEF JobFails, Known, Stored
<1>8. CASE JobMark
  <2>1. /\ row' = Adapted(jrow) /\ UNCHANGED <<head, data, ledger, cron, calc, late, skipped>>
        /\ jpc = "mark" /\ jpc' = "idle" /\ jrow' = NoRow
    BY <1>8 DEF JobMark, Adapted
  <2>2. Known' = Known /\ Stored' = Stored
    BY <2>1 DEF Known, Stored
  <2>3. Says(row', Known', Stored')
    BY <2>1, <2>2, MarksAreSaid
  <2> QED
    BY <1>0, <2>1, <2>2, <2>3
<1>9. CASE CalcPoll
  BY <1>9 DEF CalcPoll, Known, Stored
<1>10. CASE CalcRead
  <2> DEFINE found == data \cap RangeOf(krow)
  <2>1. UNCHANGED <<head, tables, cron, adapter, skipped>> /\ kpc = "read"
    BY <1>10 DEF CalcRead
  <2>2. Known' = Known /\ Stored' = Stored
    BY <2>1 DEF Known, Stored
  <2>3. RangeOf(krow) \subseteq found \cup skipped
    BY <2>1 DEF Shapes, Says, Stored
  <2>4. CASE found = {}
    <3>1. late' = late \cup {Concluded(krow)} /\ kpc' = "idle" /\ krow' = NoRow /\ kblocks' = {}
      BY <1>10, <2>4 DEF CalcRead, Concluded
    <3>2. Says(Concluded(krow), Known', Stored')
      BY <2>2, <2>3, <2>4, MarksAreSaid DEF Known
    <3> QED
      BY <1>0, <2>1, <2>2, <3>1, <3>2
  <2>5. CASE found # {}
    <3>1. UNCHANGED <<krow, late>> /\ kblocks' = found /\ kpc' = "write"
      BY <1>10, <2>5 DEF CalcRead
    <3> QED
      BY <2>1, <2>2, <2>3, <3>1 DEF Known
  <2> QED
    BY <2>4, <2>5
<1>11. CASE CalcCommit
  <2>1. /\ row' = Concluded(krow) /\ UNCHANGED <<head, data, cron, adapter, late, skipped>>
        /\ kpc = "write" /\ kpc' = "idle" /\ krow' = NoRow /\ kblocks' = {}
        /\ ledger' = ledger \cup kblocks
    BY <1>11 DEF CalcCommit, Concluded
  <2>2. Known \subseteq Known' /\ Stored' = Stored /\ RangeOf(krow) \subseteq Known'
    BY <2>1 DEF Known, Stored
  <2>3. Says(row', Known', Stored')
    BY <2>1, <2>2, MoreIsSaid, MarksAreSaid
  <2> QED
    BY <1>0, <2>1, <2>2, <2>3, MoreIsSaid
<1>12. CASE LateMark
  BY <1>12 DEF LateMark, Known, Stored
<1>13. CASE Crash
  BY <1>0, <1>13 DEF Crash, Known, Stored
<1>14. CASE UNCHANGED vars
  BY <1>14 DEF vars, Known, Stored
<1>15. CASE JobDies
  BY <1>15 DEF JobDies, Known, Stored
<1>16. CASE CalcDies
  BY <1>0, <1>16 DEF CalcDies, Known, Stored
<1> QED
  BY <1>1, <1>2, <1>3, <1>4, <1>5, <1>6, <1>7, <1>8, <1>9, <1>10, <1>11, <1>12, <1>13,
     <1>14, <1>15, <1>16 DEF Next, JobStep, CalcStep

------------------------------------------------------------------------------
(* Order. *)

(* The range behind one that begins after r has ended has no block of r.   *)
LEMMA LaterRangesAreApart ==
  ASSUME NEW r \in RangeRow, NEW q \in RangeRow, r.end < q.start
  PROVE  RangeOf(q) \cap RangeOf(r) = {}
<1>1. r.end \in Int /\ q.start \in Int /\ Height \subseteq Int
  BY DEF RangeRow, Height
<1> SUFFICES ASSUME NEW b \in Height, r.start <= b, b <= r.end, q.start <= b, b <= q.end
             PROVE FALSE
  BY DEF RangeOf
<1> QED
  BY <1>1

(* In the first state nothing is paid and nobody works. *)
LEMMA InitOrdered == Init => Ordered
<1> SUFFICES ASSUME Init PROVE InOrder
  BY DEF Ordered
<1>1. Paid = {}
  BY DEF Init, Paid
<1> QED
  BY <1>1, NoRowFields DEF Init, InOrder, Within, Behind

(* The cron is overtaken for good. *)
LEMMA OvertakenStays == [Next]_vars /\ overtaken => overtaken'
BY DEF Next, JobStep, CalcStep, vars, history, NewBlock, CronRead, CronWrite, JobPoll, JobLoad,
       JobNoFile, JobFails, JobDies, JobMark, CalcPoll, CalcRead, CalcCommit, CalcDies, LateMark,
       Crash

(* A cron run that is not overtaken puts the row behind all that is paid   *)
(* and behind all that is worked on.                                       *)
LEMMA CronWriteInOrder ==
  Types /\ Shapes /\ InOrder /\ CronWrite /\ ~overtaken' => InOrder'
<1> SUFFICES ASSUME Types, Shapes, InOrder, CronWrite, ~overtaken' PROVE InOrder'
  OBVIOUS
<1>1. /\ UNCHANGED <<head, data, paid, ledger, jpc, jrow, kpc, krow, kblocks, late>>
      /\ row' = NextRange(cread, cend) /\ cpc = "write"
  BY DEF CronWrite, adapter, calc
<1>2. ~(row.end > cread.end)
  BY DEF CronWrite
<1>t. /\ row \in RangeRow /\ cread \in RangeRow /\ krow \in RangeRow /\ jrow \in RangeRow /\ cend \in Int
      /\ \A r \in RangeRow : r.start \in Int /\ r.end \in Int
      /\ Height \subseteq Int /\ \A b \in Height : 1 <= b
  BY DEF Types, RangeRow, Height
<1>3. ~row'.adapter /\ ~row'.point /\ row'.end = cend
      /\ row'.start = IF cread = NoRow THEN cend - LookBack ELSE cread.end + 1
  BY <1>1, <1>t, NextRanges
<1>n. row'.start \in Int /\ row'.end \in Int
  BY <1>1, <1>t, NextRanges
<1>e. /\ row.start \in Int /\ row.end \in Int /\ cread.end \in Int
      /\ krow.start \in Int /\ krow.end \in Int
  BY <1>t
<1>4. cread.end <= cend /\ Shape(cread) /\ Shape(row)
  BY <1>1 DEF Shapes
<1>p. Paid' = Paid
  BY <1>1 DEF Paid
<1>5. Paid \subseteq Height /\ Within(row, Paid)
  BY DEF Paid, InOrder
<1>6. CASE cread = NoRow
  <2>1. row = NoRow
    BY <1>2, <1>4, <1>6, <1>t, NoRowFields DEF Shape
  <2>2. Paid = {}
    BY <1>5, <1>t, <2>1, NoRowFields DEF Within
  <2>3. kpc \notin {"read", "write"}
    BY <1>t, <2>1, NoRowFields DEF InOrder, Shapes, Shape
  <2>4. late = {}
    <3> SUFFICES ASSUME NEW r \in late PROVE FALSE
      OBVIOUS
    <3>1. r \in RangeRow /\ Shape(r) /\ r.end < row.start
      BY <2>1, NoRowFields DEF Types, Shapes, InOrder
    <3> QED
      BY <1>t, <2>1, <3>1, NoRowFields DEF Shape
  <2> QED
    BY <1>1, <1>3, <1>p, <2>2, <2>3, <2>4 DEF InOrder, Within, Behind
<1>7. CASE cread # NoRow
  <2>1. row'.start = cread.end + 1 /\ row.end < row'.start /\ row.end <= row'.end
    BY <1>2, <1>3, <1>4, <1>7, <1>t
  <2>2. Within(row', Paid) /\ Behind(row', Paid)
    <3> SUFFICES ASSUME NEW b \in Paid PROVE b <= row'.end /\ b < row'.start
      BY DEF Within, Behind
    <3>1. b \in Int /\ b <= row.end
      BY <1>5, <1>t DEF Within
    <3> QED
      BY <1>n, <1>e, <2>1, <3>1
  <2>3. row.start <= row.end + 1
    BY <1>4, <1>t, NoRowFields DEF Shape
  <2>4. kpc \in {"read", "write"} => krow.end < row'.start
    BY <1>n, <1>e, <2>1, <2>3 DEF InOrder
  <2>5. \A r \in late : r.end < row'.start
    <3> SUFFICES ASSUME NEW r \in late PROVE r.end < row'.start
      OBVIOUS
    <3>1. r \in RangeRow /\ (r = Concluded(row) \/ r.end < row.start)
      BY DEF Types, InOrder
    <3>2. r.end \in Int /\ r.end <= row.end
      BY <1>e, <1>t, <2>3, <3>1, MarkedRows
    <3> QED
      BY <1>n, <1>e, <2>1, <3>2
  <2> QED
    BY <1>1, <1>3, <1>p, <2>2, <2>4, <2>5 DEF InOrder
<1> QED
  BY <1>6, <1>7

(* While the adapter works, nothing it stores belongs to another range. *)
LEMMA AdapterInOrder ==
  ASSUME Types, Shapes, InOrder, JobPoll \/ JobLoad \/ JobMark
  PROVE  InOrder'
<1>t. /\ row \in RangeRow /\ krow \in RangeRow /\ jrow \in RangeRow /\ late \subseteq RangeRow
      /\ \A r \in RangeRow : r.start \in Int /\ r.end \in Int
      /\ Height \subseteq Int
  BY DEF Types, RangeRow, Height
<1>1. CASE JobPoll
  <2>1. /\ UNCHANGED <<row, data, paid, ledger, kpc, krow, kblocks, late>>
        /\ ~row.adapter /\ jrow' = row
    BY <1>1 DEF JobPoll, tables, calc
  <2>2. Paid' = Paid
    BY <2>1 DEF Paid
  <2>3. ~row.point
    BY <2>1 DEF Shapes, Finished
  <2>4. kpc \in {"read", "write"} => krow.end < row.start
    BY <2>1 DEF Shapes, InOrder
  <2>5. \A r \in late : r.end < row.start
    BY <1>t, <2>1, MarkedRows DEF Shapes, InOrder
  <2> QED
    BY <2>1, <2>2, <2>3, <2>4, <2>5 DEF InOrder
<1>2. CASE JobLoad
  <2>1. /\ UNCHANGED <<row, paid, ledger, kpc, krow, kblocks, late, jrow>> /\ jpc = "run"
        /\ data' = data \cup RangeOf(jrow)
    BY <1>2 DEF JobLoad, calc
  <2>2. Paid' = Paid
    BY <2>1 DEF Paid
  <2>3. kpc = "write" => RangeOf(jrow) \cap RangeOf(krow) = {}
    BY <1>t, <2>1, LaterRangesAreApart DEF InOrder
  <2>4. row.point => RangeOf(jrow) \cap RangeOf(row) = {}
    BY <1>t, <2>1, LaterRangesAreApart DEF InOrder
  <2>5. \A r \in late : RangeOf(jrow) \cap RangeOf(r) = {}
    BY <1>t, <2>1, LaterRangesAreApart DEF InOrder
  <2>6. kpc = "write" => data' \cap RangeOf(krow) \subseteq kblocks
    BY <2>1, <2>3 DEF InOrder
  <2>7. row.point => data' \cap RangeOf(row) \subseteq ledger
    BY <2>1, <2>4 DEF InOrder
  <2>8. \A r \in late : data' \cap RangeOf(r) = {}
    BY <2>1, <2>5 DEF InOrder
  <2> QED
    BY <2>1, <2>2, <2>6, <2>7, <2>8 DEF InOrder
<1>3. CASE JobMark
  <2>1. /\ UNCHANGED <<data, paid, ledger, kpc, krow, kblocks, late>>
        /\ jpc = "mark" /\ jpc' = "idle"
        /\ row' = Adapted(jrow)
    BY <1>3 DEF JobMark, calc, Adapted
  <2>2. Paid' = Paid
    BY <2>1 DEF Paid
  <2>3. /\ row'.start = jrow.start /\ row'.end = jrow.end /\ row'.point = jrow.point
        /\ ~jrow.point /\ Shape(jrow) /\ Behind(jrow, Paid) /\ jrow # NoRow
    BY <1>t, <2>1, MarkedRows DEF Shapes, InOrder
  <2>4. Behind(row', Paid) /\ Within(row', Paid)
    <3>1. jrow.start \in Int /\ jrow.end \in Int
      BY <1>t
    <3>2. jrow.start <= jrow.end + 1
      BY <2>3 DEF Shape
    <3> SUFFICES ASSUME NEW b \in Paid PROVE b < row'.start /\ b <= row'.end
      BY DEF Behind, Within
    <3>3. b \in Int /\ b < jrow.start
      BY <1>t, <2>3 DEF Paid, Behind
    <3> QED
      BY <2>3, <3>1, <3>2, <3>3
  <2>5. ~row'.point
    BY <2>3
  <2>6. /\ kpc \in {"read", "write"} => krow.end < row'.start
        /\ \A r \in late : r.end < row'.start
    BY <2>1, <2>3 DEF InOrder
  <2> QED
    BY <2>1, <2>2, <2>4, <2>5, <2>6 DEF InOrder
<1> QED
  BY <1>1, <1>2, <1>3

(* CalTx pays a range of which nothing is paid.                            *)
LEMMA CalcInOrder ==
  ASSUME Types, Shapes, InOrder, CalcPoll \/ CalcRead \/ CalcCommit \/ LateMark
  PROVE  InOrder'
<1>t. /\ row \in RangeRow /\ krow \in RangeRow /\ jrow \in RangeRow /\ late \subseteq RangeRow
      /\ krow.start \in Int /\ krow.end \in Int /\ jrow.start \in Int
      /\ Height \subseteq Int
  BY DEF Types, RangeRow, Height
<1>k. kpc \in {"read", "write"} => krow.start <= krow.end + 1 /\ ~krow.point /\ krow.adapter /\ late = {}
  BY DEF Shapes, Shape
<1>1. CASE CalcPoll
  <2>1. /\ UNCHANGED <<row, data, paid, ledger, jpc, jrow, late>>
        /\ row.adapter /\ ~row.point /\ krow' = row /\ late = {} /\ kpc' = "read"
    BY <1>1 DEF CalcPoll, tables, adapter
  <2>2. Paid' = Paid
    BY <2>1 DEF Paid
  <2>3. jpc \notin {"run", "mark"}
    BY <2>1 DEF InOrder
  <2> QED
    BY <2>1, <2>2, <2>3 DEF InOrder
<1>2. CASE CalcRead
  <2> DEFINE found == data \cap RangeOf(krow)
  <2>1. UNCHANGED <<row, data, paid, ledger, jpc, jrow>> /\ kpc = "read"
    BY <1>2 DEF CalcRead, tables, adapter
  <2>2. Paid' = Paid
    BY <2>1 DEF Paid
  <2>3. CASE found = {}
    <3>1. late' = late \cup {Concluded(krow)} /\ kpc' = "idle"
      BY <1>2, <2>3 DEF CalcRead, Concluded
    <3>2. late' = {Concluded(krow)}
      BY <1>k, <2>1, <3>1
    <3> DEFINE r == Concluded(krow)
    <3>3. r.end = krow.end /\ RangeOf(r) = RangeOf(krow)
      BY <1>t, MarkedRows DEF RangeOf
    <3>4. /\ (~row.point /\ r = Concluded(row)) \/ r.end < row.start
          /\ jpc \in {"run", "mark"} => r.end < jrow.start
          /\ data \cap RangeOf(r) = {}
      BY <1>k, <2>1, <2>3, <3>3 DEF InOrder
    <3>5. Within(r, Paid)
      <4> SUFFICES ASSUME NEW b \in Paid PROVE b <= r.end
        BY DEF Within
      <4>1. b \in Int /\ b < krow.start
        BY <1>t, <2>1 DEF Paid, InOrder, Behind
      <4> QED
        BY <1>t, <1>k, <2>1, <3>3, <4>1
    <3> HIDE DEF r
    <3> QED
      BY <2>1, <2>2, <3>1, <3>2, <3>4, <3>5 DEF InOrder, r
  <2>4. CASE found # {}
    <3>1. UNCHANGED <<krow, late>> /\ kblocks' = found /\ kpc' = "write"
      BY <1>2, <2>4 DEF CalcRead
    <3> QED
      BY <1>k, <2>1, <2>2, <3>1 DEF InOrder
  <2> QED
    BY <2>3, <2>4
<1>3. CASE CalcCommit
  <2>1. /\ UNCHANGED <<data, jpc, jrow, late>> /\ kpc = "write" /\ kpc' = "idle"
        /\ row' = Concluded(krow) /\ ledger' = ledger \cup kblocks
        /\ paid' = [b \in Height |-> IF b \in kblocks THEN paid[b] + 1 ELSE paid[b]]
    BY <1>3 DEF CalcCommit, adapter, Concluded
  <2>2. /\ row'.start = krow.start /\ row'.end = krow.end /\ row'.point
        /\ RangeOf(row') = RangeOf(krow)
    BY <1>t, <2>1, MarkedRows DEF RangeOf
  <2>3. kblocks \subseteq RangeOf(krow) /\ Behind(krow, Paid) /\ late = {}
    BY <1>k, <2>1 DEF Shapes, InOrder
  <2>4. \A b \in kblocks : b \in Height /\ b \in Int /\ krow.start <= b /\ b <= krow.end
    BY <1>t, <2>3 DEF RangeOf
  <2>5. \A b \in kblocks : paid[b] = 0
    <3> SUFFICES ASSUME NEW b \in kblocks, paid[b] # 0 PROVE FALSE
      OBVIOUS
    <3>1. paid[b] \in Nat
      BY <2>4 DEF Types
    <3>2. b \in Paid
      BY <2>4, <3>1 DEF Paid
    <3> QED
      BY <1>t, <2>3, <2>4, <3>2 DEF Behind
  <2>6. \A b \in Height : paid'[b] <= 1
    BY <2>1, <2>5 DEF InOrder
  <2>7. Paid' = Paid \cup kblocks
    <3>1. \A b \in Height : paid'[b] > 0 <=> b \in kblocks \/ paid[b] > 0
      BY <2>1, <2>5 DEF Types
    <3> QED
      BY <2>4, <3>1 DEF Paid
  <2>8. Within(row', Paid')
    <3> SUFFICES ASSUME NEW b \in Paid PROVE b <= krow.end
      BY <2>2, <2>4, <2>7 DEF Within
    <3>1. b \in Int /\ b < krow.start
      BY <1>t, <2>3 DEF Paid, Behind
    <3> QED
      BY <1>t, <1>k, <2>1, <3>1
  <2>9. jpc \in {"run", "mark"} => Behind(jrow, Paid') /\ krow.end < jrow.start
    <3>1. jpc \in {"run", "mark"} => Behind(jrow, Paid) /\ krow.end < jrow.start
      BY <2>1 DEF InOrder
    <3> QED
      BY <1>t, <2>4, <2>7, <3>1 DEF Behind
  <2>10. data \cap RangeOf(row') \subseteq ledger'
    BY <2>1, <2>2 DEF InOrder
  <2> QED
    BY <2>1, <2>2, <2>3, <2>6, <2>8, <2>9, <2>10 DEF InOrder
<1>4. CASE LateMark
  <2>1. PICK r \in late : row' = r /\ late' = late \ {r}
    BY <1>4 DEF LateMark
  <2>2. UNCHANGED <<data, paid, ledger, jpc, jrow, kpc, krow, kblocks>>
    BY <1>4 DEF LateMark, adapter, calc
  <2>3. late' = {} /\ kpc \notin {"read", "write"} /\ r.point
    BY <2>1 DEF Shapes
  <2>4. Paid' = Paid
    BY <2>2 DEF Paid
  <2> QED
    BY <2>1, <2>2, <2>3, <2>4 DEF InOrder
<1> QED
  BY <1>1, <1>2, <1>3, <1>4

(* Every action keeps the ranges in order, or was overtaken.               *)
LEMMA NextOrdered == Types /\ Shapes /\ Ordered /\ [Next]_vars => Ordered'
<1> SUFFICES ASSUME Types, Shapes, Ordered, [Next]_vars, ~overtaken' PROVE InOrder'
  BY DEF Ordered
<1>o. InOrder
  BY OvertakenStays DEF Ordered
<1>p. paid' = paid => Paid' = Paid
  BY DEF Paid
<1>1. CASE NewBlock
  BY <1>1, <1>o, <1>p DEF NewBlock, InOrder, tables, cron, adapter, calc
<1>2. CASE CronRead
  BY <1>2, <1>o, <1>p DEF CronRead, InOrder, tables, adapter, calc
<1>3. CASE CronWrite
  BY <1>3, <1>o, CronWriteInOrder
<1>4. CASE JobPoll \/ JobLoad \/ JobMark
  BY <1>4, <1>o, AdapterInOrder
<1>5. CASE JobNoFile
  BY <1>5, <1>o, <1>p DEF JobNoFile, InOrder, tables, cron, calc
<1>6. CASE JobFails
  BY <1>6, <1>o, <1>p DEF JobFails, InOrder, tables, cron, calc
<1>7. CASE CalcPoll \/ CalcRead \/ CalcCommit \/ LateMark
  BY <1>7, <1>o, CalcInOrder
<1>8. CASE Crash
  BY <1>8, <1>o, <1>p DEF Crash, InOrder, tables
<1>9. CASE UNCHANGED vars
  BY <1>9, <1>o, <1>p DEF vars, InOrder, tables, cron, adapter, calc
<1>10. CASE JobDies
  BY <1>10, <1>o, <1>p DEF JobDies, InOrder, tables, cron, calc
<1>11. CASE CalcDies
  BY <1>11, <1>o, <1>p DEF CalcDies, InOrder, tables, cron, adapter
<1> QED
  BY <1>1, <1>2, <1>3, <1>4, <1>5, <1>6, <1>7, <1>8, <1>9, <1>10, <1>11
  DEF Next, JobStep, CalcStep

------------------------------------------------------------------------------
(* The theorems. *)

(* The rows and their copies are typed, shaped and true, and the ranges    *)
(* are in order.                                                           *)
THEOREM RangeInvariant == Spec => []IInv
<1>1. Init => IInv
  BY InitTypes, InitShapes, InitTruthful, InitOrdered DEF IInv
<1>2. IInv /\ [Next]_vars => IInv'
  BY NextTypes, NextShapes, NextTruthful, NextOrdered DEF IInv
<1> QED
  BY <1>1, <1>2, PTL DEF Spec

(* No block is added to the totals twice, unless the cron is overtaken.    *)
THEOREM BlocksArePaidOnce == Spec => []PaidOnce
<1>1. IInv => PaidOnce
  BY DEF IInv, Ordered, InOrder, PaidOnce
<1> QED
  BY <1>1, RangeInvariant, PTL

(* A range that waits for its points holds no block that was paid, unless  *)
(* the cron is overtaken.                                                  *)
THEOREM PendingRangesAreUnpaid == Spec => []PendingRangeIsUnpaid
<1>1. IInv => PendingRangeIsUnpaid
  <2> SUFFICES ASSUME IInv, ~row.point, ~overtaken, NEW b \in RangeOf(row) PROVE paid[b] = 0
    BY DEF PendingRangeIsUnpaid
  <2>1. b \in Height /\ b \in Int /\ row.start \in Int /\ row.start <= b /\ paid[b] \in Nat
    BY RangesAreBlocks DEF IInv, Types, RangeRow, RangeOf
  <2>2. Behind(row, Paid)
    BY DEF IInv, Ordered, InOrder
  <2> QED
    BY <2>1, <2>2 DEF Behind, Paid
<1> QED
  BY <1>1, RangeInvariant, PTL

(* A finished range has every stored transaction of its blocks in the      *)
(* ledger, unless the cron is overtaken.                                   *)
THEOREM FinishedRangesArePaid == Spec => []FinishedRangeIsPaid
<1>1. IInv => FinishedRangeIsPaid
  BY DEF IInv, Ordered, InOrder, FinishedRangeIsPaid
<1> QED
  BY <1>1, RangeInvariant, PTL

(* Every block behind the row is in the ledger or was given up.            *)
THEOREM UnpaidBlocksAreSkipped == Spec => []UnpaidIsSkipped
<1>1. IInv => UnpaidIsSkipped
  <2> SUFFICES ASSUME IInv, NEW b \in Height, row.start > b, b \notin ledger PROVE b \in skipped
    BY DEF UnpaidIsSkipped
  <2>1. b < row.start
    BY DEF IInv, Types, RangeRow, Height
  <2> QED
    BY <2>1 DEF IInv, Truthful, Says, Known
<1> QED
  BY <1>1, RangeInvariant, PTL

------------------------------------------------------------------------------
(* The feeds. *)

(* What a feed, the locals of a program and the first answer are made of.  *)
Fetches  == [network : Nat, http : Nat, errors : Nat, sticky : BOOLEAN]
FeedKind == [pinned : BOOLEAN, paging : {"skip", "cursor", "pages", "none"}, fetch : Fetches,
             gaveUp : SUBSET {"throws", "stops", "skips"}, drops : BOOLEAN]
Locals   == [status : {"reading", "printed", "died"}, got : [Row -> Nat], skip : Nat, last : Nat,
             retries : Nat, soured : BOOLEAN]

FeedTypeOK ==
  /\ feed \in FeedKind /\ (feed.pinned => feed.paging # "pages")
  /\ "skips" \in feed.gaveUp => feed.paging = "pages"
  /\ blockOf \in [Row -> 1..LastBlock] /\ indexed \in Nat
  /\ run \in Locals /\ cut \in BOOLEAN
  /\ first = <<>> \/ \E S \in SUBSET Row : first = <<S>>

(* The index forgets nothing: what the first answer was taken from, and    *)
(* what was got, is still there.                                           *)
StillThere ==
  /\ first # <<>> => first[1] \subseteq Visible
  /\ \A r \in Row : run.got[r] > 0 => r \in Visible

(* Before the first answer there is nothing.                               *)
NothingYet ==
  first = <<>> =>
    /\ \A r \in Row : run.got[r] = 0
    /\ run.skip = 0 /\ run.last = 0
    /\ run.status = "printed" => cut

(* An index that is asked for the block has reached it.                    *)
BlockReached == feed.pinned /\ first # <<>> => indexed >= End /\ first[1] = Wanted

(* The rows the next page starts behind.                                   *)
Passed(r) == IF feed.paging = "cursor" THEN r <= run.last ELSE Place(Visible, r) <= run.skip

(* A program that is still reading has every row of the first answer, or   *)
(* has it before it; if it does not page it has read nothing.              *)
NothingPassed ==
  run.status = "reading" =>
    /\ feed.paging = "none" => first = <<>>
    /\ ~cut /\ first # <<>> => \A r \in first[1] : run.got[r] > 0 \/ ~Passed(r)

(* What it has once it will not get again, while the rows stay the same    *)
(* (or are passed by a cursor).                                            *)
NothingTwice ==
  feed.paging = "cursor" \/ (first # <<>> /\ first[1] = Visible /\ run.status = "reading") =>
    \A r \in Row : run.got[r] <= 1 /\ (run.got[r] = 1 => Passed(r))

FeedInv ==
  /\ FeedTypeOK /\ StillThere /\ NothingYet /\ BlockReached /\ NothingPassed /\ NothingTwice
  /\ FeedIsComplete

(* The rows are finitely many numbers. *)
LEMMA RowFacts ==
  /\ Row \subseteq Nat /\ IsFiniteSet(Row) /\ N \in Nat /\ \A r \in Row : 1 <= r /\ r <= N
  /\ End \in Nat /\ LastBlock \in Nat /\ MaxRetries \in Nat
  /\ PageSize \in Nat \ {0} /\ DefaultFirst \in Nat \ {0}
BY FeedAssumption, FS_Interval DEF Row

(* Every variant of the loop is one of the kinds; none that counts its     *)
(* pages asks for a block, and only such a one leaves a page out.          *)
LEMMA FeedsTyped ==
  \A f \in Feeds : /\ f \in FeedKind /\ (f.pinned => f.paging # "pages")
                   /\ "skips" \in f.gaveUp => f.paging = "pages"
<1>1. Doubling \in Fetches /\ Endless \in Fetches /\ OneChance \in Fetches /\ Unchecked \in Fetches
  BY RowFacts DEF Doubling, Endless, OneChance, Unchecked, Fetches
<1>2. EddyFetch \in Fetches /\ RubicFetch \in Fetches
  BY <1>1 DEF EddyFetch, RubicFetch, Fetches
<1>3. Snapshot \in FeedKind /\ Snapshot.paging = "skip" /\ Snapshot.gaveUp = {"throws"}
  BY <1>1 DEF Snapshot, FeedKind
<1>4. BlockRange \in FeedKind /\ ~BlockRange.pinned /\ BlockRange.gaveUp = {"throws"}
  BY <1>3 DEF BlockRange, FeedKind
<1> DEFINE Fine(f) == /\ f \in FeedKind /\ (f.pinned => f.paging # "pages")
                      /\ "skips" \in f.gaveUp => f.paging = "pages"
<1>5. ASSUME NEW f \in Fetches, NEW g \in {"skip", "cursor", "none"},
             NEW e \in SUBSET {"throws", "stops"}, NEW d \in BOOLEAN
      PROVE  /\ Fine([Snapshot EXCEPT !.fetch = f]) /\ Fine([BlockRange EXCEPT !.fetch = f])
             /\ Fine([Snapshot EXCEPT !.fetch = f, !.gaveUp = e])
             /\ Fine([BlockRange EXCEPT !.fetch = f, !.gaveUp = e])
             /\ Fine([Snapshot EXCEPT !.fetch = f, !.drops = d])
             /\ Fine([BlockRange EXCEPT !.fetch = f, !.drops = d])
             /\ Fine([Snapshot EXCEPT !.fetch = f, !.paging = g])
             /\ Fine([BlockRange EXCEPT !.fetch = f, !.paging = g])
             /\ Fine([Snapshot EXCEPT !.fetch = f, !.paging = g, !.drops = d])
             /\ Fine([BlockRange EXCEPT !.fetch = f, !.paging = g, !.gaveUp = e])
             /\ Fine([BlockRange EXCEPT !.fetch = f, !.paging = "pages", !.gaveUp = {"skips"}])
  BY <1>3, <1>4 DEF FeedKind
<1> HIDE DEF Fine
<1>6. /\ Fine(ExamplePositions) /\ Fine(ShoebillPositions) /\ Fine(LayerbankPositions)
      /\ Fine(AquaPositions) /\ Fine(AgxPositions) /\ Fine(AgxSwaps)
      /\ Fine(ZkdxBalances) /\ Fine(ZkdxTransactions) /\ Fine(SumerPositions)
  BY <1>1, <1>5 DEF ExamplePositions, ShoebillPositions, LayerbankPositions, AquaPositions,
       AgxPositions, AgxSwaps, ZkdxBalances, ZkdxTransactions, SumerPositions, ExampleFetch,
       ShoebillFetch, LayerbankFetch, AquaFetch, AgxFetch, ZkdxFetch, SumerFetch
<1>7. /\ Fine(WagmiPositions) /\ Fine(WagmiMultipools) /\ Fine(WagmiSwaps)
      /\ Fine(ZnsDomains) /\ Fine(InterportStakes) /\ Fine(InterportTransfers)
      /\ Fine(SteerDepositors) /\ Fine(EddySwaps) /\ Fine(SkyrangersTvl)
      /\ Fine(SkyrangersTxs) /\ Fine(NovaswapPositions)
  BY <1>1, <1>2, <1>5 DEF WagmiPositions, WagmiMultipools, WagmiSwaps, ZnsDomains, InterportStakes,
       InterportTransfers, SteerDepositors, EddySwaps, SkyrangersTvl, SkyrangersTxs,
       NovaswapPositions, WagmiFetch, ZnsFetch, InterportFetch, SteerFetch, SkyrangersFetch
<1>8. /\ Fine(RubicOnChain) /\ Fine(RubicCrossChain) /\ Fine(RedistributeTotals)
      /\ Fine(RedistributePoints) /\ Fine(RedistributeWithdraws) /\ Fine(RedistributePools)
  BY <1>1, <1>2, <1>5 DEF RubicOnChain, RubicCrossChain, RedistributeTotals, RedistributePoints,
       RedistributeWithdraws, RedistributePools, RedistributeFetch
<1>9. \A f \in Feeds : Fine(f)
  BY <1>6, <1>7, <1>8 DEF Feeds
<1> QED
  BY <1>9 DEF Fine

(* A page is a part of the rows it is taken of, and if it is not full      *)
(* nothing lies behind it.                                                 *)
LEMMA WindowFacts ==
  ASSUME NEW S, S \subseteq Row, NEW n \in Nat, NEW m \in Nat \ {0}
  PROVE  /\ Window(S, n, m) \subseteq S /\ Cardinality(Window(S, n, m)) \in Nat
         /\ \A r \in S : Place(S, r) \in Nat /\ 1 <= Place(S, r)
         /\ \A r \in Window(S, n, m) : n < Place(S, r) /\ Place(S, r) <= n + m
         /\ \A r \in S \ Window(S, n, m) : n < Place(S, r) =>
              n + m < Place(S, r) /\ Cardinality(Window(S, n, m)) = m
<1>1. S \subseteq Nat /\ IsFiniteSet(S)
  BY RowFacts, FS_Subset
<1>2. \A r \in S : Place(S, r) \in Nat /\ 1 <= Place(S, r)
  BY <1>1, PlaceFacts
<1>3. Window(S, n, m) \subseteq S
  BY DEF Window
<1>4. Cardinality(Window(S, n, m)) \in Nat
  BY <1>1, <1>3, FS_Subset, FS_CardinalityType
<1>5. \A r \in Window(S, n, m) : n < Place(S, r) /\ Place(S, r) <= n + m
  BY DEF Window
<1>6. ASSUME NEW r \in S \ Window(S, n, m), n < Place(S, r)
      PROVE  n + m < Place(S, r) /\ Cardinality(Window(S, n, m)) = m
  <2>1. n + m < Place(S, r)
    BY <1>2, <1>6 DEF Window
  <2>2. Cardinality(Window(S, n, m)) = m
    BY <1>1, <2>1, PlacesAreFull DEF Window
  <2> QED
    BY <2>1, <2>2
<1> QED
  BY <1>2, <1>3, <1>4, <1>5, <1>6
(* The rows of the block that the index has are rows. *)
LEMMA VisibleFacts ==
  ASSUME FeedTypeOK
  PROVE  /\ Wanted \subseteq Row /\ Visible \subseteq Wanted
         /\ Visible \subseteq Nat /\ IsFiniteSet(Visible)
         /\ \A r \in Visible : /\ Place(Visible, r) \in Nat /\ 1 <= Place(Visible, r)
                               /\ Place(Visible, r) <= Cardinality(Visible)
         /\ Cardinality(Visible) \in Nat
         /\ feed.paging \in {"skip", "cursor", "pages", "none"}
<1>1. Wanted \subseteq Row /\ Visible \subseteq Wanted
  BY DEF Wanted, Visible
<1>2. Visible \subseteq Nat /\ IsFiniteSet(Visible)
  BY <1>1, RowFacts, FS_Subset
<1>3. Cardinality(Visible) \in Nat
  BY <1>2, FS_CardinalityType
<1>4. \A r \in Visible : Place(Visible, r) \in Nat /\ 1 <= Place(Visible, r)
  BY <1>2, PlaceFacts
<1>5. \A r \in Visible : Place(Visible, r) <= Cardinality(Visible)
  <2>1. \A r \in Visible : r \in Nat /\ r <= r
    BY <1>2
  <2> QED
    BY <1>2, <2>1, PlaceOrder
<1>6. feed.paging \in {"skip", "cursor", "pages", "none"}
  BY DEF FeedTypeOK, FeedKind
<1> QED
  BY <1>1, <1>2, <1>3, <1>4, <1>5, <1>6

(* Where a cursor stands after a page. *)
CursorAfter(page) == IF page # {} THEN Max(page) ELSE run.last

(* What a page has, and what is left behind it, for each way of paging.    *)
LEMMA PageFacts ==
  ASSUME FeedTypeOK
  PROVE  /\ Answer \subseteq Visible /\ Cardinality(Answer) \in Nat /\ CursorAfter(Answer) \in Nat
         /\ feed.paging = "cursor" =>
              /\ run.last <= CursorAfter(Answer)
              /\ \A r \in Answer : run.last < r /\ r <= CursorAfter(Answer)
              /\ \A r \in Visible \ Answer : run.last < r =>
                   CursorAfter(Answer) < r /\ Cardinality(Answer) = PageSize
         /\ feed.paging \in {"skip", "pages"} =>
              /\ \A r \in Answer : /\ run.skip < Place(Visible, r)
                                   /\ Place(Visible, r) <= run.skip + PageSize
              /\ \A r \in Visible \ Answer : run.skip < Place(Visible, r) =>
                   run.skip + PageSize < Place(Visible, r) /\ Cardinality(Answer) = PageSize
         /\ feed.paging = "none" => \A r \in Visible \ Answer : Cardinality(Answer) = DefaultFirst
<1>0. /\ run.last \in Nat /\ run.skip \in Nat /\ Visible \subseteq Row
      /\ feed.paging \in {"skip", "cursor", "pages", "none"}
      /\ PageSize \in Nat \ {0} /\ DefaultFirst \in Nat \ {0}
  BY VisibleFacts, RowFacts DEF FeedTypeOK, Locals
<1> DEFINE Rest == {r \in Visible : r > run.last}
<1>1. CASE feed.paging = "cursor"
  <2>1. Answer = Window(Rest, 0, PageSize) /\ Rest \subseteq Row
    BY <1>0, <1>1 DEF Answer
  <2>2. /\ Answer \subseteq Rest /\ Cardinality(Answer) \in Nat
        /\ \A r \in Rest : Place(Rest, r) \in Nat /\ 1 <= Place(Rest, r)
        /\ \A r \in Answer : Place(Rest, r) <= PageSize
        /\ \A r \in Rest \ Answer : PageSize < Place(Rest, r) /\ Cardinality(Answer) = PageSize
    <3> HIDE DEF Rest
    <3>1. /\ Answer \subseteq Rest /\ Cardinality(Answer) \in Nat
          /\ \A r \in Rest : Place(Rest, r) \in Nat /\ 1 <= Place(Rest, r)
          /\ \A r \in Answer : 0 < Place(Rest, r) /\ Place(Rest, r) <= 0 + PageSize
          /\ \A r \in Rest \ Answer : 0 < Place(Rest, r) =>
               0 + PageSize < Place(Rest, r) /\ Cardinality(Answer) = PageSize
      BY <1>0, <2>1, WindowFacts
    <3> QED
      BY <1>0, <3>1
  <2>3. \A r \in Rest : r \in Nat /\ r <= N /\ run.last < r /\ r \in Visible
    BY <1>0, RowFacts
  <2>4. Answer # {} => Max(Answer) \in Answer /\ \A y \in Answer : y <= Max(Answer)
    <3>1. Answer \subseteq Nat /\ (\A y \in Answer : y <= N) /\ N \in Nat
      BY <2>2, <2>3, RowFacts
    <3> QED
      BY <3>1, GreatestNumber
  <2>5. ASSUME NEW r \in Rest \ Answer, NEW x \in Answer PROVE x < r
    <3>1. Place(Rest, x) <= PageSize /\ PageSize < Place(Rest, r) /\ x \in Rest
      BY <2>2
    <3>2. Rest \subseteq Nat /\ IsFiniteSet(Rest) /\ x \in Nat /\ r \in Nat
      BY <2>1, <2>2, <2>3, RowFacts, FS_Subset
    <3>3. r <= x => Place(Rest, r) <= Place(Rest, x)
      <4> HIDE DEF Rest
      <4> QED
        BY <3>2, PlaceOrder
    <3>4. Place(Rest, x) \in Nat /\ Place(Rest, r) \in Nat
      BY <2>2, <3>1
    <3> HIDE DEF Rest
    <3> QED
      BY <1>0, <3>1, <3>2, <3>3, <3>4
  <2>6. /\ CursorAfter(Answer) \in Nat /\ run.last <= CursorAfter(Answer)
        /\ \A r \in Answer : run.last < r /\ r <= CursorAfter(Answer)
    <3>1. CASE Answer = {}
      BY <1>0, <3>1 DEF CursorAfter
    <3>2. CASE Answer # {}
      <4>1. CursorAfter(Answer) = Max(Answer) /\ Max(Answer) \in Rest
        BY <2>2, <2>4, <3>2 DEF CursorAfter
      <4> HIDE DEF Rest
      <4> QED
        BY <1>0, <2>2, <2>3, <2>4, <3>2, <4>1
    <3> QED
      BY <3>1, <3>2
  <2>7. \A r \in Rest \ Answer : CursorAfter(Answer) < r
    <3>1. CASE Answer = {}
      BY <2>3, <3>1 DEF CursorAfter
    <3>2. CASE Answer # {}
      BY <2>4, <2>5, <3>2 DEF CursorAfter
    <3> QED
      BY <3>1, <3>2
  <2>8. \A r \in Visible \ Answer : run.last < r => r \in Rest \ Answer
    BY <1>0, RowFacts
  <2> HIDE DEF Rest
  <2> QED
    BY <1>1, <2>2, <2>3, <2>6, <2>7, <2>8
<1> HIDE DEF Rest
<1>2. ASSUME feed.paging # "cursor", Answer \subseteq Visible PROVE CursorAfter(Answer) \in Nat
  <2>1. Answer \subseteq Nat /\ (\A y \in Answer : y <= N) /\ N \in Nat
    BY <1>0, <1>2, RowFacts
  <2>2. Answer # {} => Max(Answer) \in Answer
    BY <2>1, GreatestNumber
  <2> QED
    BY <1>0, <2>1, <2>2 DEF CursorAfter
<1>3. CASE feed.paging \in {"skip", "pages"}
  <2>1. Answer = Window(Visible, run.skip, PageSize)
    BY <1>3 DEF Answer
  <2>2. /\ Answer \subseteq Visible /\ Cardinality(Answer) \in Nat
        /\ \A r \in Answer : /\ run.skip < Place(Visible, r)
                             /\ Place(Visible, r) <= run.skip + PageSize
        /\ \A r \in Visible \ Answer : run.skip < Place(Visible, r) =>
             run.skip + PageSize < Place(Visible, r) /\ Cardinality(Answer) = PageSize
    BY <1>0, <2>1, WindowFacts
  <2> QED
    BY <1>2, <1>3, <2>2
<1>4. CASE feed.paging = "none"
  <2>1. Answer = Window(Visible, 0, DefaultFirst)
    BY <1>4 DEF Answer
  <2>2. /\ Answer \subseteq Visible /\ Cardinality(Answer) \in Nat
        /\ \A r \in Visible : Place(Visible, r) \in Nat /\ 1 <= Place(Visible, r)
        /\ \A r \in Visible \ Answer : 0 < Place(Visible, r) => Cardinality(Answer) = DefaultFirst
    BY <1>0, <2>1, WindowFacts
  <2> QED
    BY <1>2, <1>4, <2>2
<1> QED
  BY <1>0, <1>1, <1>3, <1>4

(* The index goes on: a row that was not behind the program is not now.    *)
LEMMA AdvanceKeeps ==
  ASSUME FeedInv, Advance
  PROVE  FeedInv'
<1>1. /\ run.status = "reading" /\ indexed' = indexed + 1
      /\ feed' = feed /\ blockOf' = blockOf /\ run' = run /\ first' = first /\ cut' = cut
  BY DEF Advance
<1>2. FeedTypeOK /\ StillThere /\ NothingYet /\ BlockReached /\ NothingPassed /\ NothingTwice
  BY DEF FeedInv
<1>3. FeedTypeOK'
  BY <1>1, <1>2 DEF FeedTypeOK
<1>4. Wanted' = Wanted
  BY <1>1 DEF Wanted
<1>5. Visible \subseteq Visible' /\ Visible' \subseteq Row
  <2>1. \A r \in Row : blockOf[r] \in Nat
    BY <1>2, RowFacts DEF FeedTypeOK
  <2>2. \A r \in Row : blockOf[r] <= indexed => blockOf[r] <= indexed + 1
    BY <1>2, <2>1 DEF FeedTypeOK
  <2> QED
    BY <1>1, <1>4, <2>2 DEF Visible, Wanted
<1>6. StillThere'
  BY <1>1, <1>2, <1>5 DEF StillThere
<1>7. NothingYet'
  BY <1>1, <1>2 DEF NothingYet
<1>8. BlockReached'
  <2>1. indexed >= End => indexed + 1 >= End
    BY <1>2, RowFacts DEF FeedTypeOK
  <2> QED
    BY <1>1, <1>2, <1>4, <2>1 DEF BlockReached
<1>9. \A r \in Row : Passed(r)' => Passed(r)
  <2> SUFFICES ASSUME NEW r \in Row, Passed(r)' PROVE Passed(r)
    OBVIOUS
  <2>1. CASE feed.paging = "cursor"
    BY <1>1, <2>1 DEF Passed
  <2>2. CASE feed.paging # "cursor"
    <3>1. Place(Visible', r) <= run.skip /\ run.skip \in Nat /\ r \in Nat
      BY <1>1, <1>2, <2>2, RowFacts DEF Passed, FeedTypeOK, Locals
    <3>2. /\ Place(Visible, r) \in Nat /\ Place(Visible', r) \in Nat
          /\ Place(Visible, r) <= Place(Visible', r)
      <4>1. Visible' \subseteq Nat /\ IsFiniteSet(Visible')
        BY <1>5, RowFacts, FS_Subset
      <4> QED
        BY <1>5, <3>1, <4>1, PlaceGrows
    <3> QED
      BY <2>2, <3>1, <3>2 DEF Passed
  <2> QED
    BY <2>1, <2>2
<1>10. NothingPassed'
  <2>1. first # <<>> => first[1] \subseteq Row
    BY <1>2 DEF FeedTypeOK
  <2> QED
    BY <1>1, <1>2, <1>9, <2>1 DEF NothingPassed
<1>11. NothingTwice'
  <2>1. CASE feed.paging = "cursor"
    BY <1>1, <1>2, <2>1 DEF NothingTwice, Passed
  <2>2. CASE feed.paging # "cursor" /\ first # <<>> /\ first[1] = Visible'
    <3>1. Visible = Visible'
      BY <1>2, <1>5, <2>2 DEF StillThere
    <3>2. \A r : Passed(r)' <=> Passed(r)
      BY <1>1, <3>1 DEF Passed
    <3> QED
      BY <1>1, <1>2, <2>2, <3>1, <3>2 DEF NothingTwice
  <2> QED
    BY <1>1, <2>1, <2>2 DEF NothingTwice
<1>12. FeedIsComplete'
  BY <1>1 DEF FeedIsComplete
<1> QED
  BY <1>3, <1>6, <1>7, <1>8, <1>10, <1>11, <1>12 DEF FeedInv

(* The pages are counted, or the program dies of it.                       *)
LEMMA CountPagesKeeps ==
  ASSUME FeedInv, CountPages
  PROVE  FeedInv'
<1>1. /\ run.status = "reading" /\ feed.paging = "pages" /\ first = <<>>
      /\ feed' = feed /\ blockOf' = blockOf /\ indexed' = indexed /\ cut' = cut
      /\ \/ first' = <<Visible>> /\ run' = run
         \/ run' = [run EXCEPT !.status = "died"] /\ first' = first
  BY DEF CountPages
<1>2. FeedTypeOK /\ StillThere /\ NothingYet /\ BlockReached /\ NothingPassed /\ NothingTwice
  BY DEF FeedInv
<1>3. Wanted' = Wanted /\ Visible' = Visible /\ Visible \subseteq Row
  BY <1>1 DEF Wanted, Visible
<1>4. /\ \A r \in Row : run.got[r] = 0
      /\ run.skip = 0 /\ ~feed.pinned
  BY <1>1, <1>2 DEF NothingYet, FeedTypeOK
<1>5. run'.got = run.got /\ run'.skip = run.skip /\ run'.last = run.last /\ run' \in Locals
  BY <1>1, <1>2 DEF FeedTypeOK, Locals
<1>6. FeedTypeOK'
  <2>1. first' = <<>> \/ \E S \in SUBSET Row : first' = <<S>>
    BY <1>1, <1>3
  <2> QED
    BY <1>1, <1>2, <1>5, <2>1 DEF FeedTypeOK
<1>7. StillThere'
  BY <1>1, <1>3, <1>4, <1>5 DEF StillThere
<1>8. NothingYet'
  BY <1>1, <1>2, <1>5 DEF NothingYet, FeedTypeOK, Locals
<1>9. BlockReached'
  BY <1>1, <1>4 DEF BlockReached
<1>10. \A r \in Visible : ~Passed(r)'
  <2>1. \A r \in Visible : Place(Visible, r) \in Nat /\ 1 <= Place(Visible, r)
    BY <1>2, VisibleFacts
  <2> QED
    BY <1>1, <1>3, <1>4, <1>5, <2>1 DEF Passed
<1>11. NothingPassed'
  BY <1>1, <1>2, <1>3, <1>10 DEF NothingPassed, FeedTypeOK, Locals
<1>12. NothingTwice'
  BY <1>1, <1>4, <1>5 DEF NothingTwice
<1>13. FeedIsComplete'
  BY <1>1, <1>2 DEF FeedIsComplete, FeedTypeOK, Locals
<1> QED
  BY <1>6, <1>7, <1>8, <1>9, <1>11, <1>12, <1>13 DEF FeedInv

(* A page is read.  What was before the program and is not in the page is  *)
(* still before it, which cannot be behind the last page.                  *)
LEMMA ReadPageKeeps ==
  ASSUME FeedInv, ReadPage
  PROVE  FeedInv'
<1>1. /\ FeedTypeOK /\ StillThere /\ NothingYet /\ BlockReached /\ NothingPassed /\ NothingTwice
      /\ run \in Locals /\ feed \in FeedKind /\ PageSize \in Nat \ {0} /\ DefaultFirst \in Nat \ {0}
      /\ Row \subseteq Nat
  BY RowFacts DEF FeedInv, FeedTypeOK
<1>2. PICK lost \in SUBSET Answer :
        /\ run' = [run EXCEPT
             !.status  = IF IsLast(Answer) THEN "printed" ELSE @,
             !.got     = [r \in Row |-> IF r \in Answer \ lost THEN @[r] + 1 ELSE @[r]],
             !.skip    = @ + PageSize,
             !.last    = CursorAfter(Answer),
             !.retries = 0,
             !.soured  = FALSE]
        /\ cut' = (cut \/ lost # {})
  BY DEF ReadPage, CursorAfter
<1>3. /\ run.status = "reading" /\ (feed.paging = "pages" => first # <<>>)
      /\ (feed.pinned => indexed >= End)
      /\ first' = (IF first = <<>> THEN <<Visible>> ELSE first)
      /\ feed' = feed /\ blockOf' = blockOf /\ indexed' = indexed
  BY DEF ReadPage
<1>4. /\ run'.status = (IF IsLast(Answer) THEN "printed" ELSE "reading")
      /\ run'.got = [r \in Row |-> IF r \in Answer \ lost THEN run.got[r] + 1 ELSE run.got[r]]
      /\ run'.skip = run.skip + PageSize /\ run'.last = CursorAfter(Answer)
      /\ run'.retries = 0 /\ run'.soured = FALSE
      /\ run.got \in [Row -> Nat] /\ run.skip \in Nat /\ run.last \in Nat
  BY <1>1, <1>2, <1>3 DEF Locals
<1>5. /\ Wanted' = Wanted /\ Visible' = Visible
      /\ Visible \subseteq Wanted /\ Wanted \subseteq Row /\ Answer \subseteq Visible
      /\ Cardinality(Answer) \in Nat /\ CursorAfter(Answer) \in Nat
  BY <1>1, <1>3, VisibleFacts, PageFacts DEF Wanted, Visible
<1>6. \A r \in Row : /\ run'.got[r] = IF r \in Answer \ lost THEN run.got[r] + 1 ELSE run.got[r]
                     /\ run.got[r] \in Nat /\ run'.got[r] \in Nat
  BY <1>4
<1>7. first' # <<>> /\ first'[1] \subseteq Visible /\ \E S \in SUBSET Row : first' = <<S>>
  <2>1. CASE first = <<>>
    BY <1>3, <1>5, <2>1
  <2>2. CASE first # <<>>
    BY <1>1, <1>3, <2>2 DEF StillThere, FeedTypeOK
  <2> QED
    BY <2>1, <2>2
<1>8. FeedTypeOK'
  <2>1. run' \in Locals
    <3>1. run'.got \in [Row -> Nat]
      BY <1>4, <1>6
    <3>2. run' = [status |-> run'.status, got |-> run'.got, skip |-> run'.skip, last |-> run'.last,
                  retries |-> run'.retries, soured |-> run'.soured]
      BY <1>1, <1>2 DEF Locals
    <3>3. run'.status \in {"reading", "printed", "died"} /\ run'.soured \in BOOLEAN
      BY <1>4
    <3>4. run'.skip \in Nat /\ run'.last \in Nat /\ run'.retries \in Nat
      BY <1>1, <1>4, <1>5
    <3> QED
      BY <3>1, <3>2, <3>3, <3>4 DEF Locals
  <2> QED
    BY <1>1, <1>2, <1>3, <1>7, <2>1 DEF FeedTypeOK
<1>9. StillThere'
  BY <1>1, <1>5, <1>6, <1>7 DEF StillThere
<1>10. NothingYet'
  BY <1>7 DEF NothingYet
<1>11. BlockReached'
  <2>1. feed.pinned => Visible = Wanted
    <3>1. ASSUME indexed >= End, NEW r \in Wanted PROVE blockOf[r] <= indexed
      BY <1>1, <1>5, <3>1, RowFacts DEF Wanted, FeedTypeOK
    <3> QED
      BY <1>3, <3>1 DEF Visible
  <2> QED
    BY <1>1, <1>3, <1>5, <2>1 DEF BlockReached
<1>12. ~cut' => lost = {} /\ ~cut
  BY <1>2
<1>13. ASSUME ~cut', NEW r \in first'[1] PROVE run.got[r] > 0 \/ ~Passed(r)
  <2>1. CASE first = <<>>
    <3>1. r \in Visible /\ Place(Visible, r) \in Nat /\ 1 <= Place(Visible, r) /\ 1 <= r /\ r \in Nat
      BY <1>1, <1>3, <1>5, <1>13, <2>1, VisibleFacts, RowFacts
    <3> QED
      BY <1>1, <2>1, <3>1 DEF NothingYet, Passed
  <2>2. CASE first # <<>>
    BY <1>1, <1>3, <1>12, <1>13, <2>2 DEF NothingPassed
  <2> QED
    BY <2>1, <2>2
<1>14. ASSUME ~cut', NEW r \in first'[1], ~(run'.got[r] > 0)
       PROVE  /\ r \in Visible \ Answer /\ ~Passed(r)
              /\ feed.paging # "none" => ~Passed(r)' /\ Cardinality(Answer) = PageSize
              /\ feed.paging = "none" => Cardinality(Answer) = DefaultFirst
  <2>1. r \in Visible /\ r \in Row
    BY <1>5, <1>7
  <2>2. r \notin Answer
    BY <1>6, <1>12, <1>14, <2>1
  <2>3. ~Passed(r)
    BY <1>6, <1>13, <1>14, <2>1, <2>2
  <2>4. CASE feed.paging = "cursor"
    <3>1. run.last < r
      BY <1>1, <1>4, <2>1, <2>3, <2>4 DEF Passed
    <3>2. CursorAfter(Answer) < r /\ Cardinality(Answer) = PageSize
      BY <1>1, <2>1, <2>2, <2>4, <3>1, PageFacts
    <3>3. Passed(r)' <=> r <= CursorAfter(Answer)
      BY <1>3, <1>4, <2>4 DEF Passed
    <3>4. ~Passed(r)'
      <4>1. r \in Nat /\ CursorAfter(Answer) \in Nat /\ CursorAfter(Answer) < r
        BY <1>1, <1>5, <2>1, <3>2
      <4>2. ~(r <= CursorAfter(Answer))
        BY <4>1
      <4> QED
        BY <3>3, <4>2
    <3> QED
      BY <2>1, <2>2, <2>3, <2>4, <3>2, <3>4
  <2>5. CASE feed.paging \in {"skip", "pages"}
    <3>0. Place(Visible, r) \in Nat
      BY <1>1, <2>1, VisibleFacts
    <3>1. run.skip < Place(Visible, r)
      BY <1>4, <2>3, <2>5, <3>0 DEF Passed
    <3>2. run.skip + PageSize < Place(Visible, r) /\ Cardinality(Answer) = PageSize
      BY <1>1, <2>1, <2>2, <2>5, <3>1, PageFacts
    <3>3. ~Passed(r)'
      BY <1>1, <1>3, <1>4, <1>5, <2>5, <3>0, <3>2 DEF Passed
    <3> QED
      BY <2>1, <2>2, <2>3, <2>5, <3>2, <3>3
  <2>6. CASE feed.paging = "none"
    <3>1. Cardinality(Answer) = DefaultFirst
      BY <1>1, <2>1, <2>2, <2>6, PageFacts
    <3> QED
      BY <2>1, <2>2, <2>3, <2>6, <3>1
  <2> QED
    BY <1>1, <2>4, <2>5, <2>6, VisibleFacts
<1>15. NothingPassed'
  <2>1. feed.paging = "none" => run'.status = "printed"
    BY <1>4 DEF IsLast
  <2> QED
    BY <1>3, <1>14, <2>1 DEF NothingPassed
<1>16. ASSUME feed.paging \in {"cursor", "none"} \/ first'[1] = Visible, NEW r \in Row
       PROVE  /\ run'.got[r] <= 1
              /\ feed.paging # "none" => (run'.got[r] = 1 => Passed(r)')
  <2>1. CASE feed.paging = "none"
    <3>1. run.got[r] = 0
      BY <1>1, <1>3, <2>1 DEF NothingPassed, NothingYet
    <3> QED
      BY <1>6, <2>1, <3>1
  <2>2. CASE feed.paging = "cursor"
    <3>1. run.got[r] <= 1 /\ (run.got[r] = 1 => r <= run.last)
      BY <1>1, <2>2 DEF NothingTwice, Passed
    <3>2. /\ run.last <= CursorAfter(Answer)
          /\ r \in Answer => run.last < r /\ r <= CursorAfter(Answer)
      BY <1>1, <2>2, PageFacts
    <3>3. r \in Nat
      BY <1>1
    <3>4. r \in Answer => run.got[r] = 0
      BY <1>4, <1>6, <3>1, <3>2, <3>3
    <3>5. run'.got[r] <= 1 /\ (run'.got[r] = 1 => r <= CursorAfter(Answer))
      BY <1>4, <1>5, <1>6, <3>1, <3>2, <3>3, <3>4
    <3> QED
      BY <1>3, <1>4, <2>2, <3>5 DEF Passed
  <2>3. CASE feed.paging \in {"skip", "pages"}
    <3>1. run.got[r] <= 1 /\ (run.got[r] = 1 => r \in Visible /\ Place(Visible, r) <= run.skip)
      <4>1. CASE first = <<>>
        BY <1>1, <4>1 DEF NothingYet
      <4>2. CASE first # <<>>
        <5>1. run.got[r] <= 1 /\ (run.got[r] = 1 => Passed(r))
          BY <1>1, <1>3, <1>16, <2>3, <4>2 DEF NothingTwice
        <5>2. run.got[r] = 1 => r \in Visible
          BY <1>1 DEF StillThere
        <5> QED
          BY <2>3, <5>1, <5>2 DEF Passed
      <4> QED
        BY <4>1, <4>2
    <3>2. /\ r \in Answer => run.skip < Place(Visible, r) /\ Place(Visible, r) <= run.skip + PageSize
          /\ r \in Visible => Place(Visible, r) \in Nat
      BY <1>1, <2>3, PageFacts, VisibleFacts
    <3>3. r \in Answer => run.got[r] = 0
      BY <1>4, <1>5, <1>6, <3>1, <3>2
    <3>4. run'.got[r] <= 1 /\ (run'.got[r] = 1 => Place(Visible, r) <= run.skip + PageSize)
      BY <1>1, <1>4, <1>5, <1>6, <3>1, <3>2, <3>3
    <3> QED
      BY <1>3, <1>4, <1>5, <2>3, <3>4 DEF Passed
  <2> QED
    BY <1>1, <2>1, <2>2, <2>3, VisibleFacts
<1>17. NothingTwice'
  <2>1. feed.paging = "none" => run'.status = "printed"
    BY <1>4 DEF IsLast
  <2> QED
    BY <1>3, <1>5, <1>16, <2>1 DEF NothingTwice
<1>18. FeedIsComplete'
  <2> DEFINE Printed == {r \in Row : run'.got[r] > 0}
  <2>1. Printed \subseteq Wanted
    BY <1>5, <1>9 DEF StillThere
  <2>2. ASSUME run'.status = "printed", ~cut', ~(feed.paging = "pages" /\ first'[1] # Visible),
               NEW r \in first'[1], r \notin Printed
        PROVE  feed.paging = "none" /\ Cardinality(Printed) >= DefaultFirst
    <3>1. IsLast(Answer) /\ r \in Row
      BY <1>4, <1>5, <1>7, <2>2
    <3>2. /\ r \in Visible \ Answer /\ ~Passed(r)
          /\ feed.paging # "none" => ~Passed(r)' /\ Cardinality(Answer) = PageSize
          /\ feed.paging = "none" => Cardinality(Answer) = DefaultFirst
      BY <1>14, <2>2, <3>1
    <3>3. feed.paging \in {"skip", "cursor"} => FALSE
      BY <1>1, <3>1, <3>2 DEF IsLast
    <3>4. feed.paging = "pages" => FALSE
      <4> SUFFICES ASSUME feed.paging = "pages" PROVE FALSE
        OBVIOUS
      <4>1. first = first' /\ first[1] = Visible
        BY <1>3, <2>2
      <4>2. run.skip + PageSize >= Cardinality(Visible)
        BY <3>1, <4>1 DEF IsLast
      <4>3. /\ Place(Visible, r) \in Nat /\ Place(Visible, r) <= Cardinality(Visible)
            /\ Cardinality(Visible) \in Nat
        BY <1>1, <3>2, VisibleFacts
      <4>4. ~(Place(Visible, r) <= run.skip + PageSize)
        BY <1>3, <1>4, <1>5, <3>2 DEF Passed
      <4> QED
        BY <1>1, <1>4, <4>2, <4>3, <4>4
    <3>5. feed.paging = "none"
      BY <1>1, <3>3, <3>4, VisibleFacts
    <3>6. Answer \subseteq Printed /\ IsFiniteSet(Printed)
      <4>1. \A x \in Answer : x \in Row /\ run'.got[x] > 0
        BY <1>5, <1>6, <1>12, <2>2
      <4> QED
        BY <4>1, RowFacts, FS_Subset
    <3>7. Cardinality(Answer) <= Cardinality(Printed) /\ Cardinality(Printed) \in Nat
      <4> HIDE DEF Printed
      <4> QED
        BY <3>6, FS_Subset, FS_CardinalityType
    <3> QED
      BY <1>1, <3>2, <3>5, <3>7
  <2>3. feed.pinned => first'[1] = Wanted /\ feed.paging # "pages"
    BY <1>1, <1>3, <1>5, <1>7, <1>11 DEF BlockReached, FeedTypeOK
  <2>4. ASSUME ~(\A r \in Row : run'.got[r] <= 1)
        PROVE  ~feed.pinned /\ feed.paging # "cursor" /\ first'[1] # Visible
    <3>1. feed.paging \notin {"cursor", "none"} /\ first'[1] # Visible
      BY <1>16, <2>4
    <3>2. feed.pinned => Visible = Wanted
      <4>1. ASSUME indexed >= End, NEW r \in Wanted PROVE blockOf[r] <= indexed
        BY <1>1, <1>5, <4>1, RowFacts DEF Wanted, FeedTypeOK
      <4> QED
        BY <1>3, <4>1 DEF Visible
    <3> QED
      BY <2>3, <3>1, <3>2
  <2> HIDE DEF Printed
  <2>5. run'.status = "printed" =>
          /\ Printed \subseteq Wanted
          /\ \/ cut' \/ (feed.paging = "none" /\ Cardinality(Printed) >= DefaultFirst)
             \/ (feed.paging = "pages" /\ first'[1] # Visible)
             \/ first'[1] \subseteq Printed
          /\ feed.pinned =>
               \/ cut' \/ (feed.paging = "none" /\ Cardinality(Printed) >= DefaultFirst)
               \/ (feed.paging = "pages" /\ first'[1] # Visible)
               \/ Printed = Wanted
          /\ (\A r \in Row : run'.got[r] <= 1) \/ (~feed.pinned /\ feed.paging # "cursor" /\ first'[1] # Visible)
    BY <2>1, <2>2, <2>3, <2>4
  <2> QED
    BY <1>3, <1>5, <1>7, <2>5 DEF FeedIsComplete, Printed
<1> QED
  BY <1>8, <1>9, <1>10, <1>11, <1>15, <1>17, <1>18 DEF FeedInv

(* A request fails: nothing is read, and a program that ends early says so *)
(* in cut.                                                                 *)
LEMMA RequestFailsKeeps ==
  ASSUME FeedInv, NEW kind \in {"network", "http", "errors"}, RequestFails(kind)
  PROVE  FeedInv'
<1>1. /\ FeedTypeOK /\ StillThere /\ NothingYet /\ BlockReached /\ NothingPassed /\ NothingTwice
      /\ run \in Locals /\ feed \in FeedKind /\ PageSize \in Nat \ {0}
  BY RowFacts DEF FeedInv, FeedTypeOK
<1>2. /\ run.status = "reading" /\ (feed.paging = "pages" => first # <<>>)
      /\ feed' = feed /\ blockOf' = blockOf /\ indexed' = indexed /\ first' = first
  BY DEF RequestFails
<1>3. Wanted' = Wanted /\ Visible' = Visible
  BY <1>2 DEF Wanted, Visible
<1> DEFINE Retried == /\ \E n \in Nat, b \in BOOLEAN : run' = [run EXCEPT !.retries = n, !.soured = b]
                      /\ cut' = cut
           Died    == run' = [run EXCEPT !.status = "died"] /\ cut' = cut
           Stopped == run' = [run EXCEPT !.status = "printed"] /\ cut' = TRUE
           Skipped == /\ run' = [run EXCEPT !.skip = @ + PageSize,
                                            !.status = IF IsLast({}) THEN "printed" ELSE @]
                      /\ cut' = TRUE /\ feed.paging = "pages"
<1>4. Retried \/ Died \/ Stopped \/ Skipped
  <2> DEFINE cost == feed.fetch[kind]
                + (IF feed.fetch.sticky /\ kind = "network" /\ run.soured THEN 1 ELSE 0)
             counted == [run EXCEPT !.retries = @ + cost,
                                    !.soured = feed.fetch.sticky /\ (@ \/ kind = "errors")]
  <2>1. \/ counted.retries < MaxRetries /\ run' = counted /\ UNCHANGED cut
        \/ \E end \in feed.gaveUp :
            /\ cut' = (cut \/ end # "throws")
            /\ run' = CASE end = "throws" -> [run EXCEPT !.status = "died"]
                        [] end = "stops"  -> [run EXCEPT !.status = "printed"]
                        [] end = "skips"  -> [run EXCEPT !.skip = @ + PageSize,
                             !.status = IF IsLast({}) THEN "printed" ELSE @]
    BY DEF RequestFails
  <2>2. CASE run' = counted /\ UNCHANGED cut
    <3>1. feed.fetch[kind] \in Nat /\ feed.fetch.sticky \in BOOLEAN
      BY <1>1 DEF FeedKind, Fetches
    <3>2. run.retries + cost \in Nat
      BY <1>1, <3>1 DEF Locals
    <3>3. (feed.fetch.sticky /\ (run.soured \/ kind = "errors")) \in BOOLEAN
      OBVIOUS
    <3>4. run' = [run EXCEPT !.retries = run.retries + cost,
                             !.soured = feed.fetch.sticky /\ (run.soured \/ kind = "errors")]
      BY <2>2
    <3> HIDE DEF cost, counted
    <3> QED
      BY <2>2, <3>2, <3>3, <3>4
  <2>3. ASSUME NEW end \in feed.gaveUp,
            cut' = (cut \/ end # "throws"),
            run' = CASE end = "throws" -> [run EXCEPT !.status = "died"]
                        [] end = "stops"  -> [run EXCEPT !.status = "printed"]
                        [] end = "skips"  -> [run EXCEPT !.skip = @ + PageSize,
                             !.status = IF IsLast({}) THEN "printed" ELSE @]
        PROVE Died \/ Stopped \/ Skipped
    <3>1. end \in {"throws", "stops", "skips"}
      BY <1>1 DEF FeedKind
    <3>2. cut \in BOOLEAN
      BY <1>1 DEF FeedTypeOK
    <3>3. CASE end = "throws"
      BY <2>3, <3>2, <3>3
    <3>4. CASE end = "stops"
      BY <2>3, <3>2, <3>4
    <3>5. CASE end = "skips"
      BY <1>1, <2>3, <3>2, <3>5 DEF FeedTypeOK
    <3> QED
      BY <3>1, <3>3, <3>4, <3>5
  <2> QED
    BY <2>1, <2>2, <2>3
<1>5. /\ run'.got = run.got /\ run'.last = run.last /\ run' \in Locals /\ cut' \in BOOLEAN
      /\ (cut => cut') /\ (run'.status = "printed" => cut')
  <2>1. CASE Retried
    BY <1>1, <1>2, <2>1 DEF Locals, FeedTypeOK
  <2>2. CASE Died
    BY <1>1, <2>2 DEF Locals, FeedTypeOK
  <2>3. CASE Stopped
    BY <1>1, <2>3 DEF Locals
  <2>4. CASE Skipped
    <3>1. PICK st \in {"reading", "printed"} : run' = [run EXCEPT !.skip = run.skip + PageSize, !.status = st]
      BY <1>2, <2>4
    <3>2. run.skip + PageSize \in Nat
      BY <1>1 DEF Locals
    <3> QED
      BY <1>1, <2>4, <3>1, <3>2 DEF Locals
  <2> QED
    BY <1>4, <2>1, <2>2, <2>3, <2>4
<1>6. run'.status = "reading" /\ ~cut' => run'.skip = run.skip
  BY <1>1, <1>4 DEF Locals
<1>7. run'.skip = run.skip \/ (run.skip \in Nat /\ run'.skip = run.skip + PageSize)
  BY <1>1, <1>4 DEF Locals
<1>8. FeedTypeOK' /\ StillThere' /\ BlockReached'
  BY <1>1, <1>2, <1>3, <1>5 DEF FeedTypeOK, StillThere, BlockReached
<1>9. \A r \in Row : Passed(r) /\ r \in Visible => Passed(r)'
  <2> SUFFICES ASSUME NEW r \in Row, Passed(r), r \in Visible PROVE Passed(r)'
    OBVIOUS
  <2>1. Place(Visible, r) \in Nat
    BY <1>1, VisibleFacts
  <2> QED
    BY <1>1, <1>2, <1>3, <1>5, <1>7, <2>1 DEF Passed
<1>10. NothingYet'
  <2>1. first = <<>> => run'.skip = run.skip
    BY <1>1, <1>2, <1>4 DEF Locals
  <2> QED
    BY <1>1, <1>2, <1>5, <2>1 DEF NothingYet
<1>11. NothingPassed'
  <2>1. ASSUME run'.status = "reading", ~cut' PROVE \A r : Passed(r)' <=> Passed(r)
    BY <1>2, <1>3, <1>5, <1>6, <2>1 DEF Passed
  <2> QED
    BY <1>1, <1>2, <1>5, <2>1 DEF NothingPassed
<1>12. NothingTwice'
  <2>1. ASSUME feed.paging = "cursor" \/ (first # <<>> /\ first[1] = Visible), NEW r \in Row
        PROVE  run.got[r] <= 1 /\ (run.got[r] = 1 => Passed(r) /\ r \in Visible)
    BY <1>1, <1>2, <2>1 DEF NothingTwice, StillThere
  <2> QED
    BY <1>2, <1>3, <1>5, <1>9, <2>1 DEF NothingTwice
<1>13. FeedIsComplete'
  <2> SUFFICES ASSUME run'.status = "printed" PROVE FeedIsComplete'
    BY DEF FeedIsComplete
  <2> DEFINE Printed == {r \in Row : run'.got[r] > 0}
  <2>1. cut' /\ Printed \subseteq Wanted
    BY <1>1, <1>3, <1>5, VisibleFacts DEF StillThere
  <2>2. ASSUME ~(\A r \in Row : run.got[r] <= 1)
        PROVE  ~feed.pinned /\ feed.paging # "cursor" /\ first # <<>> /\ first[1] # Visible
    <3>1. first # <<>>
      BY <1>1, <2>2 DEF NothingYet
    <3>2. feed.paging # "cursor" /\ first[1] # Visible
      BY <1>1, <1>2, <2>2, <3>1 DEF NothingTwice
    <3>3. ASSUME feed.pinned PROVE first[1] = Visible
      BY <1>1, <3>1, <3>3, VisibleFacts DEF BlockReached, StillThere
    <3> QED
      BY <3>1, <3>2, <3>3
  <2> QED
    BY <1>2, <1>3, <1>5, <2>1, <2>2 DEF FeedIsComplete
<1> QED
  BY <1>8, <1>10, <1>11, <1>12, <1>13 DEF FeedInv

(* Rows, blocks and locals are typed at the start, when nothing was read.  *)
LEMMA FeedInitKeeps == FeedInit => FeedInv
<1> SUFFICES ASSUME FeedInit PROVE FeedInv
  OBVIOUS
<1>1. /\ feed \in Feeds /\ blockOf \in [Row -> 1..LastBlock] /\ indexed \in 0..LastBlock
      /\ run = [status |-> "reading", got |-> [r \in Row |-> 0], skip |-> 0, last |-> 0,
                retries |-> 0, soured |-> FALSE]
      /\ first = <<>> /\ cut = FALSE
  BY DEF FeedInit
<1>2. FeedTypeOK
  <2>1. [r \in Row |-> 0] \in [Row -> Nat] /\ indexed \in Nat
    BY <1>1, RowFacts
  <2>2. run \in Locals
    BY <1>1, <2>1 DEF Locals
  <2> QED
    BY <1>1, <2>1, <2>2, FeedsTyped DEF FeedTypeOK
<1>3. StillThere /\ NothingYet /\ BlockReached /\ NothingPassed /\ NothingTwice /\ FeedIsComplete
  BY <1>1 DEF StillThere, NothingYet, BlockReached, NothingPassed, NothingTwice, FeedIsComplete
<1> QED
  BY <1>2, <1>3 DEF FeedInv

(* A step of the program or of the index keeps the feed invariant.         *)
LEMMA FeedStepKeeps ==
  ASSUME FeedInv, FeedNext
  PROVE  FeedInv'
BY AdvanceKeeps, CountPagesKeeps, ReadPageKeeps, RequestFailsKeeps DEF FeedNext

(* In the other half of a behaviour the feed does not run.                 *)
FeedHalf ==
  \/ part = "feed" /\ FeedInv
  \/ part = "index" /\ run.status = "idle"

(* The feed invariant holds as long as a feed runs.                        *)
LEMMA FeedHalfInvariant == AdapterSpec => []FeedHalf
<1>1. AdapterInit => FeedHalf
  BY FeedInitKeeps DEF AdapterInit, FeedIdle, FeedHalf
<1>2. FeedHalf /\ [AdapterNext]_adapterVars => FeedHalf'
  <2> SUFFICES ASSUME FeedHalf, [AdapterNext]_adapterVars PROVE FeedHalf'
    OBVIOUS
  <2>1. CASE part = "feed" /\ FeedNext /\ part' = part
    BY <2>1, FeedStepKeeps DEF FeedHalf
  <2>2. CASE part' = part /\ feedVars' = feedVars
    <3>1. /\ feed' = feed /\ blockOf' = blockOf /\ indexed' = indexed /\ run' = run
          /\ first' = first /\ cut' = cut
      BY <2>2 DEF feedVars
    <3>2. Wanted' = Wanted /\ Visible' = Visible /\ \A r : Passed(r)' <=> Passed(r)
      BY <3>1 DEF Wanted, Visible, Passed
    <3>3. FeedInv => FeedInv'
      BY <3>1, <3>2 DEF FeedInv, FeedTypeOK, StillThere, NothingYet, BlockReached, NothingPassed,
           NothingTwice, FeedIsComplete
    <3> QED
      BY <2>2, <3>1, <3>3 DEF FeedHalf
  <2> QED
    BY <2>1, <2>2 DEF AdapterNext, adapterVars
<1> QED
  BY <1>1, <1>2, PTL DEF AdapterSpec

(* The locals of a program are what the loop makes of them, for every      *)
(* variant of it, every size of a page and every chain.                    *)
THEOREM FeedsStayTyped == AdapterSpec => [](part = "feed" => FeedTypeOK)
<1>1. FeedHalf => (part = "feed" => FeedTypeOK)
  BY DEF FeedHalf, FeedInv
<1> QED
  BY <1>1, FeedHalfInvariant, PTL

(* A program that prints has printed every row the index had at its first  *)
(* answer, once, but for the cases FeedIsComplete names: for every number  *)
(* of rows, every size of a page and every number of retries.              *)
THEOREM FeedsAreComplete == AdapterSpec => []FeedIsComplete
<1>1. FeedHalf => FeedIsComplete
  BY DEF FeedHalf, FeedInv, FeedIsComplete
<1> QED
  BY <1>1, FeedHalfInvariant, PTL

------------------------------------------------------------------------------
(* The event entities. *)

(* A finite sequence of events of the kinds K. *)
IsEvents(s, K) == s \in Seq(Range(s)) /\ \A e \in Range(s) : "kind" \in DOMAIN e /\ e.kind \in K

(* Nothing, one event, and events after events, are events.                *)
LEMMA NoEvents == \A K : IsEvents(<<>>, K)
<1>1. Range(<<>>) = {}
  BY DEF Range
<1>2. <<>> \in Seq({})
  BY EmptySeq
<1> QED
  BY <1>1, <1>2 DEF IsEvents

(* One event with its kind. *)
LEMMA OneEvent == ASSUME NEW e, NEW K, "kind" \in DOMAIN e, e.kind \in K PROVE IsEvents(<<e>>, K)
<1>1. <<e>> \in Seq({e})
  OBVIOUS
<1>2. Range(<<e>>) = {e}
  <2>1. DOMAIN <<e>> = {1} /\ <<e>>[1] = e
    OBVIOUS
  <2> QED
    BY <2>1 DEF Range
<1>3. \A x \in {e} : "kind" \in DOMAIN x /\ x.kind \in K
  OBVIOUS
<1> QED
  BY <1>1, <1>2, <1>3 DEF IsEvents

(* What is emitted one after the other. *)
LEMMA MoreEvents ==
  ASSUME NEW s, NEW t, NEW K, IsEvents(s, K), IsEvents(t, K)
  PROVE  IsEvents(s \o t, K)
<1> DEFINE S == Range(s) \cup Range(t)
<1>1. s \in Seq(S) /\ t \in Seq(S)
  <2>1. Range(s) \subseteq S /\ Range(t) \subseteq S /\ s \in Seq(Range(s)) /\ t \in Seq(Range(t))
    BY DEF IsEvents
  <2> HIDE DEF S
  <2> QED
    BY <2>1, SeqMonotonic
<1>2. s \o t \in Seq(S) /\ Range(s \o t) = S
  BY <1>1, ConcatProperties, RangeConcatenation
<1>3. \A e \in S : "kind" \in DOMAIN e /\ e.kind \in K
  BY DEF IsEvents
<1> HIDE DEF S
<1> QED
  BY <1>2, <1>3 DEF IsEvents

(* The one event Emits makes. *)
LEMMA EmitsOne ==
  \A kind, from, to, amount, total, K : kind \in K => IsEvents(Emits(kind, from, to, amount, total), K)
<1> SUFFICES ASSUME NEW kind, NEW from, NEW to, NEW amount, NEW total, NEW K, kind \in K
             PROVE  IsEvents(Emits(kind, from, to, amount, total), K)
  OBVIOUS
<1> DEFINE e == [kind |-> kind, from |-> from, to |-> to, amount |-> amount, total |-> total]
<1>1. "kind" \in DOMAIN e /\ e.kind \in K
  OBVIOUS
<1>2. Emits(kind, from, to, amount, total) = <<e>>
  BY DEF Emits
<1> HIDE DEF e
<1> QED
  BY <1>1, <1>2, OneEvent

(* What a transaction becomes has the events it was made of. *)
LEMMA EventsOf == \A chn, events : Becomes(chn, events).events = events
BY DEF Becomes

(* The kinds of event of each subgraph that keeps events. *)
SumerKinds == {"AccrueInterest", "Mint", "Transfer", "Redeem", "Borrow", "Repay", "Liquidate",
               "RedeemFaceValue", "MarketEntered", "MarketExited", "NewPriceOracle", "NewCloseFactor"}
WagmiKinds == {"Initialize", "Swap", "Mint", "Burn", "Collect", "Increase", "Decrease", "NftTransfer"}
MultiKinds == {"MultiDeposit", "MultiWithdraw", "WlpTransfer", "Stake", "Unstake"}
AgxKinds   == {"Transfer", "Swap"}
LogKinds   == {"ZnsTransfer", "MintedDomain", "RenewedDomain", "EddySwap", "Staked", "Target"}
ZkdxKinds  == {"Stake", "Withdraw", "Exchange", "Redeem", "BuyLP", "RedeemLP", "Increase", "Decrease"}

(* Sumer's transactions emit events Sumer's subgraph has a handler for.    *)
LEMMA SumerEvents == \A c : \A t \in SumerTransactions(c) : IsEvents(t.events, SumerKinds)
<1> SUFFICES ASSUME NEW c, NEW t \in SumerTransactions(c) PROVE IsEvents(t.events, SumerKinds)
  OBVIOUS
<1>1. \A d : IsEvents(AccrueEvent(d), SumerKinds)
  BY NoEvents, EmitsOne DEF AccrueEvent, SumerKinds
<1>2. \A d, p, u : IsEvents(RepayEvent(d, p, u), SumerKinds)
  BY EmitsOne DEF RepayEvent, SumerKinds
<1>3. \A u : IsEvents(SumerMint(c, u).events, SumerKinds)
  BY <1>1, EmitsOne, MoreEvents, EventsOf DEF SumerMint, SumerKinds
<1>4. \A u : IsEvents(SumerRedeem(c, u).events, SumerKinds)
  BY <1>1, EmitsOne, MoreEvents, EventsOf DEF SumerRedeem, SumerKinds
<1>5. \A u, i : IsEvents(SumerBorrow(c, u, i).events, SumerKinds)
  BY <1>1, EmitsOne, MoreEvents, EventsOf DEF SumerBorrow, SumerKinds
<1>6. \A p, u : IsEvents(SumerRepay(c, p, u).events, SumerKinds)
  BY <1>1, <1>2, MoreEvents, EventsOf DEF SumerRepay
<1>7. \A p, u, v : IsEvents(SumerRepayTwo(c, p, u, v).events, SumerKinds)
  BY <1>1, <1>2, MoreEvents, EventsOf DEF SumerRepayTwo
<1>8. \A u, d, kind : kind \in {"Liquidate", "RedeemFaceValue"} =>
        IsEvents(SumerSeize(c, kind, u, d).events, SumerKinds)
  BY <1>1, <1>2, EmitsOne, MoreEvents, EventsOf DEF SumerSeize, SumerKinds
<1>9. \A from, to : IsEvents(SumerTransfer(c, from, to).events, SumerKinds)
  BY EmitsOne, EventsOf DEF SumerTransfer, SumerKinds
<1>10. \A u : IsEvents(SumerEnter(c, u).events, SumerKinds) /\ IsEvents(SumerExit(c, u).events, SumerKinds)
  BY EmitsOne, EventsOf DEF SumerEnter, SumerExit, SumerKinds
<1>11. IsEvents(SumerOracle(c).events, SumerKinds) /\ IsEvents(SumerFactor(c).events, SumerKinds)
  BY EmitsOne, EventsOf DEF SumerOracle, SumerFactor, SumerKinds
<1>20. IsEvents(SumerAccrue(c).events, SumerKinds)
  BY <1>1, EventsOf DEF SumerAccrue
<1>12. CASE \E u \in User : t = SumerMint(c, u) \/ t = SumerRedeem(c, u) \/ t = SumerEnter(c, u)
  BY <1>3, <1>4, <1>10, <1>12
<1>13. CASE \E u \in User, i \in {0, 1} : t = SumerBorrow(c, u, i)
  BY <1>5, <1>13
<1>14. CASE \E p \in User, u \in User : t = SumerRepay(c, p, u)
  BY <1>6, <1>14
<1>15. CASE \E p \in User, u \in User, v \in User : t = SumerRepayTwo(c, p, u, v)
  BY <1>7, <1>15
<1>16. CASE \E u \in User, d \in User, kind \in {"Liquidate", "RedeemFaceValue"} : t = SumerSeize(c, kind, u, d)
  BY <1>8, <1>16
<1>17. CASE \E from \in User, to \in User \cup {Pool} : t = SumerTransfer(c, from, to)
  BY <1>9, <1>17
<1>18. CASE \E u \in c.entered : t = SumerExit(c, u)
  BY <1>10, <1>18
<1>19. CASE t = SumerOracle(c) \/ t = SumerFactor(c)
  BY <1>11, <1>19
<1>21. CASE t = SumerAccrue(c)
  BY <1>20, <1>21
<1> QED
  BY <1>21, <1>12, <1>13, <1>14, <1>15, <1>16, <1>17, <1>18, <1>19 DEF SumerTransactions

(* The one event of an NFT, of shares, of the pool, of a swap. *)
LEMMA WagmiOne ==
  /\ \A kind, id, from, to, K : kind \in K => IsEvents(Event(kind, id, from, to), K)
  /\ \A kind, range, amount, K : kind \in K => IsEvents(OfPool(kind, range, amount), K)
  /\ \A c, tick, delta, K : "Swap" \in K => IsEvents(SwapOf(c, tick, delta), K)
<1>1. ASSUME NEW kind, NEW id, NEW from, NEW to, NEW K, kind \in K
      PROVE  IsEvents(Event(kind, id, from, to), K)
  <2> DEFINE e == [kind |-> kind, id |-> id, from |-> from, to |-> to]
  <2>1. "kind" \in DOMAIN e /\ e.kind \in K /\ Event(kind, id, from, to) = <<e>>
    BY <1>1 DEF Event
  <2> HIDE DEF e
  <2> QED
    BY <2>1, OneEvent
<1>2. ASSUME NEW kind, NEW range, NEW amount, NEW K, kind \in K
      PROVE  IsEvents(OfPool(kind, range, amount), K)
  <2> DEFINE e == [kind |-> kind, range |-> range, amount |-> amount]
  <2>1. "kind" \in DOMAIN e /\ e.kind \in K /\ OfPool(kind, range, amount) = <<e>>
    BY <1>2 DEF OfPool
  <2> HIDE DEF e
  <2> QED
    BY <2>1, OneEvent
<1>3. ASSUME NEW c, NEW tick, NEW delta, NEW K, "Swap" \in K PROVE IsEvents(SwapOf(c, tick, delta), K)
  <2> DEFINE e == [kind |-> "Swap", tick |-> tick, amount |-> delta, liquidity |-> Active(c, tick)]
  <2>1. "kind" \in DOMAIN e /\ e.kind \in K /\ SwapOf(c, tick, delta) = <<e>>
    BY <1>3 DEF SwapOf
  <2> HIDE DEF e
  <2> QED
    BY <2>1, OneEvent
<1> QED
  BY <1>1, <1>2, <1>3

(* The transactions of Wagmi's pool. *)
LEMMA WagmiEvents == \A c : \A t \in WagmiPoolTransactions(c) : IsEvents(t.events, WagmiKinds)
<1> SUFFICES ASSUME NEW c, NEW t \in WagmiPoolTransactions(c) PROVE IsEvents(t.events, WagmiKinds)
  OBVIOUS
<1>1. \A k \in {"Initialize", "Swap", "Mint", "Burn", "Collect", "Increase", "Decrease", "NftTransfer"} :
        k \in WagmiKinds
  BY DEF WagmiKinds
<1>2. \A tick : IsEvents(Initialized(c, tick).events, WagmiKinds)
  <2> TAKE tick
  <2> DEFINE e == [kind |-> "Initialize", tick |-> tick]
  <2>1. "kind" \in DOMAIN e /\ e.kind \in WagmiKinds
    BY <1>1
  <2>2. Initialized(c, tick).events = <<e>>
    BY EventsOf DEF Initialized
  <2> HIDE DEF e
  <2> QED
    BY <2>1, <2>2, OneEvent
<1>3. \A d, u, r : IsEvents(NftMinted(d, u, r).events, WagmiKinds)
  BY <1>1, WagmiOne, MoreEvents, EventsOf DEF NftMinted
<1>4. \A d, id : IsEvents(Increased(d, id).events, WagmiKinds) /\ IsEvents(Decreased(d, id).events, WagmiKinds)
  BY <1>1, WagmiOne, MoreEvents, EventsOf DEF Increased, Decreased
<1>5. \A d, id, u : IsEvents(NftMoved(d, id, u).events, WagmiKinds)
  BY <1>1, WagmiOne, EventsOf DEF NftMoved
<1>6. \A u, r : IsEvents(NftFlashed(c, u, r).events, WagmiKinds)
  BY <1>3, <1>4, <1>5, MoreEvents, EventsOf DEF NftFlashed
<1>7. IsEvents(Collected(c).events, WagmiKinds) /\ IsEvents(MintedDirectly(c).events, WagmiKinds)
  BY <1>1, WagmiOne, EventsOf DEF Collected, MintedDirectly
<1>8. IsEvents(FeeTaken(c).events, WagmiKinds)
  BY NoEvents, EventsOf DEF FeeTaken
<1>9. \A tick, n : IsEvents(Swapped(c, tick, n).events, WagmiKinds)
  BY <1>1, WagmiOne, EventsOf DEF Swapped
<1>10. \A tick : IsEvents(SwappedTwice(c, tick).events, WagmiKinds)
  BY <1>1, WagmiOne, MoreEvents, EventsOf DEF SwappedTwice
<1>11. CASE t \in PoolMoves(c)
  <2>1. CASE \E u \in User, r \in Ranges : t = NftMinted(c, u, r) \/ t = NftFlashed(c, u, r)
    BY <1>3, <1>6, <2>1
  <2>2. CASE \E id \in Alive(c) : t = Increased(c, id) \/ t = Decreased(c, id)
    BY <1>4, <2>2
  <2>3. CASE \E id \in Alive(c), u \in User \cup {Zero} : t = NftMoved(c, id, u)
    BY <1>5, <2>3
  <2>4. CASE t = Collected(c) \/ t = MintedDirectly(c) \/ t = FeeTaken(c)
    BY <1>7, <1>8, <2>4
  <2>5. CASE \E tick \in Ticks : t = Swapped(c, tick, 1) \/ t = Swapped(c, tick, -1) \/ t = SwappedTwice(c, tick)
    BY <1>9, <1>10, <2>5
  <2> QED
    BY <1>11, <2>1, <2>2, <2>3, <2>4, <2>5 DEF PoolMoves
<1> QED
  BY <1>2, <1>11 DEF WagmiPoolTransactions

(* The transactions of Wagmi's multipool. *)
LEMMA MultiEvents == \A c : \A t \in MultiMoves(c) : IsEvents(t.events, MultiKinds)
<1> SUFFICES ASSUME NEW c, NEW t \in MultiMoves(c) PROVE IsEvents(t.events, MultiKinds)
  OBVIOUS
<1>1. \A k \in {"MultiDeposit", "MultiWithdraw", "WlpTransfer", "Stake", "Unstake"} : k \in MultiKinds
  BY DEF MultiKinds
<1>2. \A u : IsEvents(MultiDeposited(c, u).events, MultiKinds) /\ IsEvents(MultiWithdrawn(c, u).events, MultiKinds)
  BY <1>1, WagmiOne, MoreEvents, EventsOf DEF MultiDeposited, MultiWithdrawn
<1>3. \A u, v : IsEvents(WlpMoved(c, u, v).events, MultiKinds)
  BY <1>1, WagmiOne, EventsOf DEF WlpMoved
<1>4. \A u : IsEvents(WlpStaked(c, u).events, MultiKinds) /\ IsEvents(WlpUnstaked(c, u).events, MultiKinds)
  BY <1>1, WagmiOne, MoreEvents, EventsOf DEF WlpStaked, WlpUnstaked
<1> QED
  BY <1>2, <1>3, <1>4 DEF MultiMoves

(* The transactions of AGX. *)
LEMMA AgxEvents == \A c : \A t \in AgxChanges(c) : IsEvents(t.events, AgxKinds)
<1> SUFFICES ASSUME NEW c, NEW t \in AgxChanges(c) PROVE IsEvents(t.events, AgxKinds)
  OBVIOUS
<1>1. "Transfer" \in AgxKinds /\ "Swap" \in AgxKinds
  BY DEF AgxKinds
<1>2. \A u : IsEvents(AlpMinted(c, u).events, AgxKinds) /\ IsEvents(AlpBurned(c, u).events, AgxKinds)
  BY <1>1, EmitsOne, EventsOf DEF AlpMinted, AlpBurned
<1>3. \A u, v : IsEvents(AlpSent(c, u, v).events, AgxKinds)
  BY <1>1, EmitsOne, EventsOf DEF AlpSent
<1>4. \A u, n : IsEvents(AgxSwapped(c, u, n).events, AgxKinds)
  BY <1>1, EmitsOne, MoreEvents, EventsOf DEF AgxSwapped
<1> QED
  BY <1>2, <1>3, <1>4 DEF AgxChanges

(* The transactions of ZNS, Eddy and Interport. *)
LEMMA LogEvents == \A c : \A t \in LogChanges(c) : IsEvents(t.events, LogKinds)
<1> SUFFICES ASSUME NEW c, NEW t \in LogChanges(c) PROVE IsEvents(t.events, LogKinds)
  OBVIOUS
<1>1. \A k \in {"ZnsTransfer", "MintedDomain", "RenewedDomain", "EddySwap", "Staked", "Target"} : k \in LogKinds
  BY DEF LogKinds
<1>2. \A k \in {"RenewedDomain", "Staked"}, u \in User :
        IsEvents(Becomes(c, Emits(k, u, Pool, 1, 0)).events, LogKinds)
  BY <1>1, EmitsOne, EventsOf
<1>3. \A k \in {"ZnsTransfer", "EddySwap", "Target"}, l \in {"MintedDomain", "EddySwap", "Target"}, u, v \in User :
        IsEvents(Becomes(c, Emits(k, u, Pool, 1, 0) \o Emits(l, v, Pool, 1, 0)).events, LogKinds)
  BY <1>1, EmitsOne, MoreEvents, EventsOf
<1> QED
  BY <1>2, <1>3 DEF LogChanges

(* Of zkDX: where something is staked, and that a redemption is alone in   *)
(* its transaction.                                                        *)
ZkdxSaid(s) ==
  \A e \in Range(s) :
    /\ e.kind \in {"Stake", "Withdraw"} => "to" \in DOMAIN e /\ e.to \in Staking
    /\ e.kind = "Redeem" => DOMAIN s = {1}

(* The transactions of zkDX. *)
LEMMA ZkdxEvents ==
  \A c : \A t \in ZkdxChanges(c) : IsEvents(t.events, ZkdxKinds) /\ ZkdxSaid(t.events)
<1> SUFFICES ASSUME NEW c, NEW t \in ZkdxChanges(c)
             PROVE  IsEvents(t.events, ZkdxKinds) /\ ZkdxSaid(t.events)
  OBVIOUS
<1> DEFINE Fine(s) == IsEvents(s, ZkdxKinds) /\ ZkdxSaid(s)
<1>1. ASSUME NEW k \in ZkdxKinds, NEW u, NEW v, NEW n, k \in {"Stake", "Withdraw"} => v \in Staking
      PROVE  Fine(Emits(k, u, v, n, 0)) /\ \A e \in Range(Emits(k, u, v, n, 0)) : e.kind = k
  <2> DEFINE e == [kind |-> k, from |-> u, to |-> v, amount |-> n, total |-> 0]
  <2>1. e.kind = k /\ "to" \in DOMAIN e /\ e.to = v /\ Emits(k, u, v, n, 0) = <<e>>
    BY DEF Emits
  <2> HIDE DEF e
  <2>2. DOMAIN <<e>> = {1} /\ Range(<<e>>) = {e}
    <3>1. DOMAIN <<e>> = {1} /\ <<e>>[1] = e
      OBVIOUS
    <3> QED
      BY <3>1 DEF Range
  <2>3. IsEvents(Emits(k, u, v, n, 0), ZkdxKinds)
    BY EmitsOne
  <2> QED
    BY <1>1, <2>1, <2>2, <2>3 DEF ZkdxSaid
<1>2. Fine(<<>>)
  <2>1. Range(<<>>) = {}
    BY DEF Range
  <2> QED
    BY <2>1, NoEvents DEF ZkdxSaid
<1>3. ASSUME NEW k \in Trades, NEW l \in Trades, NEW u
      PROVE  Fine(Emits(k, u, Pool, 1, 0) \o Emits(l, u, Pool, 2, 0))
  <2>1. k \in ZkdxKinds /\ l \in ZkdxKinds /\ {k, l} \cap {"Stake", "Withdraw", "Redeem"} = {}
    BY DEF Trades, ZkdxKinds
  <2> DEFINE s == Emits(k, u, Pool, 1, 0)
             r == Emits(l, u, Pool, 2, 0)
  <2>2. IsEvents(s, ZkdxKinds) /\ IsEvents(r, ZkdxKinds)
        /\ (\A e \in Range(s) : e.kind = k) /\ (\A e \in Range(r) : e.kind = l)
    BY <1>1, <2>1
  <2> HIDE DEF s, r
  <2>3. IsEvents(s \o r, ZkdxKinds)
    BY <2>2, MoreEvents
  <2>4. Range(s \o r) = Range(s) \cup Range(r)
    <3> DEFINE S == Range(s) \cup Range(r)
    <3>1. s \in Seq(S) /\ r \in Seq(S)
      <4>1. Range(s) \subseteq S /\ Range(r) \subseteq S /\ s \in Seq(Range(s)) /\ r \in Seq(Range(r))
        BY <2>2 DEF IsEvents
      <4> HIDE DEF S
      <4> QED
        BY <4>1, SeqMonotonic
    <3> QED
      BY <3>1, RangeConcatenation
  <2>5. \A e \in Range(s \o r) : e.kind \notin {"Stake", "Withdraw", "Redeem"}
    BY <2>1, <2>2, <2>4
  <2> QED
    BY <2>3, <2>5 DEF ZkdxSaid, s, r
<1> HIDE DEF Fine
<1>4. /\ \A k \in {"Stake", "Withdraw", "Exchange", "Redeem"} : k \in ZkdxKinds
      /\ \A k \in Trades : k \in ZkdxKinds /\ k \notin {"Stake", "Withdraw"}
      /\ "Increase" \in Trades /\ "BuyLP" \in Trades
  BY DEF ZkdxKinds, Trades
<1>5. \A p \in Staking : \A u : Fine(ZkdxStaked(c, p, u).events) /\ Fine(ZkdxWithdrawn(c, p, u).events)
  BY <1>1, <1>4, EventsOf DEF ZkdxStaked, ZkdxWithdrawn
<1>6. \A u : Fine(Exchanged(c, u).events) /\ Fine(RedeemedZusd(c, u).events)
  <2> TAKE u
  <2>1. Fine(Emits("Exchange", u, Pool, 1, 0)) /\ Fine(Emits("Redeem", u, Pool, 1, 0))
    BY <1>1, <1>4
  <2> QED
    BY <2>1, EventsOf DEF Exchanged, RedeemedZusd
<1>7. \A u, v : Fine(ZusdSent(c, u, v).events)
  BY <1>2, EventsOf DEF ZusdSent
<1>8. \A u, k : k \in Trades => Fine(Becomes(c, Emits(k, u, Pool, 1, 0)).events)
  BY <1>1, <1>4, EventsOf
<1>9. \A u : Fine(TradedTwice(c, u, "Increase", "BuyLP").events)
  BY <1>3, <1>4, EventsOf DEF TradedTwice
<1>10. Fine(t.events)
  BY <1>5, <1>6, <1>7, <1>8, <1>9 DEF ZkdxChanges, ZkdxTrades
<1> QED
  BY <1>10 DEF Fine

(* The subgraph keeps events, and the kinds of event it is told of. *)
Recording == protocol \in Protocols \ {"shoebill", "example"}
Kinds ==
  CASE protocol = "sumer" -> SumerKinds
    [] protocol = "wagmi" -> WagmiKinds
    [] protocol = "multipool" -> MultiKinds
    [] protocol = "zkdx" -> ZkdxKinds
    [] protocol = "agx" -> AgxKinds
    [] protocol = "logs" -> LogKinds

(* A transaction emits nothing the subgraph has no handler for.            *)
LEMMA TransactionEvents ==
  ASSUME Recording, NEW t \in Transactions
  PROVE  IsEvents(t.events, Kinds) /\ (protocol = "zkdx" => ZkdxSaid(t.events))
<1>1. protocol \in {"sumer", "wagmi", "multipool", "zkdx", "agx", "logs"}
  BY DEF Recording, Protocols
<1>2. CASE protocol = "sumer"
  BY <1>2, SumerEvents DEF Transactions, Kinds
<1>3. CASE protocol = "wagmi"
  BY <1>3, WagmiEvents DEF Transactions, Kinds
<1>4. CASE protocol = "multipool"
  BY <1>4, MultiEvents DEF Transactions, Kinds
<1>5. CASE protocol = "zkdx"
  BY <1>5, ZkdxEvents DEF Transactions, Kinds
<1>6. CASE protocol = "agx"
  BY <1>6, AgxEvents DEF Transactions, Kinds
<1>7. CASE protocol = "logs"
  BY <1>7, LogEvents DEF Transactions, Kinds
<1> QED
  BY <1>1, <1>2, <1>3, <1>4, <1>5, <1>6, <1>7

(* A handler that leaves the events alone, and one that files an event.    *)
Quiet(ix, jx) == "events" \in DOMAIN jx /\ jx.events = ix.events
Files(ix, jx, id, e) == "events" \in DOMAIN jx /\ jx.events = Save(ix.events, id, e)

(* What Sumer's handlers do besides filing, and filing. *)
LEMMA SumerQuiet ==
  ASSUME NEW ix, NEW jx, Quiet(ix, jx), NEW e, NEW c
  PROVE  /\ \A u : Quiet(ix, AccountMade(jx, u))
         /\ \A u, field : Quiet(ix, CountedIn(jx, u, field))
         /\ \A u, stats : Quiet(ix, Touched(jx, e, u, stats))
         /\ Quiet(ix, Updated(jx, e, c))
         /\ Files(ix, Recorded(jx, e), ByLog(e), e)
<1>1. \A u : Quiet(ix, AccountMade(jx, u))
  BY DEF AccountMade, Quiet
<1>2. \A u, field : Quiet(ix, CountedIn(jx, u, field))
  BY DEF CountedIn, Quiet
<1>3. \A u, stats : Quiet(ix, Touched(jx, e, u, stats))
  BY DEF Touched, Quiet
<1>4. Quiet(ix, Updated(jx, e, c))
  BY DEF Updated, Quiet
<1>5. Files(ix, Recorded(jx, e), ByLog(e), e)
  BY DEF Recorded, Files, Quiet
<1> QED
  BY <1>1, <1>2, <1>3, <1>4, <1>5

(* What is filed stays filed. *)
LEMMA RatedFiles ==
  ASSUME NEW ix, NEW jx, NEW id, NEW e, Files(ix, jx, id, e)
  PROVE  Files(ix, Rated(jx, e), id, e)
BY DEF Files, Rated

(* Sumer files every event it keeps: a repayment under its transaction.    *)
LEMMA SumerFiles ==
  ASSUME NEW ix, "events" \in DOMAIN ix, NEW e, e.kind \in SumerKinds, NEW c
  PROVE  /\ e.kind = "Repay" => Files(ix, SumerHandled(ix, e, c), ByTx(e), e)
         /\ e.kind \in {"Mint", "Redeem", "Borrow", "Liquidate", "RedeemFaceValue", "Transfer"} =>
              Files(ix, SumerHandled(ix, e, c), ByLog(e), e)
         /\ e.kind \notin {"Repay", "Mint", "Redeem", "Borrow", "Liquidate", "RedeemFaceValue", "Transfer"} =>
              Quiet(ix, SumerHandled(ix, e, c))
<1>0. Quiet(ix, ix)
  BY DEF Quiet
<1>1. CASE e.kind \in {"Mint", "Redeem"}
  <2>1. SumerHandled(ix, e, c) = Rated(Recorded(ix, e), e)
    BY <1>1 DEF SumerHandled, HandleMint, HandleRedeem
  <2>2. Files(ix, Recorded(ix, e), ByLog(e), e)
    BY <1>0, SumerQuiet
  <2> QED
    BY <1>1, <2>1, <2>2, RatedFiles
<1>2. CASE e.kind = "Borrow"
  <2> DEFINE a == Load(ix.accounts, e.to, NewAccount)
             s == StatsOf(ix, e.to)
             known == [ix EXCEPT !.accounts = Save(@, e.to, [a EXCEPT !.hasBorrowed = TRUE])]
             stats == [s EXCEPT !.stored = e.total, !.borrowed = @ + e.amount]
  <2>1. SumerHandled(ix, e, c) = Rated(Recorded(Touched(known, e, e.to, stats), e), e)
    BY <1>2 DEF SumerHandled, HandleBorrow
  <2>2. Quiet(ix, known)
    BY DEF Quiet
  <2> HIDE DEF known, stats
  <2>3. Quiet(ix, Touched(known, e, e.to, stats))
    BY <2>2, SumerQuiet
  <2>4. Files(ix, Recorded(Touched(known, e, e.to, stats), e), ByLog(e), e)
    BY <2>3, SumerQuiet
  <2> QED
    BY <1>2, <2>1, <2>4, RatedFiles
<1>3. CASE e.kind = "Repay"
  <2> DEFINE s == StatsOf(ix, e.to)
             stats == [s EXCEPT !.stored = e.total, !.repaid = @ + e.amount]
             touched == Touched(AccountMade(ix, e.to), e, e.to, stats)
             filed == [touched EXCEPT !.events = Save(@, ByTx(e), e)]
  <2>1. SumerHandled(ix, e, c) = Rated(filed, e)
    BY <1>3 DEF SumerHandled, HandleRepayBorrow
  <2>2. Quiet(ix, AccountMade(ix, e.to))
    BY <1>0, SumerQuiet
  <2>3. Quiet(ix, touched)
    <3> HIDE DEF stats
    <3> QED
      BY <2>2, SumerQuiet
  <2>4. Files(ix, filed, ByTx(e), e)
    <3> HIDE DEF touched
    <3> QED
      BY <2>3 DEF Quiet, Files
  <2> HIDE DEF filed
  <2> QED
    BY <1>3, <2>1, <2>4, RatedFiles
<1>4. CASE e.kind = "Liquidate"
  <2>1. SumerHandled(ix, e, c) =
          Recorded(CountedIn(CountedIn(ix, e.to, "liquidator"), e.from, "liquidated"), e)
    BY <1>4 DEF SumerHandled, HandleLiquidateBorrow
  <2>2. Quiet(ix, CountedIn(ix, e.to, "liquidator"))
    BY <1>0, SumerQuiet
  <2>3. Quiet(ix, CountedIn(CountedIn(ix, e.to, "liquidator"), e.from, "liquidated"))
    BY <2>2, SumerQuiet
  <2>4. Files(ix, SumerHandled(ix, e, c), ByLog(e), e)
    BY <2>1, <2>3, SumerQuiet
  <2> QED
    BY <1>4, <2>4
<1>5. CASE e.kind = "RedeemFaceValue"
  <2> DEFINE first0 == CountedIn(ix, e.to, "redeemer")
             second == CountedIn(first0, e.from, "redeemed")
             copy == [first0.accounts[e.to] EXCEPT !.redeemer = @ + 1]
             saved == [second EXCEPT !.accounts = Save(@, e.to, copy)]
  <2>1. SumerHandled(ix, e, c) = Recorded(saved, e)
    BY <1>5 DEF SumerHandled, HandleRedeemFaceValue
  <2>2. Quiet(ix, first0)
    BY <1>0, SumerQuiet
  <2> HIDE DEF first0
  <2>3. Quiet(ix, second)
    BY <2>2, SumerQuiet
  <2> HIDE DEF second, copy
  <2>4. Quiet(ix, saved)
    BY <2>3 DEF Quiet
  <2> HIDE DEF saved
  <2>5. Files(ix, SumerHandled(ix, e, c), ByLog(e), e)
    BY <2>1, <2>4, SumerQuiet
  <2> QED
    BY <1>5, <2>5
<1>6. CASE e.kind = "Transfer"
  <2>1. SumerHandled(ix, e, c) = Recorded(MovedTo(MovedFrom(Updated(ix, e, c), e), e), e)
    BY <1>6 DEF SumerHandled, HandleTransfer
  <2>2. ASSUME NEW jx, Quiet(ix, jx) PROVE Quiet(ix, MovedFrom(jx, e)) /\ Quiet(ix, MovedTo(jx, e))
    <3>1. \A u : Quiet(ix, AccountMade(jx, u))
      BY <2>2, SumerQuiet
    <3>2. \A u, stats : Quiet(ix, Touched(AccountMade(jx, u), e, u, stats))
      BY <3>1, SumerQuiet
    <3> QED
      BY <2>2, <3>2 DEF MovedFrom, MovedTo
  <2>3. Quiet(ix, Updated(ix, e, c))
    BY <1>0, SumerQuiet
  <2>4. Quiet(ix, MovedFrom(Updated(ix, e, c), e))
    BY <2>2, <2>3
  <2>5. Quiet(ix, MovedTo(MovedFrom(Updated(ix, e, c), e), e))
    BY <2>2, <2>4
  <2>6. Files(ix, SumerHandled(ix, e, c), ByLog(e), e)
    BY <2>1, <2>5, SumerQuiet
  <2> QED
    BY <1>6, <2>6
<1>7. CASE e.kind \in {"AccrueInterest", "MarketEntered", "MarketExited"}
  <2>1. \A u : Quiet(ix, AccountMade(ix, u))
    BY <1>0, SumerQuiet
  <2>2. \A u, stats : Quiet(ix, Touched(AccountMade(ix, u), e, u, stats))
    BY <2>1, SumerQuiet
  <2>3. Quiet(ix, Updated(ix, e, c))
    BY <1>0, SumerQuiet
  <2> QED
    BY <1>7, <2>2, <2>3 DEF SumerHandled, HandleAccrueInterest, HandleMarketEntered, HandleMarketExited
<1>8. CASE e.kind \in {"NewPriceOracle", "NewCloseFactor"}
  BY <1>8 DEF SumerHandled, HandleNewPriceOracle, HandleNewCloseFactor, Quiet
<1> QED
  BY <1>1, <1>2, <1>3, <1>4, <1>5, <1>6, <1>7, <1>8 DEF SumerKinds

(* Wagmi's pool files its swaps under their transaction. *)
LEMMA WagmiFiles ==
  ASSUME NEW ix, "events" \in DOMAIN ix, NEW e, e.kind \in WagmiKinds, NEW c
  PROVE  /\ e.kind = "Swap" => Files(ix, WagmiHandled(ix, e, c), ByTx(e), e)
         /\ e.kind # "Swap" => Quiet(ix, WagmiHandled(ix, e, c))
<1>0. Quiet(ix, ix)
  BY DEF Quiet
<1>1. CASE e.kind = "Swap"
  <2>1. WagmiHandled(ix, e, c) = HandleSwap(ix, e)
    BY <1>1 DEF WagmiHandled
  <2>2. Files(ix, HandleSwap(ix, e), ByTx(e), e)
    BY DEF HandleSwap, Files
  <2> QED
    BY <1>1, <2>1, <2>2
<1>2. CASE e.kind = "Initialize"
  BY <1>2 DEF WagmiHandled, HandleInitialize, Quiet
<1>3. CASE e.kind = "Mint"
  BY <1>3 DEF WagmiHandled, HandlePoolMint, Quiet
<1>4. CASE e.kind = "Burn"
  BY <1>4 DEF WagmiHandled, HandlePoolBurn, Quiet
<1>5. CASE e.kind = "Collect"
  BY <1>5 DEF WagmiHandled, HandlePoolCollect, Quiet
<1>6. \A id, found : Quiet(ix, PositionSaved(ix, id, found))
  BY DEF PositionSaved, Quiet
<1>7. CASE e.kind = "Increase"
  BY <1>0, <1>6, <1>7 DEF WagmiHandled, HandleIncreaseLiquidity
<1>8. CASE e.kind = "Decrease"
  BY <1>0, <1>6, <1>8 DEF WagmiHandled, HandleDecreaseLiquidity
<1>9. CASE e.kind = "NftTransfer"
  BY <1>0, <1>6, <1>9 DEF WagmiHandled, HandleNftTransfer
<1> QED
  BY <1>1, <1>2, <1>3, <1>4, <1>5, <1>7, <1>8, <1>9 DEF WagmiKinds

(* Wagmi's multipool files nothing. *)
LEMMA MultiQuiet ==
  ASSUME NEW ix, "events" \in DOMAIN ix, NEW e, e.kind \in MultiKinds, NEW c
  PROVE  Quiet(ix, WagmiHandled(ix, e, c))
<1>0. Quiet(ix, ix)
  BY DEF Quiet
<1>1. \A jx, u : Quiet(ix, jx) => Quiet(ix, WlpRead(jx, u, c))
  BY DEF WlpRead, Quiet
<1>2. \A u, n : Quiet(ix, StakedBy(ix, u, n))
  BY DEF StakedBy, Quiet
<1>3. Quiet(ix, HandleWlpTransfer(ix, e, c))
  <2>1. Quiet(ix, WlpRead(WlpRead(ix, e.from, c), e.to, c))
    BY <1>0, <1>1
  <2> QED
    BY <1>0, <2>1 DEF HandleWlpTransfer
<1>4. Quiet(ix, HandleMultiDeposit(ix, e, c)) /\ Quiet(ix, HandleMultiWithdraw(ix, e, c))
  BY <1>0, <1>1 DEF HandleMultiDeposit, HandleMultiWithdraw
<1>5. Quiet(ix, HandleStake(ix, e)) /\ Quiet(ix, HandleUnstake(ix, e))
  BY <1>2 DEF HandleStake, HandleUnstake
<1> QED
  BY <1>3, <1>4, <1>5 DEF WagmiHandled, MultiKinds

(* AGX files its swaps under their transaction. *)
LEMMA AgxFiles ==
  ASSUME NEW ix, "events" \in DOMAIN ix, NEW e, NEW c
  PROVE  /\ e.kind = "Swap" => Files(ix, AgxHandled(ix, e, c), ByTx(e), e)
         /\ e.kind # "Swap" => Quiet(ix, AgxHandled(ix, e, c))
<1>1. e.kind = "Swap" => Files(ix, AgxHandled(ix, e, c), ByTx(e), e)
  BY DEF AgxHandled, AgxSwap, Files
<1>2. \A jx, id, n : Quiet(ix, jx) => Quiet(ix, Deposited(jx, id, n)) /\ Quiet(ix, Withdrawn(jx, id, n))
  BY DEF Deposited, Withdrawn, Quiet
<1>3. Quiet(ix, UpdatePoolSupply(ix, e, c))
  BY DEF UpdatePoolSupply, Quiet
<1>4. \A jx : Quiet(ix, jx) => Quiet(ix, AgxUserBalance(jx, e))
  BY <1>2 DEF AgxUserBalance
<1>5. e.kind # "Swap" => Quiet(ix, AgxHandled(ix, e, c))
  BY <1>3, <1>4 DEF AgxHandled, AgxTransfer
<1> QED
  BY <1>1, <1>5

(* ZNS, Eddy and Interport file every event under its place. *)
LEMMA LogFiles ==
  ASSUME NEW ix, "events" \in DOMAIN ix, NEW e, e.kind \in LogKinds
  PROVE  Files(ix, LogHandled(ix, e), ByLog(e), e)
<1>1. LogHandled(ix, e) = [ix EXCEPT !.events = Save(@, ByLog(e), e)]
  BY DEF LogHandled, LogKinds, HandleEddySwap, HandleStaked, HandleAction, HandleMintedDomain
<1> QED
  BY <1>1 DEF Files

(* zkDX files a trade, an exchange and, of an account that is known, a     *)
(* redemption; and only an exchange makes an account known for its zUSD.   *)
LEMMA ZkdxFiles ==
  ASSUME NEW ix, "events" \in DOMAIN ix, "balances" \in DOMAIN ix, NEW e, e.kind \in ZkdxKinds,
         e.kind \in {"Stake", "Withdraw"} => e.to \in Staking
  PROVE  LET known == <<"zusd", e.from>> \in DOMAIN ix.balances
             jx == ZkdxHandled(ix, e)
         IN  /\ e.kind \in Trades \cup {"Exchange"} \/ (e.kind = "Redeem" /\ known) => Files(ix, jx, ByTx(e), e)
             /\ e.kind \in {"Stake", "Withdraw"} \/ (e.kind = "Redeem" /\ ~known) => Quiet(ix, jx)
             /\ "balances" \in DOMAIN jx
             /\ \A u : <<"zusd", u>> \in DOMAIN jx.balances <=>
                         <<"zusd", u>> \in DOMAIN ix.balances \/ (e.kind = "Exchange" /\ u = e.from)
<1> DEFINE known == <<"zusd", e.from>> \in DOMAIN ix.balances
           jx == ZkdxHandled(ix, e)
           Same(kx) == /\ "balances" \in DOMAIN kx
                       /\ \A u : <<"zusd", u>> \in DOMAIN kx.balances <=> <<"zusd", u>> \in DOMAIN ix.balances
<1>0. Quiet(ix, ix) /\ Same(ix)
  BY DEF Quiet
<1>1. \A id, n : /\ Quiet(ix, Deposited(ix, id, n)) /\ "balances" \in DOMAIN Deposited(ix, id, n)
                 /\ DOMAIN Deposited(ix, id, n).balances = DOMAIN ix.balances \cup {id}
  BY DEF Deposited, Save, Quiet
<1>2. \A id, n : /\ Quiet(ix, Withdrawn(ix, id, n)) /\ "balances" \in DOMAIN Withdrawn(ix, id, n)
                 /\ DOMAIN Withdrawn(ix, id, n).balances = DOMAIN ix.balances
  BY DEF Withdrawn, Quiet
<1>3. \A kx : Quiet(ix, kx) /\ "balances" \in DOMAIN kx =>
        /\ Files(ix, TradeRecorded(kx, e), ByTx(e), e) /\ "balances" \in DOMAIN TradeRecorded(kx, e)
        /\ TradeRecorded(kx, e).balances = kx.balances
  BY DEF TradeRecorded, Quiet, Files
<1>4. CASE e.kind \in {"Stake", "Withdraw"}
  <2>1. \A u : <<"zusd", u>> # <<"eth", e.from>> /\ <<"zusd", u>> # <<"usdc", e.from>>
    OBVIOUS
  <2>2. /\ Same(Deposited(ix, <<"eth", e.from>>, e.amount)) /\ Same(Deposited(ix, <<"usdc", e.from>>, e.amount))
        /\ Same(Withdrawn(ix, <<"eth", e.from>>, e.amount)) /\ Same(Withdrawn(ix, <<"usdc", e.from>>, e.amount))
    BY <1>1, <1>2, <2>1
  <2>3. jx \in {Deposited(ix, <<"eth", e.from>>, e.amount), Deposited(ix, <<"usdc", e.from>>, e.amount),
                Withdrawn(ix, <<"eth", e.from>>, e.amount), Withdrawn(ix, <<"usdc", e.from>>, e.amount)}
    BY <1>4 DEF ZkdxHandled, HandleStakeEth, HandleStakeUsdc, HandleWithdrawEth, HandleWithdrawUsdc, Staking
  <2> HIDE DEF jx
  <2>4. Quiet(ix, jx) /\ Same(jx)
    BY <1>1, <1>2, <2>2, <2>3
  <2> QED
    BY <1>4, <2>4 DEF Trades, jx
<1>5. CASE e.kind \in Trades
  <2>1. jx = TradeRecorded(ix, e)
    BY <1>5 DEF ZkdxHandled, HandleBuyLP, HandleRedeemLP, HandleIncrease, HandleDecrease, Trades
  <2> HIDE DEF jx
  <2>2. Files(ix, jx, ByTx(e), e) /\ Same(jx)
    BY <1>0, <1>3, <2>1
  <2> QED
    BY <1>5, <2>2 DEF Trades, jx
<1>6. CASE e.kind = "Exchange"
  <2> DEFINE kx == Deposited(ix, <<"zusd", e.from>>, e.amount)
  <2>1. jx = TradeRecorded(kx, e)
    BY <1>6 DEF ZkdxHandled, HandleExchange
  <2>2. Quiet(ix, kx) /\ "balances" \in DOMAIN kx /\ DOMAIN kx.balances = DOMAIN ix.balances \cup {<<"zusd", e.from>>}
    BY <1>1
  <2> HIDE DEF jx, kx
  <2>3. Files(ix, jx, ByTx(e), e) /\ "balances" \in DOMAIN jx /\ jx.balances = kx.balances
    BY <1>3, <2>1, <2>2
  <2>4. \A u : <<"zusd", u>> = <<"zusd", e.from>> <=> u = e.from
    OBVIOUS
  <2> QED
    BY <1>6, <2>2, <2>3, <2>4 DEF Trades, jx
<1>7. CASE e.kind = "Redeem"
  <2> DEFINE kx == Withdrawn(ix, <<"zusd", e.from>>, e.amount)
  <2>1. jx = IF known THEN TradeRecorded(kx, e) ELSE ix
    BY <1>7 DEF ZkdxHandled, HandleZusdRedeem
  <2>2. Quiet(ix, kx) /\ Same(kx)
    BY <1>2
  <2> HIDE DEF jx, kx
  <2>3. known => Files(ix, jx, ByTx(e), e) /\ Same(jx)
    BY <1>3, <2>1, <2>2
  <2>4. ~known => Quiet(ix, jx) /\ Same(jx)
    BY <1>0, <2>1
  <2> QED
    BY <1>7, <2>3, <2>4 DEF Trades, jx
<1> QED
  BY <1>4, <1>5, <1>6, <1>7 DEF ZkdxKinds, Trades

(* The id of an event's entity.                                            *)
Key(e) == IF e.kind \in SharedId THEN ByTx(e) ELSE ByLog(e)

(* Two events have one id only if they share their transaction's, or have  *)
(* one place.                                                              *)
LEMMA KeyFacts ==
  ASSUME NEW e, NEW f
  PROVE  Key(e) = Key(f) <=>
           \/ e.kind \in SharedId /\ f.kind \in SharedId /\ e.tx = f.tx
           \/ e.kind \notin SharedId /\ f.kind \notin SharedId /\ e.kind = f.kind /\ e.tx = f.tx /\ e.log = f.log
<1>1. ByTx(e) = ByTx(f) <=> e.tx = f.tx
  BY DEF ByTx
<1>2. ByLog(e) = ByLog(f) <=> e.kind = f.kind /\ e.tx = f.tx /\ e.log = f.log
  BY DEF ByLog
<1>3. \A x, y, z, v, w : <<x, y, z>> # <<v, w>>
  <2> TAKE x, y, z, v, w
  <2>1. Len(<<x, y, z>>) = 3 /\ Len(<<v, w>>) = 2
    OBVIOUS
  <2> QED
    BY <2>1
<1>4. ByLog(e) # ByTx(f) /\ ByTx(e) # ByLog(f)
  BY <1>3 DEF ByLog, ByTx
<1> QED
  BY <1>1, <1>2, <1>4 DEF Key

(* The event comes before another. *)
Earlier(e, f) == e.tx < f.tx \/ (e.tx = f.tx /\ e.log < f.log)

(* An event with a place, of a kind the subgraph handles. *)
Placed(e) ==
  /\ "kind" \in DOMAIN e /\ e.kind \in Kinds
  /\ e.tx \in Nat /\ e.log \in Nat /\ e.tx <= txs
  /\ protocol = "zkdx" /\ e.kind \in {"Stake", "Withdraw"} => e.to \in Staking

(* The events that were kept and those that wait, in the chain's order. *)
Seen == handled \cup Range(queue)
EventsInOrder ==
  /\ txs \in Nat /\ queue \in Seq(Range(queue))
  /\ \A e \in Seen : Placed(e)
  /\ \A i, j \in DOMAIN queue : i < j => Earlier(queue[i], queue[j])
  /\ \A e \in handled : e.kind \in OwnId \cup SharedId /\ \A f \in Range(queue) : Earlier(e, f)
  /\ \A e, f \in handled : e = f \/ Earlier(e, f) \/ Earlier(f, e)

(* Of zkDX a redemption has its transaction for itself. *)
RedeemsAlone == protocol = "zkdx" => \A e, f \in Seen : e.kind = "Redeem" /\ f.tx = e.tx => f = e

(* An entity lies under its event's id, and zkDX knows for its zUSD who    *)
(* exchanged.                                                              *)
EntitiesAreFiled ==
  /\ "events" \in DOMAIN index
  /\ \A k \in DOMAIN index.events : Key(index.events[k]) = k
  /\ protocol = "zkdx" =>
       /\ "balances" \in DOMAIN index
       /\ \A u : <<"zusd", u>> \in DOMAIN index.balances <=>
                   \E f \in handled : f.kind = "Exchange" /\ f.from = u

IndexInv ==
  /\ protocol \in Protocols
  /\ ~Recording => handled = {}
  /\ Recording => EventsInOrder /\ RedeemsAlone /\ EntitiesAreFiled
  /\ EventsAreKept

(* A redemption by an account that zkDX does not know. *)
Unheard(e) == protocol = "zkdx" /\ e.kind = "Redeem" /\ <<"zusd", e.from>> \notin DOMAIN index.balances

(* An event that should have an entity is filed under its id, unless it is *)
(* unheard of; any other event files nothing.                              *)
LEMMA HandlerFiles ==
  ASSUME Recording, EntitiesAreFiled, NEW e, Placed(e)
  PROVE  /\ e.kind \in OwnId \cup SharedId /\ ~Unheard(e) => Files(index, HandledBy(e), Key(e), e)
         /\ e.kind \notin OwnId \cup SharedId \/ Unheard(e) => Quiet(index, HandledBy(e))
         /\ protocol = "zkdx" =>
              /\ "balances" \in DOMAIN HandledBy(e)
              /\ \A u : <<"zusd", u>> \in DOMAIN HandledBy(e).balances <=>
                          <<"zusd", u>> \in DOMAIN index.balances \/ (e.kind = "Exchange" /\ u = e.from)
<1>1. /\ protocol \in {"sumer", "wagmi", "multipool", "zkdx", "agx", "logs"}
      /\ "events" \in DOMAIN index /\ e.kind \in Kinds
      /\ protocol = "zkdx" => "balances" \in DOMAIN index
      /\ protocol = "zkdx" /\ e.kind \in {"Stake", "Withdraw"} => e.to \in Staking
  BY DEF Recording, Protocols, EntitiesAreFiled, Placed
<1>2. CASE protocol = "sumer"
  <2>1. HandledBy(e) = SumerHandled(index, e, chain) /\ e.kind \in SumerKinds
    BY <1>1, <1>2 DEF HandledBy, Kinds
  <2>2. /\ OwnId = {"Mint", "Redeem", "Borrow", "Liquidate", "RedeemFaceValue", "Transfer"}
        /\ SharedId = {"Repay"}
    BY <1>2 DEF OwnId, SharedId
  <2> QED
    BY <1>1, <1>2, <2>1, <2>2, SumerFiles DEF Key, Unheard
<1>3. CASE protocol = "wagmi"
  <2>1. HandledBy(e) = WagmiHandled(index, e, chain) /\ e.kind \in WagmiKinds
    BY <1>1, <1>3 DEF HandledBy, Kinds
  <2>2. OwnId = {} /\ SharedId = {"Swap"}
    BY <1>3 DEF OwnId, SharedId
  <2> QED
    BY <1>1, <1>3, <2>1, <2>2, WagmiFiles DEF Key, Unheard
<1>4. CASE protocol = "multipool"
  <2>1. HandledBy(e) = WagmiHandled(index, e, chain) /\ e.kind \in MultiKinds
    BY <1>1, <1>4 DEF HandledBy, Kinds
  <2>2. OwnId = {} /\ SharedId = {}
    BY <1>4 DEF OwnId, SharedId
  <2> QED
    BY <1>1, <1>4, <2>1, <2>2, MultiQuiet DEF Unheard
<1>5. CASE protocol = "zkdx"
  <2>1. HandledBy(e) = ZkdxHandled(index, e) /\ e.kind \in ZkdxKinds
    BY <1>1, <1>5 DEF HandledBy, Kinds
  <2>2. OwnId = {} /\ SharedId = Trades \cup {"Exchange", "Redeem"}
    BY <1>5 DEF OwnId, SharedId
  <2> DEFINE known == <<"zusd", e.from>> \in DOMAIN index.balances
             jx == HandledBy(e)
  <2>3. /\ e.kind \in Trades \cup {"Exchange"} \/ (e.kind = "Redeem" /\ known) => Files(index, jx, ByTx(e), e)
        /\ e.kind \in {"Stake", "Withdraw"} \/ (e.kind = "Redeem" /\ ~known) => Quiet(index, jx)
        /\ "balances" \in DOMAIN jx
        /\ \A u : <<"zusd", u>> \in DOMAIN jx.balances <=>
                    <<"zusd", u>> \in DOMAIN index.balances \/ (e.kind = "Exchange" /\ u = e.from)
    BY <1>1, <1>5, <2>1, ZkdxFiles
  <2> HIDE DEF jx
  <2>4. Unheard(e) <=> e.kind = "Redeem" /\ ~known
    BY <1>5 DEF Unheard
  <2>5. e.kind \notin SharedId => e.kind \in {"Stake", "Withdraw"}
    BY <2>1, <2>2 DEF ZkdxKinds, Trades
  <2>6. e.kind \in SharedId => Key(e) = ByTx(e)
    BY DEF Key
  <2> HIDE DEF known
  <2>7. /\ e.kind \in SharedId /\ ~Unheard(e) => Files(index, jx, Key(e), e)
        /\ e.kind \notin SharedId \/ Unheard(e) => Quiet(index, jx)
    BY <2>2, <2>3, <2>4, <2>5, <2>6
  <2> QED
    BY <2>2, <2>3, <2>7 DEF jx
<1>6. CASE protocol = "agx"
  <2>1. HandledBy(e) = AgxHandled(index, e, chain)
    BY <1>1, <1>6 DEF HandledBy
  <2>2. OwnId = {} /\ SharedId = {"Swap"}
    BY <1>6 DEF OwnId, SharedId
  <2> QED
    BY <1>1, <1>6, <2>1, <2>2, AgxFiles DEF Key, Unheard
<1>7. CASE protocol = "logs"
  <2>1. HandledBy(e) = LogHandled(index, e) /\ e.kind \in LogKinds
    BY <1>1, <1>7 DEF HandledBy, Kinds
  <2>2. OwnId = LogKinds /\ SharedId = {}
    BY <1>7 DEF OwnId, SharedId, LogKinds
  <2> QED
    BY <1>1, <1>7, <2>1, <2>2, LogFiles DEF Key, Unheard
<1> QED
  BY <1>1, <1>2, <1>3, <1>4, <1>5, <1>6, <1>7

(* A stamped event says what it said, and its place. *)
LEMMA StampFacts ==
  ASSUME NEW e, NEW b, NEW x, NEW l, "kind" \in DOMAIN e
  PROVE  /\ "kind" \in DOMAIN Stamp(e, b, x, l) /\ Stamp(e, b, x, l).kind = e.kind
         /\ Stamp(e, b, x, l).tx = x /\ Stamp(e, b, x, l).log = l
         /\ "to" \in DOMAIN e => Stamp(e, b, x, l).to = e.to
<1> DEFINE s == Stamp(e, b, x, l)
<1>1. /\ DOMAIN s = DOMAIN e \cup {"block", "tx", "log"}
      /\ \A f \in DOMAIN s : s[f] = CASE f = "block" -> b [] f = "tx" -> x [] f = "log" -> l [] OTHER -> e[f]
  BY DEF Stamp
<1>2. "tx" \in DOMAIN s /\ "log" \in DOMAIN s /\ "kind" \in DOMAIN s /\ ("to" \in DOMAIN e => "to" \in DOMAIN s)
  BY <1>1
<1> HIDE DEF s
<1>3. s["kind"] = e["kind"] /\ s["tx"] = x /\ s["log"] = l /\ ("to" \in DOMAIN e => s["to"] = e["to"])
  BY <1>1, <1>2
<1> QED
  BY <1>2, <1>3 DEF s

(* The events s with their places, which come after k others; and the queue *)
(* q with them behind it.                                                  *)
InPlace(s, b, x, k, st) ==
  st \in [DOMAIN s -> Range(st)] /\ \A i \in DOMAIN s : st[i] = Stamp(s[i], b, x, k + i)
Lengthened(q, s, b, x, r) ==
  /\ r \in Seq(Range(r)) /\ Len(q) \in Nat /\ Len(s) \in Nat
  /\ DOMAIN q = 1..Len(q) /\ DOMAIN s = 1..Len(s) /\ DOMAIN r = 1..(Len(q) + Len(s))
  /\ \A i \in 1..Len(q) : r[i] = q[i]
  /\ \A i \in 1..(Len(q) + Len(s)) : ~(i <= Len(q)) =>
       i - Len(q) \in 1..Len(s) /\ r[i] = Stamp(s[i - Len(q)], b, x, i)

(* The events of a transaction are put behind those that wait. *)
LEMMA QueueGrows ==
  ASSUME NEW q, q \in Seq(Range(q)), NEW s, s \in Seq(Range(s)), NEW b, NEW x,
         NEW st, InPlace(s, b, x, Len(q), st)
  PROVE  Lengthened(q, s, b, x, q \o st)
<1> DEFINE S == Range(q) \cup Range(st)
<1>1. Len(q) \in Nat /\ Len(s) \in Nat /\ DOMAIN q = 1..Len(q) /\ DOMAIN s = 1..Len(s)
  BY LenProperties
<1>2. st \in Seq(Range(st)) /\ Len(st) = Len(s)
  <2>2. st \in [1..Len(s) -> Range(st)]
    BY <1>1 DEF InPlace
  <2>3. st \in Seq(Range(st))
    BY <1>1, <2>2, SeqDef
  <2>4. DOMAIN st = 1..Len(s) /\ DOMAIN st = 1..Len(st) /\ Len(st) \in Nat
    BY <1>1, <2>2, <2>3, LenProperties
  <2>5. Len(st) = Len(s)
    <3>1. \A m, n \in Nat : 1..m = 1..n => m = n
      <4> TAKE m, n \in Nat
      <4>1. 1..m = 1..n => (m > 0 => m \in 1..n) /\ (n > 0 => n \in 1..m)
        OBVIOUS
      <4> QED
        BY <4>1
    <3> QED
      BY <1>1, <2>4, <3>1
  <2> QED
    BY <2>3, <2>5
<1>3. q \in Seq(S) /\ st \in Seq(S)
  <2>1. Range(q) \subseteq S /\ Range(st) \subseteq S
    OBVIOUS
  <2> HIDE DEF S
  <2> QED
    BY <1>2, <2>1, SeqMonotonic
<1>4. PICK r : r = q \o st
  OBVIOUS
<1>5. /\ r \in Seq(S) /\ Len(r) = Len(q) + Len(st)
      /\ \A i \in 1..(Len(q) + Len(st)) : r[i] = IF i <= Len(q) THEN q[i] ELSE st[i - Len(q)]
  <2> HIDE DEF S
  <2> QED
    BY <1>3, <1>4, ConcatProperties
<1>6. r \in Seq(Range(r)) /\ DOMAIN r = 1..(Len(q) + Len(s))
  <2> HIDE DEF S
  <2> QED
    BY <1>2, <1>5, SeqOfRange, LenProperties
<1>7. ASSUME NEW i \in 1..Len(q) PROVE r[i] = q[i]
  <2>1. i \in 1..(Len(q) + Len(st)) /\ i <= Len(q)
    BY <1>1, <1>2
  <2> QED
    BY <1>5, <2>1
<1>8. ASSUME NEW i \in 1..(Len(q) + Len(s)), ~(i <= Len(q))
      PROVE  i - Len(q) \in 1..Len(s) /\ r[i] = Stamp(s[i - Len(q)], b, x, i)
  <2>1. i - Len(q) \in 1..Len(s) /\ Len(q) + (i - Len(q)) = i
    BY <1>1, <1>8
  <2>2. r[i] = st[i - Len(q)]
    BY <1>1, <1>2, <1>5, <1>8
  <2>3. st[i - Len(q)] = Stamp(s[i - Len(q)], b, x, Len(q) + (i - Len(q)))
    BY <1>1, <2>1 DEF InPlace
  <2> QED
    BY <2>1, <2>2, <2>3
<1> QED
  BY <1>1, <1>4, <1>6, <1>7, <1>8 DEF Lengthened

(* A step that only the chain and the block notice. *)
LEMMA OthersKeep ==
  ASSUME IndexInv, protocol' = protocol, queue' = queue, index' = index, handled' = handled, txs' = txs
  PROVE  IndexInv'
<1>1. Kinds' = Kinds /\ OwnId' = OwnId /\ SharedId' = SharedId /\ (Recording' <=> Recording)
  BY DEF Kinds, OwnId, SharedId, Recording
<1>2. EventsInOrder => EventsInOrder'
  <2>1. Seen' = Seen /\ \A e : Placed(e)' <=> Placed(e)
    BY <1>1 DEF Seen, Placed
  <2> QED
    BY <1>1, <2>1 DEF EventsInOrder
<1>3. RedeemsAlone => RedeemsAlone'
  BY DEF RedeemsAlone, Seen
<1>4. EntitiesAreFiled => EntitiesAreFiled'
  BY <1>1 DEF EntitiesAreFiled, Key
<1>5. EventsAreKept => EventsAreKept'
  BY <1>1 DEF EventsAreKept
<1> QED
  BY <1>1, <1>2, <1>3, <1>4, <1>5 DEF IndexInv

(* A transaction: its events come behind all there were, with a number of  *)
(* their own.                                                              *)
LEMMA TransactKeeps ==
  ASSUME IndexInv, Transact
  PROVE  IndexInv'
<1>1. PICK t \in Transactions :
        queue' = queue \o [i \in DOMAIN t.events |->
                             Stamp(t.events[i], chain.block, txs + 1, Len(queue) + i)]
  BY DEF Transact
<1>2. /\ txs' = txs + 1 /\ protocol' = protocol /\ index' = index /\ handled' = handled
  BY DEF Transact
<1>3. /\ Kinds' = Kinds /\ OwnId' = OwnId /\ SharedId' = SharedId
      /\ Recording' <=> Recording
  BY <1>2 DEF Kinds, OwnId, SharedId, Recording
<1>4. EventsAreKept' /\ protocol' \in Protocols /\ (~Recording => handled' = {})
  BY <1>2, <1>3 DEF IndexInv, EventsAreKept
<1>5. CASE ~Recording
  BY <1>3, <1>4, <1>5 DEF IndexInv
<1>6. CASE Recording
  <2>1. EventsInOrder /\ RedeemsAlone /\ EntitiesAreFiled
    BY <1>6 DEF IndexInv
  <2> DEFINE s == t.events
             n == Len(queue)
  <2>2. IsEvents(s, Kinds) /\ (protocol = "zkdx" => ZkdxSaid(s))
    BY <1>6, TransactionEvents
  <2>3. /\ queue' \in Seq(Range(queue')) /\ n \in Nat /\ Len(s) \in Nat
        /\ DOMAIN queue = 1..n /\ DOMAIN s = 1..Len(s) /\ DOMAIN queue' = 1..(n + Len(s))
        /\ \A i \in 1..n : queue'[i] = queue[i]
        /\ \A i \in 1..(n + Len(s)) : ~(i <= n) =>
             i - n \in 1..Len(s) /\ queue'[i] = Stamp(s[i - n], chain.block, txs + 1, i)
    <3>1. queue \in Seq(Range(queue)) /\ s \in Seq(Range(s))
      BY <2>1, <2>2 DEF EventsInOrder, IsEvents
    <3>2. PICK st : st = [i \in DOMAIN s |-> Stamp(s[i], chain.block, txs + 1, Len(queue) + i)]
      OBVIOUS
    <3>3. InPlace(s, chain.block, txs + 1, Len(queue), st)
      BY <3>2 DEF InPlace, Range
    <3>4. queue' = queue \o st
      BY <1>1, <3>2
    <3> HIDE DEF s
    <3>5. Lengthened(queue, s, chain.block, txs + 1, queue')
      BY <3>1, <3>3, <3>4, QueueGrows
    <3> QED
      BY <3>5 DEF Lengthened
  <2>4. txs \in Nat /\ \A i \in DOMAIN queue : queue[i] \in Seen /\ Placed(queue[i])
    BY <2>1 DEF EventsInOrder, Seen, Range
  <2>5. ASSUME NEW i \in DOMAIN queue', ~(i <= n), NEW e, e = queue'[i]
        PROVE  /\ Placed(e)' /\ e.tx = txs + 1 /\ e.log = i
               /\ protocol = "zkdx" /\ e.kind = "Redeem" => Len(s) = 1
    <3>1. i - n \in 1..Len(s) /\ queue'[i] = Stamp(s[i - n], chain.block, txs + 1, i) /\ i \in Nat
      BY <2>3, <2>5
    <3>2. s[i - n] \in Range(s)
      BY <2>3, <3>1 DEF Range
    <3>3. /\ "kind" \in DOMAIN s[i - n] /\ s[i - n].kind \in Kinds
          /\ protocol = "zkdx" /\ s[i - n].kind \in {"Stake", "Withdraw"} =>
               "to" \in DOMAIN s[i - n] /\ s[i - n].to \in Staking
          /\ protocol = "zkdx" /\ s[i - n].kind = "Redeem" => DOMAIN s = {1}
      BY <2>2, <3>2 DEF IsEvents, ZkdxSaid
    <3>4. /\ "kind" \in DOMAIN e /\ e.kind = s[i - n].kind /\ e.tx = txs + 1 /\ e.log = i
          /\ "to" \in DOMAIN s[i - n] => e.to = s[i - n].to
      <4> HIDE DEF s
      <4> QED
        BY <2>5, <3>1, <3>3, StampFacts
    <3>5. DOMAIN s = {1} => Len(s) = 1
      <4> HIDE DEF s
      <4>1. DOMAIN s = {1} => 1..Len(s) = {1}
        BY <2>3
      <4>2. 1..Len(s) = {1} => 1 \in 1..Len(s) /\ Len(s) \in {1}
        BY <2>3
      <4> QED
        BY <4>1, <4>2
    <3> HIDE DEF s
    <3>6. Placed(e)'
      <4>1. e.tx \in Nat /\ e.log \in Nat /\ e.tx <= txs'
        BY <1>2, <2>4, <3>1, <3>4
      <4> QED
        BY <1>2, <1>3, <3>3, <3>4, <4>1 DEF Placed
    <3> QED
      BY <3>3, <3>4, <3>5, <3>6
  <2>6. \A x : Placed(x) => Placed(x)' /\ x.tx \in Nat /\ x.tx < txs + 1
    BY <1>2, <1>3, <2>4 DEF Placed
  <2> HIDE DEF s, n
  <2>7. \A x \in Seen' : x \in Seen \/ \E i \in DOMAIN queue' : ~(i <= n) /\ x = queue'[i]
    <3> SUFFICES ASSUME NEW x \in Seen', x \notin handled
                 PROVE  x \in Seen \/ \E i \in DOMAIN queue' : ~(i <= n) /\ x = queue'[i]
      BY <1>2 DEF Seen
    <3>1. PICK i \in DOMAIN queue' : x = queue'[i]
      BY <1>2 DEF Seen, Range
    <3>2. CASE i <= n
      <4>1. i \in 1..n /\ x = queue[i]
        BY <2>3, <3>1, <3>2
      <4> QED
        BY <2>3, <2>4, <4>1
    <3> QED
      BY <3>1, <3>2
  <2>8. EventsInOrder'
    <3>1. txs' \in Nat
      BY <1>2, <2>4
    <3>2. \A x \in Seen' : Placed(x)'
      <4> SUFFICES ASSUME NEW x \in Seen' PROVE Placed(x)'
        OBVIOUS
      <4>1. CASE x \in Seen
        BY <2>1, <2>6, <4>1 DEF EventsInOrder
      <4>2. CASE \E i \in DOMAIN queue' : ~(i <= n) /\ x = queue'[i]
        BY <2>5, <4>2
      <4> QED
        BY <2>7, <4>1, <4>2
    <3>3. ASSUME NEW i \in DOMAIN queue', NEW j \in DOMAIN queue', i < j
          PROVE  Earlier(queue'[i], queue'[j])
      <4>1. i \in Nat /\ j \in Nat /\ n \in Nat
        BY <2>3
      <4>2. CASE j <= n
        <5>1. i \in DOMAIN queue /\ j \in DOMAIN queue /\ queue'[i] = queue[i] /\ queue'[j] = queue[j]
          BY <2>3, <3>3, <4>1, <4>2
        <5> QED
          BY <2>1, <3>3, <5>1 DEF EventsInOrder
      <4>3. CASE i <= n /\ ~(j <= n)
        <5>1. i \in DOMAIN queue /\ queue'[i] = queue[i]
          BY <2>3, <4>1, <4>3
        <5>2. queue'[i].tx < txs + 1 /\ queue'[j].tx = txs + 1
          BY <2>4, <2>5, <2>6, <4>3, <5>1
        <5> QED
          BY <5>2 DEF Earlier
      <4>4. CASE ~(i <= n)
        <5>1. ~(j <= n)
          BY <3>3, <4>1, <4>4
        <5>2. queue'[i].tx = txs + 1 /\ queue'[j].tx = txs + 1 /\ queue'[i].log = i /\ queue'[j].log = j
          BY <2>5, <4>4, <5>1
        <5> QED
          BY <3>3, <5>2 DEF Earlier
      <4> QED
        BY <4>2, <4>3, <4>4
    <3>4. ASSUME NEW e \in handled PROVE e.kind \in OwnId \cup SharedId /\ \A f \in Range(queue') : Earlier(e, f)
      <4>1. e.kind \in OwnId \cup SharedId /\ (\A f \in Range(queue) : Earlier(e, f)) /\ e.tx < txs + 1
        BY <2>1, <2>6, <3>4 DEF EventsInOrder, Seen
      <4>2. ASSUME NEW i \in DOMAIN queue' PROVE Earlier(e, queue'[i])
        <5>1. CASE i <= n
          <6>1. i \in DOMAIN queue /\ queue'[i] = queue[i]
            BY <2>3, <5>1
          <6> QED
            BY <4>1, <6>1 DEF Range
        <5>2. CASE ~(i <= n)
          BY <2>5, <4>1, <5>2 DEF Earlier
        <5> QED
          BY <5>1, <5>2
      <4> QED
        BY <4>1, <4>2 DEF Range
    <3>5. \A e, f \in handled : e = f \/ Earlier(e, f) \/ Earlier(f, e)
      BY <2>1 DEF EventsInOrder
    <3> QED
      BY <1>2, <1>3, <2>3, <3>1, <3>2, <3>3, <3>4, <3>5 DEF EventsInOrder
  <2>9. RedeemsAlone'
    <3> SUFFICES ASSUME protocol = "zkdx", NEW e \in Seen', NEW f \in Seen', e.kind = "Redeem", f.tx = e.tx
                 PROVE  f = e
      BY <1>2 DEF RedeemsAlone
    <3>1. CASE e \in Seen /\ f \in Seen
      BY <2>1, <3>1 DEF RedeemsAlone
    <3>2. \A x \in Seen : x.tx \in Nat /\ x.tx < txs + 1
      BY <2>1, <2>6 DEF EventsInOrder
    <3>3. ASSUME NEW x \in Seen, NEW i \in DOMAIN queue', ~(i <= n) PROVE x.tx # queue'[i].tx
      BY <2>4, <2>5, <3>2, <3>3
    <3>4. ASSUME NEW i \in DOMAIN queue', ~(i <= n), NEW j \in DOMAIN queue', ~(j <= n),
                 e = queue'[i], f = queue'[j]
          PROVE  f = e
      <4>1. Len(s) = 1
        BY <2>5, <3>4
      <4>2. i = j
        BY <2>3, <3>4, <4>1
      <4> QED
        BY <3>4, <4>2
    <3> QED
      BY <2>7, <3>1, <3>3, <3>4
  <2>10. EntitiesAreFiled'
    BY <1>2, <1>3, <2>1 DEF EntitiesAreFiled, Key
  <2> QED
    BY <1>3, <1>4, <2>8, <2>9, <2>10, <1>6 DEF IndexInv
<1> QED
  BY <1>5, <1>6

(* What an entity of its own comes to in a store in which every entity     *)
(* lies under its event's id.                                              *)
LEMMA SaveFiles ==
  ASSUME NEW store, \A k \in DOMAIN store : Key(store[k]) = k,
         NEW e, NEW st, st = Save(store, Key(e), e)
  PROVE  /\ \A k \in DOMAIN st : Key(st[k]) = k
         /\ Range(st) = {x \in Range(store) : Key(x) # Key(e)} \cup {e}
<1>1. /\ DOMAIN st = DOMAIN store \cup {Key(e)}
      /\ \A k \in DOMAIN st : st[k] = IF k = Key(e) THEN e ELSE store[k]
  BY DEF Save
<1>2. \A k \in DOMAIN st : Key(st[k]) = k
  BY <1>1
<1>3. ASSUME NEW x \in Range(st) PROVE x = e \/ (x \in Range(store) /\ Key(x) # Key(e))
  BY <1>1 DEF Range
<1>4. ASSUME NEW x \in Range(store), Key(x) # Key(e) PROVE x \in Range(st)
  BY <1>1, <1>4 DEF Range
<1>5. e \in Range(st)
  BY <1>1 DEF Range
<1> QED
  BY <1>2, <1>3, <1>4, <1>5

(* The events that EventsAreKept expects no entity of. *)
Replaced(e) ==
  e.kind \in SharedId /\ \E f \in handled : f.kind \in SharedId /\ f.tx = e.tx /\ f.log > e.log
Unknown(e) ==
  protocol = "zkdx" /\ e.kind = "Redeem"
    /\ ~\E f \in handled : f.kind = "Exchange" /\ f.from = e.from /\ Earlier(f, e)
Kept == {e \in handled : ~Replaced(e) /\ ~Unknown(e)}

(* EventsAreKept in these words. *)
LEMMA KeptFacts == Recording => (EventsAreKept <=> Kept = Range(index.events))
BY DEF Recording, EventsAreKept, Kept, Replaced, Unknown, Earlier

(* No event comes before itself, nor two before each other. *)
LEMMA EarlierFacts ==
  ASSUME NEW e, NEW f, Placed(e), Placed(f), Earlier(e, f)
  PROVE  /\ ~Earlier(f, e) /\ e # f
         /\ e.tx = f.tx => f.log > e.log
         /\ ~(e.tx = f.tx /\ e.log = f.log) /\ ~(e.tx = f.tx /\ e.log > f.log)
BY DEF Placed, Earlier

(* Of a queue in order the first event is taken: it comes before the rest. *)
LEMMA HeadIsFirst ==
  ASSUME EventsInOrder, queue # <<>>, NEW q, q = Tail(queue)
  PROVE  /\ Head(queue) \in Range(queue)
         /\ q \in Seq(Range(q)) /\ Range(q) \subseteq Range(queue)
         /\ \A i, j \in DOMAIN q : i < j => Earlier(q[i], q[j])
         /\ \A f \in Range(q) : Earlier(Head(queue), f)
<1>1. queue \in Seq(Range(queue))
  BY DEF EventsInOrder
<1>2. /\ Head(queue) \in Range(queue) /\ q \in Seq(Range(queue)) /\ Len(q) = Len(queue) - 1
      /\ \A i \in 1..Len(q) : q[i] = queue[i + 1]
  BY <1>1, HeadTailProperties
<1>3. /\ DOMAIN queue = 1..Len(queue) /\ DOMAIN q = 1..Len(q) /\ Len(queue) \in Nat /\ Len(q) \in Nat
      /\ Head(queue) = queue[1]
  BY <1>1, <1>2, LenProperties
<1>4. ASSUME NEW i \in DOMAIN q PROVE i + 1 \in DOMAIN queue /\ q[i] = queue[i + 1] /\ i \in Nat /\ 1 < i + 1
  BY <1>2, <1>3
<1>5. 1 \in DOMAIN queue
  BY <1>1, <1>3, EmptySeq
<1>6. ASSUME NEW i \in DOMAIN q, NEW j \in DOMAIN q, i < j PROVE Earlier(q[i], q[j])
  <2>1. i + 1 < j + 1
    BY <1>4, <1>6
  <2> QED
    BY <1>4, <2>1 DEF EventsInOrder
<1>7. ASSUME NEW i \in DOMAIN q PROVE Earlier(Head(queue), q[i])
  BY <1>3, <1>4, <1>5 DEF EventsInOrder
<1>8. q \in Seq(Range(q))
  BY <1>2, SeqOfRange
<1>9. \A f \in Range(q) : Earlier(Head(queue), f)
  BY <1>7 DEF Range
<1>10. Range(q) \subseteq Range(queue)
  BY <1>4 DEF Range
<1> QED
  BY <1>2, <1>6, <1>8, <1>9, <1>10

(* An event is handled: it is the last of those handled, and its entity    *)
(* takes the place of those it replaces.                                   *)
LEMMA HandleKeeps ==
  ASSUME IndexInv, Handle
  PROVE  IndexInv'
<1>1. PICK e : e = Head(queue)
  OBVIOUS
<1>2. /\ queue # <<>> /\ index' = HandledBy(e) /\ queue' = Tail(queue)
      /\ handled' = IF e.kind \in OwnId \cup SharedId THEN handled \cup {e} ELSE handled
      /\ protocol' = protocol /\ txs' = txs /\ protocol \in Protocols
  BY <1>1 DEF Handle, IndexInv
<1>3. /\ Kinds' = Kinds /\ OwnId' = OwnId /\ SharedId' = SharedId
      /\ Recording' <=> Recording
  BY <1>2 DEF Kinds, OwnId, SharedId, Recording
<1>4. CASE ~Recording
  <2>1. protocol \in {"shoebill", "example"} /\ handled = {}
    BY <1>2, <1>4 DEF Recording, IndexInv
  <2>2. OwnId = {} /\ SharedId = {}
    BY <2>1 DEF OwnId, SharedId
  <2>3. handled' = {}
    BY <1>2, <2>1, <2>2
  <2>4. EventsAreKept'
    BY <1>2, <2>1, <2>3 DEF EventsAreKept
  <2> QED
    BY <1>2, <1>3, <1>4, <2>3, <2>4 DEF IndexInv
<1>5. CASE Recording
  <2>1. EventsInOrder /\ RedeemsAlone /\ EntitiesAreFiled /\ EventsAreKept
    BY <1>5 DEF IndexInv
  <2>2. /\ e \in Range(queue)
        /\ queue' \in Seq(Range(queue')) /\ Range(queue') \subseteq Range(queue)
        /\ \A i, j \in DOMAIN queue' : i < j => Earlier(queue'[i], queue'[j])
        /\ \A f \in Range(queue') : Earlier(e, f)
    BY <1>1, <1>2, <2>1, HeadIsFirst
  <2>3. e \in Seen /\ Seen' \subseteq Seen
    BY <1>2, <2>2 DEF Seen
  <2>4. /\ Placed(e) /\ \A x \in handled : Placed(x) /\ Earlier(x, e)
        /\ txs \in Nat /\ \A x : Placed(x)' <=> Placed(x)
    BY <1>2, <1>3, <2>1, <2>2, <2>3 DEF EventsInOrder, Seen, Placed
  <2>5. EventsInOrder'
    <3>1. \A x \in Seen' : Placed(x)'
      BY <2>1, <2>3, <2>4 DEF EventsInOrder
    <3>2. \A x \in handled' : /\ x.kind \in OwnId \cup SharedId
                              /\ \A f \in Range(queue') : Earlier(x, f)
      BY <1>2, <2>1, <2>2 DEF EventsInOrder
    <3>3. \A x, y \in handled' : x = y \/ Earlier(x, y) \/ Earlier(y, x)
      BY <1>2, <2>1, <2>4 DEF EventsInOrder
    <3> QED
      BY <1>2, <1>3, <2>2, <2>4, <3>1, <3>2, <3>3 DEF EventsInOrder
  <2>6. RedeemsAlone'
    BY <1>2, <2>1, <2>3 DEF RedeemsAlone
  <2>7. /\ e.kind \in OwnId \cup SharedId /\ ~Unheard(e) => Files(index, index', Key(e), e)
        /\ e.kind \notin OwnId \cup SharedId \/ Unheard(e) => Quiet(index, index')
        /\ protocol = "zkdx" =>
             /\ "balances" \in DOMAIN index'
             /\ \A u : <<"zusd", u>> \in DOMAIN index'.balances <=>
                         <<"zusd", u>> \in DOMAIN index.balances \/ (e.kind = "Exchange" /\ u = e.from)
    BY <1>2, <1>5, <2>1, <2>4, HandlerFiles
  <2>8. \A x : Key(x)' = Key(x)
    BY <1>3 DEF Key
  <2>9. \A k \in DOMAIN index.events : Key(index.events[k]) = k
    BY <2>1 DEF EntitiesAreFiled
  <2>10. EntitiesAreFiled'
    <3>1. "events" \in DOMAIN index' /\ \A k \in DOMAIN index'.events : Key(index'.events[k]) = k
      <4>1. CASE Files(index, index', Key(e), e)
        <5>1. "events" \in DOMAIN index' /\ index'.events = Save(index.events, Key(e), e)
          BY <4>1 DEF Files
        <5> QED
          BY <2>9, <5>1, SaveFiles
      <4>2. CASE Quiet(index, index')
        BY <2>9, <4>2 DEF Quiet
      <4> QED
        BY <2>7, <4>1, <4>2
    <3>2. ASSUME protocol = "zkdx", NEW u
          PROVE  <<"zusd", u>> \in DOMAIN index'.balances <=>
                   \E f \in handled' : f.kind = "Exchange" /\ f.from = u
      <4>1. <<"zusd", u>> \in DOMAIN index.balances <=>
              \E f \in handled : f.kind = "Exchange" /\ f.from = u
        BY <2>1, <3>2 DEF EntitiesAreFiled
      <4>2. e.kind = "Exchange" => handled' = handled \cup {e}
        BY <1>2, <3>2 DEF SharedId
      <4>3. handled' = handled \/ handled' = handled \cup {e}
        BY <1>2
      <4>4. (\E f \in handled' : f.kind = "Exchange" /\ f.from = u) <=>
              (\E f \in handled : f.kind = "Exchange" /\ f.from = u) \/ (e.kind = "Exchange" /\ e.from = u)
        BY <4>2, <4>3
      <4> QED
        BY <2>7, <3>2, <4>1, <4>4
    <3> QED
      BY <1>2, <2>7, <2>8, <3>1, <3>2 DEF EntitiesAreFiled
  <2>11. Kept = Range(index.events)
    BY <1>5, <2>1, KeptFacts
  <2>12. ASSUME NEW x \in handled
         PROVE  /\ Unknown(x)' <=> Unknown(x)
                /\ handled' = handled => (Replaced(x)' <=> Replaced(x))
                /\ handled' = handled \cup {e} =>
                     (Replaced(x)' <=> Replaced(x) \/ (e.kind \in SharedId /\ Key(x) = Key(e)))
    <3>1. ~Earlier(e, x) /\ (x.tx = e.tx => e.log > x.log) /\ ~(x.tx = e.tx /\ x.log = e.log)
      BY <2>4, EarlierFacts
    <3>2. handled' = handled \/ handled' = handled \cup {e}
      BY <1>2
    <3>3. Unknown(x)' <=> Unknown(x)
      BY <1>2, <3>1, <3>2 DEF Unknown, Earlier
    <3>4. handled' = handled => (Replaced(x)' <=> Replaced(x))
      BY <1>3 DEF Replaced
    <3>5. e.kind \in SharedId /\ Key(x) = Key(e) <=> x.kind \in SharedId /\ e.kind \in SharedId /\ x.tx = e.tx
      BY KeyFacts
    <3>6. ASSUME handled' = handled \cup {e}
          PROVE  Replaced(x)' <=> Replaced(x) \/ (x.kind \in SharedId /\ e.kind \in SharedId /\ e.tx = x.tx /\ e.log > x.log)
      BY <1>3, <3>6 DEF Replaced
    <3> QED
      BY <3>1, <3>3, <3>4, <3>5, <3>6
  <2>13. Kept' = Range(index'.events)
    <3>1. CASE e.kind \notin OwnId \cup SharedId
      <4>1. handled' = handled /\ Range(index'.events) = Range(index.events)
        BY <1>2, <2>7, <3>1 DEF Quiet
      <4>2. Kept' = Kept
        BY <2>12, <4>1 DEF Kept
      <4> QED
        BY <2>11, <4>1, <4>2
    <3>2. CASE e.kind \in OwnId \cup SharedId
      <4>1. handled' = handled \cup {e}
        BY <1>2, <3>2
      <4>2. ~Replaced(e)'
        <5>1. \A f \in handled' : ~(f.tx = e.tx /\ f.log > e.log)
          <6>1. \A f \in handled : ~(f.tx = e.tx /\ f.log > e.log)
            BY <2>4, EarlierFacts
          <6>2. ~(e.log > e.log)
            BY <2>4 DEF Placed
          <6> QED
            BY <4>1, <6>1, <6>2
        <5> QED
          BY <5>1 DEF Replaced
      <4>3. Unknown(e)' <=> Unheard(e)
        <5>1. protocol = "zkdx" => (<<"zusd", e.from>> \in DOMAIN index.balances <=>
                \E f \in handled : f.kind = "Exchange" /\ f.from = e.from)
          BY <2>1 DEF EntitiesAreFiled
        <5>2. e.kind = "Redeem" =>
                ((\E f \in handled' : f.kind = "Exchange" /\ f.from = e.from /\ Earlier(f, e)) <=>
                   \E f \in handled : f.kind = "Exchange" /\ f.from = e.from)
          BY <2>4, <4>1
        <5>3. Unknown(e)' <=> protocol = "zkdx" /\ e.kind = "Redeem"
                /\ ~\E f \in handled' : f.kind = "Exchange" /\ f.from = e.from /\ Earlier(f, e)
          BY <1>2 DEF Unknown, Earlier
        <5> QED
          BY <5>1, <5>2, <5>3 DEF Unheard
      <4>4. \A x \in handled' : x \in Kept' <=> ~Replaced(x)' /\ ~Unknown(x)'
        BY DEF Kept
      <4>5. \A x \in handled : x \in Kept <=> ~Replaced(x) /\ ~Unknown(x)
        BY DEF Kept
      <4>6. Kept' \subseteq handled \cup {e} /\ Kept \subseteq handled
        BY <4>1 DEF Kept
      <4>7. e \notin handled
        BY <2>4, EarlierFacts
      <4>8. CASE Unheard(e)
        <5>1. Range(index'.events) = Range(index.events)
          BY <2>7, <4>8 DEF Quiet
        <5>2. \A x \in handled : x.tx # e.tx
          BY <2>1, <2>3, <4>7, <4>8 DEF RedeemsAlone, Unheard, Seen
        <5>3. \A x \in handled : e.kind \in SharedId => Key(x) # Key(e)
          BY <5>2, KeyFacts
        <5>4. e \notin Kept'
          BY <4>1, <4>3, <4>4, <4>8
        <5>5. \A x \in handled : x \in Kept' <=> x \in Kept
          BY <2>12, <4>1, <4>4, <4>5, <5>3
        <5> QED
          BY <2>11, <4>6, <5>1, <5>4, <5>5
      <4>9. CASE ~Unheard(e)
        <5>1. index'.events = Save(index.events, Key(e), e)
          BY <2>7, <3>2, <4>9 DEF Files
        <5>2. Range(index'.events) = {x \in Range(index.events) : Key(x) # Key(e)} \cup {e}
          BY <2>9, <5>1, SaveFiles
        <5>3. e \in Kept'
          BY <4>1, <4>2, <4>3, <4>4, <4>9
        <5>4. \A x \in handled : e.kind \in SharedId \/ Key(x) # Key(e)
          <6>1. \A x \in handled : ~(x.tx = e.tx /\ x.log = e.log)
            BY <2>4, EarlierFacts
          <6> QED
            BY <6>1, KeyFacts
        <5>5. \A x \in handled : x \in Kept' <=> x \in Kept /\ Key(x) # Key(e)
          BY <2>12, <4>1, <4>4, <4>5, <5>4
        <5> QED
          BY <2>11, <4>6, <5>2, <5>3, <5>5
      <4> QED
        BY <4>8, <4>9
    <3> QED
      BY <3>1, <3>2
  <2>14. EventsAreKept'
    <3>1. (Recording => (EventsAreKept <=> Kept = Range(index.events)))'
      BY KeptFacts, PTL
    <3> QED
      BY <1>3, <1>5, <2>13, <3>1
  <2> QED
    BY <1>2, <1>3, <1>5, <2>5, <2>6, <2>10, <2>14 DEF IndexInv
<1> QED
  BY <1>4, <1>5

(* At the start there is no event and no entity of one. *)
LEMMA FirstIndexFacts ==
  ASSUME Recording
  PROVE  /\ "events" \in DOMAIN FirstIndex /\ FirstIndex.events = Nothing
         /\ protocol = "zkdx" => "balances" \in DOMAIN FirstIndex /\ FirstIndex.balances = Nothing
<1>1. protocol \in {"sumer", "wagmi", "multipool", "zkdx", "agx", "logs"}
  BY DEF Recording, Protocols
<1>2. CASE protocol = "sumer"
  <2>1. FirstIndex = SumerIndex
    BY <1>2 DEF FirstIndex
  <2>2. "events" \in DOMAIN SumerIndex /\ SumerIndex.events = Nothing
    BY DEF SumerIndex, HandleMarketListed
  <2> QED
    BY <1>2, <2>1, <2>2
<1>3. CASE protocol \in {"wagmi", "multipool"}
  <2>1. FirstIndex = WagmiIndex
    BY <1>3 DEF FirstIndex
  <2> QED
    BY <1>3, <2>1 DEF WagmiIndex
<1>4. CASE protocol \in {"zkdx", "agx", "logs"}
  <2>1. FirstIndex = LedgerIndex
    BY <1>4 DEF FirstIndex
  <2> QED
    BY <2>1 DEF LedgerIndex
<1> QED
  BY <1>1, <1>2, <1>3, <1>4

(* The index invariant holds at the start. *)
LEMMA IndexInitKeeps == IndexInit => IndexInv
<1> SUFFICES ASSUME IndexInit PROVE IndexInv
  OBVIOUS
<1>1. protocol \in Protocols /\ queue = <<>> /\ txs = 0 /\ handled = {} /\ index = FirstIndex
  BY DEF IndexInit
<1>2. DOMAIN Nothing = {} /\ Range(Nothing) = {}
  BY DEF Nothing, Range
<1>3. CASE ~Recording
  <2>1. protocol \in {"shoebill", "example"}
    BY <1>1, <1>3 DEF Recording
  <2>2. EventsAreKept
    BY <1>1, <2>1 DEF EventsAreKept
  <2> QED
    BY <1>1, <1>3, <2>2 DEF IndexInv
<1>4. CASE Recording
  <2>1. /\ "events" \in DOMAIN index /\ index.events = Nothing
        /\ protocol = "zkdx" => "balances" \in DOMAIN index /\ index.balances = Nothing
    BY <1>1, <1>4, FirstIndexFacts
  <2>2. Range(queue) = {} /\ DOMAIN queue = {} /\ queue \in Seq(Range(queue))
    BY <1>1 DEF Range
  <2>3. EventsInOrder /\ RedeemsAlone
    BY <1>1, <2>2 DEF EventsInOrder, RedeemsAlone, Seen
  <2>4. EntitiesAreFiled
    BY <1>1, <1>2, <2>1 DEF EntitiesAreFiled
  <2>5. EventsAreKept
    <3>1. Kept = {}
      BY <1>1 DEF Kept
    <3> QED
      BY <1>2, <1>4, <2>1, <3>1, KeptFacts
  <2> QED
    BY <1>1, <1>4, <2>3, <2>4, <2>5 DEF IndexInv
<1> QED
  BY <1>3, <1>4

(* A step of the chain or of the subgraph keeps the index invariant. *)
LEMMA IndexStepKeeps ==
  ASSUME IndexInv, IndexNext
  PROVE  IndexInv'
<1>1. CASE Transact
  BY <1>1, TransactKeeps
<1>2. CASE Seal
  BY <1>2, OthersKeep DEF Seal
<1>3. CASE Handle
  BY <1>3, HandleKeeps
<1>4. CASE NextBlock
  BY <1>4, OthersKeep DEF NextBlock
<1> QED
  BY <1>1, <1>2, <1>3, <1>4 DEF IndexNext

(* In the other half of a behaviour no subgraph runs. *)
IndexHalf ==
  \/ part = "index" /\ IndexInv
  \/ part = "feed" /\ protocol = "none" /\ handled = {} /\ index = [events |-> Nothing]

(* The index invariant holds as long as a subgraph runs. *)
LEMMA IndexHalfInvariant == AdapterSpec => []IndexHalf
<1>1. AdapterInit => IndexHalf
  BY IndexInitKeeps DEF AdapterInit, IndexIdle, IndexHalf
<1>2. IndexHalf /\ [AdapterNext]_adapterVars => IndexHalf'
  <2> SUFFICES ASSUME IndexHalf, [AdapterNext]_adapterVars PROVE IndexHalf'
    OBVIOUS
  <2>1. CASE part = "index" /\ IndexNext /\ part' = part
    BY <2>1, IndexStepKeeps DEF IndexHalf
  <2>2. CASE part' = part /\ indexVars' = indexVars
    <3>1. protocol' = protocol /\ queue' = queue /\ index' = index /\ handled' = handled /\ txs' = txs
      BY <2>2 DEF indexVars
    <3> QED
      BY <2>2, <3>1, OthersKeep DEF IndexHalf
  <2> QED
    BY <2>1, <2>2 DEF AdapterNext, adapterVars
<1> QED
  BY <1>1, <1>2, PTL DEF AdapterSpec

(* An entity lies under the id its handler gave its event, so that an      *)
(* event of another id never overwrites it, and zkDX holds an account of   *)
(* zUSD for those who exchanged and for no one else: at every step of a    *)
(* subgraph that records events.                                           *)
THEOREM EntitiesLieUnderTheirIds == AdapterSpec => [](part = "index" /\ Recording => EntitiesAreFiled)
<1>1. IndexHalf => (part = "index" /\ Recording => EntitiesAreFiled)
  BY DEF IndexHalf, IndexInv
<1> QED
  BY <1>1, IndexHalfInvariant, PTL

(* Every event that should have an entity has one and nothing else has,    *)
(* but for what EventsAreKept names: for every number of users, of         *)
(* transactions and of events in a block.                                  *)
THEOREM EventEntitiesAreKept == AdapterSpec => []EventsAreKept
<1>1. IndexHalf => EventsAreKept
  <2> SUFFICES ASSUME IndexHalf PROVE EventsAreKept
    OBVIOUS
  <2>1. CASE part = "index" /\ IndexInv
    BY <2>1 DEF IndexInv
  <2>2. CASE part = "feed" /\ protocol = "none" /\ handled = {} /\ index = [events |-> Nothing]
    <3>1. Range(index.events) = {}
      BY <2>2 DEF Range, Nothing
    <3> QED
      BY <2>2, <3>1 DEF EventsAreKept
  <2> QED
    BY <2>1, <2>2 DEF IndexHalf
<1> QED
  BY <1>1, IndexHalfInvariant, PTL

------------------------------------------------------------------------------
(* What the index knows of the contract.  A fact is a piece of the         *)
(* contract's state that its events alone tell: who holds how much, who    *)
(* owes, an NFT's owner.  k names the fact, and Makes says what event e     *)
(* makes of its value v.                                                   *)

Has(e, fields) == "kind" \in DOMAIN e /\ fields \subseteq DOMAIN e
Plain == {"from", "to", "amount", "total"}

(* An event of zkDX. *)
IsZkdx(e) ==
  Has(e, Plain) /\ e.kind \in ZkdxKinds /\ (e.kind \in {"Stake", "Withdraw"} => e.to \in Staking)

(* A number in a ledger: what e takes from u, what it gives u. *)
SaysStaked(p, u, v, e, w) ==
  /\ IsZkdx(e) /\ v \in Int /\ w \in Int
  /\ \/ e.kind = "Stake" /\ e.from = u /\ e.to = p /\ e.amount = 1 /\ w = v + 1
     \/ e.kind = "Withdraw" /\ e.from = u /\ e.to = p /\ e.amount = 1 /\ v > 0 /\ w = v - 1
     \/ ~(e.kind \in {"Stake", "Withdraw"} /\ e.from = u /\ e.to = p) /\ w = v

SaysZusd(u, v, e, w) ==
  /\ IsZkdx(e) /\ v.sum \in Int /\ w.sum \in Int /\ v.known \in BOOLEAN
  /\ \/ e.kind = "Exchange" /\ e.from = u /\ e.amount = 1 /\ w = [sum |-> v.sum + 1, known |-> TRUE]
     \/ e.kind = "Redeem" /\ e.from = u /\ e.amount = 1
          /\ w = [sum |-> IF v.known THEN v.sum - 1 ELSE v.sum, known |-> v.known]
     \/ ~(e.kind \in {"Exchange", "Redeem"} /\ e.from = u) /\ w = v

(* A balance that transfers move: nobody sends what he has not. *)
SaysMoved(u, v, e, w) ==
  /\ Has(e, Plain) /\ v \in Int /\ w \in Int
  /\ \/ e.kind = "Transfer" /\ e.amount = 1 /\ (e.from = u => v > 0)
          /\ w = v - (IF e.from = u THEN 1 ELSE 0) + (IF e.to = u THEN 1 ELSE 0)
     \/ e.kind # "Transfer" /\ w = v

(* What u owes is in the events. *)
SaysOwed(u, v, e, w) ==
  /\ Has(e, Plain)
  /\ w = IF e.kind \in {"Borrow", "Repay"} /\ e.to = u THEN e.total ELSE v

SaysEntered(u, v, e, w) ==
  /\ Has(e, Plain)
  /\ w = IF e.kind \in {"MarketEntered", "MarketExited"} /\ e.to = u THEN e.kind = "MarketEntered" ELSE v

SaysFactor(v, e, w) ==
  /\ Has(e, Plain)
  /\ w = IF e.kind = "NewPriceOracle" THEN [known |-> TRUE, factor |-> v.factor]
         ELSE IF e.kind = "NewCloseFactor" /\ v.known THEN [known |-> TRUE, factor |-> e.total]
         ELSE v

(* An event that says what its handlers take for granted. *)
Proper(e) ==
  /\ Has(e, Plain)
  /\ {e.from, e.to} \subseteq User \cup {Pool, Zero}
  /\ e.kind = "RedeemFaceValue" => e.from # e.to
SaysProper(v, e, w) == Proper(e) /\ w = v

SaysPool(v, e, w) ==
  /\ "kind" \in DOMAIN e
  /\ v.liquidity \in Int /\ v.locked \in Int
  /\ \/ e.kind = "Initialize" /\ Has(e, {"tick"})
          /\ w = [tick |-> e.tick, liquidity |-> v.liquidity, locked |-> v.locked]
     \/ e.kind = "Swap" /\ Has(e, {"tick", "amount", "liquidity"})
          /\ w = [tick |-> e.tick, liquidity |-> e.liquidity, locked |-> v.locked + e.amount]
     \/ e.kind = "Mint" /\ Has(e, {"range", "amount"})
          /\ w = [tick |-> v.tick, locked |-> v.locked + e.amount,
                  liquidity |-> IF InRange(e.range, v.tick) THEN v.liquidity + e.amount ELSE v.liquidity]
     \/ e.kind = "Burn" /\ Has(e, {"range", "amount"})
          /\ w = [tick |-> v.tick, locked |-> v.locked,
                  liquidity |-> IF InRange(e.range, v.tick) THEN v.liquidity - e.amount ELSE v.liquidity]
     \/ e.kind = "Collect" /\ Has(e, {"amount"})
          /\ w = [tick |-> v.tick, liquidity |-> v.liquidity, locked |-> v.locked - e.amount]
     \/ e.kind \notin {"Initialize", "Swap", "Mint", "Burn", "Collect"} /\ w = v

NftKinds == {"NftTransfer", "Increase", "Decrease"}
SaysNft(id, v, e, w) ==
  /\ "kind" \in DOMAIN e /\ v.liquidity \in Int
  /\ e.kind \in NftKinds => Has(e, {"id", "from", "to"})
  /\ \/ e.kind = "NftTransfer" /\ e.id = id /\ w = [owner |-> e.to, liquidity |-> v.liquidity]
     \/ e.kind = "Increase" /\ e.id = id /\ w = [owner |-> v.owner, liquidity |-> v.liquidity + 1]
     \/ e.kind = "Decrease" /\ e.id = id /\ w = [owner |-> v.owner, liquidity |-> v.liquidity - 1]
     \/ ~(e.kind \in NftKinds /\ e.id = id) /\ w = v

SaysWlp(u, v, e, w) ==
  /\ "kind" \in DOMAIN e /\ v \in Int /\ w \in Int
  /\ e.kind \in MultiKinds => Has(e, {"from", "to"})
  /\ \/ e.kind = "Stake" /\ e.from = u /\ w = v + 1
     \/ e.kind = "Unstake" /\ e.to = u /\ w = v - 1
     \/ ~(e.kind = "Stake" /\ e.from = u) /\ ~(e.kind = "Unstake" /\ e.to = u) /\ w = v

Fact(of, a, b) == [of |-> of, a |-> a, b |-> b]
Makes(k, v, e, w) ==
  /\ k.of = "staked"  => SaysStaked(k.a, k.b, v, e, w)
  /\ k.of = "zusd"    => SaysZusd(k.a, v, e, w)
  /\ k.of \in {"alp", "held"} => SaysMoved(k.a, v, e, w)
  /\ k.of = "owed"    => SaysOwed(k.a, v, e, w)
  /\ k.of = "entered" => SaysEntered(k.a, v, e, w)
  /\ k.of = "factor"  => SaysFactor(v, e, w)
  /\ k.of = "proper"  => SaysProper(v, e, w)
  /\ k.of = "pool"    => SaysPool(v, e, w)
  /\ k.of = "nft"     => SaysNft(k.a, v, e, w)
  /\ k.of = "wlp"     => SaysWlp(k.a, v, e, w)

(* The fact k in the contract c, and as the index ix has it. *)
OnChain(k, c) ==
  CASE k.of = "staked"  -> c.staked[k.a][k.b]
    [] k.of = "zusd"    -> [sum |-> c.zusd[k.a] - c.got[k.a] + c.lost[k.a], known |-> k.a \in c.exchanged]
    [] k.of = "alp"     -> c.alp[k.a]
    [] k.of = "held"    -> c.held[k.a]
    [] k.of = "owed"    -> c.owed[k.a]
    [] k.of = "entered" -> k.a \in c.entered
    [] k.of = "factor"  -> [known |-> c.oracle # 0, factor |-> IF c.oracle = 0 \/ c.missed THEN 0 ELSE c.factor]
    [] k.of = "proper"  -> 0
    [] k.of = "pool"    -> [tick |-> c.tick, liquidity |-> Active(c, c.tick), locked |-> c.reserve + c.taken]
    [] k.of = "nft"     -> IF k.a \in DOMAIN c.nfts
                             THEN [owner |-> c.nfts[k.a].owner, liquidity |-> c.nfts[k.a].liquidity]
                             ELSE [owner |-> Zero, liquidity |-> 0]
    [] k.of = "wlp"     -> c.staked[k.a]
InIndex(k, ix) ==
  CASE k.of = "staked"  -> Load(ix.balances, <<k.a, k.b>>, 0)
    [] k.of = "zusd"    -> [sum |-> Load(ix.balances, <<"zusd", k.a>>, 0), known |-> <<"zusd", k.a>> \in DOMAIN ix.balances]
    [] k.of = "alp"     -> Load(ix.balances, k.a, 0)
    [] k.of = "held"    -> StatsOf(ix, k.a).balance
    [] k.of = "owed"    -> StatsOf(ix, k.a).stored
    [] k.of = "entered" -> StatsOf(ix, k.a).entered
    [] k.of = "factor"  -> IF ix.comptroller = <<>> THEN [known |-> FALSE, factor |-> 0]
                           ELSE [known |-> TRUE, factor |-> ix.comptroller[1].factor]
    [] k.of = "proper"  -> 0
    [] k.of = "pool"    -> ix.pool
    [] k.of = "nft"     -> IF k.a \in DOMAIN ix.positions
                             THEN [owner |-> ix.positions[k.a].owner, liquidity |-> ix.positions[k.a].liquidity]
                             ELSE [owner |-> Zero, liquidity |-> 0]
    [] k.of = "wlp"     -> MultiPosition(ix, k.a).staked

(* The events s, one after the other, make w of v. *)
Leads(k, s, g) == \A i \in 1..Len(s) : Makes(k, g[i - 1], s[i], g[i])
Tells(k, s, v, w) == s \in Seq(Range(s)) /\ \E g : Leads(k, s, g) /\ g[0] = v /\ g[Len(s)] = w

(* No event, no change. *)
LEMMA TellsNothing == \A k, v, w : Tells(k, <<>>, v, w) <=> v = w
<1> SUFFICES ASSUME NEW k, NEW v, NEW w PROVE Tells(k, <<>>, v, w) <=> v = w
  OBVIOUS
<1>1. Len(<<>>) = 0 /\ <<>> \in Seq(Range(<<>>)) /\ 1..0 = {}
  BY EmptySeq
<1>2. ASSUME v = w PROVE Tells(k, <<>>, v, w)
  <2> DEFINE g == [i \in {0} |-> v]
  <2>1. g[0] = v
    OBVIOUS
  <2> HIDE DEF g
  <2>2. Leads(k, <<>>, g)
    BY <1>1 DEF Leads
  <2> QED
    BY <1>1, <1>2, <2>1, <2>2 DEF Tells
<1> QED
  BY <1>1, <1>2 DEF Tells

(* One event. *)
LEMMA TellsOne == \A k, e, v, w : Makes(k, v, e, w) => Tells(k, <<e>>, v, w)
<1> SUFFICES ASSUME NEW k, NEW e, NEW v, NEW w, Makes(k, v, e, w) PROVE Tells(k, <<e>>, v, w)
  OBVIOUS
<1>1. <<e>> \in Seq({e}) /\ Len(<<e>>) = 1 /\ <<e>>[1] = e
  OBVIOUS
<1> DEFINE g == [i \in {0, 1} |-> IF i = 0 THEN v ELSE w]
<1>2. g[0] = v /\ g[1] = w
  OBVIOUS
<1> HIDE DEF g
<1>3. \A i \in 1..1 : i = 1 /\ i - 1 = 0
  OBVIOUS
<1>4. Leads(k, <<e>>, g)
  BY <1>1, <1>2, <1>3 DEF Leads
<1>5. <<e>> \in Seq(Range(<<e>>))
  BY <1>1, SeqOfRange
<1> QED
  BY <1>1, <1>2, <1>4, <1>5 DEF Tells

(* Two runs of values, one behind the other. *)
Along(k, g, r, o, m) == \A i \in 1..m : Makes(k, g[i - 1], r[o + i], g[i])
Joined(g, h, m, n) == [i \in 0..(m + n) |-> IF i <= m THEN g[i] ELSE h[i - m]]

(* Joined, they are one run along what both tell. *)
LEMMA JoinedLeads ==
  ASSUME NEW k, NEW r, NEW g, NEW h, NEW m \in Nat, NEW n \in Nat,
         Len(r) = m + n, g[m] = h[0], Along(k, g, r, 0, m), Along(k, h, r, m, n),
         NEW j, j = Joined(g, h, m, n)
  PROVE  Leads(k, r, j) /\ j[0] = g[0] /\ j[m + n] = h[n]
<1>1. \A i \in 0..(m + n) : j[i] = IF i <= m THEN g[i] ELSE h[i - m]
  BY DEF Joined
<1>2. \A i \in 0..m : j[i] = g[i]
  BY <1>1
<1>3. \A i \in 0..n : j[m + i] = h[i]
  <2> SUFFICES ASSUME NEW i \in 0..n PROVE j[m + i] = h[i]
    OBVIOUS
  <2>1. CASE i = 0
    BY <1>1, <2>1
  <2>2. CASE i > 0
    <3>1. m + i \in 0..(m + n) /\ ~(m + i <= m) /\ (m + i) - m = i
      BY <2>2
    <3> QED
      BY <1>1, <3>1
  <2> QED
    BY <2>1, <2>2
<1>4. ASSUME NEW i \in 1..(m + n) PROVE Makes(k, j[i - 1], r[i], j[i])
  <2>1. CASE i <= m
    <3>1. i \in 1..m /\ i \in 0..m /\ i - 1 \in 0..m
      BY <2>1
    <3> QED
      BY <1>2, <3>1 DEF Along
  <2>2. CASE i > m
    <3>1. PICK l \in 1..n : i = m + l
      <4>1. i - m \in 1..n /\ i = m + (i - m)
        BY <2>2
      <4> QED
        BY <4>1
    <3>2. l - 1 \in 0..n /\ l \in 0..n /\ m + (l - 1) = i - 1
      BY <3>1
    <3>3. j[i - 1] = h[l - 1] /\ j[i] = h[l]
      BY <1>3, <3>1, <3>2
    <3> QED
      BY <3>1, <3>3 DEF Along
  <2> QED
    BY <2>1, <2>2
<1>5. 0 \in 0..m /\ n \in 0..n
  OBVIOUS
<1> QED
  BY <1>2, <1>3, <1>4, <1>5 DEF Leads

(* Events after events. *)
LEMMA TellsMore ==
  \A k, s, t, u, v, w : Tells(k, s, u, v) /\ Tells(k, t, v, w) => Tells(k, s \o t, u, w)
<1> SUFFICES ASSUME NEW k, NEW s, NEW t, NEW u, NEW v, NEW w, Tells(k, s, u, v), Tells(k, t, v, w)
             PROVE  Tells(k, s \o t, u, w)
  OBVIOUS
<1> DEFINE S == Range(s) \cup Range(t)
<1>1. s \in Seq(S) /\ t \in Seq(S)
  <2>1. Range(s) \subseteq S /\ Range(t) \subseteq S /\ s \in Seq(Range(s)) /\ t \in Seq(Range(t))
    BY DEF Tells
  <2> HIDE DEF S
  <2> QED
    BY <2>1, SeqMonotonic
<1> HIDE DEF S
<1>2. PICK r : r = s \o t
  OBVIOUS
<1>3. /\ r \in Seq(S) /\ Len(r) = Len(s) + Len(t) /\ Len(s) \in Nat /\ Len(t) \in Nat
      /\ \A i \in 1..(Len(s) + Len(t)) : r[i] = IF i <= Len(s) THEN s[i] ELSE t[i - Len(s)]
  BY <1>1, <1>2, ConcatProperties, LenProperties
<1>4. r \in Seq(Range(r))
  BY <1>3, SeqOfRange
<1>5. PICK g : Leads(k, s, g) /\ g[0] = u /\ g[Len(s)] = v
  BY DEF Tells
<1>6. PICK h : Leads(k, t, h) /\ h[0] = v /\ h[Len(t)] = w
  BY DEF Tells
<1>7. PICK m \in Nat, n \in Nat : m = Len(s) /\ n = Len(t)
  BY <1>3
<1>8. Along(k, g, r, 0, m)
  <2> SUFFICES ASSUME NEW i \in 1..m PROVE Makes(k, g[i - 1], r[0 + i], g[i])
    BY DEF Along
  <2>1. i \in 1..(m + n) /\ i <= m /\ 0 + i = i
    OBVIOUS
  <2>2. r[i] = s[i]
    BY <1>3, <1>7, <2>1
  <2> QED
    BY <1>5, <1>7, <2>1, <2>2 DEF Leads
<1>9. Along(k, h, r, m, n)
  <2> SUFFICES ASSUME NEW i \in 1..n PROVE Makes(k, h[i - 1], r[m + i], h[i])
    BY DEF Along
  <2>1. m + i \in 1..(m + n) /\ ~(m + i <= m) /\ (m + i) - m = i
    OBVIOUS
  <2>2. r[m + i] = t[i]
    BY <1>3, <1>7, <2>1
  <2> QED
    BY <1>6, <1>7, <2>2 DEF Leads
<1>10. PICK j : j = Joined(g, h, m, n)
  OBVIOUS
<1>11. Leads(k, r, j) /\ j[0] = g[0] /\ j[m + n] = h[n]
  <2>1. Len(r) = m + n /\ g[m] = h[0]
    BY <1>3, <1>5, <1>6, <1>7
  <2> QED
    BY <1>8, <1>9, <1>10, <2>1, JoinedLeads
<1>12. j[0] = u /\ j[Len(r)] = w
  BY <1>3, <1>5, <1>6, <1>7, <1>11
<1> QED
  BY <1>2, <1>4, <1>11, <1>12 DEF Tells

(* The first event, and the rest. *)
LEMMA TellsHead ==
  ASSUME NEW k, NEW s, NEW v, NEW w, s # <<>>, Tells(k, s, v, w)
  PROVE  \E x : Makes(k, v, Head(s), x) /\ Tells(k, Tail(s), x, w)
<1>1. s \in Seq(Range(s))
  BY DEF Tells
<1>2. PICK t : t = Tail(s)
  OBVIOUS
<1>3. /\ t \in Seq(Range(s)) /\ Len(t) = Len(s) - 1 /\ Len(s) \in Nat /\ Len(t) \in Nat
      /\ \A i \in 1..Len(t) : t[i] = s[i + 1]
      /\ Head(s) = s[1]
  BY <1>1, <1>2, HeadTailProperties, LenProperties
<1>4. t \in Seq(Range(t))
  BY <1>3, SeqOfRange
<1>5. PICK g : Leads(k, s, g) /\ g[0] = v /\ g[Len(s)] = w
  BY DEF Tells
<1>6. PICK n \in Nat : n = Len(t)
  BY <1>3
<1> DEFINE h == [i \in 0..n |-> g[i + 1]]
<1>7. \A i \in 0..n : h[i] = g[i + 1]
  OBVIOUS
<1> HIDE DEF h
<1>8. Len(s) = n + 1
  BY <1>3, <1>6
<1>9. 0 \in 0..n /\ n \in 0..n /\ 0 + 1 = 1 /\ 1 - 1 = 0 /\ 1 \in 1..(n + 1)
  OBVIOUS
<1>10. h[0] = g[1] /\ h[Len(t)] = w
  BY <1>5, <1>6, <1>7, <1>8, <1>9
<1>11. Makes(k, v, Head(s), g[1])
  BY <1>3, <1>5, <1>8, <1>9 DEF Leads
<1>12. \A i \in 1..n : Makes(k, h[i - 1], t[i], h[i])
  <2> TAKE i \in 1..n
  <2>1. i + 1 \in 1..(n + 1) /\ (i + 1) - 1 = i /\ i \in 0..n /\ i - 1 \in 0..n /\ (i - 1) + 1 = i
    OBVIOUS
  <2>2. Makes(k, g[i], s[i + 1], g[i + 1])
    BY <1>5, <1>8, <2>1 DEF Leads
  <2>3. h[i - 1] = g[i] /\ h[i] = g[i + 1]
    BY <1>7, <2>1
  <2> QED
    BY <1>3, <1>6, <2>2, <2>3
<1> QED
  BY <1>2, <1>4, <1>6, <1>10, <1>11, <1>12 DEF Tells, Leads

(* A stamped event has its fields. *)
LEMMA StampSame ==
  ASSUME NEW e, NEW b, NEW x, NEW l, NEW st, st = Stamp(e, b, x, l)
  PROVE  /\ \A f \in DOMAIN e : f \in DOMAIN st /\ (f \notin {"block", "tx", "log"} => st[f] = e[f])
         /\ st.block = b /\ st.tx = x /\ st.log = l
<1>1. /\ DOMAIN st = DOMAIN e \cup {"block", "tx", "log"}
      /\ \A f \in DOMAIN st : st[f] = CASE f = "block" -> b [] f = "tx" -> x [] f = "log" -> l [] OTHER -> e[f]
  BY DEF Stamp
<1>2. "block" \in DOMAIN st /\ "tx" \in DOMAIN st /\ "log" \in DOMAIN st
  BY <1>1
<1>3. st["block"] = b /\ st["tx"] = x /\ st["log"] = l
  BY <1>1, <1>2
<1> QED
  BY <1>1, <1>3

(* It says what it said. *)
LEMMA StampSays ==
  ASSUME NEW k, NEW v, NEW w, NEW e, NEW b, NEW x, NEW l, Makes(k, v, e, w)
  PROVE  Makes(k, v, Stamp(e, b, x, l), w)
<1>1. PICK st : st = Stamp(e, b, x, l)
  OBVIOUS
<1>2. \A f \in DOMAIN e : f \in DOMAIN st /\ (f \notin {"block", "tx", "log"} => st[f] = e[f])
  BY <1>1, StampSame
<1>3. ASSUME "kind" \in DOMAIN e PROVE "kind" \in DOMAIN st /\ st.kind = e.kind
  BY <1>2, <1>3
<1>4. \A fields : Has(e, fields) => Has(st, fields)
  BY <1>2 DEF Has
<1>5. ASSUME Has(e, Plain) PROVE Has(st, Plain) /\ st.kind = e.kind /\ st.from = e.from /\ st.to = e.to
                                 /\ st.amount = e.amount /\ st.total = e.total
  BY <1>2, <1>5 DEF Has, Plain
<1>6. k.of = "staked" => SaysStaked(k.a, k.b, v, st, w)
  BY <1>5 DEF Makes, SaysStaked, IsZkdx
<1>7. k.of = "zusd" => SaysZusd(k.a, v, st, w)
  BY <1>5 DEF Makes, SaysZusd, IsZkdx
<1>8. k.of \in {"alp", "held"} => SaysMoved(k.a, v, st, w)
  BY <1>5 DEF Makes, SaysMoved
<1>9. k.of = "owed" => SaysOwed(k.a, v, st, w)
  BY <1>5 DEF Makes, SaysOwed
<1>10. k.of = "entered" => SaysEntered(k.a, v, st, w)
  BY <1>5 DEF Makes, SaysEntered
<1>11. k.of = "factor" => SaysFactor(v, st, w)
  BY <1>5 DEF Makes, SaysFactor
<1>12. k.of = "proper" => SaysProper(v, st, w)
  BY <1>5 DEF Makes, SaysProper, Proper
<1>13. /\ Has(e, {"tick"}) => st.tick = e.tick
       /\ Has(e, {"tick", "amount", "liquidity"}) => st.tick = e.tick /\ st.amount = e.amount /\ st.liquidity = e.liquidity
       /\ Has(e, {"range", "amount"}) => st.range = e.range /\ st.amount = e.amount
       /\ Has(e, {"amount"}) => st.amount = e.amount
       /\ Has(e, {"id", "from", "to"}) => st.id = e.id /\ st.from = e.from /\ st.to = e.to
       /\ Has(e, {"from", "to"}) => st.from = e.from /\ st.to = e.to
  BY <1>2 DEF Has
<1>14. k.of = "pool" => SaysPool(v, st, w)
  BY <1>3, <1>4, <1>13 DEF Makes, SaysPool
<1>15. k.of = "nft" => SaysNft(k.a, v, st, w)
  <2> SUFFICES ASSUME k.of = "nft" PROVE SaysNft(k.a, v, st, w)
    OBVIOUS
  <2>1. SaysNft(k.a, v, e, w)
    BY DEF Makes
  <2>2. "NftTransfer" \in NftKinds /\ "Increase" \in NftKinds /\ "Decrease" \in NftKinds
    BY DEF NftKinds
  <2>3. CASE e.kind \in NftKinds
    <3>1. st.kind = e.kind /\ Has(st, {"id", "from", "to"}) /\ st.id = e.id /\ st.to = e.to
      BY <1>3, <1>4, <1>13, <2>1, <2>3 DEF SaysNft
    <3> QED
      BY <2>1, <2>3, <3>1 DEF SaysNft, Has
  <2>4. CASE e.kind \notin NftKinds
    <3>1. "kind" \in DOMAIN st /\ st.kind = e.kind /\ w = v
      BY <1>3, <2>1, <2>2, <2>4 DEF SaysNft
    <3> QED
      BY <2>1, <2>4, <3>1 DEF SaysNft
  <2> QED
    BY <2>3, <2>4
<1>16. k.of = "wlp" => SaysWlp(k.a, v, st, w)
  <2> SUFFICES ASSUME k.of = "wlp" PROVE SaysWlp(k.a, v, st, w)
    OBVIOUS
  <2>1. SaysWlp(k.a, v, e, w)
    BY DEF Makes
  <2>2. "Stake" \in MultiKinds /\ "Unstake" \in MultiKinds
    BY DEF MultiKinds
  <2> QED
    BY <1>3, <1>4, <1>13, <2>1, <2>2 DEF SaysWlp
<1> QED
  BY <1>1, <1>6, <1>7, <1>8, <1>9, <1>10, <1>11, <1>12, <1>14, <1>15, <1>16 DEF Makes

(* A sequence is as long as its places say. *)
LEMMA SameLength ==
  ASSUME NEW r, r \in Seq(Range(r)), NEW n \in Nat, DOMAIN r = 1..n
  PROVE  Len(r) = n
<1>1. Len(r) \in Nat /\ 1..Len(r) = 1..n
  BY LenProperties
<1>2. Len(r) > 0 => Len(r) \in 1..n
  BY <1>1
<1>3. n > 0 => n \in 1..Len(r)
  BY <1>1
<1> QED
  BY <1>1, <1>2, <1>3

(* The events of a transaction, put behind those that wait.                *)
LEMMA TellsStamped ==
  ASSUME NEW k, NEW q, NEW s, NEW b, NEW x, NEW r, Lengthened(q, s, b, x, r),
         NEW u, NEW v, NEW w, Tells(k, q, u, v), Tells(k, s, v, w)
  PROVE  Tells(k, r, u, w)
<1>1. /\ r \in Seq(Range(r)) /\ Len(q) \in Nat /\ Len(s) \in Nat /\ DOMAIN r = 1..(Len(q) + Len(s))
      /\ \A i \in 1..Len(q) : r[i] = q[i]
      /\ \A i \in 1..(Len(q) + Len(s)) : ~(i <= Len(q)) => r[i] = Stamp(s[i - Len(q)], b, x, i)
  BY DEF Lengthened
<1>2. Len(r) = Len(q) + Len(s)
  BY <1>1, SameLength
<1>5. PICK g : Leads(k, q, g) /\ g[0] = u /\ g[Len(q)] = v
  BY DEF Tells
<1>6. PICK h : Leads(k, s, h) /\ h[0] = v /\ h[Len(s)] = w
  BY DEF Tells
<1>7. PICK m \in Nat, n \in Nat : m = Len(q) /\ n = Len(s)
  BY <1>1
<1>8. Along(k, g, r, 0, m)
  <2> SUFFICES ASSUME NEW i \in 1..m PROVE Makes(k, g[i - 1], r[0 + i], g[i])
    BY DEF Along
  <2>1. 0 + i = i /\ r[i] = q[i]
    BY <1>1, <1>7
  <2> QED
    BY <1>5, <1>7, <2>1 DEF Leads
<1>9. Along(k, h, r, m, n)
  <2> SUFFICES ASSUME NEW i \in 1..n PROVE Makes(k, h[i - 1], r[m + i], h[i])
    BY DEF Along
  <2>1. m + i \in 1..(m + n) /\ ~(m + i <= m) /\ (m + i) - m = i
    OBVIOUS
  <2>2. r[m + i] = Stamp(s[i], b, x, m + i)
    BY <1>1, <1>7, <2>1
  <2>3. Makes(k, h[i - 1], s[i], h[i])
    BY <1>6, <1>7 DEF Leads
  <2> QED
    BY <2>2, <2>3, StampSays
<1>10. PICK j : j = Joined(g, h, m, n)
  OBVIOUS
<1>11. Leads(k, r, j) /\ j[0] = g[0] /\ j[m + n] = h[n]
  <2>1. Len(r) = m + n /\ g[m] = h[0]
    BY <1>2, <1>5, <1>6, <1>7
  <2> QED
    BY <1>8, <1>9, <1>10, <2>1, JoinedLeads
<1>12. j[0] = u /\ j[Len(r)] = w
  BY <1>2, <1>5, <1>6, <1>7, <1>11
<1> QED
  BY <1>1, <1>11, <1>12 DEF Tells

------------------------------------------------------------------------------
(* What Emits says. *)
Emitted(kind, from, to, amount, total) ==
  [kind |-> kind, from |-> from, to |-> to, amount |-> amount, total |-> total]

(* It has the fields an event has, with these values. *)
LEMMA EmittedFacts ==
  ASSUME NEW kind, NEW from, NEW to, NEW amount, NEW total, NEW e, e = Emitted(kind, from, to, amount, total)
  PROVE  Has(e, Plain) /\ e.kind = kind /\ e.from = from /\ e.to = to /\ e.amount = amount /\ e.total = total
BY DEF Emitted, Has, Plain

(* It tells what its event says. *)
LEMMA TellsEmits ==
  ASSUME NEW k, NEW v, NEW w, NEW kind, NEW from, NEW to, NEW amount, NEW total, NEW e,
         e = Emitted(kind, from, to, amount, total), Makes(k, v, e, w)
  PROVE  Tells(k, Emits(kind, from, to, amount, total), v, w)
BY TellsOne DEF Emits, Emitted

(* Facts by their names. *)
LEMMA SaysByName ==
  ASSUME NEW a, NEW b, NEW v, NEW e, NEW w
  PROVE  /\ Makes(Fact("staked", a, b), v, e, w) <=> SaysStaked(a, b, v, e, w)
         /\ Makes(Fact("zusd", a, b), v, e, w) <=> SaysZusd(a, v, e, w)
         /\ Makes(Fact("alp", a, b), v, e, w) <=> SaysMoved(a, v, e, w)
         /\ Makes(Fact("held", a, b), v, e, w) <=> SaysMoved(a, v, e, w)
         /\ Makes(Fact("owed", a, b), v, e, w) <=> SaysOwed(a, v, e, w)
         /\ Makes(Fact("entered", a, b), v, e, w) <=> SaysEntered(a, v, e, w)
         /\ Makes(Fact("factor", a, b), v, e, w) <=> SaysFactor(v, e, w)
         /\ Makes(Fact("proper", a, b), v, e, w) <=> SaysProper(v, e, w)
         /\ Makes(Fact("pool", a, b), v, e, w) <=> SaysPool(v, e, w)
         /\ Makes(Fact("nft", a, b), v, e, w) <=> SaysNft(a, v, e, w)
         /\ Makes(Fact("wlp", a, b), v, e, w) <=> SaysWlp(a, v, e, w)
<1>1. \A of : Fact(of, a, b).of = of /\ Fact(of, a, b).a = a /\ Fact(of, a, b).b = b
  BY DEF Fact
<1> QED
  BY <1>1 DEF Makes

(* What waits in the queue. *)
Faithful(k) == Tells(k, queue, InIndex(k, index), OnChain(k, chain))

(* At the start nothing waits. *)
LEMMA KnownAtStart ==
  ASSUME NEW k, queue = <<>>, InIndex(k, index) = OnChain(k, chain)
  PROVE  Faithful(k)
BY TellsNothing DEF Faithful

(* When nothing waits the index has what the chain has. *)
LEMMA KnownAtEnd ==
  ASSUME NEW k, queue = <<>>, Faithful(k)
  PROVE  InIndex(k, index) = OnChain(k, chain)
BY TellsNothing DEF Faithful

(* A transaction tells what it changes. *)
LEMMA KnownGrows ==
  ASSUME NEW k, NEW t, NEW b, NEW x, Lengthened(queue, t.events, b, x, queue'), index' = index, chain' = t.chain,
         Faithful(k), Tells(k, t.events, OnChain(k, chain), OnChain(k, t.chain))
  PROVE  Faithful(k)'
<1>1. Tells(k, queue', InIndex(k, index), OnChain(k, t.chain))
  BY TellsStamped DEF Faithful
<1> QED
  BY <1>1 DEF Faithful

(* A handler that does what the event says leaves the rest to be told.     *)
LEMMA KnownShrinks ==
  ASSUME NEW k, queue # <<>>, queue' = Tail(queue), chain' = chain, Faithful(k),
         \A w : Makes(k, InIndex(k, index), Head(queue), w) => InIndex(k, index') = w
  PROVE  Faithful(k)'
<1>1. PICK x : Makes(k, InIndex(k, index), Head(queue), x) /\ Tells(k, Tail(queue), x, OnChain(k, chain))
  BY TellsHead DEF Faithful
<1> QED
  BY <1>1 DEF Faithful

(* What is said of the first event holds of it.                            *)
LEMMA FirstIsSaid ==
  ASSUME NEW k, queue # <<>>, Faithful(k)
  PROVE  \E w : Makes(k, InIndex(k, index), Head(queue), w)
BY TellsHead DEF Faithful

(* Transact, with the queue told. *)
LEMMA Transacts ==
  ASSUME queue \in Seq(Range(queue)), Transact, \A t \in Transactions : t.events \in Seq(Range(t.events))
  PROVE  /\ \E t \in Transactions : /\ chain' = t.chain
                                    /\ Lengthened(queue, t.events, chain.block, txs + 1, queue')
         /\ protocol' = protocol /\ index' = index /\ sealed' = sealed /\ ~sealed
<1>1. PICK t \in Transactions :
        /\ chain' = t.chain
        /\ queue' = queue \o [i \in DOMAIN t.events |->
                             Stamp(t.events[i], chain.block, txs + 1, Len(queue) + i)]
  BY DEF Transact
<1>2. t.events \in Seq(Range(t.events))
  OBVIOUS
<1>3. PICK s : s = t.events
  OBVIOUS
<1>4. PICK st : st = [i \in DOMAIN s |-> Stamp(s[i], chain.block, txs + 1, Len(queue) + i)]
  OBVIOUS
<1>5. InPlace(s, chain.block, txs + 1, Len(queue), st)
  BY <1>4 DEF InPlace, Range
<1>6. queue' = queue \o st
  BY <1>1, <1>3, <1>4
<1>7. Lengthened(queue, s, chain.block, txs + 1, queue')
  BY <1>2, <1>3, <1>5, <1>6, QueueGrows
<1> QED
  BY <1>1, <1>3, <1>7 DEF Transact

(* The events that wait after a transaction, and after one is handled.     *)
LEMMA WaitingGrows ==
  ASSUME NEW q, NEW s, NEW b, NEW x, NEW r, Lengthened(q, s, b, x, r)
  PROVE  /\ r \in Seq(Range(r)) /\ Range(q) \subseteq Range(r)
         /\ \A e \in Range(s) : \E st \in Range(r), l \in Nat : st = Stamp(e, b, x, l)
         /\ \A st \in Range(r) : st \in Range(q) \/ \E e \in Range(s), l \in Nat : st = Stamp(e, b, x, l)
<1>1. /\ r \in Seq(Range(r)) /\ Len(q) \in Nat /\ Len(s) \in Nat
      /\ DOMAIN q = 1..Len(q) /\ DOMAIN s = 1..Len(s) /\ DOMAIN r = 1..(Len(q) + Len(s))
      /\ \A i \in 1..Len(q) : r[i] = q[i]
      /\ \A i \in 1..(Len(q) + Len(s)) : ~(i <= Len(q)) =>
           i - Len(q) \in 1..Len(s) /\ r[i] = Stamp(s[i - Len(q)], b, x, i)
  BY DEF Lengthened
<1>2. PICK m \in Nat, n \in Nat : m = Len(q) /\ n = Len(s)
  BY <1>1
<1>3. Range(q) \subseteq Range(r)
  <2> SUFFICES ASSUME NEW i \in DOMAIN q PROVE q[i] \in Range(r)
    BY DEF Range
  <2>1. i \in 1..m /\ i \in 1..(m + n)
    BY <1>1, <1>2
  <2> QED
    BY <1>1, <1>2, <2>1 DEF Range
<1>4. ASSUME NEW e \in Range(s) PROVE \E st \in Range(r), l \in Nat : st = Stamp(e, b, x, l)
  <2>1. PICK i \in 1..n : e = s[i]
    BY <1>1, <1>2 DEF Range
  <2>2. m + i \in 1..(m + n) /\ ~(m + i <= m) /\ (m + i) - m = i /\ m + i \in Nat
    OBVIOUS
  <2>3. r[m + i] = Stamp(e, b, x, m + i)
    BY <1>1, <1>2, <2>1, <2>2
  <2> QED
    BY <1>1, <1>2, <2>2, <2>3 DEF Range
<1>5. ASSUME NEW st \in Range(r) PROVE st \in Range(q) \/ \E e \in Range(s), l \in Nat : st = Stamp(e, b, x, l)
  <2>1. PICK i \in 1..(m + n) : st = r[i]
    BY <1>1, <1>2 DEF Range
  <2>2. CASE i <= m
    <3>1. i \in 1..m
      BY <2>2
    <3> QED
      BY <1>1, <1>2, <2>1, <3>1 DEF Range
  <2>3. CASE ~(i <= m)
    <3>1. i - m \in 1..n /\ st = Stamp(s[i - m], b, x, i) /\ i \in Nat
      BY <1>1, <1>2, <2>1, <2>3
    <3>2. s[i - m] \in Range(s)
      BY <1>1, <1>2, <3>1 DEF Range
    <3> QED
      BY <3>1, <3>2
  <2> QED
    BY <2>2, <2>3
<1> QED
  BY <1>1, <1>3, <1>4, <1>5

(* A queue is its head and what waits behind it. *)
LEMMA WaitingShrinks ==
  ASSUME NEW q, q \in Seq(Range(q)), q # <<>>
  PROVE  /\ Tail(q) \in Seq(Range(Tail(q))) /\ Head(q) \in Range(q)
         /\ Range(q) = {Head(q)} \cup Range(Tail(q))
<1>1. PICK t : t = Tail(q)
  OBVIOUS
<1>2. /\ t \in Seq(Range(q)) /\ Len(t) = Len(q) - 1 /\ \A i \in 1..Len(t) : t[i] = q[i + 1]
      /\ Head(q) = q[1] /\ Head(q) \in Range(q)
  BY <1>1, HeadTailProperties
<1>3. DOMAIN q = 1..Len(q) /\ DOMAIN t = 1..Len(t) /\ Len(q) \in Nat /\ Len(t) \in Nat
  BY <1>2, LenProperties
<1>4. PICK n \in Nat : Len(t) = n /\ Len(q) = n + 1
  BY <1>2, <1>3
<1>5. ASSUME NEW i \in 1..(n + 1) PROVE q[i] = Head(q) \/ q[i] \in Range(t)
  <2>1. CASE i = 1
    BY <1>2, <2>1
  <2>2. CASE i # 1
    <3>1. i - 1 \in 1..n /\ (i - 1) + 1 = i
      BY <2>2
    <3> QED
      BY <1>2, <1>3, <1>4, <3>1 DEF Range
  <2> QED
    BY <2>1, <2>2
<1>6. ASSUME NEW i \in 1..n PROVE t[i] \in Range(q)
  <2>1. i + 1 \in 1..(n + 1)
    OBVIOUS
  <2> QED
    BY <1>2, <1>3, <1>4, <2>1 DEF Range
<1>7. Range(q) \subseteq {Head(q)} \cup Range(t)
  BY <1>3, <1>4, <1>5 DEF Range
<1>8. Range(t) \subseteq Range(q)
  BY <1>3, <1>4, <1>6 DEF Range
<1>9. t \in Seq(Range(t))
  BY <1>2, SeqOfRange
<1> QED
  BY <1>1, <1>2, <1>7, <1>8, <1>9

(* What is found in a store after a save.                                  *)
LEMMA SaveLoad ==
  ASSUME NEW store, NEW id, NEW entity, NEW st, st = Save(store, id, entity)
  PROVE  /\ DOMAIN st = DOMAIN store \cup {id}
         /\ \A j, new : Load(st, j, new) = IF j = id THEN entity ELSE Load(store, j, new)
BY DEF Save, Load

------------------------------------------------------------------------------
(* zkDX and AGX. *)

LedgerChains ==
  [block : Int, staked : [Staking -> [User -> Int]], zusd : [User -> Int], got : [User -> Int],
   lost : [User -> Int], exchanged : SUBSET User, alp : [User \cup {Pool} -> Nat], supply : Int]

ZkdxFacts == {Fact("staked", p, u) : p \in Staking, u \in User} \cup {Fact("zusd", u, u) : u \in User}

ZusdOf(c, u) == [sum |-> c.zusd[u] - c.got[u] + c.lost[u], known |-> u \in c.exchanged]
StakedSaid(c, d, e) == \A p \in Staking, u \in User : SaysStaked(p, u, c.staked[p][u], e, d.staked[p][u])
ZusdSaid(c, d, e) == \A u \in User : SaysZusd(u, ZusdOf(c, u), e, ZusdOf(d, u))

(* A transaction of zkDX of one event. *)
LEMMA ZkdxOne ==
  ASSUME NEW c, NEW d, NEW kind, NEW who, NEW to, NEW n, NEW e,
         e = Emitted(kind, who, to, n, 0),
         StakedSaid(c, d, e), ZusdSaid(c, d, e)
  PROVE  \A k \in ZkdxFacts : Tells(k, Emits(kind, who, to, n, 0), OnChain(k, c), OnChain(k, d))
<1>1. ASSUME NEW p \in Staking, NEW u \in User
      PROVE  Makes(Fact("staked", p, u), OnChain(Fact("staked", p, u), c), e, OnChain(Fact("staked", p, u), d))
  <2>1. OnChain(Fact("staked", p, u), c) = c.staked[p][u] /\ OnChain(Fact("staked", p, u), d) = d.staked[p][u]
    BY DEF OnChain, Fact
  <2>2. SaysStaked(p, u, c.staked[p][u], e, d.staked[p][u])
    BY DEF StakedSaid
  <2> QED
    BY <2>1, <2>2, SaysByName
<1>2. ASSUME NEW u \in User
      PROVE  Makes(Fact("zusd", u, u), OnChain(Fact("zusd", u, u), c), e, OnChain(Fact("zusd", u, u), d))
  <2>1. OnChain(Fact("zusd", u, u), c) = ZusdOf(c, u) /\ OnChain(Fact("zusd", u, u), d) = ZusdOf(d, u)
    BY DEF OnChain, Fact, ZusdOf
  <2>2. SaysZusd(u, ZusdOf(c, u), e, ZusdOf(d, u))
    BY DEF ZusdSaid
  <2> QED
    BY <2>1, <2>2, SaysByName
<1>3. \A k \in ZkdxFacts : Makes(k, OnChain(k, c), e, OnChain(k, d))
  BY <1>1, <1>2 DEF ZkdxFacts
<1> QED
  BY <1>3, TellsEmits

(* What each fact is told when nothing happened to it. *)
LEMMA StakedSame ==
  ASSUME NEW c \in LedgerChains, NEW d, d.staked = c.staked, NEW e, IsZkdx(e), e.kind \notin {"Stake", "Withdraw"}
  PROVE  StakedSaid(c, d, e)
BY DEF StakedSaid, SaysStaked, LedgerChains

(* An event that is no exchange says nothing of zUSD. *)
LEMMA ZusdSame ==
  ASSUME NEW c \in LedgerChains, NEW d, d.zusd = c.zusd, d.got = c.got, d.lost = c.lost, d.exchanged = c.exchanged,
         NEW e, IsZkdx(e), e.kind \notin {"Exchange", "Redeem"}
  PROVE  ZusdSaid(c, d, e)
<1> SUFFICES ASSUME NEW u \in User PROVE SaysZusd(u, ZusdOf(c, u), e, ZusdOf(d, u))
  BY DEF ZusdSaid
<1>1. ZusdOf(d, u) = ZusdOf(c, u)
  BY DEF ZusdOf
<1>2. c.zusd[u] \in Int /\ c.got[u] \in Int /\ c.lost[u] \in Int
  BY DEF LedgerChains
<1>3. ZusdOf(c, u).sum \in Int /\ ZusdOf(c, u).known \in BOOLEAN
  BY <1>2 DEF ZusdOf
<1> QED
  BY <1>1, <1>3 DEF SaysZusd

(* What zkDX emits is an event of zkDX. *)
LEMMA ZkdxEvent ==
  ASSUME NEW kind \in ZkdxKinds, NEW who, NEW to, NEW n, kind \in {"Stake", "Withdraw"} => to \in Staking,
         NEW e, e = Emitted(kind, who, to, n, 0)
  PROVE  IsZkdx(e) /\ e.kind = kind /\ e.from = who /\ e.to = to /\ e.amount = n
BY EmittedFacts DEF IsZkdx

(* What a trade tells. *)
LEMMA TradeTellsNothing ==
  ASSUME NEW c \in LedgerChains, NEW kind \in Trades, NEW who \in User, NEW n
  PROVE  \A k \in ZkdxFacts : Tells(k, Emits(kind, who, Pool, n, 0), OnChain(k, c), OnChain(k, c))
<1>1. kind \notin {"Stake", "Withdraw", "Exchange", "Redeem"} /\ kind \in ZkdxKinds
  BY DEF Trades, ZkdxKinds
<1>2. PICK e : e = Emitted(kind, who, Pool, n, 0)
  OBVIOUS
<1>2a. IsZkdx(e) /\ e.kind = kind
  BY <1>1, <1>2, ZkdxEvent
<1>3. StakedSaid(c, c, e) /\ ZusdSaid(c, c, e)
  BY <1>1, <1>2, <1>2a, StakedSame, ZusdSame
<1> QED
  BY <1>2, <1>3, ZkdxOne

(* A transaction does what its events tell. *)
ZkdxGood(c, t) ==
  /\ t.chain \in LedgerChains /\ t.chain.block = c.block
  /\ \A k \in ZkdxFacts : Tells(k, t.events, OnChain(k, c), OnChain(k, t.chain))

(* Staking and withdrawing tell what they change. *)
LEMMA ZkdxStakes ==
  ASSUME NEW c \in LedgerChains, NEW p \in Staking, NEW u \in User
  PROVE  /\ ZkdxGood(c, ZkdxStaked(c, p, u))
         /\ c.staked[p][u] > 0 => ZkdxGood(c, ZkdxWithdrawn(c, p, u))
<1>1. c.staked \in [Staking -> [User -> Int]]
  BY DEF LedgerChains
<1>2. "Stake" \in ZkdxKinds /\ "Withdraw" \in ZkdxKinds
  BY DEF ZkdxKinds
<1>3. ZkdxGood(c, ZkdxStaked(c, p, u))
  <2>0. PICK S : S = [c.staked EXCEPT ![p][u] = @ + 1]
    OBVIOUS
  <2>0a. /\ S \in [Staking -> [User -> Int]]
         /\ \A q \in Staking, w \in User : S[q][w] = IF q = p /\ w = u THEN c.staked[q][w] + 1 ELSE c.staked[q][w]
    BY <1>1, <2>0
  <2>1. PICK d : d = [c EXCEPT !.staked[p][u] = @ + 1]
    OBVIOUS
  <2>1a. d = [c EXCEPT !.staked = S]
    BY <2>0, <2>1
  <2>2. /\ d \in LedgerChains /\ d.block = c.block /\ d.zusd = c.zusd /\ d.got = c.got /\ d.lost = c.lost
        /\ d.exchanged = c.exchanged
        /\ \A q \in Staking, w \in User : d.staked[q][w] = IF q = p /\ w = u THEN c.staked[q][w] + 1 ELSE c.staked[q][w]
    BY <1>1, <2>0a, <2>1a DEF LedgerChains
  <2>3. PICK e : e = Emitted("Stake", u, p, 1, 0)
    OBVIOUS
  <2>3a. IsZkdx(e) /\ e.kind = "Stake" /\ e.from = u /\ e.to = p /\ e.amount = 1
    BY <1>2, <2>3, ZkdxEvent
  <2>4. StakedSaid(c, d, e)
    BY <1>1, <2>2, <2>3, <2>3a DEF StakedSaid, SaysStaked, LedgerChains
  <2>5. ZusdSaid(c, d, e)
    BY <2>2, <2>3, <2>3a, ZusdSame
  <2>6. \A k \in ZkdxFacts : Tells(k, Emits("Stake", u, p, 1, 0), OnChain(k, c), OnChain(k, d))
    BY <2>3, <2>4, <2>5, ZkdxOne
  <2>7. ZkdxStaked(c, p, u).chain = d /\ ZkdxStaked(c, p, u).events = Emits("Stake", u, p, 1, 0)
    BY <2>1 DEF ZkdxStaked, Becomes
  <2> QED
    BY <2>2, <2>6, <2>7 DEF ZkdxGood
<1>4. ASSUME c.staked[p][u] > 0 PROVE ZkdxGood(c, ZkdxWithdrawn(c, p, u))
  <2>0. PICK S : S = [c.staked EXCEPT ![p][u] = @ - 1]
    OBVIOUS
  <2>0a. /\ S \in [Staking -> [User -> Int]]
         /\ \A q \in Staking, w \in User : S[q][w] = IF q = p /\ w = u THEN c.staked[q][w] - 1 ELSE c.staked[q][w]
    BY <1>1, <2>0
  <2>1. PICK d : d = [c EXCEPT !.staked[p][u] = @ - 1]
    OBVIOUS
  <2>1a. d = [c EXCEPT !.staked = S]
    BY <2>0, <2>1
  <2>2. /\ d \in LedgerChains /\ d.block = c.block /\ d.zusd = c.zusd /\ d.got = c.got /\ d.lost = c.lost
        /\ d.exchanged = c.exchanged
        /\ \A q \in Staking, w \in User : d.staked[q][w] = IF q = p /\ w = u THEN c.staked[q][w] - 1 ELSE c.staked[q][w]
    BY <1>1, <2>0a, <2>1a DEF LedgerChains
  <2>3. PICK e : e = Emitted("Withdraw", u, p, 1, 0)
    OBVIOUS
  <2>3a. IsZkdx(e) /\ e.kind = "Withdraw" /\ e.from = u /\ e.to = p /\ e.amount = 1
    BY <1>2, <2>3, ZkdxEvent
  <2>4. StakedSaid(c, d, e)
    BY <1>1, <1>4, <2>2, <2>3, <2>3a DEF StakedSaid, SaysStaked, LedgerChains
  <2>5. ZusdSaid(c, d, e)
    BY <2>2, <2>3, <2>3a, ZusdSame
  <2>6. \A k \in ZkdxFacts : Tells(k, Emits("Withdraw", u, p, 1, 0), OnChain(k, c), OnChain(k, d))
    BY <2>3, <2>4, <2>5, ZkdxOne
  <2>7. ZkdxWithdrawn(c, p, u).chain = d /\ ZkdxWithdrawn(c, p, u).events = Emits("Withdraw", u, p, 1, 0)
    BY <2>1 DEF ZkdxWithdrawn, Becomes
  <2> QED
    BY <2>2, <2>6, <2>7 DEF ZkdxGood
<1> QED
  BY <1>3, <1>4

(* Exchanging and redeeming zUSD tell what they change. *)
LEMMA ZkdxExchanges ==
  ASSUME NEW c \in LedgerChains, NEW u \in User
  PROVE  ZkdxGood(c, Exchanged(c, u)) /\ ZkdxGood(c, RedeemedZusd(c, u))
<1>1. /\ c.zusd \in [User -> Int] /\ c.got \in [User -> Int] /\ c.lost \in [User -> Int] /\ c.exchanged \in SUBSET User
  BY DEF LedgerChains
<1>2. "Exchange" \in ZkdxKinds /\ "Redeem" \in ZkdxKinds
  BY DEF ZkdxKinds
<1>3. ZkdxGood(c, Exchanged(c, u))
  <2>0. PICK Z, X : Z = [c.zusd EXCEPT ![u] = @ + 1] /\ X = c.exchanged \cup {u}
    OBVIOUS
  <2>0a. /\ Z \in [User -> Int] /\ X \in SUBSET User
         /\ \A w \in User : Z[w] = IF w = u THEN c.zusd[w] + 1 ELSE c.zusd[w]
    BY <1>1, <2>0
  <2>1. PICK d : d = [c EXCEPT !.zusd[u] = @ + 1, !.exchanged = @ \cup {u}]
    OBVIOUS
  <2>1a. d = [c EXCEPT !.zusd = Z, !.exchanged = X]
    BY <2>0, <2>1 DEF LedgerChains
  <2>2. /\ d \in LedgerChains /\ d.block = c.block /\ d.staked = c.staked /\ d.got = c.got /\ d.lost = c.lost
        /\ d.exchanged = c.exchanged \cup {u}
        /\ \A w \in User : d.zusd[w] = IF w = u THEN c.zusd[w] + 1 ELSE c.zusd[w]
    BY <1>1, <2>0, <2>0a, <2>1a DEF LedgerChains
  <2>3. PICK e : e = Emitted("Exchange", u, Pool, 1, 0)
    OBVIOUS
  <2>3a. IsZkdx(e) /\ e.kind = "Exchange" /\ e.from = u /\ e.to = Pool /\ e.amount = 1
    BY <1>2, <2>3, ZkdxEvent
  <2>4. StakedSaid(c, d, e)
    BY <2>2, <2>3, <2>3a, StakedSame
  <2>5. ZusdSaid(c, d, e)
    <3> SUFFICES ASSUME NEW w \in User PROVE SaysZusd(w, ZusdOf(c, w), e, ZusdOf(d, w))
      BY DEF ZusdSaid
    <3>1. c.zusd[w] \in Int /\ c.got[w] \in Int /\ c.lost[w] \in Int
      BY <1>1
    <3> DEFINE v == c.zusd[w] - c.got[w] + c.lost[w]
    <3>2. v \in Int /\ d.zusd[w] - d.got[w] + d.lost[w] = IF w = u THEN v + 1 ELSE v
      BY <2>2, <3>1
    <3>3. w \in d.exchanged <=> (w = u \/ w \in c.exchanged)
      BY <2>2
    <3>4. ZusdOf(c, w) = [sum |-> v, known |-> w \in c.exchanged]
      BY DEF ZusdOf
    <3> HIDE DEF v
    <3>5. ZusdOf(d, w) = [sum |-> IF w = u THEN v + 1 ELSE v, known |-> w \in d.exchanged]
      BY <3>2 DEF ZusdOf
    <3>6. CASE w = u
      <4>1. ZusdOf(d, w) = [sum |-> v + 1, known |-> TRUE]
        BY <3>3, <3>5, <3>6
      <4> QED
        BY <2>3, <2>3a, <3>2, <3>4, <3>6, <4>1 DEF SaysZusd
    <3>7. CASE w # u
      <4>1. ZusdOf(d, w) = ZusdOf(c, w)
        BY <3>3, <3>4, <3>5, <3>7
      <4> QED
        BY <2>3, <2>3a, <3>2, <3>4, <3>7, <4>1 DEF SaysZusd
    <3> QED
      BY <3>6, <3>7
  <2>6. \A k \in ZkdxFacts : Tells(k, Emits("Exchange", u, Pool, 1, 0), OnChain(k, c), OnChain(k, d))
    BY <2>3, <2>4, <2>5, ZkdxOne
  <2>7. Exchanged(c, u).chain = d /\ Exchanged(c, u).events = Emits("Exchange", u, Pool, 1, 0)
    BY <2>1 DEF Exchanged, Becomes
  <2> QED
    BY <2>2, <2>6, <2>7 DEF ZkdxGood
<1>4. ZkdxGood(c, RedeemedZusd(c, u))
  <2>0. PICK Z, L : /\ Z = [c.zusd EXCEPT ![u] = @ - 1]
                    /\ L = [c.lost EXCEPT ![u] = IF u \in c.exchanged THEN @ ELSE @ + 1]
    OBVIOUS
  <2>0a. /\ Z \in [User -> Int] /\ L \in [User -> Int]
         /\ \A w \in User : Z[w] = IF w = u THEN c.zusd[w] - 1 ELSE c.zusd[w]
         /\ \A w \in User : L[w] = IF w = u /\ u \notin c.exchanged THEN c.lost[w] + 1 ELSE c.lost[w]
    BY <1>1, <2>0
  <2>1. PICK d : d = [c EXCEPT !.zusd[u] = @ - 1, !.lost[u] = IF u \in c.exchanged THEN @ ELSE @ + 1]
    OBVIOUS
  <2>1a. d = [c EXCEPT !.zusd = Z, !.lost = L]
    BY <2>0, <2>1 DEF LedgerChains
  <2>2. /\ d \in LedgerChains /\ d.block = c.block /\ d.staked = c.staked /\ d.got = c.got
        /\ d.exchanged = c.exchanged
        /\ \A w \in User : d.zusd[w] = IF w = u THEN c.zusd[w] - 1 ELSE c.zusd[w]
        /\ \A w \in User : d.lost[w] = IF w = u /\ u \notin c.exchanged THEN c.lost[w] + 1 ELSE c.lost[w]
    BY <1>1, <2>0a, <2>1a DEF LedgerChains
  <2>3. PICK e : e = Emitted("Redeem", u, Pool, 1, 0)
    OBVIOUS
  <2>3a. IsZkdx(e) /\ e.kind = "Redeem" /\ e.from = u /\ e.to = Pool /\ e.amount = 1
    BY <1>2, <2>3, ZkdxEvent
  <2>4. StakedSaid(c, d, e)
    BY <2>2, <2>3, <2>3a, StakedSame
  <2>5. ZusdSaid(c, d, e)
    <3> SUFFICES ASSUME NEW w \in User PROVE SaysZusd(w, ZusdOf(c, w), e, ZusdOf(d, w))
      BY DEF ZusdSaid
    <3>1. c.zusd[w] \in Int /\ c.got[w] \in Int /\ c.lost[w] \in Int
      BY <1>1
    <3> DEFINE v == c.zusd[w] - c.got[w] + c.lost[w]
    <3>2. v \in Int /\ d.zusd[w] - d.got[w] + d.lost[w] = IF w = u /\ u \in c.exchanged THEN v - 1 ELSE v
      BY <2>2, <3>1
    <3>4. ZusdOf(c, w) = [sum |-> v, known |-> w \in c.exchanged]
      BY DEF ZusdOf
    <3> HIDE DEF v
    <3>5. ZusdOf(d, w) = [sum |-> IF w = u /\ u \in c.exchanged THEN v - 1 ELSE v, known |-> w \in c.exchanged]
      BY <2>2, <3>2 DEF ZusdOf
    <3>6. CASE w = u
      <4>1. CASE u \in c.exchanged
        <5>1. ZusdOf(c, w) = [sum |-> v, known |-> TRUE] /\ ZusdOf(d, w) = [sum |-> v - 1, known |-> TRUE]
          BY <3>4, <3>5, <3>6, <4>1
        <5> QED
          BY <2>3a, <3>2, <3>6, <5>1 DEF SaysZusd
      <4>2. CASE u \notin c.exchanged
        <5>0. (w \in c.exchanged) = FALSE
          BY <3>6, <4>2
        <5>1. ZusdOf(c, w) = [sum |-> v, known |-> FALSE] /\ ZusdOf(d, w) = [sum |-> v, known |-> FALSE]
          BY <3>4, <3>5, <3>6, <4>2, <5>0, Zenon
        <5> QED
          BY <2>3a, <3>2, <3>6, <5>1 DEF SaysZusd
      <4> QED
        BY <4>1, <4>2
    <3>7. CASE w # u
      <4>1. ZusdOf(d, w) = ZusdOf(c, w)
        BY <3>4, <3>5, <3>7
      <4> QED
        BY <2>3, <2>3a, <3>2, <3>4, <3>7, <4>1 DEF SaysZusd
    <3> QED
      BY <3>6, <3>7
  <2>6. \A k \in ZkdxFacts : Tells(k, Emits("Redeem", u, Pool, 1, 0), OnChain(k, c), OnChain(k, d))
    BY <2>3, <2>4, <2>5, ZkdxOne
  <2>7. RedeemedZusd(c, u).chain = d /\ RedeemedZusd(c, u).events = Emits("Redeem", u, Pool, 1, 0)
    BY <2>1 DEF RedeemedZusd, Becomes
  <2> QED
    BY <2>2, <2>6, <2>7 DEF ZkdxGood
<1> QED
  BY <1>3, <1>4

(* Sending zUSD changes nothing that the index is taken to know. *)
LEMMA ZkdxSends ==
  ASSUME NEW c \in LedgerChains, NEW u \in User, NEW v \in User
  PROVE  ZkdxGood(c, ZusdSent(c, u, v))
<1>1. /\ c.zusd \in [User -> Int] /\ c.got \in [User -> Int] /\ c.lost \in [User -> Int]
  BY DEF LedgerChains
<1>2. PICK Z, G : Z = Transferred(c.zusd, u, v) /\ G = Transferred(c.got, u, v)
  OBVIOUS
<1>3. /\ Z \in [User -> Int] /\ G \in [User -> Int]
      /\ \A w \in User : /\ Z[w] = c.zusd[w] - (IF w = u THEN 1 ELSE 0) + (IF w = v THEN 1 ELSE 0)
                         /\ G[w] = c.got[w] - (IF w = u THEN 1 ELSE 0) + (IF w = v THEN 1 ELSE 0)
  BY <1>1, <1>2 DEF Transferred
<1>4. PICK d : d = [c EXCEPT !.zusd = Z, !.got = G]
  OBVIOUS
<1>5. /\ d \in LedgerChains /\ d.block = c.block /\ d.staked = c.staked /\ d.lost = c.lost
      /\ d.exchanged = c.exchanged /\ d.zusd = Z /\ d.got = G
  BY <1>3, <1>4 DEF LedgerChains
<1>6. \A w \in User : d.zusd[w] - d.got[w] + d.lost[w] = c.zusd[w] - c.got[w] + c.lost[w]
  <2> TAKE w \in User
  <2>1. c.zusd[w] \in Int /\ c.got[w] \in Int /\ c.lost[w] \in Int
    BY <1>1
  <2> QED
    BY <1>3, <1>5, <2>1
<1>7. \A k \in ZkdxFacts : OnChain(k, d) = OnChain(k, c)
  <2>1. \A p \in Staking, w \in User : OnChain(Fact("staked", p, w), d) = OnChain(Fact("staked", p, w), c)
    BY <1>5 DEF OnChain, Fact
  <2>2. ASSUME NEW w \in User PROVE OnChain(Fact("zusd", w, w), d) = OnChain(Fact("zusd", w, w), c)
    <3>1. \A b : OnChain(Fact("zusd", w, w), b) = ZusdOf(b, w)
      BY DEF OnChain, Fact, ZusdOf
    <3>2. ZusdOf(d, w) = ZusdOf(c, w)
      BY <1>5, <1>6 DEF ZusdOf
    <3> QED
      BY <3>1, <3>2
  <2> QED
    BY <2>1, <2>2 DEF ZkdxFacts
<1>8. \A k \in ZkdxFacts : Tells(k, <<>>, OnChain(k, c), OnChain(k, d))
  BY <1>7, TellsNothing
<1>9. ZusdSent(c, u, v).chain = d /\ ZusdSent(c, u, v).events = <<>>
  BY <1>2, <1>4 DEF ZusdSent, Becomes
<1> QED
  BY <1>5, <1>8, <1>9 DEF ZkdxGood

(* What zkDX's transactions change is what their events tell. *)
LEMMA ZkdxTells ==
  ASSUME NEW c \in LedgerChains, NEW t \in ZkdxChanges(c)
  PROVE  ZkdxGood(c, t)
<1>1. ASSUME NEW kind \in Trades, NEW u \in User PROVE ZkdxGood(c, Becomes(c, Emits(kind, u, Pool, 1, 0)))
  <2>1. \A k \in ZkdxFacts : Tells(k, Emits(kind, u, Pool, 1, 0), OnChain(k, c), OnChain(k, c))
    BY TradeTellsNothing
  <2> QED
    BY <2>1 DEF ZkdxGood, Becomes
<1>2. ASSUME NEW u \in User PROVE ZkdxGood(c, TradedTwice(c, u, "Increase", "BuyLP"))
  <2>1. "Increase" \in Trades /\ "BuyLP" \in Trades
    BY DEF Trades
  <2>2. \A k \in ZkdxFacts : Tells(k, Emits("Increase", u, Pool, 1, 0), OnChain(k, c), OnChain(k, c))
    BY <2>1, TradeTellsNothing
  <2>3. \A k \in ZkdxFacts : Tells(k, Emits("BuyLP", u, Pool, 2, 0), OnChain(k, c), OnChain(k, c))
    BY <2>1, TradeTellsNothing
  <2>4. \A k \in ZkdxFacts : Tells(k, Emits("Increase", u, Pool, 1, 0) \o Emits("BuyLP", u, Pool, 2, 0),
                                   OnChain(k, c), OnChain(k, c))
    BY <2>2, <2>3, TellsMore
  <2>5. /\ TradedTwice(c, u, "Increase", "BuyLP").chain = c
        /\ TradedTwice(c, u, "Increase", "BuyLP").events = Emits("Increase", u, Pool, 1, 0) \o Emits("BuyLP", u, Pool, 2, 0)
    BY DEF TradedTwice, Becomes
  <2> QED
    BY <2>4, <2>5 DEF ZkdxGood
<1>3. CASE \E p \in Staking, u \in User : t = ZkdxStaked(c, p, u)
  BY <1>3, ZkdxStakes
<1>4. CASE \E p \in Staking, u \in User : c.staked[p][u] > 0 /\ t = ZkdxWithdrawn(c, p, u)
  BY <1>4, ZkdxStakes
<1>5. CASE \E u \in User : t = Exchanged(c, u) \/ t = RedeemedZusd(c, u)
  BY <1>5, ZkdxExchanges
<1>6. CASE \E u \in User : t = TradedTwice(c, u, "Increase", "BuyLP")
  BY <1>2, <1>6
<1>7. CASE \E u \in User, v \in User : t = ZusdSent(c, u, v)
  BY <1>7, ZkdxSends
<1>8. CASE \E kind \in Trades, u \in User : t = Becomes(c, Emits(kind, u, Pool, 1, 0))
  BY <1>1, <1>8
<1> QED
  BY <1>3, <1>4, <1>5, <1>6, <1>7, <1>8 DEF ZkdxChanges, ZkdxTrades

(* The store of zkDX and AGX. *)
LEMMA BalanceFacts ==
  ASSUME NEW ix, "balances" \in DOMAIN ix, NEW id, NEW n
  PROVE  /\ "balances" \in DOMAIN Deposited(ix, id, n)
         /\ DOMAIN Deposited(ix, id, n).balances = DOMAIN ix.balances \cup {id}
         /\ \A j : Load(Deposited(ix, id, n).balances, j, 0) =
                     IF j = id THEN Load(ix.balances, id, 0) + n ELSE Load(ix.balances, j, 0)
         /\ "balances" \in DOMAIN Withdrawn(ix, id, n)
         /\ DOMAIN Withdrawn(ix, id, n).balances = DOMAIN ix.balances
         /\ \A j : Load(Withdrawn(ix, id, n).balances, j, 0) =
                     IF j = id /\ id \in DOMAIN ix.balances THEN Load(ix.balances, id, 0) - n ELSE Load(ix.balances, j, 0)
<1>1. PICK st : st = Save(ix.balances, id, Load(ix.balances, id, 0) + n)
  OBVIOUS
<1>2. "balances" \in DOMAIN Deposited(ix, id, n) /\ Deposited(ix, id, n).balances = st
  BY <1>1 DEF Deposited
<1>2a. PICK m : m = Load(ix.balances, id, 0) + n
  OBVIOUS
<1>2b. st = Save(ix.balances, id, m)
  BY <1>1, <1>2a
<1>2c. PICK store : store = ix.balances
  OBVIOUS
<1>2d. DOMAIN st = DOMAIN store \cup {id} /\ \A j, new : Load(st, j, new) = IF j = id THEN m ELSE Load(store, j, new)
  <2>1. st = Save(store, id, m)
    BY <1>2b, <1>2c
  <2> QED
    BY <2>1 DEF Save, Load
<1>3. /\ DOMAIN st = DOMAIN ix.balances \cup {id}
      /\ \A j : Load(st, j, 0) = IF j = id THEN Load(ix.balances, id, 0) + n ELSE Load(ix.balances, j, 0)
  BY <1>2a, <1>2c, <1>2d
<1>4. /\ "balances" \in DOMAIN Withdrawn(ix, id, n)
      /\ DOMAIN Withdrawn(ix, id, n).balances = DOMAIN ix.balances
      /\ \A j : Load(Withdrawn(ix, id, n).balances, j, 0) =
                     IF j = id /\ id \in DOMAIN ix.balances THEN Load(ix.balances, id, 0) - n ELSE Load(ix.balances, j, 0)
  BY DEF Withdrawn, Load
<1> QED
  BY <1>2, <1>3, <1>4

(* zkDX's handlers do what the events say. *)
LEMMA ZkdxHears ==
  ASSUME NEW ix, "balances" \in DOMAIN ix, "events" \in DOMAIN ix, NEW e,
         NEW k \in ZkdxFacts, NEW w, Makes(k, InIndex(k, ix), e, w)
  PROVE  InIndex(k, ZkdxHandled(ix, e)) = w
<1> DEFINE jx == ZkdxHandled(ix, e)
           ids == <<e.to, e.from>>
           zid == <<"zusd", e.from>>
<1>0. IsZkdx(e)
  <2>1. CASE \E p \in Staking, u \in User : k = Fact("staked", p, u)
    BY <2>1, SaysByName DEF SaysStaked
  <2>2. CASE \E u \in User : k = Fact("zusd", u, u)
    BY <2>2, SaysByName DEF SaysZusd
  <2> QED
    BY <2>1, <2>2 DEF ZkdxFacts
<1>0a. \/ e.kind = "Stake" /\ e.to = "eth"
       \/ e.kind = "Stake" /\ e.to = "usdc"
       \/ e.kind = "Withdraw" /\ e.to = "eth"
       \/ e.kind = "Withdraw" /\ e.to = "usdc"
       \/ e.kind = "Exchange"
       \/ e.kind = "Redeem"
       \/ e.kind \in Trades
  BY <1>0 DEF IsZkdx, ZkdxKinds, Staking, Trades
<1>1. \A kx : "balances" \in DOMAIN kx => TradeRecorded(kx, e).balances = kx.balances
  BY DEF TradeRecorded
<1>2. /\ e.kind = "Stake" => jx = Deposited(ix, ids, e.amount)
      /\ e.kind = "Withdraw" => jx = Withdrawn(ix, ids, e.amount)
      /\ e.kind = "Exchange" => jx = TradeRecorded(Deposited(ix, zid, e.amount), e)
      /\ e.kind = "Redeem" => jx = IF zid \in DOMAIN ix.balances THEN TradeRecorded(Withdrawn(ix, zid, e.amount), e) ELSE ix
      /\ e.kind \in Trades => jx = TradeRecorded(ix, e)
  BY <1>0a DEF ZkdxHandled, HandleStakeEth, HandleStakeUsdc, HandleWithdrawEth, HandleWithdrawUsdc, HandleExchange,
         HandleZusdRedeem, HandleBuyLP, HandleRedeemLP, HandleIncrease, HandleDecrease, Trades
<1> DEFINE bal(j) == Load(ix.balances, j, 0)
<1> HIDE DEF jx, ids, zid
<1>3. /\ e.kind = "Stake" => /\ DOMAIN jx.balances = DOMAIN ix.balances \cup {ids}
                             /\ \A j : Load(jx.balances, j, 0) = IF j = ids THEN bal(j) + e.amount ELSE bal(j)
      /\ e.kind = "Withdraw" => /\ DOMAIN jx.balances = DOMAIN ix.balances
                                /\ \A j : Load(jx.balances, j, 0) =
                                     IF j = ids /\ ids \in DOMAIN ix.balances THEN bal(j) - e.amount ELSE bal(j)
      /\ e.kind = "Exchange" => /\ DOMAIN jx.balances = DOMAIN ix.balances \cup {zid}
                                /\ \A j : Load(jx.balances, j, 0) = IF j = zid THEN bal(j) + e.amount ELSE bal(j)
      /\ e.kind = "Redeem" => /\ DOMAIN jx.balances = DOMAIN ix.balances
                              /\ \A j : Load(jx.balances, j, 0) =
                                   IF j = zid /\ zid \in DOMAIN ix.balances THEN bal(j) - e.amount ELSE bal(j)
      /\ e.kind \in Trades => /\ jx.balances = ix.balances
  BY <1>1, <1>2, BalanceFacts
<1>4. /\ \A p, u : <<p, u>> = ids <=> p = e.to /\ u = e.from
      /\ \A p, u : <<p, u>> = zid <=> p = "zusd" /\ u = e.from
      /\ "zusd" \notin Staking
  BY DEF ids, zid, Staking
<1>5. \A j : j \notin DOMAIN ix.balances => bal(j) = 0
  BY DEF Load
<1> HIDE DEF bal
<1>6. ASSUME NEW p \in Staking, NEW u \in User, k = Fact("staked", p, u) PROVE InIndex(k, jx) = w
  <2>1. InIndex(k, ix) = bal(<<p, u>>) /\ InIndex(k, jx) = Load(jx.balances, <<p, u>>, 0)
    BY <1>6 DEF InIndex, Fact, bal
  <2>2. SaysStaked(p, u, bal(<<p, u>>), e, w)
    BY <1>6, <2>1, SaysByName
  <2>3. p # "zusd"
    BY DEF Staking
  <2>4. CASE e.kind = "Stake"
    BY <1>3, <1>4, <2>1, <2>2, <2>4 DEF SaysStaked
  <2>5. CASE e.kind = "Withdraw"
    BY <1>3, <1>4, <1>5, <2>1, <2>2, <2>5 DEF SaysStaked
  <2>6. CASE e.kind \in {"Exchange", "Redeem"}
    BY <1>3, <1>4, <2>1, <2>2, <2>3, <2>6 DEF SaysStaked
  <2>7. CASE e.kind \in Trades
    <3>1. e.kind \notin {"Stake", "Withdraw"}
      BY <2>7 DEF Trades
    <3> QED
      BY <1>3, <2>1, <2>2, <2>7, <3>1 DEF SaysStaked, bal
  <2> QED
    BY <1>0a, <2>4, <2>5, <2>6, <2>7
<1>7. ASSUME NEW u \in User, k = Fact("zusd", u, u) PROVE InIndex(k, jx) = w
  <2> DEFINE id == <<"zusd", u>>
             v == [sum |-> bal(id), known |-> id \in DOMAIN ix.balances]
  <2>1. InIndex(k, ix) = v /\ InIndex(k, jx) = [sum |-> Load(jx.balances, id, 0), known |-> id \in DOMAIN jx.balances]
    BY <1>7 DEF InIndex, Fact, bal
  <2>2. SaysZusd(u, v, e, w)
    BY <1>7, <2>1, SaysByName
  <2>3. /\ id = zid <=> u = e.from
        /\ e.kind \in {"Stake", "Withdraw"} => id # ids
    BY <1>0, <1>4 DEF IsZkdx
  <2>4. v.sum = bal(id) /\ (v.known <=> id \in DOMAIN ix.balances)
    OBVIOUS
  <2> HIDE DEF id
  <2>5. CASE e.kind \in {"Stake", "Withdraw"}
    <3>1. w = v
      BY <2>2, <2>5 DEF SaysZusd
    <3>2. Load(jx.balances, id, 0) = bal(id) /\ (id \in DOMAIN jx.balances <=> id \in DOMAIN ix.balances)
      BY <1>3, <2>3, <2>5
    <3> QED
      BY <2>1, <3>1, <3>2
  <2>6. CASE e.kind = "Exchange"
    <3>1. w = IF e.from = u THEN [sum |-> v.sum + 1, known |-> TRUE] ELSE v
      BY <2>2, <2>6 DEF SaysZusd
    <3>2. e.from = u => e.amount = 1
      BY <2>2, <2>6 DEF SaysZusd
    <3>3. /\ Load(jx.balances, id, 0) = IF e.from = u THEN bal(id) + 1 ELSE bal(id)
          /\ id \in DOMAIN jx.balances <=> (id \in DOMAIN ix.balances \/ e.from = u)
      BY <1>3, <2>3, <2>6, <3>2
    <3>4. CASE e.from = u
      BY <2>1, <2>4, <3>1, <3>3, <3>4
    <3>5. CASE e.from # u
      BY <2>1, <2>4, <3>1, <3>3, <3>5
    <3> QED
      BY <3>4, <3>5
  <2>7. CASE e.kind = "Redeem"
    <3>1. w = IF e.from = u THEN [sum |-> IF v.known THEN v.sum - 1 ELSE v.sum, known |-> v.known] ELSE v
      BY <2>2, <2>7 DEF SaysZusd
    <3>2. e.from = u => e.amount = 1
      BY <2>2, <2>7 DEF SaysZusd
    <3>3. /\ Load(jx.balances, id, 0) = IF e.from = u /\ v.known THEN bal(id) - 1 ELSE bal(id)
          /\ id \in DOMAIN jx.balances <=> id \in DOMAIN ix.balances
      BY <1>3, <2>3, <2>4, <2>7, <3>2
    <3> QED
      BY <2>1, <2>4, <3>1, <3>3
  <2>8. CASE e.kind \in Trades
    <3>1. e.kind \notin {"Exchange", "Redeem"}
      BY <2>8 DEF Trades
    <3>2. w = v
      BY <2>2, <3>1 DEF SaysZusd
    <3> QED
      BY <1>3, <2>1, <2>8, <3>2 DEF bal
  <2> QED
    BY <1>0a, <2>5, <2>6, <2>7, <2>8
<1> QED
  BY <1>6, <1>7 DEF ZkdxFacts, jx

------------------------------------------------------------------------------
(* The queue. *)

(* What any transaction emits is a sequence of events. *)
LEMMA PoolEmits ==
  \A c, issuer : \A t \in PoolTransactions(c, issuer) : t.events \in Seq(Range(t.events))
<1> SUFFICES ASSUME NEW c, NEW issuer, NEW t \in PoolTransactions(c, issuer)
             PROVE  t.events \in Seq(Range(t.events))
  OBVIOUS
<1>1. \A kind, from, to, amount, total :
        Emits(kind, from, to, amount, total) \in Seq(Range(Emits(kind, from, to, amount, total)))
  <2> TAKE kind, from, to, amount, total
  <2>1. PICK e : e = Emitted(kind, from, to, amount, total)
    OBVIOUS
  <2>2. IsEvents(<<e>>, {kind})
    BY <2>1, EmittedFacts, OneEvent DEF Has
  <2> QED
    BY <2>1, <2>2 DEF IsEvents, Emits, Emitted
<1>2. \E kind, from, to, amount, total : t.events = Emits(kind, from, to, amount, total)
  <2>1. CASE \E u : t = Issued(c, issuer, u)
    BY <2>1 DEF Issued, Becomes
  <2>2. CASE \E u : t = Redeemed(c, u, issuer)
    BY <2>2 DEF Redeemed, Becomes
  <2>3. CASE \E u : t = Lent(c, u)
    BY <2>3 DEF Lent, Becomes
  <2>4. CASE \E u, i : t = PaidBack(c, u, i)
    BY <2>4 DEF PaidBack, Becomes
  <2>5. CASE \E u, v : t = Sent(c, u, v)
    BY <2>5 DEF Sent, Becomes
  <2> QED
    BY <2>1, <2>2, <2>3, <2>4, <2>5 DEF PoolTransactions
<1> QED
  BY <1>1, <1>2

(* The events of every transaction are a sequence. *)
LEMMA AllEmit ==
  ASSUME protocol \in Protocols, NEW t \in Transactions
  PROVE  t.events \in Seq(Range(t.events))
<1>1. CASE Recording
  BY <1>1, TransactionEvents DEF IsEvents
<1>2. CASE ~Recording
  <2>1. protocol \in {"shoebill", "example"}
    BY <1>2 DEF Recording
  <2> QED
    BY <2>1, PoolEmits DEF Transactions
<1> QED
  BY <1>1, <1>2

Waits == protocol \in Protocols /\ queue \in Seq(Range(queue))

(* The queue is one of events, whatever happens. *)
LEMMA WaitsAtStart == IndexInit => Waits
<1> SUFFICES ASSUME IndexInit PROVE Waits
  OBVIOUS
<1>1. <<>> \in Seq(Range(<<>>))
  BY NoEvents DEF IsEvents
<1> QED
  BY <1>1 DEF IndexInit, Waits

(* The queue stays a queue. *)
LEMMA WaitsOn ==
  ASSUME Waits, IndexNext
  PROVE  Waits'
<1>1. CASE Transact
  <2>1. \A t \in Transactions : t.events \in Seq(Range(t.events))
    BY AllEmit DEF Waits
  <2>2. PICK t \in Transactions : Lengthened(queue, t.events, chain.block, txs + 1, queue')
    BY <1>1, <2>1, Transacts DEF Waits
  <2> QED
    BY <1>1, <2>2 DEF Lengthened, Waits, Transact
<1>2. CASE Handle
  <2>1. queue' = Tail(queue) /\ queue # <<>> /\ protocol' = protocol
    BY <1>2 DEF Handle
  <2> QED
    BY <2>1, WaitingShrinks DEF Waits
<1>3. CASE Seal \/ NextBlock
  BY <1>3 DEF Seal, NextBlock, Waits
<1> QED
  BY <1>1, <1>2, <1>3 DEF IndexNext

(* Facts that nothing changed. *)
LEMMA KnownStays ==
  ASSUME NEW k, Faithful(k), queue' = queue, OnChain(k, chain') = OnChain(k, chain), InIndex(k, index') = InIndex(k, index)
  PROVE  Faithful(k)'
<1>1. Tells(k, queue', InIndex(k, index'), OnChain(k, chain'))
  BY DEF Faithful
<1> QED
  BY <1>1 DEF Faithful

------------------------------------------------------------------------------
(* zkDX. *)

ZkdxInv ==
  /\ chain \in LedgerChains
  /\ \A k \in ZkdxFacts : Faithful(k)

(* Where the ledgers start: nobody has anything. *)
LEMMA LedgerStarts ==
  /\ LedgerChain \in LedgerChains
  /\ \A p \in Staking, u \in User : LedgerChain.staked[p][u] = 0
  /\ \A u \in User : LedgerChain.zusd[u] = 0 /\ LedgerChain.got[u] = 0 /\ LedgerChain.lost[u] = 0
  /\ \A u \in User \cup {Pool} : LedgerChain.alp[u] = 0
  /\ LedgerChain.exchanged = {} /\ LedgerChain.supply = 0
BY DEF LedgerChain, LedgerChains

(* zkDX's invariant holds at the start. *)
LEMMA ZkdxStarts ==
  ASSUME IndexInit, protocol = "zkdx"
  PROVE  ZkdxInv
<1>1. chain = LedgerChain /\ index = LedgerIndex /\ queue = <<>>
  BY DEF IndexInit, FirstChain, FirstIndex
<1>2. index.balances = Nothing /\ "balances" \in DOMAIN index /\ "events" \in DOMAIN index
  BY <1>1 DEF LedgerIndex
<1>3. \A j : Load(index.balances, j, 0) = 0 /\ j \notin DOMAIN index.balances
  BY <1>2 DEF Load, Nothing
<1>4. ASSUME NEW p \in Staking, NEW u \in User
      PROVE  InIndex(Fact("staked", p, u), index) = OnChain(Fact("staked", p, u), chain)
  BY <1>1, <1>3, LedgerStarts DEF InIndex, OnChain, Fact
<1>5. ASSUME NEW u \in User
      PROVE  InIndex(Fact("zusd", u, u), index) = OnChain(Fact("zusd", u, u), chain)
  <2>1. chain.zusd[u] - chain.got[u] + chain.lost[u] = 0
    BY <1>1, LedgerStarts
  <2>2. (u \in chain.exchanged) = FALSE /\ (<<"zusd", u>> \in DOMAIN index.balances) = FALSE
    BY <1>1, <1>3, LedgerStarts
  <2>3. OnChain(Fact("zusd", u, u), chain) = [sum |-> 0, known |-> FALSE]
    BY <2>1, <2>2 DEF OnChain, Fact
  <2>4. InIndex(Fact("zusd", u, u), index) = [sum |-> 0, known |-> FALSE]
    BY <1>3, <2>2 DEF InIndex, Fact
  <2> QED
    BY <2>3, <2>4
<1>6. \A k \in ZkdxFacts : InIndex(k, index) = OnChain(k, chain)
  BY <1>4, <1>5 DEF ZkdxFacts
<1>7. \A k \in ZkdxFacts : Faithful(k)
  BY <1>1, <1>6, KnownAtStart
<1> QED
  BY <1>1, <1>2, <1>7, LedgerStarts DEF ZkdxInv

(* Every step keeps zkDX's invariant. *)
LEMMA ZkdxStep ==
  ASSUME IndexInv, Waits, protocol = "zkdx", ZkdxInv, IndexNext
  PROVE  ZkdxInv'
<1>0. ZkdxFacts' = ZkdxFacts /\ LedgerChains' = LedgerChains
  OBVIOUS
<1>1. CASE Transact
  <2>1. Transactions = ZkdxChanges(chain)
    BY DEF Transactions
  <2>2. \A t \in Transactions : t.events \in Seq(Range(t.events))
    BY AllEmit DEF Waits
  <2>3. PICK t \in Transactions : chain' = t.chain /\ Lengthened(queue, t.events, chain.block, txs + 1, queue')
    BY <1>1, <2>2, Transacts DEF Waits
  <2>4. index' = index
    BY <1>1 DEF Transact
  <2>5. ZkdxGood(chain, t)
    BY <2>1, ZkdxTells DEF ZkdxInv
  <2>6. ASSUME NEW k \in ZkdxFacts PROVE Faithful(k)'
    BY <2>3, <2>4, <2>5, KnownGrows DEF ZkdxInv, ZkdxGood
  <2> QED
    BY <1>0, <2>3, <2>4, <2>5, <2>6 DEF ZkdxInv, ZkdxGood
<1>2. CASE Handle
  <2>1. queue # <<>> /\ queue' = Tail(queue) /\ chain' = chain /\ index' = HandledBy(Head(queue))
    BY <1>2 DEF Handle
  <2>2. index' = ZkdxHandled(index, Head(queue))
    BY <2>1 DEF HandledBy
  <2>2a. "balances" \in DOMAIN index /\ "events" \in DOMAIN index
    BY DEF IndexInv, EntitiesAreFiled, Recording, Protocols
  <2>3. ASSUME NEW k \in ZkdxFacts PROVE Faithful(k)'
    <3>1. \A w : Makes(k, InIndex(k, index), Head(queue), w) => InIndex(k, index') = w
      BY <2>2, <2>2a, ZkdxHears
    <3> QED
      BY <2>1, <3>1, KnownShrinks DEF ZkdxInv
  <2> QED
    BY <1>0, <2>1, <2>3 DEF ZkdxInv
<1>3. CASE Seal
  <2>1. chain' = chain /\ queue' = queue /\ index' = index
    BY <1>3 DEF Seal
  <2>2. ASSUME NEW k \in ZkdxFacts PROVE Faithful(k)'
    BY <2>1, KnownStays DEF ZkdxInv
  <2> QED
    BY <1>0, <2>1, <2>2 DEF ZkdxInv
<1>4. CASE NextBlock
  <2>1. chain' = [chain EXCEPT !.block = @ + 1] /\ queue' = queue /\ index' = index
    BY <1>4 DEF NextBlock
  <2>2. /\ chain' \in LedgerChains /\ chain'.staked = chain.staked /\ chain'.zusd = chain.zusd /\ chain'.got = chain.got
        /\ chain'.lost = chain.lost /\ chain'.exchanged = chain.exchanged
    BY <2>1 DEF ZkdxInv, LedgerChains
  <2>3. ASSUME NEW k \in ZkdxFacts PROVE OnChain(k, chain') = OnChain(k, chain)
    <3>1. k.of = "staked" \/ k.of = "zusd"
      BY DEF ZkdxFacts, Fact
    <3> QED
      BY <2>2, <3>1 DEF OnChain
  <2>4. ASSUME NEW k \in ZkdxFacts PROVE Faithful(k)'
    BY <2>1, <2>3, KnownStays DEF ZkdxInv
  <2> QED
    BY <1>0, <2>1, <2>2, <2>4 DEF ZkdxInv
<1> QED
  BY <1>1, <1>2, <1>3, <1>4 DEF IndexNext

(* zkDX's index matches its contracts once nothing waits. *)
LEMMA ZkdxMatched ==
  ASSUME ZkdxInv, queue = <<>>
  PROVE  ZkdxMatches(index, chain)
<1>1. \A k \in ZkdxFacts : InIndex(k, index) = OnChain(k, chain)
  BY KnownAtEnd DEF ZkdxInv
<1>2. ASSUME NEW p \in Staking, NEW u \in User PROVE Load(index.balances, <<p, u>>, 0) = chain.staked[p][u]
  <2>1. Fact("staked", p, u) \in ZkdxFacts
    BY DEF ZkdxFacts
  <2> QED
    BY <1>1, <2>1 DEF InIndex, OnChain, Fact
<1>3. ASSUME NEW u \in User
      PROVE  Load(index.balances, <<"zusd", u>>, 0) = chain.zusd[u] - chain.got[u] + chain.lost[u]
  <2>1. Fact("zusd", u, u) \in ZkdxFacts
    BY DEF ZkdxFacts
  <2>2. InIndex(Fact("zusd", u, u), index).sum = OnChain(Fact("zusd", u, u), chain).sum
    BY <1>1, <2>1
  <2>3. InIndex(Fact("zusd", u, u), index).sum = Load(index.balances, <<"zusd", u>>, 0)
    BY DEF InIndex, Fact
  <2>4. OnChain(Fact("zusd", u, u), chain).sum = chain.zusd[u] - chain.got[u] + chain.lost[u]
    BY DEF OnChain, Fact
  <2> QED
    BY <2>2, <2>3, <2>4
<1> QED
  BY <1>2, <1>3 DEF ZkdxMatches

------------------------------------------------------------------------------
(* Balances and their sum. *)

(* A sum of which one summand changed.                                     *)
OneChanged(f, g, S, x) ==
  x \in S /\ (\A y \in S : f[y] \in Nat /\ g[y] \in Nat) /\ \A y \in S \ {x} : f[y] = g[y]

(* The sum changes by as much as the summand did. *)
LEMMA SumOneChanged ==
  ASSUME NEW S, IsFiniteSet(S), NEW f, NEW g, NEW x, OneChanged(f, g, S, x)
  PROVE  /\ SumOver(g, S) + f[x] = SumOver(f, S) + g[x]
         /\ SumOver(f, S) \in Nat /\ SumOver(g, S) \in Nat /\ f[x] \in Nat /\ g[x] \in Nat
<1>1. /\ x \in S /\ (\A y \in S : f[y] \in Nat) /\ (\A y \in S : g[y] \in Nat)
      /\ \A y \in S \ {x} : f[y] \in Nat /\ f[y] = g[y]
  BY DEF OneChanged
<1>2. IsFiniteSet(S \ {x})
  BY FS_RemoveElement
<1>3. SumOver(f, S) = f[x] + SumOver(f, S \ {x})
  BY <1>1, SumRemove
<1>4. SumOver(g, S) = g[x] + SumOver(g, S \ {x})
  BY <1>1, SumRemove
<1>5. SumOver(f, S \ {x}) = SumOver(g, S \ {x})
  BY <1>1, <1>2, SumSame
<1>6. SumOver(f, S) \in Nat /\ SumOver(g, S) \in Nat
  BY <1>1, SumIsNumber
<1>7. SumOver(f, S \ {x}) \in Nat
  BY <1>1, <1>2, SumIsNumber
<1> QED
  BY <1>1, <1>3, <1>4, <1>5, <1>6, <1>7

(* One more, or one less, for one account. *)
OneMore(f, x, g) == g = [f EXCEPT ![x] = @ + 1]
OneLess(f, x, g) == f[x] > 0 /\ g = [f EXCEPT ![x] = @ - 1]

(* The sum grows by one with the account. *)
LEMMA SumOneMore ==
  ASSUME NEW S, IsFiniteSet(S), NEW f \in [S -> Nat], NEW x \in S, NEW g, OneMore(f, x, g)
  PROVE  g \in [S -> Nat] /\ SumOver(g, S) = SumOver(f, S) + 1 /\ SumOver(f, S) \in Nat
<1>1. g \in [S -> Nat] /\ g[x] = f[x] + 1 /\ \A y \in S \ {x} : g[y] = f[y]
  BY DEF OneMore
<1>2. OneChanged(f, g, S, x)
  BY <1>1 DEF OneChanged
<1>3. /\ SumOver(g, S) + f[x] = SumOver(f, S) + g[x]
      /\ SumOver(f, S) \in Nat /\ SumOver(g, S) \in Nat /\ f[x] \in Nat /\ g[x] \in Nat
  BY <1>2, SumOneChanged
<1> QED
  BY <1>1, <1>3


(* One less. *)
LEMMA SumOneLess ==
  ASSUME NEW S, IsFiniteSet(S), NEW f \in [S -> Nat], NEW x \in S, NEW g, OneLess(f, x, g)
  PROVE  g \in [S -> Nat] /\ SumOver(g, S) = SumOver(f, S) - 1 /\ SumOver(f, S) \in Nat
<1>1. g \in [S -> Nat] /\ g[x] = f[x] - 1 /\ \A y \in S \ {x} : g[y] = f[y]
  BY DEF OneLess
<1>2. OneChanged(f, g, S, x)
  BY <1>1 DEF OneChanged
<1>3. /\ SumOver(g, S) + f[x] = SumOver(f, S) + g[x]
      /\ SumOver(f, S) \in Nat /\ SumOver(g, S) \in Nat /\ f[x] \in Nat /\ g[x] \in Nat
  BY <1>2, SumOneChanged
<1> QED
  BY <1>1, <1>3

(* A unit that goes from one account to another leaves the sum alone. *)
LEMMA SumTransferred ==
  ASSUME NEW S, IsFiniteSet(S), NEW f \in [S -> Nat], NEW x \in S, f[x] > 0, NEW y \in S,
         NEW g, g = Transferred(f, x, y)
  PROVE  /\ g \in [S -> Nat] /\ SumOver(g, S) = SumOver(f, S)
         /\ \A z \in S : g[z] = f[z] - (IF z = x THEN 1 ELSE 0) + (IF z = y THEN 1 ELSE 0)
<1>1. PICK m : m = [f EXCEPT ![x] = @ - 1]
  OBVIOUS
<1>2. m \in [S -> Nat] /\ m[x] = f[x] - 1 /\ \A z \in S \ {x} : m[z] = f[z]
  BY <1>1
<1>3. g = [m EXCEPT ![y] = @ + 1]
  BY <1>1 DEF Transferred
<1>4. g \in [S -> Nat] /\ g[y] = m[y] + 1 /\ \A z \in S \ {y} : g[z] = m[z]
  BY <1>2, <1>3
<1>5. OneChanged(f, m, S, x) /\ OneChanged(m, g, S, y)
  BY <1>2, <1>4 DEF OneChanged
<1>6. SumOver(m, S) + f[x] = SumOver(f, S) + m[x] /\ SumOver(f, S) \in Nat /\ SumOver(m, S) \in Nat
  BY <1>5, SumOneChanged
<1>7. SumOver(g, S) + m[y] = SumOver(m, S) + g[y] /\ SumOver(g, S) \in Nat
  BY <1>5, SumOneChanged
<1>8. \A z \in S : g[z] = f[z] - (IF z = x THEN 1 ELSE 0) + (IF z = y THEN 1 ELSE 0)
  BY <1>2, <1>4
<1>9. f[x] \in Nat /\ m[y] \in Nat
  BY <1>2
<1> QED
  BY <1>2, <1>4, <1>6, <1>7, <1>8, <1>9

------------------------------------------------------------------------------
(* AGX. *)

AgxFacts == {Fact("alp", u, u) : u \in User} \cup {Fact("proper", 0, 0)}
Account == User \cup {Pool}
IsIssue(e) == e.kind = "Transfer" /\ Zero \in {e.from, e.to}

(* There are finitely many accounts. *)
LEMMA AccountsFinite == IsFiniteSet(Account) /\ Pool \in Account /\ User \subseteq Account
BY AddressAssumption, FS_AddElement DEF Account

AlpSaid(c, d, e) == Proper(e) /\ \A u \in User : SaysMoved(u, c.alp[u], e, d.alp[u])

(* A transaction of one event tells what its event says. *)
LEMMA AgxOne ==
  ASSUME NEW c, NEW d, NEW kind, NEW who, NEW to, NEW n, NEW e, e = Emitted(kind, who, to, n, 0), AlpSaid(c, d, e)
  PROVE  \A k \in AgxFacts : Tells(k, Emits(kind, who, to, n, 0), OnChain(k, c), OnChain(k, d))
<1>1. ASSUME NEW u \in User
      PROVE  Makes(Fact("alp", u, u), OnChain(Fact("alp", u, u), c), e, OnChain(Fact("alp", u, u), d))
  <2>1. OnChain(Fact("alp", u, u), c) = c.alp[u] /\ OnChain(Fact("alp", u, u), d) = d.alp[u]
    BY DEF OnChain, Fact
  <2>2. SaysMoved(u, c.alp[u], e, d.alp[u])
    BY DEF AlpSaid
  <2> QED
    BY <2>1, <2>2, SaysByName
<1>2. Makes(Fact("proper", 0, 0), OnChain(Fact("proper", 0, 0), c), e, OnChain(Fact("proper", 0, 0), d))
  <2>1. OnChain(Fact("proper", 0, 0), c) = 0 /\ OnChain(Fact("proper", 0, 0), d) = 0
    BY DEF OnChain, Fact
  <2>2. SaysProper(0, e, 0)
    BY DEF AlpSaid, SaysProper
  <2> QED
    BY <2>1, <2>2, SaysByName
<1>3. \A k \in AgxFacts : Makes(k, OnChain(k, c), e, OnChain(k, d))
  BY <1>1, <1>2 DEF AgxFacts
<1> QED
  BY <1>3, TellsEmits

(* A transaction does what its events tell, and issues what it says.       *)
AgxGood(c, t) ==
  /\ t.chain \in LedgerChains /\ t.chain.block = c.block
  /\ SumOver(t.chain.alp, Account) = t.chain.supply
  /\ t.chain.supply = c.supply \/ \E e \in Range(t.events) : Has(e, Plain) /\ IsIssue(e)
  /\ \A k \in AgxFacts : Tells(k, t.events, OnChain(k, c), OnChain(k, t.chain))

(* What is emitted is that one event. *)
LEMMA EmittedIn ==
  ASSUME NEW kind, NEW from, NEW to, NEW n, NEW total, NEW e, e = Emitted(kind, from, to, n, total)
  PROVE  Range(Emits(kind, from, to, n, total)) = {e}
<1>1. PICK s : s = <<e>>
  OBVIOUS
<1>2. DOMAIN s = {1} /\ s[1] = e
  BY <1>1
<1> QED
  BY <1>1, <1>2 DEF Emits, Emitted, Range

(* Minting ALP tells what it changes, and the supply stays the sum. *)
LEMMA AgxMints ==
  ASSUME NEW c \in LedgerChains, SumOver(c.alp, Account) = c.supply, NEW u \in User
  PROVE  AgxGood(c, AlpMinted(c, u))
<1>1. c.alp \in [Account -> Nat] /\ c.supply \in Int
  BY DEF LedgerChains, Account
<1>2. PICK A : A = [c.alp EXCEPT ![u] = @ + 1]
  OBVIOUS
<1>3. A \in [Account -> Nat] /\ SumOver(A, Account) = c.supply + 1
  <2>1. OneMore(c.alp, u, A) /\ u \in Account
    BY <1>2, AccountsFinite DEF OneMore
  <2> QED
    BY <1>1, <2>1, AccountsFinite, SumOneMore
<1>4. PICK d, n : n = c.supply + 1 /\ d = [c EXCEPT !.alp = A, !.supply = n]
  OBVIOUS
<1>4a. n \in Int
  BY <1>1, <1>4
<1>5. d \in LedgerChains /\ d.block = c.block /\ d.alp = A /\ d.supply = c.supply + 1
  BY <1>1, <1>3, <1>4, <1>4a DEF LedgerChains, Account
<1>6. PICK e : e = Emitted("Transfer", Zero, u, 1, 0)
  OBVIOUS
<1>7. Has(e, Plain) /\ e.kind = "Transfer" /\ e.from = Zero /\ e.to = u /\ e.amount = 1
  BY <1>6, EmittedFacts
<1>8. AlpSaid(c, d, e)
  <2>1. Proper(e)
    BY <1>7 DEF Proper
  <2>2. ASSUME NEW v \in User PROVE SaysMoved(v, c.alp[v], e, d.alp[v])
    <3>1. c.alp[v] \in Int /\ d.alp[v] = IF v = u THEN c.alp[v] + 1 ELSE c.alp[v]
      BY <1>1, <1>2, <1>5, AccountsFinite
    <3>2. e.from # v
      BY <1>7, AddressAssumption
    <3> QED
      BY <1>7, <3>1, <3>2 DEF SaysMoved
  <2> QED
    BY <2>1, <2>2 DEF AlpSaid
<1>9. AlpMinted(c, u).chain = d /\ AlpMinted(c, u).events = Emits("Transfer", Zero, u, 1, 0)
  BY <1>2, <1>4 DEF AlpMinted, Becomes
<1>10. e \in Range(Emits("Transfer", Zero, u, 1, 0))
  BY <1>6, EmittedIn
<1>11. \A k \in AgxFacts : Tells(k, Emits("Transfer", Zero, u, 1, 0), OnChain(k, c), OnChain(k, d))
  BY <1>6, <1>8, AgxOne
<1>12. Has(e, Plain) /\ IsIssue(e)
  BY <1>7 DEF IsIssue
<1> QED
  BY <1>3, <1>5, <1>9, <1>10, <1>11, <1>12 DEF AgxGood

(* So does burning, *)
LEMMA AgxBurns ==
  ASSUME NEW c \in LedgerChains, SumOver(c.alp, Account) = c.supply, NEW u \in User, c.alp[u] > 0
  PROVE  AgxGood(c, AlpBurned(c, u))
<1>1. c.alp \in [Account -> Nat] /\ c.supply \in Int
  BY DEF LedgerChains, Account
<1>2. PICK A : A = [c.alp EXCEPT ![u] = @ - 1]
  OBVIOUS
<1>3. A \in [Account -> Nat] /\ SumOver(A, Account) = c.supply - 1
  <2>1. OneLess(c.alp, u, A) /\ u \in Account
    BY <1>2, AccountsFinite DEF OneLess
  <2> QED
    BY <1>1, <2>1, AccountsFinite, SumOneLess
<1>4. PICK d, n : n = c.supply - 1 /\ d = [c EXCEPT !.alp = A, !.supply = n]
  OBVIOUS
<1>4a. n \in Int
  BY <1>1, <1>4
<1>5. d \in LedgerChains /\ d.block = c.block /\ d.alp = A /\ d.supply = c.supply - 1
  BY <1>1, <1>3, <1>4, <1>4a DEF LedgerChains, Account
<1>6. PICK e : e = Emitted("Transfer", u, Zero, 1, 0)
  OBVIOUS
<1>7. Has(e, Plain) /\ e.kind = "Transfer" /\ e.from = u /\ e.to = Zero /\ e.amount = 1
  BY <1>6, EmittedFacts
<1>8. AlpSaid(c, d, e)
  <2>1. Proper(e)
    BY <1>7 DEF Proper
  <2>2. ASSUME NEW v \in User PROVE SaysMoved(v, c.alp[v], e, d.alp[v])
    <3>1. c.alp[v] \in Int /\ d.alp[v] = IF v = u THEN c.alp[v] - 1 ELSE c.alp[v]
      BY <1>1, <1>2, <1>5, AccountsFinite
    <3>2. e.to # v
      BY <1>7, AddressAssumption
    <3> QED
      BY <1>7, <3>1, <3>2 DEF SaysMoved
  <2> QED
    BY <2>1, <2>2 DEF AlpSaid
<1>9. AlpBurned(c, u).chain = d /\ AlpBurned(c, u).events = Emits("Transfer", u, Zero, 1, 0)
  BY <1>2, <1>4 DEF AlpBurned, Becomes
<1>10. e \in Range(Emits("Transfer", u, Zero, 1, 0))
  BY <1>6, EmittedIn
<1>11. \A k \in AgxFacts : Tells(k, Emits("Transfer", u, Zero, 1, 0), OnChain(k, c), OnChain(k, d))
  BY <1>6, <1>8, AgxOne
<1>12. Has(e, Plain) /\ IsIssue(e)
  BY <1>7 DEF IsIssue
<1> QED
  BY <1>3, <1>5, <1>9, <1>10, <1>11, <1>12 DEF AgxGood

(* so does sending, *)
LEMMA AgxSends ==
  ASSUME NEW c \in LedgerChains, SumOver(c.alp, Account) = c.supply, NEW u \in User, c.alp[u] > 0, NEW x \in Account
  PROVE  AgxGood(c, AlpSent(c, u, x))
<1>1. c.alp \in [Account -> Nat] /\ u \in Account
  BY DEF LedgerChains, Account
<1>2. PICK A : A = Transferred(c.alp, u, x)
  OBVIOUS
<1>3. /\ A \in [Account -> Nat] /\ SumOver(A, Account) = c.supply
      /\ \A z \in Account : A[z] = c.alp[z] - (IF z = u THEN 1 ELSE 0) + (IF z = x THEN 1 ELSE 0)
  BY <1>1, <1>2, AccountsFinite, SumTransferred
<1>4. PICK d : d = [c EXCEPT !.alp = A]
  OBVIOUS
<1>5. d \in LedgerChains /\ d.block = c.block /\ d.alp = A /\ d.supply = c.supply
  BY <1>3, <1>4 DEF LedgerChains, Account
<1>6. PICK e : e = Emitted("Transfer", u, x, 1, 0)
  OBVIOUS
<1>7. Has(e, Plain) /\ e.kind = "Transfer" /\ e.from = u /\ e.to = x /\ e.amount = 1
  BY <1>6, EmittedFacts
<1>8. AlpSaid(c, d, e)
  <2>1. Proper(e)
    BY <1>7 DEF Proper, Account
  <2>2. ASSUME NEW v \in User PROVE SaysMoved(v, c.alp[v], e, d.alp[v])
    <3>1. c.alp[v] \in Int /\ d.alp[v] = c.alp[v] - (IF v = u THEN 1 ELSE 0) + (IF v = x THEN 1 ELSE 0)
      BY <1>1, <1>3, <1>5, AccountsFinite
    <3> QED
      BY <1>7, <3>1 DEF SaysMoved
  <2> QED
    BY <2>1, <2>2 DEF AlpSaid
<1>9. AlpSent(c, u, x).chain = d /\ AlpSent(c, u, x).events = Emits("Transfer", u, x, 1, 0)
  BY <1>2, <1>4 DEF AlpSent, Becomes
<1>10. \A k \in AgxFacts : Tells(k, Emits("Transfer", u, x, 1, 0), OnChain(k, c), OnChain(k, d))
  BY <1>6, <1>8, AgxOne
<1> QED
  BY <1>3, <1>5, <1>9, <1>10 DEF AgxGood

(* and a trade changes nothing that the index knows. *)
LEMMA AgxTrades ==
  ASSUME NEW c \in LedgerChains, SumOver(c.alp, Account) = c.supply, NEW u \in User, NEW n \in {1, 2}
  PROVE  AgxGood(c, AgxSwapped(c, u, n))
<1>1. ASSUME NEW m PROVE \A k \in AgxFacts : Tells(k, Emits("Swap", u, Pool, m, 0), OnChain(k, c), OnChain(k, c))
  <2>1. PICK e : e = Emitted("Swap", u, Pool, m, 0)
    OBVIOUS
  <2>2. Has(e, Plain) /\ e.kind = "Swap" /\ e.from = u /\ e.to = Pool
    BY <2>1, EmittedFacts
  <2>3. Proper(e)
    BY <2>2 DEF Proper
  <2>4. \A v \in User : c.alp[v] \in Int
    BY DEF LedgerChains
  <2>5. AlpSaid(c, c, e)
    BY <2>2, <2>3, <2>4 DEF AlpSaid, SaysMoved
  <2> QED
    BY <2>1, <2>5, AgxOne
<1>2. \A k \in AgxFacts : Tells(k, Emits("Swap", u, Pool, 1, 0) \o Emits("Swap", u, Pool, 2, 0), OnChain(k, c), OnChain(k, c))
  <2>1. \A k \in AgxFacts : /\ Tells(k, Emits("Swap", u, Pool, 1, 0), OnChain(k, c), OnChain(k, c))
                            /\ Tells(k, Emits("Swap", u, Pool, 2, 0), OnChain(k, c), OnChain(k, c))
    BY <1>1
  <2> QED
    BY <2>1, TellsMore
<1>3. PICK t : t = AgxSwapped(c, u, n)
  OBVIOUS
<1>4. /\ t.chain = c
      /\ \/ t.events = Emits("Swap", u, Pool, 1, 0)
         \/ t.events = Emits("Swap", u, Pool, 1, 0) \o Emits("Swap", u, Pool, 2, 0)
  <2>1. CASE n = 1
    BY <1>3, <2>1 DEF AgxSwapped, Becomes
  <2>2. CASE n # 1
    BY <1>3, <2>2 DEF AgxSwapped, Becomes
  <2> QED
    BY <2>1, <2>2
<1>5. \A k \in AgxFacts : Tells(k, t.events, OnChain(k, c), OnChain(k, c))
  BY <1>1, <1>2, <1>4
<1>6. AgxGood(c, t)
  BY <1>4, <1>5 DEF AgxGood
<1> QED
  BY <1>3, <1>6

(* What AGX's transactions change is what their events tell. *)
LEMMA AgxTells ==
  ASSUME NEW c \in LedgerChains, SumOver(c.alp, Account) = c.supply, NEW t \in AgxChanges(c)
  PROVE  AgxGood(c, t)
<1>1. CASE \E u \in User : t = AlpMinted(c, u)
  BY <1>1, AgxMints
<1>2. CASE \E u \in User : c.alp[u] > 0 /\ t = AlpBurned(c, u)
  BY <1>2, AgxBurns
<1>3. CASE \E u \in User, x \in Account : c.alp[u] > 0 /\ t = AlpSent(c, u, x)
  BY <1>3, AgxSends
<1>4. CASE \E u \in User, n \in {1, 2} : t = AgxSwapped(c, u, n)
  BY <1>4, AgxTrades
<1> QED
  BY <1>1, <1>2, <1>3, <1>4 DEF AgxChanges, Account

------------------------------------------------------------------------------
(* AGX's index. *)

AgxIndexed(ix) == {"balances", "supply", "events"} \subseteq DOMAIN ix /\ DOMAIN ix.balances \subseteq User

(* The two balances of a transfer. *)
LEMMA AgxMoves ==
  ASSUME NEW ix, AgxIndexed(ix), NEW e, Proper(e), NEW jx, jx = AgxUserBalance(ix, e)
  PROVE  /\ AgxIndexed(jx) /\ jx.supply = ix.supply
         /\ e.from \in User /\ Load(ix.balances, e.from, 0) > 0 =>
              e.from \in DOMAIN ix.balances
         /\ (e.from \in User => e.from \in DOMAIN ix.balances) /\ e.amount = 1
              /\ (\A u \in User : Load(ix.balances, u, 0) \in Int) =>
              \A u \in User : Load(jx.balances, u, 0) =
                Load(ix.balances, u, 0) - (IF e.from = u THEN 1 ELSE 0) + (IF e.to = u THEN 1 ELSE 0)
<1>1. PICK sent : sent = IF e.from \in {Zero, Pool} THEN ix
              ELSE IF e.from \in DOMAIN ix.balances THEN Withdrawn(ix, e.from, e.amount)
              ELSE Deposited(ix, e.from, 0)
  OBVIOUS
<1>2. jx = IF e.to \in {Zero, Pool} THEN sent ELSE Deposited(sent, e.to, e.amount)
  BY <1>1 DEF AgxUserBalance
<1>3. {e.from, e.to} \subseteq User \cup {Pool, Zero}
  BY DEF Proper
<1>4. "balances" \in DOMAIN ix /\ "supply" \in DOMAIN ix /\ "events" \in DOMAIN ix /\ DOMAIN ix.balances \subseteq User
  BY DEF AgxIndexed
<1>5. \A kx, id, n : "balances" \in DOMAIN kx =>
        /\ DOMAIN Deposited(kx, id, n) = DOMAIN kx /\ DOMAIN Withdrawn(kx, id, n) = DOMAIN kx
        /\ "supply" \in DOMAIN kx => Deposited(kx, id, n).supply = kx.supply /\ Withdrawn(kx, id, n).supply = kx.supply
  BY DEF Deposited, Withdrawn
<1>6. /\ DOMAIN sent = DOMAIN ix /\ sent.supply = ix.supply /\ DOMAIN sent.balances \subseteq User
      /\ (e.from \in User => e.from \in DOMAIN ix.balances) =>
           \A u \in User : Load(sent.balances, u, 0) =
             IF e.from = u THEN Load(ix.balances, u, 0) - e.amount ELSE Load(ix.balances, u, 0)
  <2>1. CASE e.from \in {Zero, Pool}
    <3>1. sent = ix /\ e.from \notin User
      BY <1>1, <2>1, AddressAssumption
    <3> QED
      BY <1>4, <3>1
  <2>2. CASE e.from \notin {Zero, Pool} /\ e.from \in DOMAIN ix.balances
    <3>1. sent = Withdrawn(ix, e.from, e.amount)
      BY <1>1, <2>2
    <3> QED
      BY <1>4, <1>5, <2>2, <3>1, BalanceFacts
  <2>3. CASE e.from \notin {Zero, Pool} /\ e.from \notin DOMAIN ix.balances
    <3>1. sent = Deposited(ix, e.from, 0) /\ e.from \in User
      BY <1>1, <1>3, <2>3
    <3> QED
      BY <1>4, <1>5, <2>3, <3>1, BalanceFacts
  <2> QED
    BY <2>1, <2>2, <2>3
<1>7. /\ DOMAIN jx = DOMAIN ix /\ jx.supply = ix.supply /\ DOMAIN jx.balances \subseteq User
      /\ \A u \in User : Load(jx.balances, u, 0) =
             IF e.to = u THEN Load(sent.balances, u, 0) + e.amount ELSE Load(sent.balances, u, 0)
  <2>1. CASE e.to \in {Zero, Pool}
    <3>1. jx = sent /\ e.to \notin User
      BY <1>2, <2>1, AddressAssumption
    <3> QED
      BY <1>6, <3>1
  <2>2. CASE e.to \notin {Zero, Pool}
    <3>1. jx = Deposited(sent, e.to, e.amount) /\ e.to \in User
      BY <1>2, <1>3, <2>2
    <3>2. "balances" \in DOMAIN sent /\ "supply" \in DOMAIN sent
      BY <1>4, <1>6
    <3> QED
      BY <1>4, <1>5, <1>6, <3>1, <3>2, BalanceFacts
  <2> QED
    BY <2>1, <2>2
<1>8. AgxIndexed(jx) /\ jx.supply = ix.supply
  BY <1>4, <1>7 DEF AgxIndexed
<1>9. ASSUME Load(ix.balances, e.from, 0) > 0 PROVE e.from \in DOMAIN ix.balances
  BY <1>9 DEF Load
<1>10. ASSUME e.from \in User => e.from \in DOMAIN ix.balances, e.amount = 1,
              \A u \in User : Load(ix.balances, u, 0) \in Int, NEW u \in User
       PROVE  Load(jx.balances, u, 0) =
                Load(ix.balances, u, 0) - (IF e.from = u THEN 1 ELSE 0) + (IF e.to = u THEN 1 ELSE 0)
  <2>1. Load(jx.balances, u, 0) = IF e.to = u THEN Load(sent.balances, u, 0) + 1 ELSE Load(sent.balances, u, 0)
    BY <1>7, <1>10
  <2>2. Load(sent.balances, u, 0) = IF e.from = u THEN Load(ix.balances, u, 0) - 1 ELSE Load(ix.balances, u, 0)
    BY <1>6, <1>10
  <2>3. Load(ix.balances, u, 0) \in Int
    BY <1>10
  <2> QED
    BY <2>1, <2>2, <2>3
<1> QED
  BY <1>8, <1>9, <1>10

(* AGX's handlers do what the events say; a supply that changed is read.   *)
AgxHeard(ix, e, w) == Proper(e) /\ e.kind \in AgxKinds /\ \A u \in User : SaysMoved(u, Load(ix.balances, u, 0), e, w[u])

(* A handler leaves what its event says, and reads the supply if it must. *)
LEMMA AgxHears ==
  ASSUME NEW ix, AgxIndexed(ix), NEW e, NEW w, AgxHeard(ix, e, w), NEW c, NEW jx, jx = AgxHandled(ix, e, c)
  PROVE  /\ AgxIndexed(jx)
         /\ \A u \in User : Load(jx.balances, u, 0) = w[u]
         /\ jx.supply = ix.supply \/ jx.supply = c.supply
         /\ Has(e, Plain) /\ IsIssue(e) => jx.supply = c.supply
<1>1. Proper(e) /\ e.kind \in AgxKinds /\ \A u \in User : SaysMoved(u, Load(ix.balances, u, 0), e, w[u])
  BY DEF AgxHeard
<1>2. CASE e.kind = "Swap"
  <2>1. jx = [ix EXCEPT !.events = Save(@, ByTx(e), e)]
    BY <1>2 DEF AgxHandled, AgxSwap
  <2>2. \A u \in User : w[u] = Load(ix.balances, u, 0)
    BY <1>1, <1>2 DEF SaysMoved
  <2>3. jx.balances = ix.balances /\ jx.supply = ix.supply /\ DOMAIN jx = DOMAIN ix
    BY <2>1
  <2> QED
    BY <1>2, <2>2, <2>3 DEF AgxIndexed, IsIssue
<1>3. CASE e.kind # "Swap"
  <2>1. PICK hx : hx = UpdatePoolSupply(ix, e, c)
    OBVIOUS
  <2>2. jx = AgxUserBalance(hx, e)
    BY <1>3, <2>1 DEF AgxHandled, AgxTransfer
  <2>3. /\ AgxIndexed(hx) /\ hx.balances = ix.balances
        /\ hx.supply = IF Zero \in {e.from, e.to} THEN c.supply ELSE ix.supply
    BY <2>1 DEF UpdatePoolSupply, AgxIndexed
  <2>4. /\ AgxIndexed(jx) /\ jx.supply = hx.supply
        /\ e.from \in User /\ Load(hx.balances, e.from, 0) > 0 => e.from \in DOMAIN hx.balances
        /\ (e.from \in User => e.from \in DOMAIN hx.balances) /\ e.amount = 1
             /\ (\A u \in User : Load(hx.balances, u, 0) \in Int) =>
             \A u \in User : Load(jx.balances, u, 0) =
               Load(hx.balances, u, 0) - (IF e.from = u THEN 1 ELSE 0) + (IF e.to = u THEN 1 ELSE 0)
    BY <1>1, <2>2, <2>3, AgxMoves
  <2>5. \A u \in User : Load(ix.balances, u, 0) \in Int
    BY <1>1 DEF SaysMoved
  <2>6. CASE e.kind = "Transfer"
    <3>1. \A u \in User : /\ e.amount = 1 /\ (e.from = u => Load(ix.balances, u, 0) > 0)
                          /\ w[u] = Load(ix.balances, u, 0) - (IF e.from = u THEN 1 ELSE 0) + (IF e.to = u THEN 1 ELSE 0)
      BY <1>1, <2>6 DEF SaysMoved
    <3>2. \A u \in User : Load(jx.balances, u, 0) = w[u]
      BY <2>3, <2>4, <2>5, <3>1
    <3> QED
      BY <2>3, <2>4, <3>2 DEF IsIssue
  <2> QED
    BY <1>1, <1>3, <2>6 DEF AgxKinds
<1> QED
  BY <1>2, <1>3

(* AGX's invariant: the events in the queue make of the index what the     *)
(* chain has, and what was minted or burned since the supply was read      *)
(* waits in the queue.                                                     *)
AgxInv ==
  /\ chain \in LedgerChains /\ SumOver(chain.alp, Account) = chain.supply
  /\ \A k \in AgxFacts : Faithful(k)
  /\ AgxIndexed(index)
  /\ index.supply = chain.supply \/ \E e \in Range(queue) : Has(e, Plain) /\ IsIssue(e)

(* AGX's invariant holds at the start. *)
LEMMA AgxStarts ==
  ASSUME IndexInit, protocol = "agx"
  PROVE  AgxInv
<1>1. chain = LedgerChain /\ index = LedgerIndex /\ queue = <<>>
  BY DEF IndexInit, FirstChain, FirstIndex
<1>2. index.balances = Nothing /\ AgxIndexed(index) /\ index.supply = 0
  BY <1>1 DEF LedgerIndex, AgxIndexed, Nothing
<1>3. \A j : Load(index.balances, j, 0) = 0
  BY <1>2 DEF Load, Nothing
<1>4. ASSUME NEW u \in User PROVE InIndex(Fact("alp", u, u), index) = OnChain(Fact("alp", u, u), chain)
  BY <1>1, <1>3, LedgerStarts DEF InIndex, OnChain, Fact
<1>5. InIndex(Fact("proper", 0, 0), index) = OnChain(Fact("proper", 0, 0), chain)
  BY DEF InIndex, OnChain, Fact
<1>6. \A k \in AgxFacts : Faithful(k)
  BY <1>1, <1>4, <1>5, KnownAtStart DEF AgxFacts
<1>7. SumOver(chain.alp, Account) = 0
  <2>1. (\A x \in Account : chain.alp[x] = 0) /\ 0 \in Nat
    BY <1>1, LedgerStarts DEF Account
  <2>2. SumOver(chain.alp, Account) = 0 * Cardinality(Account)
    BY <2>1, AccountsFinite, SumOfEqual
  <2>3. Cardinality(Account) \in Nat
    BY AccountsFinite, FS_CardinalityType
  <2> QED
    BY <2>2, <2>3
<1> QED
  BY <1>1, <1>2, <1>6, <1>7, LedgerStarts DEF AgxInv

(* What AGX is told of next. *)
LEMMA AgxNextHeard ==
  ASSUME IndexInv, protocol = "agx", AgxInv, queue # <<>>
  PROVE  \E w : /\ AgxHeard(index, Head(queue), w)
                /\ \A u \in User : Tells(Fact("alp", u, u), Tail(queue), w[u], chain.alp[u])
<1>1. Proper(Head(queue))
  <2>1. PICK w : Makes(Fact("proper", 0, 0), InIndex(Fact("proper", 0, 0), index), Head(queue), w)
    BY FirstIsSaid DEF AgxInv, AgxFacts
  <2> QED
    BY <2>1, SaysByName DEF SaysProper
<1>2. Head(queue).kind \in AgxKinds
  <2>1. Recording /\ EventsInOrder
    BY DEF IndexInv, Recording, Protocols
  <2>2. Head(queue) \in Seen
    BY <2>1, WaitingShrinks DEF EventsInOrder, Seen
  <2> QED
    BY <2>1, <2>2 DEF EventsInOrder, Placed, Kinds
<1>3. ASSUME NEW u \in User
      PROVE  \E x : SaysMoved(u, Load(index.balances, u, 0), Head(queue), x) /\ Tells(Fact("alp", u, u), Tail(queue), x, chain.alp[u])
  <2>1. PICK k : k = Fact("alp", u, u)
    OBVIOUS
  <2>2. InIndex(k, index) = Load(index.balances, u, 0) /\ OnChain(k, chain) = chain.alp[u]
    BY <2>1 DEF InIndex, OnChain, Fact
  <2>3. Tells(k, queue, Load(index.balances, u, 0), chain.alp[u])
    BY <2>1, <2>2 DEF AgxInv, AgxFacts, Faithful
  <2>4. PICK x : Makes(k, Load(index.balances, u, 0), Head(queue), x) /\ Tells(k, Tail(queue), x, chain.alp[u])
    BY <2>3, TellsHead
  <2> QED
    BY <2>1, <2>4, SaysByName
<1> DEFINE w == [u \in User |-> CHOOSE x :
        SaysMoved(u, Load(index.balances, u, 0), Head(queue), x) /\ Tells(Fact("alp", u, u), Tail(queue), x, chain.alp[u])]
<1>4. \A u \in User : /\ SaysMoved(u, Load(index.balances, u, 0), Head(queue), w[u])
                      /\ Tells(Fact("alp", u, u), Tail(queue), w[u], chain.alp[u])
  BY <1>3
<1> HIDE DEF w
<1>5. AgxHeard(index, Head(queue), w)
  BY <1>1, <1>2, <1>4 DEF AgxHeard
<1> QED
  BY <1>4, <1>5

(* Every step keeps AGX's invariant. *)
LEMMA AgxStep ==
  ASSUME IndexInv, Waits, protocol = "agx", AgxInv, IndexNext
  PROVE  AgxInv'
<1>0. AgxFacts' = AgxFacts /\ LedgerChains' = LedgerChains /\ Account' = Account
  OBVIOUS
<1>1. CASE Transact
  <2>1. Transactions = AgxChanges(chain)
    BY DEF Transactions
  <2>2. \A t \in Transactions : t.events \in Seq(Range(t.events))
    BY AllEmit DEF Waits
  <2>3. PICK t \in Transactions : chain' = t.chain /\ Lengthened(queue, t.events, chain.block, txs + 1, queue')
    BY <1>1, <2>2, Transacts DEF Waits
  <2>4. index' = index
    BY <1>1 DEF Transact
  <2>5. AgxGood(chain, t)
    BY <2>1, AgxTells DEF AgxInv
  <2>6. ASSUME NEW k \in AgxFacts PROVE Faithful(k)'
    BY <2>3, <2>4, <2>5, KnownGrows DEF AgxInv, AgxGood
  <2>7. /\ Range(queue) \subseteq Range(queue')
        /\ \A e \in Range(t.events) : \E st \in Range(queue'), l \in Nat : st = Stamp(e, chain.block, txs + 1, l)
    BY <2>3, WaitingGrows
  <2>8. index'.supply = chain'.supply \/ \E e \in Range(queue') : Has(e, Plain) /\ IsIssue(e)
    <3>1. CASE t.chain.supply = chain.supply
      BY <2>3, <2>4, <2>7, <3>1 DEF AgxInv
    <3>2. CASE t.chain.supply # chain.supply
      <4>1. PICK e \in Range(t.events) : Has(e, Plain) /\ IsIssue(e)
        BY <2>5, <3>2 DEF AgxGood
      <4>2. PICK st \in Range(queue'), l \in Nat : st = Stamp(e, chain.block, txs + 1, l)
        BY <2>7
      <4>3. \A f \in DOMAIN e : f \in DOMAIN st /\ (f \notin {"block", "tx", "log"} => st[f] = e[f])
        BY <4>2, StampSame
      <4>4. Has(st, Plain) /\ st.kind = e.kind /\ st.from = e.from /\ st.to = e.to
        BY <4>1, <4>3 DEF Has, Plain
      <4> QED
        BY <4>1, <4>4 DEF IsIssue
    <3> QED
      BY <3>1, <3>2
  <2> QED
    BY <1>0, <2>3, <2>4, <2>5, <2>6, <2>8 DEF AgxInv, AgxGood, AgxIndexed
<1>2. CASE Handle
  <2>1. queue # <<>> /\ queue' = Tail(queue) /\ chain' = chain /\ index' = HandledBy(Head(queue))
    BY <1>2 DEF Handle
  <2>2. PICK e : e = Head(queue)
    OBVIOUS
  <2>3. index' = AgxHandled(index, e, chain)
    BY <2>1, <2>2 DEF HandledBy
  <2>4. PICK w : /\ AgxHeard(index, e, w)
                 /\ \A u \in User : Tells(Fact("alp", u, u), Tail(queue), w[u], chain.alp[u])
    BY <2>1, <2>2, AgxNextHeard
  <2>5. /\ AgxIndexed(index')
        /\ \A u \in User : Load(index'.balances, u, 0) = w[u]
        /\ index'.supply = index.supply \/ index'.supply = chain.supply
        /\ Has(e, Plain) /\ IsIssue(e) => index'.supply = chain.supply
    BY <2>3, <2>4, AgxHears DEF AgxInv
  <2>6. ASSUME NEW u \in User PROVE Faithful(Fact("alp", u, u))'
    <3>1. InIndex(Fact("alp", u, u), index') = w[u] /\ OnChain(Fact("alp", u, u), chain') = chain.alp[u]
      BY <2>1, <2>5 DEF InIndex, OnChain, Fact
    <3>2. Tells(Fact("alp", u, u), queue', InIndex(Fact("alp", u, u), index'), OnChain(Fact("alp", u, u), chain'))
      BY <2>1, <2>4, <3>1
    <3> QED
      BY <3>2 DEF Faithful
  <2>7. Faithful(Fact("proper", 0, 0))'
    <3> DEFINE k == Fact("proper", 0, 0)
    <3>1. \A x : Makes(k, InIndex(k, index), Head(queue), x) => InIndex(k, index') = x
      <4>1. InIndex(k, index) = 0 /\ InIndex(k, index') = 0
        BY DEF InIndex, Fact
      <4> QED
        BY <4>1, SaysByName DEF SaysProper
    <3>2. Faithful(k)
      BY DEF AgxInv, AgxFacts
    <3> HIDE DEF k
    <3>3. Faithful(k)'
      BY <2>1, <3>1, <3>2, KnownShrinks
    <3> QED
      BY <3>3 DEF k
  <2>8. index'.supply = chain'.supply \/ \E f \in Range(queue') : Has(f, Plain) /\ IsIssue(f)
    <3>1. Range(queue) = {e} \cup Range(queue')
      BY <2>1, <2>2, WaitingShrinks DEF Waits
    <3> QED
      BY <2>1, <2>5, <3>1 DEF AgxInv
  <2> QED
    BY <1>0, <2>1, <2>5, <2>6, <2>7, <2>8 DEF AgxInv, AgxFacts
<1>3. CASE Seal \/ NextBlock
  <2>1. queue' = queue /\ index' = index /\ (chain' = chain \/ chain' = [chain EXCEPT !.block = @ + 1])
    BY <1>3 DEF Seal, NextBlock
  <2>2. chain' \in LedgerChains /\ chain'.alp = chain.alp /\ chain'.supply = chain.supply
    BY <2>1 DEF AgxInv, LedgerChains
  <2>3. ASSUME NEW k \in AgxFacts PROVE Faithful(k)'
    <3>1. k.of = "alp" \/ k.of = "proper"
      BY DEF AgxFacts, Fact
    <3>2. OnChain(k, chain') = OnChain(k, chain)
      BY <2>2, <3>1 DEF OnChain
    <3> QED
      BY <2>1, <3>2, KnownStays DEF AgxInv
  <2> QED
    BY <1>0, <2>1, <2>2, <2>3 DEF AgxInv
<1> QED
  BY <1>1, <1>2, <1>3 DEF IndexNext

(* AGX's index matches its contracts once nothing waits. *)
LEMMA AgxMatched ==
  ASSUME AgxInv, queue = <<>>
  PROVE  AgxMatches(index, chain)
<1>1. \A k \in AgxFacts : InIndex(k, index) = OnChain(k, chain)
  BY KnownAtEnd DEF AgxInv
<1>2. ASSUME NEW u \in User PROVE Load(index.balances, u, 0) = chain.alp[u]
  <2>1. Fact("alp", u, u) \in AgxFacts
    BY DEF AgxFacts
  <2> QED
    BY <1>1, <2>1 DEF InIndex, OnChain, Fact
<1>3. index.supply = chain.supply
  <2>1. Range(queue) = {}
    BY DEF Range
  <2> QED
    BY <2>1 DEF AgxInv
<1>4. SumOver(index.balances, DOMAIN index.balances) + chain.alp[Pool] = chain.supply
  <2> DEFINE D == DOMAIN index.balances
  <2>1. D \subseteq User /\ IsFiniteSet(User) /\ Pool \notin User
    BY AddressAssumption DEF AgxInv, AgxIndexed
  <2>2. chain.alp \in [Account -> Nat] /\ SumOver(chain.alp, Account) = chain.supply
    BY DEF AgxInv, LedgerChains, Account
  <2>3. /\ \A u \in D : index.balances[u] \in Nat /\ index.balances[u] = chain.alp[u]
        /\ \A u \in User \ D : chain.alp[u] = 0
    BY <1>2, <2>1, <2>2 DEF Load, Account
  <2> HIDE DEF D
  <2>4. IsFiniteSet(D) /\ IsFiniteSet(User \ D) /\ D \cup (User \ D) = User /\ D \cap (User \ D) = {}
    BY <2>1, FS_Subset
  <2>5. SumOver(index.balances, D) = SumOver(chain.alp, D)
    BY <2>3, <2>4, SumSame
  <2>6. SumOver(chain.alp, User \ D) = 0
    <3>1. SumOver(chain.alp, User \ D) = 0 * Cardinality(User \ D)
      BY <2>3, <2>4, SumOfEqual
    <3>2. Cardinality(User \ D) \in Nat
      BY <2>4, FS_CardinalityType
    <3> QED
      BY <3>1, <3>2
  <2>7. \A x \in Account : chain.alp[x] \in Nat
    BY <2>2
  <2>8. SumOver(chain.alp, User) = SumOver(chain.alp, D) + SumOver(chain.alp, User \ D)
    <3>1. \A x \in D \cup (User \ D) : chain.alp[x] \in Nat
      BY <2>4, <2>7 DEF Account
    <3>2. SumOver(chain.alp, D \cup (User \ D)) = SumOver(chain.alp, D) + SumOver(chain.alp, User \ D)
      BY <2>4, <3>1, SumUnion
    <3> QED
      BY <2>4, <3>2
  <2>9. SumOver(chain.alp, User \cup {Pool}) = chain.alp[Pool] + SumOver(chain.alp, User)
    <3>1. \A x \in User \cup {Pool} : chain.alp[x] \in Nat
      BY <2>7 DEF Account
    <3> QED
      BY <2>1, <3>1, SumAdd
  <2>10. SumOver(chain.alp, User) \in Nat /\ SumOver(chain.alp, D) \in Nat /\ chain.alp[Pool] \in Nat
    <3>1. (\A x \in User : chain.alp[x] \in Nat) /\ \A x \in D : chain.alp[x] \in Nat
      BY <2>1, <2>7 DEF Account
    <3> QED
      BY <2>1, <2>4, <2>7, <3>1, SumIsNumber, AccountsFinite
  <2>11. chain.supply = chain.alp[Pool] + SumOver(chain.alp, User)
    BY <2>2, <2>9 DEF Account
  <2>12. SumOver(index.balances, D) + chain.alp[Pool] = chain.supply
    BY <2>5, <2>6, <2>8, <2>10, <2>11
  <2> QED
    BY <2>12 DEF D
<1> QED
  BY <1>2, <1>3, <1>4 DEF AgxMatches

------------------------------------------------------------------------------
(* Wagmi's contracts, and events of the pool's managers. *)

WagmiChains ==
  [block : Int, tick : Int, reserve : Int, taken : Int, owed : Int,
   nfts : Seq([owner : User \cup {Zero}, range : Ranges, liquidity : Nat]), direct : Int,
   wlp : [User -> Int], staked : [User -> Int], drift : [User -> Int], read : [User -> Int]]

Noted(kind, id, from, to) == [kind |-> kind, id |-> id, from |-> from, to |-> to]

(* What an event says. *)
LEMMA NotedFacts ==
  ASSUME NEW kind, NEW id, NEW from, NEW to, NEW e, e = Noted(kind, id, from, to)
  PROVE  /\ "kind" \in DOMAIN e /\ Has(e, {"from", "to"}) /\ Has(e, {"id", "from", "to"})
         /\ e.kind = kind /\ e.id = id /\ e.from = from /\ e.to = to
         /\ Event(kind, id, from, to) = <<e>>
BY DEF Noted, Has, Event

(* The events of two sequences, one behind the other. *)
LEMMA RangeJoined ==
  ASSUME NEW s, s \in Seq(Range(s)), NEW t, t \in Seq(Range(t))
  PROVE  s \o t \in Seq(Range(s \o t)) /\ Range(s \o t) = Range(s) \cup Range(t)
<1>1. PICK S : S = Range(s) \cup Range(t)
  OBVIOUS
<1>2. s \in Seq(S) /\ t \in Seq(S)
  <2>1. Range(s) \subseteq S /\ Range(t) \subseteq S
    BY <1>1
  <2> QED
    BY <2>1, SeqMonotonic
<1>3. PICK r : r = s \o t
  OBVIOUS
<1>4. /\ r \in Seq(S) /\ Len(r) = Len(s) + Len(t) /\ Len(s) \in Nat /\ Len(t) \in Nat
      /\ \A i \in 1..(Len(s) + Len(t)) : r[i] = IF i <= Len(s) THEN s[i] ELSE t[i - Len(s)]
  BY <1>2, <1>3, ConcatProperties, LenProperties
<1>5. DOMAIN r = 1..(Len(s) + Len(t)) /\ DOMAIN s = 1..Len(s) /\ DOMAIN t = 1..Len(t)
  BY <1>2, <1>4, LenProperties
<1>6. PICK m \in Nat, n \in Nat : m = Len(s) /\ n = Len(t)
  BY <1>4
<1>7. ASSUME NEW i \in 1..m PROVE s[i] \in Range(r)
  <2>1. i \in 1..(m + n) /\ r[i] = s[i]
    BY <1>4, <1>6
  <2> QED
    BY <1>5, <1>6, <2>1 DEF Range
<1>8. ASSUME NEW i \in 1..n PROVE t[i] \in Range(r)
  <2>1. m + i \in 1..(m + n) /\ ~(m + i <= m) /\ (m + i) - m = i
    OBVIOUS
  <2>2. r[m + i] = t[i]
    BY <1>4, <1>6, <2>1
  <2> QED
    BY <1>5, <1>6, <2>1, <2>2 DEF Range
<1>9. Range(s) \subseteq Range(r) /\ Range(t) \subseteq Range(r)
  BY <1>5, <1>6, <1>7, <1>8 DEF Range
<1>10. Range(r) \subseteq S
  <2>1. \A i \in 1..(Len(s) + Len(t)) : r[i] \in S
    BY <1>4, <1>5, ElementOfSeq
  <2> QED
    BY <1>5, <2>1 DEF Range
<1>11. r \in Seq(Range(r))
  BY <1>4, SeqOfRange
<1> QED
  BY <1>1, <1>3, <1>9, <1>10, <1>11

(* One event is a sequence of events. *)
LEMMA RangeOne == \A e : <<e>> \in Seq(Range(<<e>>)) /\ Range(<<e>>) = {e}
<1> SUFFICES ASSUME NEW e PROVE <<e>> \in Seq(Range(<<e>>)) /\ Range(<<e>>) = {e}
  OBVIOUS
<1>1. <<e>> \in Seq({e}) /\ DOMAIN <<e>> = {1} /\ <<e>>[1] = e
  OBVIOUS
<1>2. Range(<<e>>) = {e}
  BY <1>1 DEF Range
<1> QED
  BY <1>1, <1>2

(* Two events are. *)
LEMMA RangeTwo == \A e, f : Range(<<e>> \o <<f>>) = {e, f}
<1> SUFFICES ASSUME NEW e, NEW f PROVE Range(<<e>> \o <<f>>) = {e, f}
  OBVIOUS
<1>1. PICK s, t : s = <<e>> /\ t = <<f>>
  OBVIOUS
<1>2. s \in Seq(Range(s)) /\ Range(s) = {e} /\ t \in Seq(Range(t)) /\ Range(t) = {f}
  BY <1>1, RangeOne
<1>3. Range(s \o t) = Range(s) \cup Range(t)
  BY <1>2, RangeJoined
<1> QED
  BY <1>1, <1>2, <1>3

------------------------------------------------------------------------------
(* The multipool. *)

WlpFacts == {Fact("wlp", u, u) : u \in User}

(* The handlers that read the balance of u. *)
Reads(e, u) ==
  /\ "kind" \in DOMAIN e /\ Has(e, {"from", "to"})
  /\ \/ e.kind \in {"MultiDeposit", "MultiWithdraw"} /\ e.to = u
     \/ e.kind = "WlpTransfer" /\ {e.from, e.to} \cap {Pool, Zero} = {} /\ u \in {e.from, e.to}

(* Nothing but the balances, and what is read of them, changes.            *)
PoolStands(c, d) ==
  /\ d.block = c.block /\ d.tick = c.tick /\ d.reserve = c.reserve /\ d.taken = c.taken /\ d.nfts = c.nfts
  /\ d.direct = c.direct
ReadNow(c, d, s, u) == (\E e \in Range(s) : Reads(e, u)) /\ d.read[u] = c.block /\ d.drift[u] = 0
Unread(c, d, s, u) ==
  /\ \A e \in Range(s) : ~Reads(e, u)
  /\ d.read[u] = c.read[u]
  /\ IF c.read[u] = c.block THEN d.drift[u] = c.drift[u] ELSE d.wlp[u] + d.drift[u] = c.wlp[u] + c.drift[u]
MultiGood(c, t) ==
  /\ t.chain \in WagmiChains /\ PoolStands(c, t.chain)
  /\ \A k \in WlpFacts : Tells(k, t.events, OnChain(k, c), OnChain(k, t.chain))
  /\ \A u \in User : ReadNow(c, t.chain, t.events, u) \/ Unread(c, t.chain, t.events, u)
  /\ \A e \in Range(t.events) : "kind" \in DOMAIN e /\ Has(e, {"from", "to"})

StakeSaid(c, d, e) == \A u \in User : SaysWlp(u, c.staked[u], e, d.staked[u])

(* A transaction of one event tells the stake that its event says. *)
LEMMA WlpOne ==
  ASSUME NEW c, NEW d, NEW e, StakeSaid(c, d, e)
  PROVE  \A k \in WlpFacts : Tells(k, <<e>>, OnChain(k, c), OnChain(k, d))
<1> SUFFICES ASSUME NEW u \in User
             PROVE  Tells(Fact("wlp", u, u), <<e>>, OnChain(Fact("wlp", u, u), c), OnChain(Fact("wlp", u, u), d))
  BY DEF WlpFacts
<1>1. OnChain(Fact("wlp", u, u), c) = c.staked[u] /\ OnChain(Fact("wlp", u, u), d) = d.staked[u]
  BY DEF OnChain, Fact
<1>2. SaysWlp(u, c.staked[u], e, d.staked[u])
  BY DEF StakeSaid
<1>3. Makes(Fact("wlp", u, u), OnChain(Fact("wlp", u, u), c), e, OnChain(Fact("wlp", u, u), d))
  BY <1>1, <1>2, SaysByName
<1> QED
  BY <1>3, TellsOne

(* Two events. *)
LEMMA WlpTwo ==
  ASSUME NEW c, NEW d, NEW e, StakeSaid(c, c, e), NEW f, StakeSaid(c, d, f)
  PROVE  \A k \in WlpFacts : Tells(k, <<e>> \o <<f>>, OnChain(k, c), OnChain(k, d))
<1>1. /\ \A k \in WlpFacts : Tells(k, <<e>>, OnChain(k, c), OnChain(k, c))
      /\ \A k \in WlpFacts : Tells(k, <<f>>, OnChain(k, c), OnChain(k, d))
  BY WlpOne
<1> QED
  BY <1>1, TellsMore

(* Nothing staked. *)
LEMMA StakeSame ==
  ASSUME NEW c \in WagmiChains, NEW d, d.staked = c.staked, NEW e, "kind" \in DOMAIN e,
         e.kind \in {"WlpTransfer", "MultiDeposit", "MultiWithdraw"}, Has(e, {"from", "to"})
  PROVE  StakeSaid(c, d, e)
BY DEF StakeSaid, SaysWlp, WagmiChains

(* A deposit, a withdrawal. *)
LEMMA MultiDeposits ==
  ASSUME NEW c \in WagmiChains, NEW u \in User
  PROVE  MultiGood(c, MultiDeposited(c, u)) /\ MultiGood(c, MultiWithdrawn(c, u))
<1>1. c.wlp \in [User -> Int] /\ c.block \in Int /\ c.drift \in [User -> Int] /\ c.read \in [User -> Int]
  BY DEF WagmiChains
<1>2. ASSUME NEW w, w \in [User -> Int], \A v \in User : v # u => w[v] = c.wlp[v],
             NEW d, d = [Read(c, u) EXCEPT !.wlp = w],
             NEW e, NEW f, NEW from, NEW to, NEW kind \in {"MultiDeposit", "MultiWithdraw"},
             Zero \in {from, to},
             e = Noted("WlpTransfer", 0, from, to), f = Noted(kind, 0, Zero, u),
             NEW t, t.chain = d, t.events = Event("WlpTransfer", 0, from, to) \o Event(kind, 0, Zero, u)
      PROVE  MultiGood(c, t)
  <2>1. PICK D : D = [c.drift EXCEPT ![u] = 0]
    OBVIOUS
  <2>2. PICK R : R = [c.read EXCEPT ![u] = c.block]
    OBVIOUS
  <2>3. d = [[c EXCEPT !.drift = D, !.read = R] EXCEPT !.wlp = w]
    BY <1>2, <2>1, <2>2 DEF Read
  <2>4. /\ D \in [User -> Int] /\ D[u] = 0 /\ \A v \in User : v # u => D[v] = c.drift[v]
        /\ R \in [User -> Int] /\ R[u] = c.block /\ \A v \in User : v # u => R[v] = c.read[v]
    BY <1>1, <2>1, <2>2
  <2>5. /\ d \in WagmiChains /\ PoolStands(c, d) /\ d.wlp = w /\ d.drift = D /\ d.read = R /\ d.staked = c.staked
    BY <1>2, <2>3, <2>4 DEF WagmiChains, PoolStands
  <2>6. /\ "kind" \in DOMAIN e /\ Has(e, {"from", "to"}) /\ e.kind = "WlpTransfer" /\ e.from = from /\ e.to = to
        /\ Event("WlpTransfer", 0, from, to) = <<e>>
    BY <1>2, NotedFacts
  <2>7. /\ "kind" \in DOMAIN f /\ Has(f, {"from", "to"}) /\ f.kind = kind /\ f.from = Zero /\ f.to = u
        /\ Event(kind, 0, Zero, u) = <<f>>
    BY <1>2, NotedFacts
  <2>8. StakeSaid(c, c, e) /\ StakeSaid(c, d, f)
    BY <2>5, <2>6, <2>7, StakeSame
  <2>9. \A k \in WlpFacts : Tells(k, t.events, OnChain(k, c), OnChain(k, t.chain))
    BY <1>2, <2>6, <2>7, <2>8, WlpTwo
  <2>10. Range(t.events) = {e, f}
    BY <1>2, <2>6, <2>7, RangeTwo
  <2>11. \A v : (Reads(e, v) <=> FALSE) /\ (Reads(f, v) <=> v = u)
    BY <1>2, <2>6, <2>7 DEF Reads
  <2>12. ReadNow(c, d, t.events, u)
    BY <2>4, <2>5, <2>10, <2>11 DEF ReadNow
  <2>13. ASSUME NEW v \in User, v # u PROVE Unread(c, d, t.events, v)
    <3>1. \A x \in Range(t.events) : ~Reads(x, v)
      BY <2>10, <2>11, <2>13
    <3>2. d.read[v] = c.read[v] /\ d.drift[v] = c.drift[v] /\ d.wlp[v] = c.wlp[v]
      BY <1>2, <2>4, <2>5, <2>13
    <3> QED
      BY <3>1, <3>2 DEF Unread
  <2> QED
    BY <1>2, <2>5, <2>6, <2>7, <2>9, <2>10, <2>12, <2>13 DEF MultiGood
<1>3. MultiGood(c, MultiDeposited(c, u))
  <2>1. PICK w : w = [c.wlp EXCEPT ![u] = @ + 1]
    OBVIOUS
  <2>2. w \in [User -> Int] /\ \A v \in User : v # u => w[v] = c.wlp[v]
    BY <1>1, <2>1
  <2>3. Read(c, u).wlp = c.wlp
    BY DEF Read, WagmiChains
  <2>4. PICK d : d = [Read(c, u) EXCEPT !.wlp = w]
    OBVIOUS
  <2>5. PICK t : t = MultiDeposited(c, u)
    OBVIOUS
  <2>6. t.chain = d /\ t.events = Event("WlpTransfer", 0, Zero, u) \o Event("MultiDeposit", 0, Zero, u)
    BY <2>1, <2>3, <2>4, <2>5 DEF MultiDeposited, Becomes
  <2>7. MultiGood(c, t)
    <3>1. PICK e, f : e = Noted("WlpTransfer", 0, Zero, u) /\ f = Noted("MultiDeposit", 0, Zero, u)
      OBVIOUS
    <3>2. "MultiDeposit" \in {"MultiDeposit", "MultiWithdraw"} /\ Zero \in {Zero, u}
      OBVIOUS
    <3> QED
      BY <1>2, <2>2, <2>4, <2>6, <3>1, <3>2
  <2> QED
    BY <2>5, <2>7
<1>4. MultiGood(c, MultiWithdrawn(c, u))
  <2>1. PICK w : w = [c.wlp EXCEPT ![u] = @ - 1]
    OBVIOUS
  <2>2. w \in [User -> Int] /\ \A v \in User : v # u => w[v] = c.wlp[v]
    BY <1>1, <2>1
  <2>3. Read(c, u).wlp = c.wlp
    BY DEF Read, WagmiChains
  <2>4. PICK d : d = [Read(c, u) EXCEPT !.wlp = w]
    OBVIOUS
  <2>5. PICK t : t = MultiWithdrawn(c, u)
    OBVIOUS
  <2>6. t.chain = d /\ t.events = Event("WlpTransfer", 0, u, Zero) \o Event("MultiWithdraw", 0, Zero, u)
    BY <2>1, <2>3, <2>4, <2>5 DEF MultiWithdrawn, Becomes
  <2>7. MultiGood(c, t)
    <3>1. PICK e, f : e = Noted("WlpTransfer", 0, u, Zero) /\ f = Noted("MultiWithdraw", 0, Zero, u)
      OBVIOUS
    <3>2. "MultiWithdraw" \in {"MultiDeposit", "MultiWithdraw"} /\ Zero \in {u, Zero}
      OBVIOUS
    <3> QED
      BY <1>2, <2>2, <2>4, <2>6, <3>1, <3>2
  <2> QED
    BY <2>5, <2>7
<1> QED
  BY <1>3, <1>4

(* A transfer between users. *)
LEMMA MultiTransfers ==
  ASSUME NEW c \in WagmiChains, NEW u \in User, NEW v \in User
  PROVE  MultiGood(c, WlpMoved(c, u, v))
<1>1. c.wlp \in [User -> Int] /\ c.block \in Int /\ c.drift \in [User -> Int] /\ c.read \in [User -> Int]
  BY DEF WagmiChains
<1>2. PICK w : w = Transferred(c.wlp, u, v)
  OBVIOUS
<1>3. w \in [User -> Int] /\ \A x \in User \ {u, v} : w[x] = c.wlp[x]
  BY <1>1, <1>2 DEF Transferred
<1>4. PICK D : D = [[c.drift EXCEPT ![u] = 0] EXCEPT ![v] = 0]
  OBVIOUS
<1>5. PICK R : R = [[c.read EXCEPT ![u] = c.block] EXCEPT ![v] = c.block]
  OBVIOUS
<1>6. /\ D \in [User -> Int] /\ D[u] = 0 /\ D[v] = 0 /\ \A x \in User \ {u, v} : D[x] = c.drift[x]
      /\ R \in [User -> Int] /\ R[u] = c.block /\ R[v] = c.block /\ \A x \in User \ {u, v} : R[x] = c.read[x]
  BY <1>1, <1>4, <1>5
<1>7. PICK t : t = WlpMoved(c, u, v)
  OBVIOUS
<1>8. PICK d : d = [[c EXCEPT !.drift = D, !.read = R] EXCEPT !.wlp = w]
  OBVIOUS
<1>9. t.chain = d /\ t.events = Event("WlpTransfer", 0, u, v)
  <2>1. PICK r : r = Read(c, u)
    OBVIOUS
  <2>2. r = [c EXCEPT !.drift = [c.drift EXCEPT ![u] = 0], !.read = [c.read EXCEPT ![u] = c.block]]
    BY <2>1 DEF Read
  <2>3. r.drift = [c.drift EXCEPT ![u] = 0] /\ r.read = [c.read EXCEPT ![u] = c.block] /\ r.block = c.block /\ r.wlp = c.wlp
    BY <2>2 DEF WagmiChains
  <2>4. Read(r, v) = [c EXCEPT !.drift = D, !.read = R]
    BY <1>4, <1>5, <2>2, <2>3 DEF Read, WagmiChains
  <2>5. Read(r, v).wlp = c.wlp
    BY <2>4 DEF WagmiChains
  <2> QED
    BY <1>2, <1>7, <1>8, <2>1, <2>4, <2>5 DEF WlpMoved, Becomes
<1>10. d \in WagmiChains /\ PoolStands(c, d) /\ d.wlp = w /\ d.drift = D /\ d.read = R /\ d.staked = c.staked
  BY <1>3, <1>6, <1>8 DEF WagmiChains, PoolStands
<1>11. PICK e : e = Noted("WlpTransfer", 0, u, v)
  OBVIOUS
<1>12. /\ "kind" \in DOMAIN e /\ Has(e, {"from", "to"}) /\ e.kind = "WlpTransfer" /\ e.from = u /\ e.to = v
       /\ Event("WlpTransfer", 0, u, v) = <<e>>
  BY <1>11, NotedFacts
<1>13. StakeSaid(c, d, e)
  BY <1>10, <1>12, StakeSame
<1>14. \A k \in WlpFacts : Tells(k, t.events, OnChain(k, c), OnChain(k, t.chain))
  BY <1>9, <1>12, <1>13, WlpOne
<1>15. Range(t.events) = {e}
  BY <1>9, <1>12, RangeOne
<1>16. \A x : Reads(e, x) <=> x \in {u, v}
  BY <1>12, AddressAssumption DEF Reads
<1>17. \A x \in {u, v} : ReadNow(c, d, t.events, x)
  BY <1>6, <1>10, <1>15, <1>16 DEF ReadNow
<1>18. ASSUME NEW x \in User, x \notin {u, v} PROVE Unread(c, d, t.events, x)
  <2>1. \A y \in Range(t.events) : ~Reads(y, x)
    BY <1>15, <1>16, <1>18
  <2>2. d.read[x] = c.read[x] /\ d.drift[x] = c.drift[x] /\ d.wlp[x] = c.wlp[x]
    BY <1>3, <1>6, <1>10, <1>18
  <2> QED
    BY <2>1, <2>2 DEF Unread
<1>19. MultiGood(c, t)
  BY <1>9, <1>10, <1>12, <1>14, <1>15, <1>17, <1>18 DEF MultiGood
<1> QED
  BY <1>7, <1>19

(* Staking, and its end. *)
StakeMoved(c, u, n, e, f, from, to, kind, t, w, s) ==
  /\ n \in {1, -1} /\ kind \in {"Stake", "Unstake"}
  /\ IF n = 1 THEN kind = "Stake" /\ from = u /\ to = Pool ELSE kind = "Unstake" /\ from = Pool /\ to = u
  /\ e = Noted("WlpTransfer", 0, from, to) /\ f = Noted(kind, 0, from, to)
  /\ t.events = Event("WlpTransfer", 0, from, to) \o Event(kind, 0, from, to)
  /\ w = [c.wlp EXCEPT ![u] = @ - n] /\ s = [c.staked EXCEPT ![u] = @ + n]
  /\ t.chain = [Drifted(c, u, n) EXCEPT !.wlp = w, !.staked = s]

(* Staking and unstaking WLP tell what they change. *)
LEMMA MultiStakes ==
  ASSUME NEW c \in WagmiChains, NEW u \in User
  PROVE  MultiGood(c, WlpStaked(c, u)) /\ MultiGood(c, WlpUnstaked(c, u))
<1>1. /\ c.wlp \in [User -> Int] /\ c.block \in Int /\ c.drift \in [User -> Int] /\ c.read \in [User -> Int]
      /\ c.staked \in [User -> Int]
  BY DEF WagmiChains
<1>2. ASSUME NEW n, NEW e, NEW f, NEW from, NEW to, NEW kind, NEW t, NEW w, NEW s,
             StakeMoved(c, u, n, e, f, from, to, kind, t, w, s)
      PROVE  MultiGood(c, t)
  <2>0. /\ n \in {1, -1} /\ kind \in {"Stake", "Unstake"}
        /\ IF n = 1 THEN kind = "Stake" /\ from = u /\ to = Pool ELSE kind = "Unstake" /\ from = Pool /\ to = u
        /\ e = Noted("WlpTransfer", 0, from, to) /\ f = Noted(kind, 0, from, to)
        /\ t.events = Event("WlpTransfer", 0, from, to) \o Event(kind, 0, from, to)
        /\ w = [c.wlp EXCEPT ![u] = @ - n] /\ s = [c.staked EXCEPT ![u] = @ + n]
        /\ t.chain = [Drifted(c, u, n) EXCEPT !.wlp = w, !.staked = s]
    BY <1>2 DEF StakeMoved
  <2>1. PICK D : D = IF c.read[u] = c.block THEN c.drift ELSE [c.drift EXCEPT ![u] = @ + n]
    OBVIOUS
  <2>2. PICK d : d = t.chain
    OBVIOUS
  <2>3. d = [c EXCEPT !.drift = D, !.wlp = w, !.staked = s]
    BY <2>0, <2>1, <2>2 DEF Drifted, WagmiChains
  <2>4. /\ D \in [User -> Int] /\ D[u] = (IF c.read[u] = c.block THEN c.drift[u] ELSE c.drift[u] + n)
        /\ \A v \in User : v # u => D[v] = c.drift[v]
    <3>1. n \in Int
      BY <2>0
    <3>2. CASE c.read[u] = c.block
      BY <1>1, <2>1, <3>2
    <3>3. CASE c.read[u] # c.block
      <4>1. D = [c.drift EXCEPT ![u] = @ + n]
        BY <2>1, <3>3
      <4> QED
        BY <1>1, <3>1, <3>3, <4>1
    <3> QED
      BY <3>2, <3>3
  <2>5. /\ w \in [User -> Int] /\ w[u] = c.wlp[u] - n /\ \A v \in User : v # u => w[v] = c.wlp[v]
        /\ s \in [User -> Int] /\ s[u] = c.staked[u] + n /\ \A v \in User : v # u => s[v] = c.staked[v]
    BY <1>1, <2>0
  <2>6. d \in WagmiChains /\ PoolStands(c, d) /\ d.wlp = w /\ d.drift = D /\ d.read = c.read /\ d.staked = s
    BY <2>3, <2>4, <2>5 DEF WagmiChains, PoolStands
  <2>7. /\ "kind" \in DOMAIN e /\ Has(e, {"from", "to"}) /\ e.kind = "WlpTransfer" /\ e.from = from /\ e.to = to
        /\ Event("WlpTransfer", 0, from, to) = <<e>>
    BY <2>0, NotedFacts
  <2>8. /\ "kind" \in DOMAIN f /\ Has(f, {"from", "to"}) /\ f.kind = kind /\ f.from = from /\ f.to = to
        /\ Event(kind, 0, from, to) = <<f>>
    BY <2>0, NotedFacts
  <2>9. StakeSaid(c, c, e)
    BY <2>7, StakeSame
  <2>10. StakeSaid(c, d, f)
    <3> SUFFICES ASSUME NEW v \in User PROVE SaysWlp(v, c.staked[v], f, d.staked[v])
      BY DEF StakeSaid
    <3>1. c.staked[v] \in Int /\ d.staked[v] \in Int /\ d.staked[v] = IF v = u THEN c.staked[v] + n ELSE c.staked[v]
      BY <1>1, <2>5, <2>6
    <3>2. CASE n = 1
      BY <2>0, <2>8, <3>1, <3>2 DEF SaysWlp
    <3>3. CASE n = -1
      BY <2>0, <2>8, <3>1, <3>3 DEF SaysWlp
    <3> QED
      BY <2>0, <3>2, <3>3
  <2>11. \A k \in WlpFacts : Tells(k, t.events, OnChain(k, c), OnChain(k, t.chain))
    BY <2>0, <2>2, <2>7, <2>8, <2>9, <2>10, WlpTwo
  <2>12. Range(t.events) = {e, f}
    BY <2>0, <2>7, <2>8, RangeTwo
  <2>13. \A v : ~Reads(e, v) /\ ~Reads(f, v)
    <3>1. Pool \in {from, to} /\ kind \in {"Stake", "Unstake"}
      BY <2>0
    <3> QED
      BY <2>7, <2>8, <3>1 DEF Reads
  <2>14. ASSUME NEW v \in User PROVE Unread(c, d, t.events, v)
    <3>1. \A x \in Range(t.events) : ~Reads(x, v)
      BY <2>12, <2>13
    <3>2. d.read[v] = c.read[v]
      BY <2>6
    <3>3. IF c.read[v] = c.block THEN d.drift[v] = c.drift[v] ELSE d.wlp[v] + d.drift[v] = c.wlp[v] + c.drift[v]
      <4>1. c.wlp[v] \in Int /\ c.drift[v] \in Int /\ n \in Int
        BY <1>1, <2>0
      <4> QED
        BY <2>4, <2>5, <2>6, <4>1
    <3> QED
      BY <3>1, <3>2, <3>3 DEF Unread
  <2> QED
    BY <2>2, <2>6, <2>7, <2>8, <2>11, <2>12, <2>14 DEF MultiGood
<1>3. \A n : Drifted(c, u, n).wlp = c.wlp /\ Drifted(c, u, n).staked = c.staked
  BY DEF Drifted, WagmiChains
<1>4. MultiGood(c, WlpStaked(c, u))
  <2>1. PICK w : w = [c.wlp EXCEPT ![u] = @ - 1]
    OBVIOUS
  <2>2. PICK s : s = [c.staked EXCEPT ![u] = @ + 1]
    OBVIOUS
  <2>3. PICK t : t = WlpStaked(c, u)
    OBVIOUS
  <2>4. /\ t.chain = [Drifted(c, u, 1) EXCEPT !.wlp = w, !.staked = s]
        /\ t.events = Event("WlpTransfer", 0, u, Pool) \o Event("Stake", 0, u, Pool)
    BY <1>3, <2>1, <2>2, <2>3 DEF WlpStaked, Becomes
  <2>5. MultiGood(c, t)
    <3>1. PICK e, f : e = Noted("WlpTransfer", 0, u, Pool) /\ f = Noted("Stake", 0, u, Pool)
      OBVIOUS
    <3> QED
      <4>1. StakeMoved(c, u, 1, e, f, u, Pool, "Stake", t, w, s)
        BY <2>1, <2>2, <2>4, <3>1 DEF StakeMoved
      <4> QED
        BY <1>2, <4>1
  <2> QED
    BY <2>3, <2>5
<1>5. MultiGood(c, WlpUnstaked(c, u))
  <2>1. PICK w : w = [c.wlp EXCEPT ![u] = @ + 1]
    OBVIOUS
  <2>2. PICK s : s = [c.staked EXCEPT ![u] = @ - 1]
    OBVIOUS
  <2>3. PICK t : t = WlpUnstaked(c, u)
    OBVIOUS
  <2>4. /\ t.chain = [Drifted(c, u, -1) EXCEPT !.wlp = w, !.staked = s]
        /\ t.events = Event("WlpTransfer", 0, Pool, u) \o Event("Unstake", 0, Pool, u)
    BY <1>3, <2>1, <2>2, <2>3 DEF WlpUnstaked, Becomes
  <2>4a. w = [c.wlp EXCEPT ![u] = @ - (-1)] /\ s = [c.staked EXCEPT ![u] = @ + (-1)]
    <3>1. c.wlp[u] + 1 = c.wlp[u] - (-1) /\ c.staked[u] - 1 = c.staked[u] + (-1)
      BY <1>1
    <3> QED
      BY <2>1, <2>2, <3>1
  <2>5. MultiGood(c, t)
    <3>1. PICK e, f : e = Noted("WlpTransfer", 0, Pool, u) /\ f = Noted("Unstake", 0, Pool, u)
      OBVIOUS
    <3> QED
      <4>1. StakeMoved(c, u, -1, e, f, Pool, u, "Unstake", t, w, s)
        BY <2>4, <2>4a, <3>1 DEF StakeMoved
      <4> QED
        BY <1>2, <4>1
  <2> QED
    BY <2>3, <2>5
<1> QED
  BY <1>4, <1>5

(* Whatever the multipool does, its events tell it. *)
LEMMA MultiTells ==
  ASSUME NEW c \in WagmiChains, NEW t \in MultiMoves(c)
  PROVE  MultiGood(c, t)
BY MultiDeposits, MultiTransfers, MultiStakes DEF MultiMoves

------------------------------------------------------------------------------
(* The multipool's positions in the index. *)
MultiTyped(ix) ==
  /\ {"pool", "positions", "multi", "events"} \subseteq DOMAIN ix
  /\ \A u \in DOMAIN ix.multi : {"balance", "staked"} \subseteq DOMAIN ix.multi[u]

(* What reading a balance and staking do to the positions. *)
HasRead(ix, jx, u, n) ==
  /\ MultiTyped(jx) /\ jx.pool = ix.pool /\ jx.positions = ix.positions
  /\ \A v : /\ MultiPosition(jx, v).staked = MultiPosition(ix, v).staked
            /\ MultiPosition(jx, v).balance = IF v = u THEN n ELSE MultiPosition(ix, v).balance
HasStaked(ix, jx, u, n) ==
  /\ MultiTyped(jx) /\ jx.pool = ix.pool /\ jx.positions = ix.positions
  /\ \A v : /\ MultiPosition(jx, v).balance = MultiPosition(ix, v).balance
            /\ MultiPosition(jx, v).staked = IF v = u THEN MultiPosition(ix, v).staked + n ELSE MultiPosition(ix, v).staked

(* Reading a balance writes that balance alone, staking that stake alone. *)
LEMMA MultiSaves ==
  ASSUME NEW ix, MultiTyped(ix), NEW u
  PROVE  (\A c : HasRead(ix, WlpRead(ix, u, c), u, c.wlp[u])) /\ \A n : HasStaked(ix, StakedBy(ix, u, n), u, n)
<1>1. {"balance", "staked"} \subseteq DOMAIN MultiPosition(ix, u)
  BY DEF MultiPosition, Load, MultiTyped
<1>2. ASSUME NEW p, {"balance", "staked"} \subseteq DOMAIN p, NEW jx, jx = [ix EXCEPT !.multi = Save(@, u, p)]
      PROVE  /\ MultiTyped(jx) /\ jx.pool = ix.pool /\ jx.positions = ix.positions
             /\ \A v : MultiPosition(jx, v) = IF v = u THEN p ELSE MultiPosition(ix, v)
  <2>1. PICK st : st = Save(ix.multi, u, p)
    OBVIOUS
  <2>2. jx.multi = st /\ DOMAIN jx = DOMAIN ix /\ jx.pool = ix.pool /\ jx.positions = ix.positions
    BY <1>2, <2>1 DEF MultiTyped
  <2>3. /\ DOMAIN st = DOMAIN ix.multi \cup {u}
        /\ \A j, new : Load(st, j, new) = IF j = u THEN p ELSE Load(ix.multi, j, new)
    BY <2>1 DEF Save, Load
  <2>4. \A v \in DOMAIN st : st[v] = IF v = u THEN p ELSE ix.multi[v]
    BY <2>1 DEF Save
  <2>5. MultiTyped(jx)
    BY <1>2, <2>2, <2>3, <2>4 DEF MultiTyped
  <2> QED
    BY <2>2, <2>3, <2>5 DEF MultiPosition
<1>3. ASSUME NEW c PROVE HasRead(ix, WlpRead(ix, u, c), u, c.wlp[u])
  <2>1. PICK p : p = [MultiPosition(ix, u) EXCEPT !.balance = c.wlp[u]]
    OBVIOUS
  <2>2. {"balance", "staked"} \subseteq DOMAIN p /\ p.balance = c.wlp[u] /\ p.staked = MultiPosition(ix, u).staked
    BY <1>1, <2>1
  <2>3. PICK jx : jx = WlpRead(ix, u, c)
    OBVIOUS
  <2>4. jx = [ix EXCEPT !.multi = Save(@, u, p)]
    BY <2>1, <2>3 DEF WlpRead
  <2>5. /\ MultiTyped(jx) /\ jx.pool = ix.pool /\ jx.positions = ix.positions
        /\ \A v : MultiPosition(jx, v) = IF v = u THEN p ELSE MultiPosition(ix, v)
    BY <1>2, <2>2, <2>4
  <2> QED
    BY <2>2, <2>3, <2>5 DEF HasRead
<1>4. ASSUME NEW n PROVE HasStaked(ix, StakedBy(ix, u, n), u, n)
  <2>1. PICK p : p = [MultiPosition(ix, u) EXCEPT !.staked = @ + n]
    OBVIOUS
  <2>2. /\ {"balance", "staked"} \subseteq DOMAIN p /\ p.balance = MultiPosition(ix, u).balance
        /\ p.staked = MultiPosition(ix, u).staked + n
    BY <1>1, <2>1
  <2>3. PICK jx : jx = StakedBy(ix, u, n)
    OBVIOUS
  <2>4. jx = [ix EXCEPT !.multi = Save(@, u, p)]
    BY <2>1, <2>3 DEF StakedBy
  <2>5. /\ MultiTyped(jx) /\ jx.pool = ix.pool /\ jx.positions = ix.positions
        /\ \A v : MultiPosition(jx, v) = IF v = u THEN p ELSE MultiPosition(ix, v)
    BY <1>2, <2>2, <2>4
  <2> QED
    BY <2>2, <2>3, <2>5 DEF HasStaked
<1> QED
  BY <1>3, <1>4

(* The multipool's handlers read what they read, and stake what is said.   *)
MultiHeard(ix, e, c, jx) ==
  /\ MultiTyped(jx) /\ jx.pool = ix.pool /\ jx.positions = ix.positions
  /\ \A v \in User :
       /\ MultiPosition(jx, v).balance = IF Reads(e, v) THEN c.wlp[v] ELSE MultiPosition(ix, v).balance
       /\ \A w : SaysWlp(v, MultiPosition(ix, v).staked, e, w) => MultiPosition(jx, v).staked = w

(* A handler reads the balances its event names and moves the stake it     *)
(* says.                                                                   *)
LEMMA MultiHears ==
  ASSUME NEW ix, MultiTyped(ix), NEW e, "kind" \in DOMAIN e, e.kind \in MultiKinds, Has(e, {"from", "to"}),
         NEW c, NEW jx, jx = WagmiHandled(ix, e, c)
  PROVE  MultiHeard(ix, e, c, jx)
<1>1. CASE e.kind \in {"MultiDeposit", "MultiWithdraw"}
  <2>1. jx = WlpRead(ix, e.to, c)
    BY <1>1 DEF WagmiHandled, HandleMultiDeposit, HandleMultiWithdraw
  <2>2. \A v : Reads(e, v) <=> v = e.to
    BY <1>1 DEF Reads
  <2>3. \A v, x, w : SaysWlp(v, x, e, w) => w = x
    BY <1>1 DEF SaysWlp
  <2>4. HasRead(ix, jx, e.to, c.wlp[e.to])
    BY <2>1, MultiSaves
  <2> QED
    BY <2>2, <2>3, <2>4 DEF HasRead, MultiHeard
<1>2. CASE e.kind = "WlpTransfer"
  <2>1. \A v, x, w : SaysWlp(v, x, e, w) => w = x
    BY <1>2 DEF SaysWlp
  <2>2. CASE {e.from, e.to} \cap {Pool, Zero} # {}
    <3>1. jx = ix
      BY <1>2, <2>2 DEF WagmiHandled, HandleWlpTransfer
    <3>2. \A v : ~Reads(e, v)
      BY <1>2, <2>2 DEF Reads
    <3> QED
      BY <2>1, <3>1, <3>2 DEF MultiHeard
  <2>3. CASE {e.from, e.to} \cap {Pool, Zero} = {}
    <3>1. PICK kx : kx = WlpRead(ix, e.from, c)
      OBVIOUS
    <3>2. jx = WlpRead(kx, e.to, c)
      BY <1>2, <2>3, <3>1 DEF WagmiHandled, HandleWlpTransfer
    <3>3. \A v : Reads(e, v) <=> v \in {e.from, e.to}
      BY <1>2, <2>3 DEF Reads
    <3>4a. HasRead(ix, kx, e.from, c.wlp[e.from])
      BY <3>1, MultiSaves
    <3>4. /\ MultiTyped(kx) /\ kx.pool = ix.pool /\ kx.positions = ix.positions
          /\ \A v : /\ MultiPosition(kx, v).staked = MultiPosition(ix, v).staked
                    /\ MultiPosition(kx, v).balance = IF v = e.from THEN c.wlp[e.from] ELSE MultiPosition(ix, v).balance
      BY <3>4a DEF HasRead
    <3>5a. HasRead(kx, jx, e.to, c.wlp[e.to])
      BY <3>2, <3>4, MultiSaves
    <3>5. /\ MultiTyped(jx) /\ jx.pool = kx.pool /\ jx.positions = kx.positions
          /\ \A v : /\ MultiPosition(jx, v).staked = MultiPosition(kx, v).staked
                    /\ MultiPosition(jx, v).balance = IF v = e.to THEN c.wlp[e.to] ELSE MultiPosition(kx, v).balance
      BY <3>5a DEF HasRead
    <3> QED
      BY <2>1, <3>3, <3>4, <3>5 DEF MultiHeard
  <2> QED
    BY <2>2, <2>3
<1>3. CASE e.kind = "Stake"
  <2>1. jx = StakedBy(ix, e.from, 1)
    BY <1>3 DEF WagmiHandled, HandleStake
  <2>2. \A v : ~Reads(e, v)
    BY <1>3 DEF Reads
  <2>3. \A v, x, w : SaysWlp(v, x, e, w) => w = IF v = e.from THEN x + 1 ELSE x
    BY <1>3 DEF SaysWlp
  <2>4. HasStaked(ix, jx, e.from, 1)
    BY <2>1, MultiSaves
  <2> QED
    BY <2>2, <2>3, <2>4 DEF HasStaked, MultiHeard
<1>4. CASE e.kind = "Unstake"
  <2>1. jx = StakedBy(ix, e.to, -1)
    BY <1>4 DEF WagmiHandled, HandleUnstake
  <2>2. \A v : ~Reads(e, v)
    BY <1>4 DEF Reads
  <2>3. \A v, x, w : SaysWlp(v, x, e, w) => w = IF v = e.to THEN x + (-1) ELSE x
    BY <1>4 DEF SaysWlp
  <2>4. HasStaked(ix, jx, e.to, -1)
    BY <2>1, MultiSaves
  <2> QED
    BY <2>2, <2>3, <2>4 DEF HasStaked, MultiHeard
<1> QED
  BY <1>1, <1>2, <1>3, <1>4 DEF MultiKinds

------------------------------------------------------------------------------
(* The multipool's invariant.  What was read in this block waits in the    *)
(* queue until the block is handled; what was not is as it was read, but   *)
(* for what was staked since.                                              *)

PendingRead(u) == \E e \in Range(queue) : Reads(e, u)
ReadInBlock ==
  \A u \in User :
    /\ chain.read[u] <= chain.block
    /\ PendingRead(u) => chain.read[u] = chain.block /\ chain.drift[u] = 0
    /\ ~sealed /\ chain.read[u] = chain.block => PendingRead(u)
    /\ PendingRead(u) \/ MultiPosition(index, u).balance = chain.wlp[u] + chain.drift[u]

MultiInv ==
  /\ chain \in WagmiChains
  /\ chain.tick = NoTick /\ chain.reserve = 0 /\ chain.taken = 0 /\ chain.nfts = <<>> /\ chain.direct = 0
  /\ MultiTyped(index)
  /\ index.pool = [tick |-> NoTick, liquidity |-> 0, locked |-> 0] /\ index.positions = Nothing
  /\ \A k \in WlpFacts : Faithful(k)
  /\ \A e \in Range(queue) : "kind" \in DOMAIN e /\ Has(e, {"from", "to"})
  /\ ReadInBlock

(* Where Wagmi's contracts start. *)
LEMMA WagmiStarts ==
  /\ WagmiChain \in WagmiChains /\ WagmiChain.block = 1 /\ WagmiChain.tick = NoTick /\ WagmiChain.reserve = 0
  /\ WagmiChain.taken = 0 /\ WagmiChain.nfts = <<>> /\ WagmiChain.direct = 0
  /\ \A u \in User : WagmiChain.wlp[u] = 0 /\ WagmiChain.staked[u] = 0 /\ WagmiChain.drift[u] = 0 /\ WagmiChain.read[u] = 0
<1>1. <<>> \in Seq([owner : User \cup {Zero}, range : Ranges, liquidity : Nat])
  BY EmptySeq
<1> QED
  BY <1>1 DEF WagmiChain, WagmiChains, NoTick

(* The multipool's invariant holds at the start. *)
LEMMA MultiStarts ==
  ASSUME IndexInit, protocol = "multipool"
  PROVE  MultiInv
<1>1. chain = WagmiChain /\ index = WagmiIndex /\ queue = <<>>
  BY DEF IndexInit, FirstChain, FirstIndex
<1>2. /\ MultiTyped(index) /\ index.pool = [tick |-> NoTick, liquidity |-> 0, locked |-> 0]
      /\ index.positions = Nothing /\ index.multi = Nothing
  BY <1>1 DEF WagmiIndex, MultiTyped, Nothing
<1>3. \A u : MultiPosition(index, u) = [balance |-> 0, staked |-> 0]
  BY <1>2 DEF MultiPosition, Load, Nothing
<1>4. \A u : MultiPosition(index, u).balance = 0 /\ MultiPosition(index, u).staked = 0
  BY <1>3
<1>5. ASSUME NEW u \in User PROVE InIndex(Fact("wlp", u, u), index) = OnChain(Fact("wlp", u, u), chain)
  BY <1>1, <1>4, WagmiStarts DEF InIndex, OnChain, Fact
<1>6. \A k \in WlpFacts : Faithful(k)
  BY <1>1, <1>5, KnownAtStart DEF WlpFacts
<1>7. \A u : ~PendingRead(u)
  BY <1>1 DEF PendingRead, Range
<1>8. ReadInBlock
  BY <1>1, <1>4, <1>7, WagmiStarts DEF ReadInBlock
<1>9. Range(queue) = {}
  BY <1>1 DEF Range
<1> QED
  BY <1>1, <1>2, <1>6, <1>8, <1>9, WagmiStarts DEF MultiInv

(* A stamped event is read as it was. *)
LEMMA StampReads ==
  ASSUME NEW e, "kind" \in DOMAIN e, Has(e, {"from", "to"}), NEW b, NEW x, NEW l, NEW u
  PROVE  Reads(Stamp(e, b, x, l), u) <=> Reads(e, u)
<1>1. PICK st : st = Stamp(e, b, x, l)
  OBVIOUS
<1>2. \A f \in DOMAIN e : f \in DOMAIN st /\ (f \notin {"block", "tx", "log"} => st[f] = e[f])
  BY <1>1, StampSame
<1>3. /\ "kind" \in DOMAIN st /\ st.kind = e.kind /\ Has(st, {"from", "to"}) /\ st.from = e.from /\ st.to = e.to
  BY <1>2 DEF Has
<1> QED
  BY <1>1, <1>3 DEF Reads

(* A step keeps the multipool's invariant. *)
LEMMA MultiStep ==
  ASSUME IndexInv, Waits, protocol = "multipool", MultiInv, IndexNext
  PROVE  MultiInv'
<1>0. WlpFacts' = WlpFacts /\ WagmiChains' = WagmiChains
  OBVIOUS
<1>i. \A u \in User :
        /\ chain.read[u] \in Int /\ chain.block \in Int /\ chain.read[u] <= chain.block
        /\ PendingRead(u) => chain.read[u] = chain.block /\ chain.drift[u] = 0
        /\ ~sealed /\ chain.read[u] = chain.block => PendingRead(u)
        /\ PendingRead(u) \/ MultiPosition(index, u).balance = chain.wlp[u] + chain.drift[u]
  BY DEF MultiInv, ReadInBlock, WagmiChains
<1>1. CASE Transact
  <2>1. Transactions = MultiMoves(chain)
    BY DEF Transactions
  <2>2. \A t \in Transactions : t.events \in Seq(Range(t.events))
    BY AllEmit DEF Waits
  <2>3. PICK t \in Transactions : chain' = t.chain /\ Lengthened(queue, t.events, chain.block, txs + 1, queue')
    BY <1>1, <2>2, Transacts DEF Waits
  <2>4. index' = index /\ ~sealed
    BY <1>1 DEF Transact
  <2>5. MultiGood(chain, t)
    BY <2>1, MultiTells DEF MultiInv
  <2>6. ASSUME NEW k \in WlpFacts PROVE Faithful(k)'
    BY <2>3, <2>4, <2>5, KnownGrows DEF MultiInv, MultiGood
  <2>7. /\ Range(queue) \subseteq Range(queue')
        /\ \A e \in Range(t.events) : \E st \in Range(queue'), l \in Nat : st = Stamp(e, chain.block, txs + 1, l)
        /\ \A st \in Range(queue') : st \in Range(queue)
              \/ \E e \in Range(t.events), l \in Nat : st = Stamp(e, chain.block, txs + 1, l)
    BY <2>3, WaitingGrows
  <2>8. \A e \in Range(t.events) : "kind" \in DOMAIN e /\ Has(e, {"from", "to"})
    BY <2>5 DEF MultiGood
  <2>9. ASSUME NEW u \in User
        PROVE  PendingRead(u)' <=> PendingRead(u) \/ \E e \in Range(t.events) : Reads(e, u)
    <3>1. ASSUME NEW st \in Range(queue'), Reads(st, u) PROVE PendingRead(u) \/ \E e \in Range(t.events) : Reads(e, u)
      <4>1. CASE st \in Range(queue)
        BY <3>1, <4>1 DEF PendingRead
      <4>2. CASE \E e \in Range(t.events), l \in Nat : st = Stamp(e, chain.block, txs + 1, l)
        BY <2>8, <3>1, <4>2, StampReads
      <4> QED
        BY <2>7, <4>1, <4>2
    <3>2. ASSUME NEW e \in Range(t.events), Reads(e, u) PROVE \E st \in Range(queue') : Reads(st, u)
      <4>1. PICK st \in Range(queue'), l \in Nat : st = Stamp(e, chain.block, txs + 1, l)
        BY <2>7
      <4> QED
        BY <2>8, <3>2, <4>1, StampReads
    <3>3. PendingRead(u) => \E st \in Range(queue') : Reads(st, u)
      BY <2>7 DEF PendingRead
    <3>4. PendingRead(u)' <=> \E st \in Range(queue') : Reads(st, u)
      BY DEF PendingRead
    <3> QED
      BY <3>1, <3>2, <3>3, <3>4
  <2>10. sealed' = sealed /\ chain'.block = chain.block
    BY <1>1, <2>3, <2>5 DEF Transact, MultiGood, PoolStands
  <2>11. ASSUME NEW u \in User
         PROVE  /\ chain'.read[u] <= chain'.block
                /\ PendingRead(u)' => chain'.read[u] = chain'.block /\ chain'.drift[u] = 0
                /\ ~sealed' /\ chain'.read[u] = chain'.block => PendingRead(u)'
                /\ PendingRead(u)' \/ MultiPosition(index', u).balance = chain'.wlp[u] + chain'.drift[u]
    <3>1. CASE ReadNow(chain, t.chain, t.events, u)
      <4>1. PendingRead(u)' /\ chain'.read[u] = chain.block /\ chain'.drift[u] = 0
        BY <2>3, <2>9, <3>1 DEF ReadNow
      <4> QED
        BY <1>i, <2>10, <4>1
    <3>2. CASE Unread(chain, t.chain, t.events, u)
      <4>1. /\ PendingRead(u)' <=> PendingRead(u)
            /\ chain'.read[u] = chain.read[u]
            /\ chain.read[u] = chain.block => chain'.drift[u] = chain.drift[u]
            /\ chain.read[u] # chain.block => chain'.wlp[u] + chain'.drift[u] = chain.wlp[u] + chain.drift[u]
        BY <2>3, <2>9, <3>2 DEF Unread
      <4> QED
        BY <1>i, <2>4, <2>10, <4>1
    <3> QED
      BY <2>5, <3>1, <3>2 DEF MultiGood
  <2>12. ReadInBlock'
    BY <2>11 DEF ReadInBlock
  <2>14. ASSUME NEW st \in Range(queue') PROVE "kind" \in DOMAIN st /\ Has(st, {"from", "to"})
    <3>1. CASE st \in Range(queue)
      BY <3>1 DEF MultiInv
    <3>2. CASE \E e \in Range(t.events), l \in Nat : st = Stamp(e, chain.block, txs + 1, l)
      <4>1. PICK e \in Range(t.events), l \in Nat : st = Stamp(e, chain.block, txs + 1, l)
        BY <3>2
      <4>2. \A f \in DOMAIN e : f \in DOMAIN st
        BY <4>1, StampSame
      <4> QED
        BY <2>8, <4>2 DEF Has
    <3> QED
      BY <2>7, <3>1, <3>2
  <2>13. chain' \in WagmiChains /\ PoolStands(chain, chain')
    BY <2>3, <2>5 DEF MultiGood
  <2> QED
    BY <1>0, <2>4, <2>6, <2>12, <2>13, <2>14 DEF MultiInv, PoolStands, MultiTyped
<1>2. CASE Handle
  <2>1. queue # <<>> /\ queue' = Tail(queue) /\ chain' = chain /\ index' = HandledBy(Head(queue)) /\ sealed' = sealed /\ sealed
    BY <1>2 DEF Handle
  <2>2. PICK e : e = Head(queue)
    OBVIOUS
  <2>3. index' = WagmiHandled(index, e, chain)
    BY <2>1, <2>2 DEF HandledBy
  <2>4. "kind" \in DOMAIN e /\ e.kind \in MultiKinds
    <3>1. Recording /\ EventsInOrder
      BY DEF IndexInv, Recording, Protocols
    <3>2. e \in Seen
      BY <2>1, <2>2, <3>1, WaitingShrinks DEF EventsInOrder, Seen
    <3> QED
      BY <3>1, <3>2 DEF EventsInOrder, Placed, Kinds
  <2>5. Range(queue) = {e} \cup Range(queue')
    BY <2>1, <2>2, WaitingShrinks DEF Waits
  <2>6. Has(e, {"from", "to"})
    BY <2>5 DEF MultiInv
  <2>7a. MultiHeard(index, e, chain, index')
    BY <2>3, <2>4, <2>6, MultiHears DEF MultiInv
  <2>7. /\ MultiTyped(index') /\ index'.pool = index.pool /\ index'.positions = index.positions
        /\ \A v \in User :
             /\ MultiPosition(index', v).balance = IF Reads(e, v) THEN chain.wlp[v] ELSE MultiPosition(index, v).balance
             /\ \A w : SaysWlp(v, MultiPosition(index, v).staked, e, w) => MultiPosition(index', v).staked = w
    BY <2>7a DEF MultiHeard
  <2>8. ASSUME NEW u \in User PROVE Faithful(Fact("wlp", u, u))'
    <3> DEFINE k == Fact("wlp", u, u)
    <3>1. \A w : Makes(k, InIndex(k, index), Head(queue), w) => InIndex(k, index') = w
      <4>1. InIndex(k, index) = MultiPosition(index, u).staked /\ InIndex(k, index') = MultiPosition(index', u).staked
        BY DEF InIndex, Fact
      <4>2. \A w : Makes(k, InIndex(k, index), e, w) => SaysWlp(u, MultiPosition(index, u).staked, e, w)
        BY <4>1, SaysByName
      <4>3. \A w : SaysWlp(u, MultiPosition(index, u).staked, e, w) => MultiPosition(index', u).staked = w
        BY <2>7
      <4> HIDE DEF k
      <4> QED
        BY <2>2, <4>1, <4>2, <4>3
    <3>2. Faithful(k)
      BY DEF MultiInv, WlpFacts
    <3> HIDE DEF k
    <3>3. Faithful(k)'
      BY <2>1, <3>1, <3>2, KnownShrinks
    <3> QED
      BY <3>3 DEF k
  <2>9. ASSUME NEW u \in User
        PROVE  /\ chain'.read[u] <= chain'.block
               /\ PendingRead(u)' => chain'.read[u] = chain'.block /\ chain'.drift[u] = 0
               /\ ~sealed' /\ chain'.read[u] = chain'.block => PendingRead(u)'
               /\ PendingRead(u)' \/ MultiPosition(index', u).balance = chain'.wlp[u] + chain'.drift[u]
    <3>1. PendingRead(u) <=> Reads(e, u) \/ PendingRead(u)'
      BY <2>5 DEF PendingRead
    <3>2. CASE Reads(e, u)
      <4>1. MultiPosition(index', u).balance = chain.wlp[u] /\ chain.drift[u] = 0 /\ chain.wlp[u] \in Int
        BY <1>i, <2>7, <3>1, <3>2 DEF MultiInv, WagmiChains
      <4> QED
        BY <1>i, <2>1, <3>1, <4>1
    <3>3. CASE ~Reads(e, u)
      BY <1>i, <2>1, <2>7, <3>1, <3>3
    <3> QED
      BY <3>2, <3>3
  <2>10. ReadInBlock'
    BY <2>9 DEF ReadInBlock
  <2> QED
    BY <1>0, <2>1, <2>5, <2>7, <2>8, <2>10 DEF MultiInv, WlpFacts
<1>3. CASE Seal
  <2>1. chain' = chain /\ queue' = queue /\ index' = index /\ sealed' = TRUE
    BY <1>3 DEF Seal
  <2>2. ASSUME NEW k \in WlpFacts PROVE Faithful(k)'
    BY <2>1, KnownStays DEF MultiInv
  <2>3. \A u : PendingRead(u)' <=> PendingRead(u)
    BY <2>1 DEF PendingRead
  <2>4. ReadInBlock'
    BY <1>i, <2>1, <2>3 DEF ReadInBlock
  <2> QED
    BY <1>0, <2>1, <2>2, <2>4 DEF MultiInv, MultiTyped
<1>4. CASE NextBlock
  <2>1. chain' = [chain EXCEPT !.block = @ + 1] /\ queue' = queue /\ index' = index /\ queue = <<>>
    BY <1>4 DEF NextBlock
  <2>2. PICK b : b = chain.block + 1
    OBVIOUS
  <2>3. b \in Int /\ chain.block \in Int
    BY <2>2 DEF MultiInv, WagmiChains
  <2>4. chain' = [chain EXCEPT !.block = b]
    BY <2>1, <2>2
  <2>5. /\ chain' \in WagmiChains /\ chain'.block = b /\ chain'.tick = chain.tick /\ chain'.reserve = chain.reserve
        /\ chain'.taken = chain.taken /\ chain'.nfts = chain.nfts /\ chain'.direct = chain.direct
        /\ chain'.wlp = chain.wlp /\ chain'.staked = chain.staked /\ chain'.drift = chain.drift /\ chain'.read = chain.read
    BY <2>3, <2>4 DEF MultiInv, WagmiChains
  <2>6. ASSUME NEW k \in WlpFacts PROVE Faithful(k)'
    <3>1. k.of = "wlp"
      BY DEF WlpFacts, Fact
    <3>2. OnChain(k, chain') = OnChain(k, chain)
      BY <2>5, <3>1 DEF OnChain
    <3> QED
      BY <2>1, <3>2, KnownStays DEF MultiInv
  <2>7. \A u : ~PendingRead(u) /\ ~PendingRead(u)'
    BY <2>1 DEF PendingRead, Range
  <2>8. ASSUME NEW u \in User PROVE chain'.read[u] <= chain'.block /\ chain'.read[u] # chain'.block
    BY <1>i, <2>2, <2>3, <2>5
  <2>9. ReadInBlock'
    BY <1>i, <2>1, <2>5, <2>7, <2>8 DEF ReadInBlock
  <2> QED
    BY <1>0, <2>1, <2>5, <2>6, <2>9 DEF MultiInv, MultiTyped
<1> QED
  BY <1>1, <1>2, <1>3, <1>4 DEF IndexNext

(* A block that is handled: the multipool's half of Wagmi matches.         *)
LEMMA MultiMatched ==
  ASSUME MultiInv, queue = <<>>
  PROVE  WagmiMatches(index, chain)
<1>1. \A k \in WlpFacts : InIndex(k, index) = OnChain(k, chain)
  BY KnownAtEnd DEF MultiInv
<1>2. ASSUME NEW u \in User PROVE MultiPosition(index, u).staked = chain.staked[u]
  <2>1. Fact("wlp", u, u) \in WlpFacts
    BY DEF WlpFacts
  <2> QED
    BY <1>1, <2>1 DEF InIndex, OnChain, Fact
<1>3. ASSUME NEW u \in User PROVE MultiPosition(index, u).balance = chain.wlp[u] + chain.drift[u]
  <2>1. ~PendingRead(u)
    BY DEF PendingRead, Range
  <2> QED
    BY <2>1 DEF MultiInv, ReadInBlock
<1>4. Active(chain, chain.tick) = 0
  <2>1. \A range : ~InRange(range, NoTick)
    BY DEF InRange
  <2>2. {id \in DOMAIN chain.nfts : InRange(chain.nfts[id].range, chain.tick)} = {}
    BY <2>1 DEF MultiInv
  <2>3. SumOver([id \in DOMAIN chain.nfts |-> chain.nfts[id].liquidity], {}) = 0
    BY SumEmpty
  <2> QED
    BY <2>2, <2>3 DEF Active, MultiInv
<1>5. index.pool = [tick |-> chain.tick, liquidity |-> Active(chain, chain.tick), locked |-> chain.reserve + chain.taken]
  BY <1>4 DEF MultiInv
<1>6. Alive(chain) = {} /\ DOMAIN index.positions = {}
  BY DEF Alive, MultiInv, Nothing
<1> QED
  BY <1>2, <1>3, <1>5, <1>6 DEF WagmiMatches
==============================================================================
