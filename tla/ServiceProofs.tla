--------------------------- MODULE ServiceProofs ---------------------------
(***************************************************************************)
(* Theorems about two services of which neither uses a table of the other. *)
(* BridgePoint: for every set of transfers, every assignment of them to    *)
(* blocks, users, bridges and days that numbers them in the order of their *)
(* blocks, and any number of passes that end early.  Redistribution: for   *)
(* every set of users, any pools and holders, any number of hours, blocks, *)
(* overlapping runs and failures.                                          *)
(***************************************************************************)
EXTENDS BridgePoint, Redistribution, DataTheorems, FunctionTheorems, SequenceTheorems, TLAPS

------------------------------------------------------------------------------
(* BridgePoint. *)

(* What the two queries have found. *)
Fetched ==
  {t \in Transfer : /\ pointer < BlockOf[t]
                    /\ \/ BlockOf[t] <= seen
                       \/ BlockOf[t] \in gap /\ PairOf[t] \in Symbiosis}

InPass == pc \in {"announce", "pay", "counts", "pointer"}

(* A pass pays what the queries have found in the order of the numbers, so *)
(* the last block it has paid is not before any of those paid earlier.     *)
Passes ==
  /\ gap \subseteq 1..head
  /\ \A b \in gap : seen < b /\ seen + 1 .. b \subseteq gap
  /\ pc \in {"poll", "symbiosis"} => paid = {} /\ gap = {}
  /\ pc = "poll" => todo = {}
  /\ pc = "symbiosis" =>
       todo = {t \in Transfer : PairOf[t] \notin Symbiosis /\ pointer < BlockOf[t]
                                                           /\ BlockOf[t] <= seen}
  /\ InPass => todo \cup paid = Fetched
  /\ pc \in {"counts", "pointer"} => todo = {} /\ \E t \in paid : last = BlockOf[t]
  /\ \A t \in paid, u \in todo : t < u
  /\ \A t \in paid : BlockOf[t] <= last
  /\ last <= head

(* What is inside the totals and not settled was found by the first query  *)
(* of the pass, or paid by it.                                             *)
Credited ==
  \A t \in Transfer : credit[t] > 0 =>
    /\ BlockOf[t] <= head
    /\ pc # "poll" => t \in Settled \/ BlockOf[t] <= seen \/ t \in paid

(* Places are below the counter they were taken from: those of settled     *)
(* transfers below the stored one, those of the pass below its copy and    *)
(* above the settled ones.                                                 *)
Places ==
  /\ InPass => \A c \in Count : /\ counters[c] <= memory[c]
                                /\ c \notin dirty => counters[c] = memory[c]
  /\ pc = "pointer" => dirty = {}
  /\ \A t \in Settled : credit[t] > 0 => place[t] < counters[CountOf(t)]
  /\ \A t \in paid : place[t] < memory[CountOf(t)]
  /\ \A t \in paid, u \in Settled :
       credit[u] > 0 /\ CountOf(t) = CountOf(u) => place[u] < place[t]
  /\ \A t, u \in paid : t # u /\ CountOf(t) = CountOf(u) => place[t] # place[u]

(* The receivers up to the last block fetched are flagged before the       *)
(* pointer moves, and a user before the transfer is paid.                  *)
Flags ==
  /\ btcPc # "poll" =>
       /\ \A b \in btcTodo : btcPointer < b
       /\ \A b \in btcTodo, c \in 1..MaxBlock :
            btcPointer < c /\ c <= b /\ BtcReceivers[c] # {} => c \in btcTodo
  /\ btcPc = "pointer" => \A b \in btcTodo : BtcReceivers[b] \subseteq active
  /\ pc = "pay" => \A t \in todo : Turn(t) => UserOf[t] \in active

IInv ==
  /\ TypeOK /\ Passes /\ Credited /\ PaidOncePerCut /\ PassedMeansPaid
  /\ Places /\ PlacesDiffer /\ Flags /\ FlaggedMeansBridged

------------------------------------------------------------------------------
(* The operators of the model. *)

(* A transfer has a block, a counter and a row. *)
LEMMA TransferFacts ==
  ASSUME NEW t \in Transfer
  PROVE  /\ t \in Nat /\ BlockOf[t] \in 1..MaxBlock /\ BlockOf[t] \in Nat
         /\ CountOf(t) \in Count /\ RowOf(t) \in RowKey /\ UserOf[t] \in User
         /\ t # NoTransfer
BY TransferAssumption DEF CountOf, Count, RowOf, RowKey, User, NoTransfer

(* What lies behind the pointer is behind it and stored. *)
LEMMA BehindFacts ==
  ASSUME NEW S, NEW t \in Behind(S)
  PROVE  t \in S /\ pointer < BlockOf[t] /\ BlockOf[t] <= head
BY DEF Behind

(* Transfers are paid in the order of their numbers and so of their blocks. *)
LEMMA TurnsFollowBlocks ==
  ASSUME NEW t \in Transfer, NEW u \in Transfer, t < u
  PROVE  BlockOf[t] <= BlockOf[u]
BY NumberAssumption

------------------------------------------------------------------------------
(* Types. *)

(* The tables begin empty. *)
LEMMA InitTypeOK == Init => TypeOK
<1> SUFFICES ASSUME Init PROVE TypeOK
  OBVIOUS
<1>1. NoCounts \in [Count -> Nat]
  BY DEF NoCounts
<1> QED
  BY <1>1, TransferAssumption DEF Init, TypeOK

(* Every action keeps every variable in its range. *)
LEMMA NextTypeOK == TypeOK /\ Passes /\ [Next]_vars => TypeOK'
<1> SUFFICES ASSUME TypeOK, Passes, [Next]_vars PROVE TypeOK'
  OBVIOUS
<1> USE DEF TypeOK, tables, pass, btc, passHistory
<1>0. NoCounts \in [Count -> Nat] /\ MaxBlock \in Nat /\ MaxInterrupts \in Nat
  BY TransferAssumption DEF NoCounts
<1>1. CASE IndexBlock
  BY <1>0, <1>1 DEF IndexBlock
<1>2. CASE FetchDefault
  <2>1. /\ pc' = "symbiosis" /\ last' = pointer /\ seen' = head
        /\ UNCHANGED <<head, tables, memory, dirty, btc, interrupts, gap, between, paid, cuts, place>>
        /\ todo' = Behind({t \in Transfer : PairOf[t] \notin Symbiosis})
    BY <1>2 DEF FetchDefault
  <2>2. todo' \subseteq Transfer /\ paid = {}
    BY <1>2, <2>1, BehindFacts DEF Passes, FetchDefault
  <2>3. last' \in 0..MaxBlock /\ seen' \in 0..head
    BY <1>0, <2>1
  <2> QED
    BY <2>1, <2>2, <2>3
<1>3. CASE FetchSymbiosis
  <2> DEFINE all == todo \cup Behind({t \in Transfer : PairOf[t] \in Symbiosis})
  <2>1. /\ pc = "symbiosis"
        /\ UNCHANGED <<head, tables, dirty, last, btc, interrupts, seen, between, paid, cuts, place>>
        /\ \/ pc' = "poll" /\ todo' = {} /\ gap' = {} /\ memory' = memory
           \/ all # {} /\ pc' = "announce" /\ todo' = all /\ memory' = counters /\ gap' = seen + 1 .. head
    BY <1>3 DEF FetchSymbiosis
  <2>2. all \subseteq Transfer
    BY BehindFacts
  <2>3. paid = {}
    BY <2>1 DEF Passes
  <2>4. seen + 1 .. head \subseteq 1..MaxBlock
    BY <1>0
  <2> HIDE DEF all
  <2> QED
    BY <2>1, <2>2, <2>3, <2>4
<1>4. CASE Announce
  <2>1. PICK t \in todo : /\ active' = active \cup {UserOf[t]}
                          /\ next' = [next EXCEPT ![IdOf[PairOf[t]]] = memory[CountOf(t)] + 1]
    BY <1>4 DEF Announce
  <2>2. UserOf[t] \in User
    BY TransferFacts
  <2>3. DOMAIN next' = DOMAIN next
    BY <2>1
  <2> QED
    BY <1>4, <2>1, <2>2, <2>3 DEF Announce
<1>5. CASE Pay
  <2>1. PICK t \in todo : /\ ledger' = RowAfter(t)
                          /\ credit' = [credit EXCEPT ![t] = @ + 1]
                          /\ place' = [place EXCEPT ![t] = memory[CountOf(t)]]
                          /\ memory' = [memory EXCEPT ![CountOf(t)] = @ + 1]
                          /\ dirty' = dirty \cup {CountOf(t)}
                          /\ last' = BlockOf[t]
                          /\ todo' = todo \ {t}
                          /\ paid' = paid \cup {t}
    BY <1>5 DEF Pay
  <2>2. /\ pc' = IF todo' = {} THEN "counts" ELSE "announce"
        /\ UNCHANGED <<head, pointer, counters, active, next, btc, interrupts, seen, gap, between,
                       cuts>>
    BY <1>5 DEF Pay
  <2>3. t \in Transfer /\ CountOf(t) \in Count /\ RowOf(t) \in RowKey /\ BlockOf[t] \in 0..MaxBlock
    BY <1>0, TransferFacts
  <2>4. ledger' \in [RowKey -> Transfer \cup {NoTransfer}]
    BY <2>1, <2>3 DEF RowAfter
  <2>5. credit' \in [Transfer -> Nat] /\ place' \in [Transfer -> Nat] /\ memory' \in [Count -> Nat]
    BY <2>1, <2>3
  <2> QED
    BY <2>1, <2>2, <2>3, <2>4, <2>5
<1>6. CASE StoreCount
  <2>1. PICK c \in dirty : /\ counters' = [counters EXCEPT ![c] = memory[c]]
                           /\ dirty' = dirty \ {c}
    BY <1>6 DEF StoreCount
  <2>2. counters' \in [Count -> Nat]
    BY <2>1
  <2> QED
    BY <1>6, <2>1, <2>2 DEF StoreCount
<1>7. CASE SavePointer
  <2>1. last \in 0..head
    BY <1>0 DEF Passes
  <2>2. pointer' = last /\ between' = between \cup gap
    BY <1>7 DEF SavePointer
  <2>3. /\ pc' = "poll" /\ todo' = {} /\ memory' = NoCounts /\ dirty' = {} /\ last' = 0
        /\ seen' = 0 /\ gap' = {} /\ paid' = {}
    BY <1>7 DEF SavePointer, EndPass
  <2>4. UNCHANGED <<head, counters, ledger, credit, active, next, btc, interrupts, cuts, place>>
    BY <1>7 DEF SavePointer
  <2> QED
    BY <1>0, <2>1, <2>2, <2>3, <2>4
<1>8. CASE Interrupt
  <2>1. cuts' \in [Transfer -> Nat] /\ interrupts' \in 0..MaxInterrupts
    BY <1>0, <1>8 DEF Interrupt
  <2>2. /\ pc' = "poll" /\ todo' = {} /\ memory' = NoCounts /\ dirty' = {} /\ last' = 0
        /\ seen' = 0 /\ gap' = {} /\ paid' = {}
    BY <1>8 DEF Interrupt, EndPass
  <2>3. UNCHANGED <<head, tables, btc, between, place>>
    BY <1>8 DEF Interrupt
  <2> QED
    BY <1>0, <2>1, <2>2, <2>3
<1>9. CASE FetchBtc
  <2>1. btcTodo' \subseteq 1..head
    BY <1>9 DEF FetchBtc
  <2> QED
    BY <1>9, <2>1 DEF FetchBtc
<1>10. CASE FlagReceivers
  <2>1. \A b \in btcTodo : BtcReceivers[b] \subseteq User
    BY <1>0 DEF User
  <2> QED
    BY <1>10, <2>1 DEF FlagReceivers
<1>11. CASE StoreBtcPointer
  BY <1>11 DEF StoreBtcPointer
<1>12. CASE InterruptBtc
  BY <1>0, <1>12 DEF InterruptBtc
<1>13. CASE UNCHANGED vars
  BY <1>13 DEF vars
<1> QED
  BY <1>1, <1>2, <1>3, <1>4, <1>5, <1>6, <1>7, <1>8, <1>9, <1>10, <1>11, <1>12, <1>13
  DEF Next, PassStep, BtcStep

------------------------------------------------------------------------------
(* How the actions touch the state. *)

(* The other service, and a step of nobody, leave the pass alone. *)
LEMMA OtherSteps ==
  ASSUME BtcStep \/ InterruptBtc \/ UNCHANGED vars
  PROVE  UNCHANGED <<head, pointer, counters, ledger, credit, next, pc, todo, memory, dirty, last,
                     seen, gap, between, paid, cuts, place>>
BY DEF BtcStep, FetchBtc, FlagReceivers, StoreBtcPointer, InterruptBtc, vars, tables, pass, passHistory

(* A payment, of the transfer whose turn it is. *)
LEMMA PaySteps ==
  ASSUME TypeOK, Pay
  PROVE  \E t \in Transfer :
           /\ pc = "pay" /\ t \in todo /\ Turn(t) /\ t \notin paid
           /\ credit' = [credit EXCEPT ![t] = @ + 1]
           /\ place' = [place EXCEPT ![t] = memory[CountOf(t)]]
           /\ memory' = [memory EXCEPT ![CountOf(t)] = @ + 1]
           /\ dirty' = dirty \cup {CountOf(t)}
           /\ last' = BlockOf[t] /\ todo' = todo \ {t} /\ paid' = paid \cup {t}
           /\ pc' = IF todo' = {} THEN "counts" ELSE "announce"
           /\ UNCHANGED <<head, pointer, counters, active, btcPointer, btcPc, btcTodo, seen, gap,
                          between, cuts>>
BY DEF Pay, TypeOK, btc

(* The second query either finds nothing more or starts the payments. *)
LEMMA SymbiosisSteps ==
  ASSUME TypeOK, FetchSymbiosis
  PROVE  /\ pc = "symbiosis"
         /\ UNCHANGED <<head, pointer, counters, credit, active, dirty, last, btcPointer, btcPc,
                        btcTodo, seen, between, paid, cuts, place>>
         /\ \/ pc' = "poll" /\ todo' = {} /\ gap' = {} /\ memory' = memory
            \/ /\ pc' = "announce" /\ memory' = counters /\ gap' = seen + 1 .. head
               /\ todo' = todo \cup Behind({t \in Transfer : PairOf[t] \in Symbiosis})
BY DEF FetchSymbiosis, tables, btc

(* A pass ends, because it is done or because it is interrupted. *)
LEMMA EndSteps ==
  ASSUME SavePointer \/ Interrupt
  PROVE  /\ pc' = "poll" /\ todo' = {} /\ memory' = NoCounts /\ dirty' = {} /\ last' = 0
         /\ seen' = 0 /\ gap' = {} /\ paid' = {}
         /\ UNCHANGED <<head, counters, credit, active, btcPointer, btcPc, btcTodo, place>>
BY DEF SavePointer, Interrupt, EndPass, tables, btc

------------------------------------------------------------------------------
(* The pass. *)

(* There is no pass in the first state. *)
LEMMA InitPasses == Init => Passes
BY DEF Init, Passes, InPass

(* Every action keeps what the pass knows of its transfers. *)
LEMMA NextPasses == TypeOK /\ Passes /\ [Next]_vars => Passes'
<1> SUFFICES ASSUME TypeOK, Passes, [Next]_vars PROVE Passes'
  OBVIOUS
<1>t. /\ head \in Nat /\ seen \in Nat /\ seen <= head /\ pointer \in Nat /\ pointer <= head
      /\ \A t \in Transfer : BlockOf[t] \in Nat /\ t \in Nat
  BY TransferAssumption, TransferFacts DEF TypeOK
<1>f. UNCHANGED <<pointer, seen, gap>> => Fetched' = Fetched
  BY DEF Fetched
<1>1. CASE IndexBlock
  <2>1. head' = head + 1 /\ UNCHANGED <<pointer, pc, todo, last, seen, gap, paid>>
    BY <1>1 DEF IndexBlock, tables, pass, passHistory
  <2>2. gap \subseteq 1..head'
    BY <1>t, <2>1 DEF Passes
  <2>3. last <= head'
    BY <1>t, <2>1 DEF Passes, TypeOK
  <2> QED
    BY <1>f, <2>1, <2>2, <2>3 DEF Passes, InPass
<1>2. CASE FetchDefault
  <2>1. /\ pc = "poll" /\ pc' = "symbiosis" /\ last' = pointer /\ seen' = head
        /\ todo' = Behind({t \in Transfer : PairOf[t] \notin Symbiosis})
        /\ UNCHANGED <<head, pointer, gap, paid>>
    BY <1>2 DEF FetchDefault, tables
  <2>2. paid = {} /\ gap = {}
    BY <2>1 DEF Passes
  <2>3. todo' = {t \in Transfer : PairOf[t] \notin Symbiosis /\ pointer' < BlockOf[t]
                                                             /\ BlockOf[t] <= seen'}
    BY <2>1 DEF Behind
  <2> QED
    BY <1>t, <2>1, <2>2, <2>3 DEF Passes, InPass
<1>3. CASE FetchSymbiosis
  <2>1. /\ pc = "symbiosis" /\ UNCHANGED <<head, pointer, last, seen, paid>>
        /\ paid = {}
    BY <1>3, SymbiosisSteps DEF Passes
  <2>2. CASE pc' = "poll" /\ todo' = {} /\ gap' = {}
    BY <2>1, <2>2 DEF Passes, InPass
  <2>3. CASE /\ pc' = "announce" /\ gap' = seen + 1 .. head
             /\ todo' = todo \cup Behind({t \in Transfer : PairOf[t] \in Symbiosis})
    <3>1. todo = {t \in Transfer : PairOf[t] \notin Symbiosis /\ pointer < BlockOf[t]
                                                              /\ BlockOf[t] <= seen}
      BY <2>1 DEF Passes
    <3>2. Fetched' = {t \in Transfer : /\ pointer < BlockOf[t]
                                       /\ \/ BlockOf[t] <= seen
                                          \/ BlockOf[t] \in gap' /\ PairOf[t] \in Symbiosis}
      BY <2>1 DEF Fetched
    <3>3. \A t \in Transfer : BlockOf[t] \in gap' <=> seen < BlockOf[t] /\ BlockOf[t] <= head
      BY <1>t, <2>3
    <3>4. \A t \in Transfer : BlockOf[t] <= seen => BlockOf[t] <= head
      BY <1>t
    <3>5. Behind({t \in Transfer : PairOf[t] \in Symbiosis}) =
            {t \in Transfer : PairOf[t] \in Symbiosis /\ pointer < BlockOf[t] /\ BlockOf[t] <= head}
      BY DEF Behind
    <3>6. \A t \in Transfer : BlockOf[t] <= head => BlockOf[t] <= seen \/ seen < BlockOf[t]
      BY <1>t
    <3>7. todo' = Fetched'
      BY <2>3, <3>1, <3>2, <3>3, <3>4, <3>5, <3>6
    <3>8. gap' \subseteq 1..head /\ \A b \in gap' : seen < b /\ seen + 1 .. b \subseteq gap'
      BY <1>t, <2>3
    <3> QED
      BY <2>1, <2>3, <3>7, <3>8 DEF Passes, InPass
  <2> QED
    BY <1>3, <2>2, <2>3, SymbiosisSteps
<1>4. CASE Announce
  BY <1>4, <1>f DEF Announce, passHistory, Passes, InPass
<1>5. CASE Pay
  <2>1. PICK t \in Transfer :
           /\ pc = "pay" /\ t \in todo /\ Turn(t)
           /\ last' = BlockOf[t] /\ todo' = todo \ {t} /\ paid' = paid \cup {t}
           /\ pc' = IF todo' = {} THEN "counts" ELSE "announce"
           /\ UNCHANGED <<head, pointer, seen, gap>>
    BY <1>5, PaySteps
  <2>2. todo \cup paid = Fetched /\ Fetched' = Fetched
    BY <1>f, <2>1 DEF Passes, InPass
  <2>3. todo' \cup paid' = Fetched'
    BY <2>1, <2>2
  <2>4. BlockOf[t] <= head
    <3>1. BlockOf[t] <= seen \/ BlockOf[t] \in gap
      BY <2>1, <2>2 DEF Fetched
    <3> QED
      BY <1>t, <3>1 DEF Passes
  <2>5. \A u \in todo' : u \in Transfer /\ t < u
    BY <1>t, <2>1 DEF Turn, TypeOK
  <2>6. \A u \in paid : u \in Transfer /\ u < t
    BY <2>1 DEF Passes, TypeOK
  <2>7. \A u \in paid' : BlockOf[u] <= last'
    BY <1>t, <2>1, <2>6, TurnsFollowBlocks
  <2>8. \A v \in paid', u \in todo' : v < u
    BY <2>1, <2>5, <2>6 DEF Passes
  <2> HIDE DEF Fetched
  <2> QED
    BY <2>1, <2>3, <2>4, <2>7, <2>8 DEF Passes, InPass
<1>6. CASE StoreCount
  BY <1>6, <1>f DEF StoreCount, passHistory, Passes, InPass
<1>7. CASE SavePointer \/ Interrupt
  BY <1>7, <1>t, EndSteps DEF Passes, InPass
<1>8. CASE BtcStep \/ InterruptBtc \/ UNCHANGED vars
  BY <1>8, <1>f, OtherSteps DEF Passes, InPass
<1> QED
  BY <1>1, <1>2, <1>3, <1>4, <1>5, <1>6, <1>7, <1>8 DEF Next, PassStep

(* What a pass has found lies behind the pointer and is stored. *)
LEMMA FoundFacts ==
  ASSUME TypeOK, Passes, NEW t \in todo \cup paid, InPass
  PROVE  t \in Transfer /\ t \in Fetched /\ pointer < BlockOf[t] /\ BlockOf[t] <= head
         /\ t \notin Settled
<1>1. t \in Transfer /\ t \in Fetched /\ pointer < BlockOf[t]
  BY DEF Passes, Fetched
<1>2. BlockOf[t] \in Nat /\ seen \in Nat /\ seen <= head /\ head \in Nat /\ pointer \in Nat
  BY <1>1, TransferFacts DEF TypeOK
<1>3. BlockOf[t] <= head
  BY <1>1, <1>2 DEF Passes, Fetched
<1>4. t \notin Settled
  BY <1>1, <1>2 DEF Settled
<1> QED
  BY <1>1, <1>3, <1>4

(* Outside of a pass nothing is paid. *)
LEMMA PaidInPass ==
  ASSUME TypeOK, Passes, NEW t \in paid
  PROVE  InPass /\ t \in Transfer /\ t \notin Settled
<1>1. InPass
  BY DEF Passes, TypeOK, InPass
<1> QED
  BY <1>1, FoundFacts

(* The pass that saves the pointer has paid all it has found, and saves a  *)
(* block that it has paid and that is beyond the old pointer.              *)
LEMMA SaveSteps ==
  ASSUME TypeOK, Passes, SavePointer
  PROVE  /\ paid = Fetched /\ pointer' = last /\ between' = between \cup gap
         /\ \E u \in paid : u \in Transfer /\ last = BlockOf[u]
         /\ \A u \in paid : BlockOf[u] <= last
         /\ pointer < last /\ last \in Nat /\ pc = "pointer"
         /\ Settled \subseteq Settled' /\ paid \subseteq Settled'
         /\ UNCHANGED <<credit, cuts, counters, place>>
<1>1. pc = "pointer" /\ pointer' = last /\ between' = between \cup gap
      /\ UNCHANGED <<credit, cuts, counters, place>>
  BY DEF SavePointer
<1>2. paid = Fetched /\ InPass
  BY <1>1 DEF Passes, InPass
<1>3. PICK u \in paid : u \in Transfer /\ last = BlockOf[u]
  BY <1>1, <1>2, FoundFacts DEF Passes
<1>4. pointer < last /\ last \in Nat /\ pointer \in Nat
  BY <1>2, <1>3, FoundFacts, TransferFacts DEF TypeOK
<1>5. Settled' = {t \in Transfer : BlockOf[t] <= last}
  BY <1>1 DEF Settled
<1>6. Settled \subseteq Settled'
  BY <1>4, <1>5, TransferFacts DEF Settled
<1>7. \A v \in paid : BlockOf[v] <= last /\ v \in Transfer
  BY <1>2, FoundFacts DEF Passes
<1> QED
  BY <1>1, <1>2, <1>3, <1>4, <1>5, <1>6, <1>7

------------------------------------------------------------------------------
(* What is inside the totals. *)

(* Nothing is credited in the first state. *)
LEMMA InitCredited == Init => Credited /\ PaidOncePerCut /\ PassedMeansPaid
<1> SUFFICES ASSUME Init PROVE Credited /\ PaidOncePerCut /\ PassedMeansPaid
  OBVIOUS
<1>1. \A t \in Transfer : credit[t] = 0 /\ cuts[t] = 0 /\ pointer = 0 /\ paid = {}
  BY DEF Init
<1>2. Settled = {}
  BY <1>1, TransferFacts DEF Settled
<1> QED
  BY <1>1, <1>2 DEF Credited, PaidOncePerCut, PassedMeansPaid

(* Every action keeps what is credited within the reach of the pass. *)
LEMMA NextCredited == TypeOK /\ Passes /\ Credited /\ [Next]_vars => Credited'
<1> SUFFICES ASSUME TypeOK, Passes, Credited, [Next]_vars PROVE Credited'
  OBVIOUS
<1>t. head \in Nat /\ \A t \in Transfer : BlockOf[t] \in Nat
  BY TransferFacts DEF TypeOK
<1>s. pointer' = pointer => Settled' = Settled
  BY DEF Settled
<1>1. CASE IndexBlock
  <2>1. head' = head + 1 /\ UNCHANGED <<pointer, credit, pc, seen, paid>>
    BY <1>1 DEF IndexBlock, tables, pass, passHistory
  <2> QED
    BY <1>t, <1>s, <2>1 DEF Credited
<1>2. CASE FetchDefault
  <2>1. seen' = head /\ UNCHANGED <<head, pointer, credit, paid>>
    BY <1>2 DEF FetchDefault, tables
  <2> QED
    BY <1>s, <2>1 DEF Credited
<1>3. CASE FetchSymbiosis
  <2>1. pc = "symbiosis" /\ UNCHANGED <<head, pointer, credit, seen, paid>>
    BY <1>3, SymbiosisSteps
  <2> QED
    BY <1>s, <2>1 DEF Credited
<1>4. CASE Announce
  BY <1>4, <1>s DEF Announce, Credited, passHistory
<1>5. CASE Pay
  <2>1. PICK t \in Transfer :
           /\ pc = "pay" /\ t \in todo /\ paid' = paid \cup {t}
           /\ credit' = [credit EXCEPT ![t] = @ + 1]
           /\ UNCHANGED <<head, pointer, seen>>
    BY <1>5, PaySteps
  <2>2. BlockOf[t] <= head
    BY <2>1, FoundFacts DEF InPass
  <2>3. \A u \in Transfer : u # t => credit'[u] = credit[u]
    BY <2>1 DEF TypeOK
  <2> QED
    BY <1>s, <2>1, <2>2, <2>3 DEF Credited
<1>6. CASE StoreCount
  BY <1>6, <1>s DEF StoreCount, Credited, passHistory
<1>7. CASE SavePointer \/ Interrupt
  BY <1>7, EndSteps DEF Credited
<1>8. CASE BtcStep \/ InterruptBtc \/ UNCHANGED vars
  BY <1>8, <1>s, OtherSteps DEF Credited
<1> QED
  BY <1>1, <1>2, <1>3, <1>4, <1>5, <1>6, <1>7, <1>8 DEF Next, PassStep

(* The actions that pay nothing and end no pass. *)
LEMMA QuietSteps ==
  ASSUME TypeOK, IndexBlock \/ FetchDefault \/ FetchSymbiosis \/ Announce \/ StoreCount
                 \/ BtcStep \/ InterruptBtc \/ UNCHANGED vars
  PROVE  UNCHANGED <<pointer, credit, paid, cuts, between, place>>
<1>1. CASE IndexBlock
  BY <1>1 DEF IndexBlock, tables, passHistory
<1>2. CASE FetchDefault
  BY <1>2 DEF FetchDefault, tables
<1>3. CASE FetchSymbiosis
  BY <1>3, SymbiosisSteps
<1>4. CASE Announce
  BY <1>4 DEF Announce, passHistory
<1>5. CASE StoreCount
  BY <1>5 DEF StoreCount, passHistory
<1>6. CASE BtcStep \/ InterruptBtc \/ UNCHANGED vars
  BY <1>6, OtherSteps
<1> QED
  BY <1>1, <1>2, <1>3, <1>4, <1>5, <1>6

(* Every action keeps PaidOncePerCut. *)
LEMMA NextPaidOncePerCut == TypeOK /\ Passes /\ PaidOncePerCut /\ [Next]_vars => PaidOncePerCut'
<1> SUFFICES ASSUME TypeOK, Passes, PaidOncePerCut, [Next]_vars, NEW t \in Transfer
             PROVE  (credit[t] - cuts[t] \in IF t \in Settled THEN {0, 1}
                                             ELSE IF t \in paid THEN {1} ELSE {0})'
  BY DEF PaidOncePerCut
<1>t. credit[t] \in Nat /\ cuts[t] \in Nat
  BY DEF TypeOK
<1>p. credit[t] - cuts[t] \in IF t \in Settled THEN {0, 1} ELSE IF t \in paid THEN {1} ELSE {0}
  BY DEF PaidOncePerCut
<1>s. pointer' = pointer => Settled' = Settled
  BY DEF Settled
<1>1. CASE IndexBlock \/ FetchDefault \/ FetchSymbiosis \/ Announce \/ StoreCount
           \/ BtcStep \/ InterruptBtc \/ UNCHANGED vars
  BY <1>1, <1>p, <1>s, QuietSteps
<1>2. CASE Pay
  <2>1. PICK u \in Transfer :
           /\ pc = "pay" /\ u \in todo /\ u \notin paid /\ paid' = paid \cup {u}
           /\ credit' = [credit EXCEPT ![u] = @ + 1]
           /\ UNCHANGED <<pointer, cuts>>
    BY <1>2, PaySteps
  <2>2. u \notin Settled
    BY <2>1, FoundFacts DEF InPass
  <2>3. CASE t = u
    <3>1. credit'[t] = credit[t] + 1 /\ cuts'[t] = cuts[t] /\ credit[t] - cuts[t] = 0
      BY <1>p, <2>1, <2>2, <2>3 DEF TypeOK
    <3> QED
      BY <1>t, <1>s, <2>1, <2>2, <2>3, <3>1
  <2>4. CASE t # u
    <3>1. credit'[t] = credit[t] /\ cuts'[t] = cuts[t]
      BY <2>1, <2>4 DEF TypeOK
    <3> QED
      BY <1>p, <1>s, <2>1, <2>4, <3>1
  <2> QED
    BY <2>3, <2>4
<1>3. CASE SavePointer
  <2>1. /\ Settled \subseteq Settled' /\ paid \subseteq Settled' /\ paid' = {}
        /\ credit'[t] = credit[t] /\ cuts'[t] = cuts[t]
    BY <1>3, SaveSteps, EndSteps
  <2> QED
    BY <1>p, <2>1
<1>4. CASE Interrupt
  <2>1. /\ paid' = {} /\ UNCHANGED <<pointer, credit>>
        /\ cuts'[t] = IF t \in paid THEN cuts[t] + 1 ELSE cuts[t]
    BY <1>4, EndSteps DEF Interrupt, tables
  <2>2. t \in paid => t \notin Settled
    BY PaidInPass
  <2> QED
    BY <1>p, <1>s, <1>t, <2>1, <2>2
<1> QED
  BY <1>1, <1>2, <1>3, <1>4 DEF Next, PassStep

(* Every action keeps PassedMeansPaid: between an old pointer and the new  *)
(* one a pass has found everything, except of the first query in the gap.  *)
LEMMA NextPassedMeansPaid ==
  TypeOK /\ Passes /\ PaidOncePerCut /\ PassedMeansPaid /\ [Next]_vars => PassedMeansPaid'
<1> SUFFICES ASSUME TypeOK, Passes, PaidOncePerCut, PassedMeansPaid, [Next]_vars,
                    NEW t \in Transfer, t \in Settled'
             PROVE  (credit[t] > cuts[t] \/ (BlockOf[t] \in between /\ PairOf[t] \notin Symbiosis))'
  BY DEF PassedMeansPaid, Settled
<1>t. credit[t] \in Nat /\ cuts[t] \in Nat
  BY DEF TypeOK
<1>p. t \in Settled => credit[t] > cuts[t] \/ (BlockOf[t] \in between /\ PairOf[t] \notin Symbiosis)
  BY DEF PassedMeansPaid
<1>s. pointer' = pointer => t \in Settled
  BY DEF Settled
<1>1. CASE IndexBlock \/ FetchDefault \/ FetchSymbiosis \/ Announce \/ StoreCount
           \/ BtcStep \/ InterruptBtc \/ UNCHANGED vars
  BY <1>1, <1>p, <1>s, QuietSteps
<1>2. CASE Pay
  <2>1. PICK u \in Transfer :
           /\ credit' = [credit EXCEPT ![u] = @ + 1]
           /\ UNCHANGED <<pointer, cuts, between>>
    BY <1>2, PaySteps
  <2>2. credit'[t] \in Nat /\ credit'[t] >= credit[t]
    BY <1>t, <2>1 DEF TypeOK
  <2> QED
    BY <1>p, <1>s, <1>t, <2>1, <2>2
<1>3. CASE SavePointer
  <2>1. /\ paid = Fetched /\ pointer' = last /\ between' = between \cup gap
        /\ pointer < last /\ last \in Nat
        /\ credit'[t] = credit[t] /\ cuts'[t] = cuts[t]
    BY <1>3, SaveSteps
  <2>2. CASE t \in Settled
    BY <1>p, <2>1, <2>2
  <2>3. CASE t \in paid
    <3>1. credit[t] - cuts[t] = 1
      BY <2>3, PaidInPass DEF PaidOncePerCut
    <3> QED
      BY <1>t, <2>1, <3>1
  <2>4. CASE t \notin Settled /\ t \notin paid
    <3>1. BlockOf[t] \in Nat /\ pointer \in Nat /\ seen \in Nat /\ BlockOf[t] <= last
      BY <2>1, TransferFacts DEF TypeOK, Settled
    <3>2. pointer < BlockOf[t]
      BY <2>4, <3>1 DEF Settled
    <3>3. seen < BlockOf[t] /\ ~(BlockOf[t] \in gap /\ PairOf[t] \in Symbiosis)
      BY <2>1, <2>4, <3>1, <3>2 DEF Fetched
    <3>4. PICK u \in paid : u \in Transfer /\ last = BlockOf[u]
      BY <1>3, SaveSteps
    <3>5. BlockOf[u] \in gap
      BY <2>1, <3>1, <3>3, <3>4 DEF Fetched
    <3>6. BlockOf[t] \in gap
      <4>1. BlockOf[t] \in seen + 1 .. BlockOf[u]
        BY <2>1, <3>1, <3>3, <3>4
      <4> QED
        BY <3>5, <4>1 DEF Passes
    <3> QED
      BY <2>1, <3>3, <3>6
  <2> QED
    BY <2>2, <2>3, <2>4
<1>4. CASE Interrupt
  <2>1. /\ UNCHANGED <<pointer, credit, between>>
        /\ cuts'[t] = IF t \in paid THEN cuts[t] + 1 ELSE cuts[t]
    BY <1>4 DEF Interrupt, tables
  <2>2. t \notin paid
    BY <1>s, <2>1, PaidInPass
  <2> QED
    BY <1>p, <1>s, <2>1, <2>2
<1> QED
  BY <1>1, <1>2, <1>3, <1>4 DEF Next, PassStep

------------------------------------------------------------------------------
(* Places. *)

(* No transfer has a place in the first state. *)
LEMMA InitPlaces == Init => Places /\ PlacesDiffer
<1> SUFFICES ASSUME Init PROVE Places /\ PlacesDiffer
  OBVIOUS
<1>1. Settled = {} /\ paid = {} /\ pc = "poll"
  BY TransferFacts DEF Init, Settled
<1> QED
  BY <1>1 DEF Places, PlacesDiffer, InPass

(* A payment takes the place that the memory holds, above all others. *)
LEMMA PayPlaces ==
  ASSUME TypeOK, Passes, Places, PlacesDiffer, Pay
  PROVE  Places' /\ PlacesDiffer'
<1>1. PICK t \in Transfer :
           /\ pc = "pay" /\ t \in todo /\ t \notin paid
           /\ credit' = [credit EXCEPT ![t] = @ + 1]
           /\ place' = [place EXCEPT ![t] = memory[CountOf(t)]]
           /\ memory' = [memory EXCEPT ![CountOf(t)] = @ + 1]
           /\ dirty' = dirty \cup {CountOf(t)}
           /\ paid' = paid \cup {t}
           /\ pc' \in {"counts", "announce"}
           /\ UNCHANGED <<pointer, counters>>
  BY PaySteps
<1>2. t \notin Settled /\ CountOf(t) \in Count
  BY <1>1, FoundFacts, TransferFacts DEF InPass
<1>3. Settled' = Settled /\ Settled \subseteq Transfer
  BY <1>1 DEF Settled
<1>4. \A u \in Transfer : u # t => credit'[u] = credit[u] /\ place'[u] = place[u]
  BY <1>1 DEF TypeOK
<1>5. place'[t] = memory[CountOf(t)] /\ memory'[CountOf(t)] = memory[CountOf(t)] + 1
  BY <1>1, <1>2 DEF TypeOK
<1>6. \A c \in Count : /\ memory[c] \in Nat /\ memory'[c] \in Nat /\ memory[c] <= memory'[c]
                       /\ c # CountOf(t) => memory'[c] = memory[c]
                       /\ counters[c] \in Nat /\ counters[c] <= memory[c]
  BY <1>1, <1>2 DEF TypeOK, Places, InPass
<1>7. paid \subseteq Transfer /\ \A u \in Transfer : place[u] \in Nat /\ CountOf(u) \in Count
  BY TransferFacts DEF TypeOK
<1>8. \A c \in Count : /\ counters'[c] <= memory'[c]
                       /\ c \notin dirty' => counters'[c] = memory'[c]
  <2>1. \A c \in Count : c \notin dirty => counters[c] = memory[c]
    BY <1>1 DEF Places, InPass
  <2> QED
    BY <1>1, <1>6, <2>1
<1>9. \A u \in Settled : credit[u] > 0 => place[u] < counters[CountOf(u)]
  BY DEF Places
<1>10. \A u \in paid' : place'[u] < memory'[CountOf(u)]
  <2>1. \A u \in paid : place[u] < memory[CountOf(u)] /\ u # t
    BY <1>1 DEF Places
  <2>2. \A u \in paid : place'[u] = place[u]
    BY <1>4, <1>7, <2>1
  <2>3. \A u \in paid : place'[u] < memory'[CountOf(u)]
    BY <1>6, <1>7, <2>1, <2>2
  <2> QED
    BY <1>1, <1>2, <1>5, <1>6, <2>3
<1>11. \A v \in paid', u \in Settled' :
         credit'[u] > 0 /\ CountOf(v) = CountOf(u) => place'[u] < place'[v]
  <2> SUFFICES ASSUME NEW v \in paid', NEW u \in Settled, credit[u] > 0, CountOf(v) = CountOf(u)
               PROVE  place[u] < place'[v]
    BY <1>2, <1>3, <1>4
  <2>1. CASE v = t
    BY <1>5, <1>6, <1>7, <1>9, <1>3, <1>2, <2>1
  <2>2. CASE v # t
    BY <1>1, <1>4, <1>7, <2>2 DEF Places
  <2> QED
    BY <2>1, <2>2
<1>12. \A v, u \in paid' : v # u /\ CountOf(v) = CountOf(u) => place'[v] # place'[u]
  <2>1. \A v \in paid : CountOf(v) = CountOf(t) => place'[v] # place'[t]
    <3> SUFFICES ASSUME NEW v \in paid, CountOf(v) = CountOf(t) PROVE place'[v] # place'[t]
      OBVIOUS
    <3>1. place'[v] = place[v] /\ place[v] < memory[CountOf(v)]
      BY <1>1, <1>4, <1>7 DEF Places
    <3> QED
      BY <1>2, <1>5, <1>6, <1>7, <3>1
  <2>2. \A v, u \in paid : v # u /\ CountOf(v) = CountOf(u) => place'[v] # place'[u]
    BY <1>1, <1>4, <1>7 DEF Places
  <2> QED
    BY <1>1, <2>1, <2>2
<1>13. PlacesDiffer'
  BY <1>2, <1>3, <1>4 DEF PlacesDiffer
<1>14. \A u \in Settled' : credit'[u] > 0 => place'[u] < counters'[CountOf(u)]
  BY <1>1, <1>2, <1>3, <1>4, <1>9
<1> QED
  BY <1>1, <1>8, <1>10, <1>11, <1>12, <1>13, <1>14 DEF Places

(* When the pointer is saved the counters are stored, and who is settled   *)
(* with points was paid by this pass or settled before.                    *)
LEMMA SavePlaces ==
  ASSUME TypeOK, Passes, Credited, Places, PlacesDiffer, SavePointer
  PROVE  Places' /\ PlacesDiffer'
<1>1. /\ paid = Fetched /\ pc = "pointer" /\ dirty = {}
      /\ pc' = "poll" /\ paid' = {} /\ UNCHANGED <<credit, counters, place>>
  BY SaveSteps, EndSteps DEF Places
<1>2. \A c \in Count : counters[c] = memory[c]
  BY <1>1 DEF Places, InPass
<1>3. \A t \in Settled' : credit[t] > 0 => t \in Settled \/ t \in paid
  <2> SUFFICES ASSUME NEW t \in Transfer, credit[t] > 0, t \notin Settled, t \notin paid PROVE FALSE
    BY DEF Settled
  <2>1. BlockOf[t] \in Nat /\ pointer \in Nat /\ BlockOf[t] <= seen
    BY <1>1, TransferFacts DEF Credited, TypeOK
  <2> QED
    BY <1>1, <2>1 DEF Settled, Fetched
<1>4. \A t \in Settled' : credit[t] > 0 => place[t] < counters[CountOf(t)]
  <2>1. \A t \in paid : CountOf(t) \in Count
    BY TransferFacts DEF TypeOK
  <2> QED
    BY <1>2, <1>3, <2>1 DEF Places
<1>5. \A t, u \in Settled' :
        (t # u /\ CountOf(t) = CountOf(u) /\ credit[t] > 0 /\ credit[u] > 0) => place[t] # place[u]
  <2> SUFFICES ASSUME NEW t \in Settled', NEW u \in Settled', t # u, CountOf(t) = CountOf(u),
                      credit[t] > 0, credit[u] > 0
               PROVE  place[t] # place[u]
    OBVIOUS
  <2>1. place[t] \in Nat /\ place[u] \in Nat
    BY DEF TypeOK, Settled
  <2>2. t \in Settled \/ t \in paid
    BY <1>3
  <2>3. u \in Settled \/ u \in paid
    BY <1>3
  <2> QED
    BY <2>1, <2>2, <2>3 DEF Places, PlacesDiffer
<1> QED
  BY <1>1, <1>4, <1>5 DEF Places, PlacesDiffer, InPass

(* Every action keeps the places apart. *)
LEMMA NextPlaces ==
  TypeOK /\ Passes /\ Credited /\ Places /\ PlacesDiffer /\ [Next]_vars => Places' /\ PlacesDiffer'
<1> SUFFICES ASSUME TypeOK, Passes, Credited, Places, PlacesDiffer, [Next]_vars
             PROVE  Places' /\ PlacesDiffer'
  OBVIOUS
<1>s. pointer' = pointer => Settled' = Settled
  BY DEF Settled
<1>d. UNCHANGED <<pointer, credit, place>> => PlacesDiffer'
  BY <1>s DEF PlacesDiffer
<1>1. CASE IndexBlock
  BY <1>1, <1>s, <1>d DEF IndexBlock, Places, InPass, tables, pass, passHistory
<1>2. CASE FetchDefault
  <2>1. pc' = "symbiosis" /\ paid = {} /\ UNCHANGED <<pointer, counters, credit, place, paid>>
    BY <1>2 DEF FetchDefault, tables, Passes
  <2> QED
    BY <1>s, <1>d, <2>1 DEF Places, InPass
<1>3. CASE FetchSymbiosis
  <2>1. /\ paid = {} /\ UNCHANGED <<pointer, counters, credit, place, paid>>
        /\ pc' = "poll" \/ (pc' = "announce" /\ memory' = counters)
    BY <1>3, SymbiosisSteps DEF Passes
  <2>2. \A c \in Count : counters[c] <= counters[c]
    BY DEF TypeOK
  <2> QED
    BY <1>s, <1>d, <2>1, <2>2 DEF Places, InPass
<1>4. CASE Announce
  BY <1>4, <1>s, <1>d DEF Announce, Places, InPass, passHistory
<1>5. CASE Pay
  BY <1>5, PayPlaces
<1>6. CASE StoreCount
  <2>1. PICK c \in dirty : /\ counters' = [counters EXCEPT ![c] = memory[c]]
                           /\ dirty' = dirty \ {c}
    BY <1>6 DEF StoreCount
  <2>2. /\ pc = "counts" /\ pc' = IF dirty' = {} THEN "pointer" ELSE "counts"
        /\ UNCHANGED <<pointer, credit, memory, paid, place>>
    BY <1>6 DEF StoreCount, passHistory
  <2>3. \A d \in Count : /\ counters[d] \in Nat /\ memory[d] \in Nat /\ counters[d] <= memory[d]
                         /\ d \notin dirty => counters[d] = memory[d]
    BY <2>2 DEF Places, InPass, TypeOK
  <2>4. \A d \in Count : counters'[d] = IF d = c THEN memory[d] ELSE counters[d]
    BY <2>1 DEF TypeOK
  <2>5. \A d \in Count : /\ counters'[d] <= memory[d] /\ counters[d] <= counters'[d]
                         /\ d \notin dirty' => counters'[d] = memory[d]
    BY <2>1, <2>3, <2>4
  <2>6. \A t \in Settled : credit[t] > 0 => place[t] < counters'[CountOf(t)]
    <3> SUFFICES ASSUME NEW t \in Settled, credit[t] > 0 PROVE place[t] < counters'[CountOf(t)]
      OBVIOUS
    <3>1. t \in Transfer /\ CountOf(t) \in Count /\ place[t] \in Nat
      BY TransferFacts DEF Settled, TypeOK
    <3>2. place[t] < counters[CountOf(t)]
      BY DEF Places
    <3> QED
      BY <2>3, <2>4, <3>1, <3>2
  <2> QED
    BY <1>s, <1>d, <2>2, <2>5, <2>6 DEF Places, InPass
<1>7. CASE SavePointer
  BY <1>7, SavePlaces
<1>8. CASE Interrupt
  <2>1. pc' = "poll" /\ paid' = {} /\ UNCHANGED <<pointer, counters, credit, place>>
    BY <1>8, EndSteps DEF Interrupt, tables
  <2> QED
    BY <1>s, <1>d, <2>1 DEF Places, InPass
<1>9. CASE BtcStep \/ InterruptBtc \/ UNCHANGED vars
  BY <1>9, <1>s, <1>d, OtherSteps DEF Places, InPass
<1> QED
  BY <1>1, <1>2, <1>3, <1>4, <1>5, <1>6, <1>7, <1>8, <1>9 DEF Next, PassStep

------------------------------------------------------------------------------
(* Flags. *)

(* Nobody is flagged in the first state, and nobody has to be. *)
LEMMA InitFlags == Init => Flags /\ FlaggedMeansBridged
<1> SUFFICES ASSUME Init PROVE Flags /\ FlaggedMeansBridged
  OBVIOUS
<1>1. /\ active = {} /\ btcPointer = 0 /\ btcPc = "poll" /\ pc = "poll"
      /\ \A t \in Transfer : ~(credit[t] > 0)
  BY DEF Init
<1> QED
  BY <1>1 DEF Flags, FlaggedMeansBridged

(* Who may be flagged: receivers of transfers in stored blocks; who must be. *)
Receivers == {UserOf[t] : t \in {x \in Transfer : BlockOf[x] <= head}}
             \cup UNION {BtcReceivers[b] : b \in 1..head}
PaidUsers == {UserOf[t] : t \in {x \in Transfer : credit[x] > 0}}

(* A newer head adds receivers. *)
LEMMA ReceiversGrow == TypeOK /\ head' \in Nat /\ head <= head' => Receivers \subseteq Receivers'
<1> SUFFICES ASSUME TypeOK, head' \in Nat, head <= head' PROVE Receivers \subseteq Receivers'
  OBVIOUS
<1>1. head \in Nat /\ \A t \in Transfer : BlockOf[t] \in Nat
  BY TransferAssumption, TransferFacts DEF TypeOK
<1>2. \A t \in Transfer : BlockOf[t] <= head => BlockOf[t] <= head'
  BY <1>1
<1>3. 1..head \subseteq 1..head'
  BY <1>1
<1> QED
  BY <1>2, <1>3 DEF Receivers

(* Every action flags receivers only, and before they are paid or passed.  *)
LEMMA NextFlags ==
  TypeOK /\ Passes /\ Flags /\ FlaggedMeansBridged /\ [Next]_vars => Flags' /\ FlaggedMeansBridged'
<1> SUFFICES ASSUME TypeOK, Passes, Flags, FlaggedMeansBridged, [Next]_vars
             PROVE  Flags' /\ FlaggedMeansBridged'
  OBVIOUS
<1>t. /\ head \in Nat /\ btcPointer \in Nat /\ btcTodo \subseteq 1..head /\ head <= MaxBlock
      /\ MaxBlock \in Nat /\ todo \subseteq Transfer
  BY TransferAssumption DEF TypeOK
<1>f. /\ \A b \in 1..btcPointer : BtcReceivers[b] \subseteq active
      /\ PaidUsers \subseteq active /\ active \subseteq Receivers
  BY DEF FlaggedMeansBridged, Receivers, PaidUsers
<1>q. ASSUME \A b \in 1..btcPointer' : BtcReceivers[b] \subseteq active',
             PaidUsers' \subseteq active', active' \subseteq Receivers'
      PROVE  FlaggedMeansBridged'
  BY <1>q DEF FlaggedMeansBridged, Receivers, PaidUsers
<1>c. credit' = credit => PaidUsers' = PaidUsers
  BY DEF PaidUsers
<1>h. head' = head => Receivers' = Receivers
  BY DEF Receivers
<1>T. todo' = todo => \A t : Turn(t)' <=> Turn(t)
  BY DEF Turn
<1>1. CASE IndexBlock
  <2>1. head' = head + 1 /\ UNCHANGED <<credit, active, pc, todo, btcPointer, btcPc, btcTodo>>
    BY <1>1 DEF IndexBlock, tables, pass, btc
  <2>2. Receivers \subseteq Receivers'
    BY <1>t, <2>1, ReceiversGrow
  <2>3. Flags'
    BY <1>T, <2>1 DEF Flags
  <2>4. FlaggedMeansBridged'
    BY <1>q, <1>f, <1>c, <2>1, <2>2
  <2> QED
    BY <2>3, <2>4
<1>2. CASE FetchDefault
  <2>1. pc' = "symbiosis" /\ UNCHANGED <<head, credit, active, btcPointer, btcPc, btcTodo>>
    BY <1>2 DEF FetchDefault, tables, btc
  <2> QED
    BY <1>q, <1>f, <1>c, <1>h, <2>1 DEF Flags
<1>3. CASE FetchSymbiosis
  <2>1. pc' # "pay" /\ UNCHANGED <<head, credit, active, btcPointer, btcPc, btcTodo>>
    BY <1>3, SymbiosisSteps
  <2> QED
    BY <1>q, <1>f, <1>c, <1>h, <2>1 DEF Flags
<1>4. CASE Announce
  <2>1. PICK t \in todo : Turn(t) /\ active' = active \cup {UserOf[t]}
    BY <1>4 DEF Announce
  <2>2. pc = "announce" /\ pc' = "pay" /\ UNCHANGED <<head, credit, todo, btcPointer, btcPc, btcTodo>>
    BY <1>4 DEF Announce, btc
  <2>3. \A u \in todo : Turn(u) => u = t
    <3> SUFFICES ASSUME NEW u \in todo, Turn(u) PROVE u = t
      OBVIOUS
    <3>1. u \in Nat /\ t \in Nat
      BY <1>t, TransferFacts
    <3> QED
      BY <2>1, <3>1 DEF Turn
  <2>4. UserOf[t] \in Receivers
    BY <2>2, FoundFacts DEF Receivers, InPass
  <2>5. Flags'
    BY <1>T, <2>1, <2>2, <2>3 DEF Flags
  <2>6. FlaggedMeansBridged'
    BY <1>q, <1>f, <1>c, <1>h, <2>1, <2>2, <2>4
  <2> QED
    BY <2>5, <2>6
<1>5. CASE Pay
  <2>1. PICK t \in Transfer :
           /\ pc = "pay" /\ t \in todo /\ Turn(t)
           /\ credit' = [credit EXCEPT ![t] = @ + 1]
           /\ pc' = IF todo' = {} THEN "counts" ELSE "announce"
           /\ UNCHANGED <<active, btcPointer, btcPc, btcTodo, head>>
    BY <1>5, PaySteps
  <2>2. UserOf[t] \in active
    BY <2>1 DEF Flags
  <2>3. \A u \in Transfer : credit'[u] > 0 => u = t \/ credit[u] > 0
    BY <2>1 DEF TypeOK
  <2>4. PaidUsers' \subseteq PaidUsers \cup {UserOf[t]}
    BY <2>3 DEF PaidUsers
  <2>5. Flags'
    BY <2>1 DEF Flags
  <2>6. FlaggedMeansBridged'
    BY <1>q, <1>f, <1>h, <2>1, <2>2, <2>4
  <2> QED
    BY <2>5, <2>6
<1>6. CASE StoreCount
  <2>1. pc' # "pay" /\ UNCHANGED <<head, credit, active, btcPointer, btcPc, btcTodo>>
    BY <1>6 DEF StoreCount, btc
  <2> QED
    BY <1>q, <1>f, <1>c, <1>h, <2>1 DEF Flags
<1>7. CASE SavePointer \/ Interrupt
  <2>1. pc' = "poll" /\ UNCHANGED <<head, credit, active, btcPointer, btcPc, btcTodo>>
    BY <1>7, EndSteps
  <2> QED
    BY <1>q, <1>f, <1>c, <1>h, <2>1 DEF Flags
<1>8. CASE FetchBtc
  <2>1. /\ btcTodo' = {b \in btcPointer + 1 .. head : BtcReceivers[b] # {}} /\ btcPc' = "flag"
        /\ UNCHANGED <<head, credit, active, pc, todo, btcPointer>>
    BY <1>8 DEF FetchBtc, tables, pass
  <2>2. \A b \in btcTodo' : btcPointer < b
    BY <1>t, <2>1
  <2>3. \A b \in btcTodo', c \in 1..MaxBlock :
           btcPointer < c /\ c <= b /\ BtcReceivers[c] # {} => c \in btcTodo'
    BY <1>t, <2>1
  <2>4. Flags'
    BY <1>T, <2>1, <2>2, <2>3 DEF Flags
  <2>5. FlaggedMeansBridged'
    BY <1>q, <1>f, <1>c, <1>h, <2>1
  <2> QED
    BY <2>4, <2>5
<1>9. CASE FlagReceivers
  <2>1. /\ btcPc = "flag" /\ btcPc' = "pointer"
        /\ active' = active \cup UNION {BtcReceivers[b] : b \in btcTodo}
        /\ UNCHANGED <<head, credit, pc, todo, btcPointer, btcTodo>>
    BY <1>9 DEF FlagReceivers, pass
  <2>2. UNION {BtcReceivers[b] : b \in btcTodo} \subseteq Receivers
    BY <1>t DEF Receivers
  <2>3. Flags'
    BY <1>T, <2>1 DEF Flags
  <2>4. FlaggedMeansBridged'
    BY <1>q, <1>f, <1>c, <1>h, <2>1, <2>2
  <2> QED
    BY <2>3, <2>4
<1>10. CASE StoreBtcPointer
  <2>1. /\ btcPc = "pointer" /\ btcPc' = "poll" /\ btcTodo' = {}
        /\ btcPointer' \in btcTodo /\ \A b \in btcTodo : b <= btcPointer'
        /\ UNCHANGED <<head, credit, active, pc, todo>>
    BY <1>10 DEF StoreBtcPointer, tables, pass
  <2>2. \A b \in 1..btcPointer' : BtcReceivers[b] \subseteq active
    <3> SUFFICES ASSUME NEW b \in 1..btcPointer' PROVE BtcReceivers[b] \subseteq active
      OBVIOUS
    <3>1. btcPointer' \in 1..head /\ b \in 1..MaxBlock
      BY <1>t, <2>1
    <3>2. CASE b <= btcPointer
      BY <1>f, <1>t, <3>1, <3>2
    <3>3. CASE btcPointer < b
      <4>1. BtcReceivers[b] # {} => b \in btcTodo
        BY <1>t, <2>1, <3>1, <3>3 DEF Flags
      <4> QED
        BY <2>1, <4>1 DEF Flags
    <3> QED
      BY <1>t, <3>1, <3>2, <3>3
  <2>3. Flags'
    BY <1>T, <2>1 DEF Flags
  <2>4. FlaggedMeansBridged'
    BY <1>q, <1>f, <1>c, <1>h, <2>1, <2>2
  <2> QED
    BY <2>3, <2>4
<1>11. CASE InterruptBtc
  <2>1. btcPc' = "poll" /\ UNCHANGED <<head, credit, active, pc, todo, btcPointer>>
    BY <1>11 DEF InterruptBtc, tables, pass
  <2>2. Flags'
    BY <1>T, <2>1 DEF Flags
  <2>3. FlaggedMeansBridged'
    BY <1>q, <1>f, <1>c, <1>h, <2>1
  <2> QED
    BY <2>2, <2>3
<1>12. CASE UNCHANGED vars
  <2>1. UNCHANGED <<head, credit, active, pc, todo, btcPointer, btcPc, btcTodo>>
    BY <1>12 DEF vars, tables, pass, btc
  <2>2. Flags'
    BY <1>T, <2>1 DEF Flags
  <2>3. FlaggedMeansBridged'
    BY <1>q, <1>f, <1>c, <1>h, <2>1
  <2> QED
    BY <2>2, <2>3
<1> QED
  BY <1>1, <1>2, <1>3, <1>4, <1>5, <1>6, <1>7, <1>8, <1>9, <1>10, <1>11, <1>12
  DEF Next, PassStep, BtcStep

------------------------------------------------------------------------------
(* The theorems. *)

(* A pass and what it has credited, placed and flagged fit together. *)
THEOREM BridgeInvariant == Spec => []IInv
<1>1. Init => IInv
  BY InitTypeOK, InitPasses, InitCredited, InitPlaces, InitFlags DEF IInv
<1>2. IInv /\ [Next]_vars => IInv'
  BY NextTypeOK, NextPasses, NextCredited, NextPaidOncePerCut, NextPassedMeansPaid, NextPlaces,
     NextFlags DEF IInv
<1> QED
  BY <1>1, <1>2, PTL DEF Spec

(* Every variable of the two services stays in its range. *)
THEOREM TypeCorrect == Spec => []TypeOK
BY BridgeInvariant, PTL DEF IInv

(* A transfer is paid once by the pass that moves the pointer past it, and *)
(* once more by every pass that paid it and ended early.                   *)
THEOREM TransfersArePaidOncePerCut == Spec => []PaidOncePerCut
BY BridgeInvariant, PTL DEF IInv

(* The pointer passes no transfer unpaid, but for those of the first query *)
(* that came between the two queries.                                      *)
THEOREM PassedTransfersArePaid == Spec => []PassedMeansPaid
BY BridgeInvariant, PTL DEF IInv

(* Two settled transfers of a bridge and a day have different places. *)
THEOREM PlacesAreDifferent == Spec => []PlacesDiffer
BY BridgeInvariant, PTL DEF IInv

(* Who was passed or paid is flagged, and nobody else. *)
THEOREM FlaggedUsersBridged == Spec => []FlaggedMeansBridged
BY BridgeInvariant, PTL DEF IInv

------------------------------------------------------------------------------
(* Redistribution. *)

(* No two rows of the table have the same key.                             *)
KeysDiffer == \A i, j \in DOMAIN hourly : hourly[i].key = hourly[j].key => i = j
Tables ==
  /\ block \in Block /\ hours \in Nat /\ raced \subseteq Pool
  /\ history \subseteq Key \X Block /\ hourly \in Seq(Row) /\ KeysDiffer

(* A run is at a pool and has a block, or is nowhere.                      *)
Runs ==
  /\ run \in [Run -> [at : 0..Len(Pools), block : Nat, hour : Nat]]
  /\ \A r \in Run : run[r] # Idle => run[r].at \in 1..Len(Pools) /\ run[r].block \in 1..block

(* What a transaction consists of.                                         *)
Transaction ==
  [pool : Pool, block : Block, hour : Nat, printed : SUBSET Staker,
   stage : {"insert", "read", "commit"}, total : Nat, sums : UNION {[us -> Nat] : us \in SUBSET Staker}]
Sound(t)     == t \in Transaction /\ t.sums \in [t.printed -> Nat]
Transactions == \A t \in open : Sound(t)

(* The users of a pass that writes user_staked are in users, and so are    *)
(* those of its rows.                                                      *)
Copying ==
  /\ DOMAIN staked \subseteq Key /\ \A k \in DOMAIN staked : staked[k] \in Row /\ k[1] \in users
  /\ users \subseteq Staker
  /\ got \in Seq(Row) /\ offset \in Nat /\ lpc \in {"read", "users", "staked"}
  /\ lpc = "staked" => \A i \in DOMAIN got : got[i].key[1] \in users

(* Transactions that have inserted their history and not yet committed:    *)
(* none has rows of another or rows that are committed, and two of them    *)
(* are of one pool only if that pool is counted in raced.                  *)
Writing == {t \in open : t.stage # "insert"}
Apart ==
  \A t \in Writing :
    /\ Inserts(t) \cap history = {}
    /\ \A o \in Writing \ {t} : /\ Inserts(o) \cap Inserts(t) = {}
                                /\ o.pool = t.pool => t.pool \in raced

(* What a transaction has read is still so when it commits.                *)
Current ==
  \A t \in open : t.stage = "commit" /\ t.pool \notin raced =>
    /\ t.total = PoolTotal(t.pool)
    /\ \A u \in t.printed : t.sums[u] = Accumulated(<<u, t.pool>>)

ShareInv == Tables /\ Runs /\ Transactions /\ Copying /\ Apart /\ Current /\ SumIsHistory

------------------------------------------------------------------------------
(* Sequences made of sets. *)

(* Nth counts the places through. *)
LEMMA NthFacts ==
  ASSUME NEW H, H \subseteq Nat, IsFiniteSet(H)
  PROVE  /\ Cardinality(H) \in Nat
         /\ \A n \in 1..Cardinality(H) : Nth(H, n) \in H /\ Place(H, Nth(H, n)) = n
         /\ \A i \in H : Place(H, i) \in 1..Cardinality(H) /\ Nth(H, Place(H, i)) = i
<1> DEFINE c == Cardinality(H)
           f == [i \in H |-> Place(H, i)]
<1>1. c \in Nat
  BY FS_CardinalityType
<1>2. \A i \in H : Place(H, i) \in 1..c
  <2> SUFFICES ASSUME NEW i \in H PROVE Place(H, i) \in 1..c
    OBVIOUS
  <2>1. Place(H, i) <= c
    BY FS_Subset DEF Place
  <2>2. Place(H, i) \in Nat /\ 1 <= Place(H, i)
    BY PlaceFacts
  <2> HIDE DEF c
  <2> QED
    BY <1>1, <2>1, <2>2
<1>3. \A i, j \in H : Place(H, i) = Place(H, j) => i = j
  <2> SUFFICES ASSUME NEW i \in H, NEW j \in H, i # j PROVE Place(H, i) # Place(H, j)
    OBVIOUS
  <2>1. i < j \/ j < i
    OBVIOUS
  <2>2. Place(H, i) \in Nat /\ Place(H, j) \in Nat
    BY <1>1, <1>2
  <2>3. i \in Nat /\ j \in Nat
    OBVIOUS
  <2>4. ASSUME i < j PROVE Place(H, i) < Place(H, j)
    <3>1. i <= j
      BY <2>3, <2>4
    <3> QED
      BY <2>3, <2>4, <3>1, PlaceOrder
  <2>5. ASSUME j < i PROVE Place(H, j) < Place(H, i)
    <3>1. j <= i
      BY <2>3, <2>5
    <3> QED
      BY <2>3, <2>5, <3>1, PlaceOrder
  <2> QED
    BY <2>1, <2>2, <2>4, <2>5
<1> HIDE DEF c
<1>4. f \in Injection(H, 1..c)
  BY <1>2, <1>3, Fun_IsInj
<1>5. IsFiniteSet(1..c) /\ Cardinality(1..c) = c
  BY <1>1, FS_Interval
<1>6. f \in Surjection(H, 1..c)
  BY <1>4, <1>5, FS_Injection DEF c
<1>7. \A n \in 1..c : \E i \in H : Place(H, i) = n
  BY <1>6 DEF Surjection
<1>8. \A n : (\E i \in H : Place(H, i) = n) => Nth(H, n) \in H /\ Place(H, Nth(H, n)) = n
  BY DEF Nth, Place
<1> QED
  BY <1>1, <1>2, <1>3, <1>7, <1>8 DEF c

(* SetToSeq lists every element of a set once. *)
LEMMA SetToSeqFacts ==
  ASSUME NEW S, IsFiniteSet(S)
  PROVE  /\ SetToSeq(S) \in Seq(S)
         /\ \A x \in S : \E i \in DOMAIN SetToSeq(S) : SetToSeq(S)[i] = x
         /\ \A i, j \in DOMAIN SetToSeq(S) : SetToSeq(S)[i] = SetToSeq(S)[j] => i = j
<1> DEFINE c == Cardinality(S)
           f == SetToSeq(S)
<1>1. c \in Nat /\ ExistsBijection(1..c, S)
  BY FS_CardinalityType
<1>2. PICK g : g \in Bijection(1..c, S)
  BY <1>1 DEF ExistsBijection
<1>3. g \in [1..c -> S] /\ \A i, j \in 1..c : g[i] = g[j] => i = j
  BY <1>2 DEF Bijection, Injection, IsInjective
<1>4. f \in [1..c -> S] /\ IsInjective(f)
  <2>1. IsInjective(g)
    BY <1>3 DEF IsInjective
  <2> QED
    BY <1>3, <2>1 DEF SetToSeq
<1> HIDE DEF f, c
<1>5. f \in Seq(S) /\ DOMAIN f = 1..c
  BY <1>1, <1>4
<1>6. f \in Injection(1..c, S)
  BY <1>4 DEF Injection, IsInjective
<1>7. IsFiniteSet(1..c) /\ Cardinality(1..c) = c
  BY <1>1, FS_Interval
<1>8. f \in Surjection(1..c, S)
  BY <1>6, <1>7, FS_Injection DEF c
<1>9. \A x \in S : \E i \in 1..c : f[i] = x
  BY <1>8 DEF Surjection
<1>10. \A i, j \in 1..c : f[i] = f[j] => i = j
  BY <1>4 DEF IsInjective
<1> QED
  BY <1>5, <1>9, <1>10 DEF f

(* After an upsert the table has the rows upserted, and those it had whose *)
(* keys are of none of them; no key comes twice.                           *)
LEMMA UpsertFacts ==
  ASSUME hourly \in Seq(Row), KeysDiffer, NEW rows, rows \subseteq Row, IsFiniteSet(rows),
         \A m, n \in rows : m.key = n.key => m = n
  PROVE  /\ Upsert(rows) \in Seq(Row)
         /\ ToSet(Upsert(rows))
              = {r \in ToSet(hourly) : \A n \in rows : n.key # r.key} \cup rows
         /\ \A i, j \in DOMAIN Upsert(rows) : Upsert(rows)[i].key = Upsert(rows)[j].key => i = j
<1> DEFINE kept == Kept(rows)
           c == Cardinality(kept)
           s == [n \in 1..c |-> hourly[Nth(kept, n)]]
           t == SetToSeq(rows)
           d == Len(t)
           u == s \o t
<1>1. /\ DOMAIN hourly = 1..Len(hourly) /\ Len(hourly) \in Nat
      /\ \A i \in DOMAIN hourly : hourly[i] \in Row
  OBVIOUS
<1>2. kept \in SUBSET (1..Len(hourly)) /\ kept \subseteq Nat
      /\ \A i \in kept : i \in DOMAIN hourly /\ \A n \in rows : n.key # hourly[i].key
  BY <1>1 DEF Kept
<1>3. IsFiniteSet(kept)
  <2> DEFINE n == Len(hourly)
  <2>1. kept \in SUBSET (1..n) /\ n \in Nat
    BY <1>1, <1>2
  <2> HIDE DEF n, kept
  <2>2. IsFiniteSet(1..n)
    BY <2>1, FS_Interval
  <2> QED
    BY <2>1, <2>2, FS_Subset
<1>4. /\ c \in Nat
      /\ \A n \in 1..c : Nth(kept, n) \in kept /\ Place(kept, Nth(kept, n)) = n
      /\ \A i \in kept : Place(kept, i) \in 1..c /\ Nth(kept, Place(kept, i)) = i
  <2> HIDE DEF kept
  <2> QED
    BY <1>2, <1>3, NthFacts
<1>5. /\ t \in Seq(rows) /\ d \in Nat /\ DOMAIN t = 1..d /\ \A i \in 1..d : t[i] \in rows
      /\ \A x \in rows : \E i \in 1..d : t[i] = x
      /\ \A i, j \in 1..d : t[i] = t[j] => i = j
  BY SetToSeqFacts
<1>6. Upsert(rows) = u
  BY DEF Upsert
<1>k. \A i \in DOMAIN hourly : (\A n \in rows : n.key # hourly[i].key) => i \in kept
  BY DEF Kept
<1> HIDE DEF kept, c, t, d
<1>7. /\ DOMAIN s = 1..c /\ s \in [1..c -> Row]
      /\ \A n \in 1..c : s[n] = hourly[Nth(kept, n)]
  BY <1>1, <1>2, <1>4
<1> HIDE DEF s
<1>8. s \in Seq(Row) /\ Len(s) = c
  BY <1>4, <1>7
<1>9. t \in Seq(Row) /\ Len(t) = d
  BY <1>5, SeqMonotonic DEF d
<1>10. /\ u \in Seq(Row) /\ Len(u) = c + d
       /\ \A i \in 1..(c + d) : u[i] = IF i <= c THEN s[i] ELSE t[i - c]
  BY <1>8, <1>9, ConcatProperties
<1> HIDE DEF u
<1>11. DOMAIN u = 1..(c + d)
  BY <1>10
<1>12. /\ \A i \in 1..c : i \in DOMAIN u /\ u[i] = s[i]
       /\ \A i \in 1..d : c + i \in DOMAIN u /\ u[c + i] = t[i]
       /\ \A i \in DOMAIN u : i \in 1..c \/ \E j \in 1..d : i = c + j
  <2>1. ASSUME NEW i \in 1..c PROVE i \in DOMAIN u /\ u[i] = s[i]
    <3>1. i \in 1..(c + d) /\ i <= c
      BY <1>4, <1>5
    <3> QED
      BY <1>10, <1>11, <3>1
  <2>2. ASSUME NEW i \in 1..d PROVE c + i \in DOMAIN u /\ u[c + i] = t[i]
    <3>1. c + i \in 1..(c + d) /\ ~ (c + i <= c) /\ (c + i) - c = i
      BY <1>4, <1>5
    <3> QED
      BY <1>10, <1>11, <3>1
  <2>3. ASSUME NEW i \in DOMAIN u, i \notin 1..c PROVE \E j \in 1..d : i = c + j
    <3>1. i \in 1..(c + d)
      BY <1>11
    <3>2. i - c \in 1..d /\ i = c + (i - c)
      BY <1>4, <1>5, <2>3, <3>1
    <3> QED
      BY <3>2
  <2> QED
    BY <2>1, <2>2, <2>3
<1> DEFINE old == {r \in ToSet(hourly) : \A n \in rows : n.key # r.key}
<1>13. ASSUME NEW i \in 1..c PROVE s[i] \in old
  <2>1. s[i] = hourly[Nth(kept, i)] /\ Nth(kept, i) \in kept
    BY <1>4, <1>7
  <2>2. s[i] \in ToSet(hourly) /\ \A n \in rows : n.key # s[i].key
    BY <1>2, <2>1 DEF ToSet
  <2> QED
    BY <2>2
<1>14. \A r \in old : \E i \in 1..c : s[i] = r
  <2> SUFFICES ASSUME NEW r \in old PROVE \E i \in 1..c : s[i] = r
    OBVIOUS
  <2>1. PICK i \in DOMAIN hourly : hourly[i] = r /\ \A n \in rows : n.key # hourly[i].key
    BY DEF ToSet
  <2>2. i \in kept
    BY <1>k, <2>1
  <2>3. Place(kept, i) \in 1..c /\ s[Place(kept, i)] = hourly[i]
    BY <1>4, <1>7, <2>2
  <2> QED
    BY <2>1, <2>3
<1>15. ToSet(u) = old \cup rows
  <2>1. \A i \in DOMAIN u : u[i] \in old \cup rows
    BY <1>5, <1>12, <1>13
  <2>2. \A r \in old \cup rows : \E i \in DOMAIN u : u[i] = r
    BY <1>5, <1>12, <1>14
  <2> HIDE DEF old
  <2> QED
    BY <2>1, <2>2 DEF ToSet
<1>16. ASSUME NEW i \in DOMAIN u, NEW j \in DOMAIN u, u[i].key = u[j].key PROVE i = j
  <2>1. \A m, n \in 1..c : s[m].key = s[n].key => m = n
    <3> SUFFICES ASSUME NEW m \in 1..c, NEW n \in 1..c, s[m].key = s[n].key PROVE m = n
      OBVIOUS
    <3>1. Nth(kept, m) \in kept /\ Nth(kept, n) \in kept
          /\ Place(kept, Nth(kept, m)) = m /\ Place(kept, Nth(kept, n)) = n
      BY <1>4
    <3>2. hourly[Nth(kept, m)].key = hourly[Nth(kept, n)].key
      BY <1>7
    <3>3. Nth(kept, m) = Nth(kept, n)
      BY <1>2, <3>1, <3>2 DEF KeysDiffer
    <3> QED
      BY <3>1, <3>3
  <2>2. \A m, n \in 1..d : t[m].key = t[n].key => m = n
    BY <1>5
  <2>3. \A m \in 1..c, n \in 1..d : s[m].key # t[n].key
    BY <1>5, <1>13
  <2> HIDE DEF old
  <2>4. CASE i \in 1..c
    <3>1. u[i] = s[i]
      BY <1>12, <2>4
    <3>2. CASE j \in 1..c
      BY <1>12, <1>16, <2>1, <2>4, <3>1, <3>2
    <3>3. CASE \E n \in 1..d : j = c + n
      BY <1>12, <1>16, <2>3, <2>4, <3>1, <3>3
    <3> QED
      BY <1>12, <3>2, <3>3
  <2>5. CASE \E m \in 1..d : i = c + m
    <3>1. PICK m \in 1..d : i = c + m /\ u[i] = t[m]
      BY <1>12, <2>5
    <3>2. CASE j \in 1..c
      BY <1>12, <1>16, <2>3, <3>1, <3>2
    <3>3. CASE \E n \in 1..d : j = c + n
      <4>1. PICK n \in 1..d : j = c + n /\ u[j] = t[n]
        BY <1>12, <3>3
      <4> QED
        BY <1>16, <2>2, <3>1, <4>1
    <3> QED
      BY <1>12, <3>2, <3>3
  <2> QED
    BY <1>12, <2>4, <2>5
<1> QED
  BY <1>6, <1>10, <1>15, <1>16


(* The table is a map from keys to rows, as long as it has keys. *)
TableShape ==
  /\ IsFiniteSet(Known) /\ Known \subseteq Key /\ Cardinality(Known) = Len(hourly)
  /\ \A r \in ToSet(hourly) : r \in Row /\ r.key \in Known /\ HourlyRow(r.key) = r
  /\ \A k \in Known : HourlyRow(k) \in ToSet(hourly) /\ HourlyRow(k).key = k /\ HourlyRow(k).sum \in Nat
  /\ \A k : Accumulated(k) \in Nat

(* A table without two rows of one key is such a map. *)
LEMMA TableFacts == hourly \in Seq(Row) /\ KeysDiffer => TableShape
<1> SUFFICES ASSUME hourly \in Seq(Row), KeysDiffer PROVE TableShape
  OBVIOUS
<1> DEFINE d == 1..Len(hourly)
           f == [i \in d |-> hourly[i].key]
<1>1. /\ DOMAIN hourly = d /\ Len(hourly) \in Nat
      /\ \A i \in DOMAIN hourly : hourly[i] \in Row
  OBVIOUS
<1>2. \A r : r \in ToSet(hourly) <=> \E i \in d : hourly[i] = r
  BY <1>1 DEF ToSet
<1>3. \A r \in Row : r.key \in Key /\ r.sum \in Nat
  BY DEF Row
<1>4. \A r \in ToSet(hourly) : r \in Row /\ r.key \in Known
  BY <1>1, <1>2 DEF Known
<1>5. \A r, s \in ToSet(hourly) : r.key = s.key => r = s
  BY <1>1, <1>2 DEF KeysDiffer
<1>6. \A r \in ToSet(hourly) : HourlyRow(r.key) = r
  <2> SUFFICES ASSUME NEW r \in ToSet(hourly) PROVE HourlyRow(r.key) = r
    OBVIOUS
  <2>1. HourlyRow(r.key) \in ToSet(hourly) /\ HourlyRow(r.key).key = r.key
    BY DEF HourlyRow
  <2> QED
    BY <1>5, <2>1
<1>7. \A k \in Known : \E r \in ToSet(hourly) : r.key = k
  BY DEF Known
<1>8. \A k \in Known : HourlyRow(k) \in ToSet(hourly) /\ HourlyRow(k).key = k /\ HourlyRow(k).sum \in Nat
  BY <1>3, <1>4, <1>6, <1>7
<1>9. \A k : Accumulated(k) \in Nat
  BY <1>8 DEF Accumulated
<1>10. Known \subseteq Key
  BY <1>3, <1>4, <1>7
<1>11. f \in Bijection(d, Known)
  <2>1. f \in [d -> Known]
    BY <1>2, <1>4
  <2>2. \A a, b \in d : f[a] = f[b] => a = b
    BY <1>1 DEF KeysDiffer
  <2>3. \A k \in Known : \E i \in d : f[i] = k
    BY <1>2, <1>7
  <2> HIDE DEF d, f
  <2> QED
    BY <2>1, <2>2, <2>3, Fun_IsBij
<1>12. IsFiniteSet(d) /\ Cardinality(d) = Len(hourly)
  BY <1>1, FS_Interval
<1> HIDE DEF d, f
<1>13. ExistsBijection(d, Known)
  BY <1>11 DEF ExistsBijection
<1>14. IsFiniteSet(Known) /\ Cardinality(Known) = Len(hourly)
  BY <1>12, <1>13, FS_Bijection
<1> QED
  BY <1>4, <1>6, <1>8, <1>9, <1>10, <1>14 DEF TableShape

(* Sums of histories are numbers; a pool has finitely many keys. *)
HistoryShape ==
  /\ \A k : HistoryOf(k) \in Nat
  /\ \A p : /\ {k \in Key : k[2] = p} = {<<u, p>> : u \in {u \in Staker : p \in Pool}}
            /\ IsFiniteSet({k \in Key : k[2] = p}) /\ PoolHistory(p) \in Nat

(* Whatever the history is. *)
LEMMA HistoryFacts == HistoryShape
<1>1. IsFiniteSet(Block) /\ \A b \in Block : b \in Nat /\ Held(b) = b
  <2>1. LastBlock \in Nat
    BY RedistributionAssumption
  <2>2. IsFiniteSet(1..LastBlock)
    BY <2>1, FS_Interval
  <2> QED
    BY <2>1, <2>2 DEF Block, Held
<1>2. ASSUME NEW k PROVE HistoryOf(k) \in Nat
  <2> DEFINE S == {b \in Block : <<k, b>> \in history}
             f == [b \in Block |-> Held(b)]
  <2>1. IsFiniteSet(S)
    BY <1>1, FS_Subset
  <2>2. \A b \in S : f[b] \in Nat
    BY <1>1
  <2>3. HistoryOf(k) = SumOver(f, S)
    BY DEF HistoryOf
  <2> HIDE DEF S, f
  <2> QED
    BY <2>1, <2>2, <2>3, SumIsNumber
<1>3. ASSUME NEW p
      PROVE /\ {k \in Key : k[2] = p} = {<<u, p>> : u \in {u \in Staker : p \in Pool}}
            /\ IsFiniteSet({k \in Key : k[2] = p}) /\ PoolHistory(p) \in Nat
  <2> DEFINE S == {k \in Key : k[2] = p}
             U == {u \in Staker : p \in Pool}
             m == [u \in U |-> <<u, p>>]
             f == [k \in Key |-> HistoryOf(k)]
  <2>1. S = {<<u, p>> : u \in U}
    <3>1. \A k \in S : \E u \in U : k = <<u, p>>
      BY DEF Key
    <3>2. \A u \in U : <<u, p>> \in S
      BY DEF Key
    <3> QED
      BY <3>1, <3>2
  <2>2. IsFiniteSet(U)
    <3>1. U \in SUBSET Staker /\ IsFiniteSet(Staker)
      BY RedistributionAssumption
    <3> QED
      BY <3>1, FS_Subset
  <2>3. S = {m[u] : u \in U}
    BY <2>1
  <2>4. PoolHistory(p) = SumOver(f, S)
    BY DEF PoolHistory
  <2>5. \A k \in S : f[k] \in Nat
    BY <1>2
  <2>6. IsFiniteSet(S)
    <3> HIDE DEF S, U, m
    <3> QED
      BY <2>2, <2>3, FiniteImage
  <2>7. PoolHistory(p) \in Nat
    <3> HIDE DEF S, f
    <3> QED
      BY <2>4, <2>5, <2>6, SumIsNumber
  <2> QED
    BY <2>1, <2>6, <2>7
<1> QED
  BY <1>2, <1>3 DEF HistoryShape

------------------------------------------------------------------------------
(* What a commit does to the table and to the sums. *)

(* The keys of a transaction's rows.                                       *)
KeysOf(t) == {<<u, t.pool>> : u \in t.printed}

(* The rows of a transaction: one for each user printed.                   *)
LEMMA RowsFacts ==
  ASSUME NEW t, Sound(t)
  PROVE  /\ IsFiniteSet(t.printed) /\ Cardinality(t.printed) \in Nat
         /\ IsFiniteSet(KeysOf(t)) /\ Cardinality(KeysOf(t)) = Cardinality(t.printed)
         /\ t.block \in Nat \ {0} /\ t.pool \in Pool /\ KeysOf(t) \subseteq Key
         /\ NewTotal(t) = t.total + t.block * Cardinality(t.printed) /\ NewTotal(t) \in Nat
         /\ \A u \in t.printed : NewSum(t, u) = t.sums[u] + t.block /\ NewSum(t, u) \in Nat
         /\ RowsOf(t) \subseteq Row /\ IsFiniteSet(RowsOf(t))
         /\ \A m, n \in RowsOf(t) : m.key = n.key => m = n
         /\ \A n \in RowsOf(t) : \E u \in t.printed :
              n.key = <<u, t.pool>> /\ n.sum = NewSum(t, u) /\ n.of = NewTotal(t)
         /\ \A u \in t.printed : \E n \in RowsOf(t) : n.key = <<u, t.pool>>
<1> DEFINE U == t.printed
           c == Cardinality(U)
           m == [u \in U |-> <<u, t.pool>>]
           row(u) == [key |-> <<u, t.pool>>, sum |-> NewSum(t, u), of |-> NewTotal(t),
                      balance |-> Held(t.block)]
           r == [u \in U |-> row(u)]
<1>1. /\ t.pool \in Pool /\ t.block \in Block /\ U \in SUBSET Staker /\ t.total \in Nat
      /\ t.sums \in [U -> Nat]
  BY DEF Sound, Transaction
<1>2. t.block \in Nat \ {0} /\ Held(t.block) = t.block
  <2>1. LastBlock \in Nat
    BY RedistributionAssumption
  <2> QED
    BY <1>1, <2>1 DEF Block, Held
<1>3. IsFiniteSet(U) /\ c \in Nat
  <2>1. IsFiniteSet(Staker)
    BY RedistributionAssumption
  <2>2. IsFiniteSet(U)
    BY <1>1, <2>1, FS_Subset
  <2> QED
    BY <2>2, FS_CardinalityType
<1>4. IsFiniteSet(KeysOf(t)) /\ Cardinality(KeysOf(t)) = c
  <2>1. m \in [U -> KeysOf(t)] /\ (\A a, b \in U : m[a] = m[b] => a = b)
        /\ \A k \in KeysOf(t) : \E u \in U : m[u] = k
    BY DEF KeysOf
  <2> HIDE DEF m, U
  <2>2. m \in Bijection(U, KeysOf(t))
    BY <2>1, Fun_IsBij
  <2>3. ExistsBijection(U, KeysOf(t))
    BY <2>2 DEF ExistsBijection
  <2> QED
    BY <1>3, <2>3, FS_Bijection
<1>5. KeysOf(t) \subseteq Key
  BY <1>1 DEF KeysOf, Key
<1>6. NewTotal(t) = t.total + t.block * c /\ NewTotal(t) \in Nat
  <2>1. NewTotal(t) = t.total + c * t.block
    BY <1>2 DEF NewTotal
  <2> DEFINE b == t.block
             n == t.total
  <2>2. b \in Nat /\ n \in Nat
    BY <1>1, <1>2
  <2> HIDE DEF b, n, c
  <2>3. c * b = b * c /\ n + c * b \in Nat
    BY <1>3, <2>2
  <2> QED
    BY <2>1, <2>3 DEF b, n, c
<1>7. \A u \in U : NewSum(t, u) = t.sums[u] + t.block /\ NewSum(t, u) \in Nat
  BY <1>1, <1>2 DEF NewSum
<1>8. \A u \in U : row(u) \in Row /\ row(u).key = <<u, t.pool>>
                   /\ row(u).sum = NewSum(t, u) /\ row(u).of = NewTotal(t)
  <2>1. \A u \in U : <<u, t.pool>> \in Key
    BY <1>1 DEF Key
  <2> QED
    BY <1>2, <1>6, <1>7, <2>1 DEF Row
<1>9. RowsOf(t) = {row(u) : u \in U}
  BY DEF RowsOf
<1>10. RowsOf(t) = {r[u] : u \in U}
  BY <1>9
<1> HIDE DEF row
<1>11. /\ RowsOf(t) \subseteq Row
       /\ \A a, b \in RowsOf(t) : a.key = b.key => a = b
       /\ \A n \in RowsOf(t) : \E u \in U :
            n.key = <<u, t.pool>> /\ n.sum = NewSum(t, u) /\ n.of = NewTotal(t)
       /\ \A u \in U : \E n \in RowsOf(t) : n.key = <<u, t.pool>>
  <2>1. \A n \in RowsOf(t) : \E u \in U : n = row(u)
    BY <1>9
  <2>2. \A u \in U : row(u) \in RowsOf(t)
    BY <1>9
  <2>3. \A a, b \in RowsOf(t) : a.key = b.key => a = b
    <3> SUFFICES ASSUME NEW a \in RowsOf(t), NEW b \in RowsOf(t), a.key = b.key PROVE a = b
      OBVIOUS
    <3>1. PICK u \in U, v \in U : a = row(u) /\ b = row(v)
      BY <2>1
    <3>2. u = v
      BY <1>8, <3>1
    <3> QED
      BY <3>1, <3>2
  <2> QED
    BY <1>8, <2>1, <2>2, <2>3
<1>12. IsFiniteSet(RowsOf(t))
  <2> HIDE DEF r, U
  <2> QED
    BY <1>3, <1>10, FiniteImage
<1> QED
  BY <1>1, <1>2, <1>3, <1>4, <1>5, <1>6, <1>7, <1>11, <1>12

(* The table after a commit: the rows of the transaction, and those of     *)
(* other keys as they were.                                                *)
LEMMA TableAfter ==
  ASSUME hourly \in Seq(Row), KeysDiffer, NEW t, Sound(t), hourly' = Upsert(RowsOf(t))
  PROVE  /\ hourly' \in Seq(Row) /\ KeysDiffer' /\ TableShape /\ TableShape'
         /\ Known' = Known \cup KeysOf(t)
         /\ \A u \in t.printed : /\ HourlyRow(<<u, t.pool>>)'.sum = NewSum(t, u)
                                 /\ HourlyRow(<<u, t.pool>>)'.of = NewTotal(t)
         /\ \A k \in Known \ KeysOf(t) : HourlyRow(k)' = HourlyRow(k)
<1> DEFINE rows == RowsOf(t)
<1>1. rows \subseteq Row /\ IsFiniteSet(rows) /\ \A m, n \in rows : m.key = n.key => m = n
  BY RowsFacts
<1>2. /\ \A n \in rows : \E u \in t.printed :
           n.key = <<u, t.pool>> /\ n.sum = NewSum(t, u) /\ n.of = NewTotal(t)
      /\ \A u \in t.printed : \E n \in rows : n.key = <<u, t.pool>>
  BY RowsFacts
<1> HIDE DEF rows
<1>3. /\ hourly' \in Seq(Row)
      /\ ToSet(hourly') = {r \in ToSet(hourly) : \A n \in rows : n.key # r.key} \cup rows
      /\ \A i, j \in DOMAIN hourly' : hourly'[i].key = hourly'[j].key => i = j
  <2>1. hourly' = Upsert(rows)
    BY DEF rows
  <2>2. /\ Upsert(rows) \in Seq(Row)
        /\ ToSet(Upsert(rows))
             = {r \in ToSet(hourly) : \A n \in rows : n.key # r.key} \cup rows
        /\ \A i, j \in DOMAIN Upsert(rows) : Upsert(rows)[i].key = Upsert(rows)[j].key => i = j
    BY <1>1, UpsertFacts
  <2> QED
    BY <2>1, <2>2
<1>4. KeysDiffer'
  BY <1>3 DEF KeysDiffer
<1>5. TableShape
  BY TableFacts
<1>6. TableShape'
  <2>1. (hourly \in Seq(Row) /\ KeysDiffer => TableShape)'
    BY TableFacts, PTL
  <2>2. Seq(Row)' = Seq(Row)
    BY DEF Row, Key, Pool
  <2> QED
    BY <1>3, <1>4, <2>1, <2>2
<1>7. \A k : (\E n \in rows : n.key = k) <=> k \in KeysOf(t)
  BY <1>2 DEF KeysOf
<1>8. /\ \A r \in ToSet(hourly') : r.key \in Known' /\ HourlyRow(r.key)' = r
      /\ \A k \in Known' : \E r \in ToSet(hourly') : r.key = k
  BY <1>6 DEF TableShape
<1>9. /\ \A r \in ToSet(hourly) : r.key \in Known /\ HourlyRow(r.key) = r
      /\ \A k \in Known : HourlyRow(k) \in ToSet(hourly) /\ HourlyRow(k).key = k
  BY <1>5 DEF TableShape
<1>10. \A n \in rows : n \in ToSet(hourly')
  BY <1>3
<1>11. \A r \in ToSet(hourly) : r.key \notin KeysOf(t) => r \in ToSet(hourly')
  BY <1>3, <1>7
<1>12. \A r \in ToSet(hourly') : r \in rows \/ r \in ToSet(hourly)
  BY <1>3
<1>13. Known' = Known \cup KeysOf(t)
  <2>1. \A k \in Known' : k \in Known \cup KeysOf(t)
    BY <1>7, <1>8, <1>9, <1>12
  <2>2. \A k \in KeysOf(t) : k \in Known'
    BY <1>7, <1>8, <1>10
  <2>3. \A k \in Known \ KeysOf(t) : k \in Known'
    BY <1>8, <1>9, <1>11
  <2> QED
    BY <2>1, <2>2, <2>3
<1>14. ASSUME NEW u \in t.printed
       PROVE  /\ HourlyRow(<<u, t.pool>>)'.sum = NewSum(t, u)
              /\ HourlyRow(<<u, t.pool>>)'.of = NewTotal(t)
  <2>1. PICK n \in rows : n.key = <<u, t.pool>>
    BY <1>2
  <2>2. PICK v \in t.printed : n.key = <<v, t.pool>> /\ n.sum = NewSum(t, v) /\ n.of = NewTotal(t)
    BY <1>2
  <2>3. v = u
    BY <2>1, <2>2
  <2>4. HourlyRow(n.key)' = n
    BY <1>8, <1>10
  <2>5. HourlyRow(<<u, t.pool>>)' = n
    BY <2>1, <2>4
  <2> QED
    BY <2>2, <2>3, <2>5
<1>15. ASSUME NEW k \in Known \ KeysOf(t) PROVE HourlyRow(k)' = HourlyRow(k)
  <2>1. PICK r : r = HourlyRow(k) /\ r \in ToSet(hourly) /\ r.key = k
    BY <1>9
  <2>2. r \in ToSet(hourly')
    BY <1>11, <2>1
  <2>3. HourlyRow(r.key)' = r
    BY <1>8, <2>2
  <2> QED
    BY <2>1, <2>3
<1> QED
  BY <1>3, <1>4, <1>5, <1>6, <1>13, <1>14, <1>15

(* The sums of the history after the transaction has added to it.          *)
LEMMA HistoryAfter ==
  ASSUME NEW t, Sound(t), history' = history \cup Inserts(t), Inserts(t) \cap history = {}
  PROVE  /\ \A k \in KeysOf(t) : HistoryOf(k)' = HistoryOf(k) + t.block
         /\ \A k : k \notin KeysOf(t) => HistoryOf(k)' = HistoryOf(k)
         /\ PoolHistory(t.pool)' = PoolHistory(t.pool) + t.block * Cardinality(t.printed)
         /\ \A q : q # t.pool => PoolHistory(q)' = PoolHistory(q)
<1>1. /\ t.block \in Nat \ {0} /\ KeysOf(t) \subseteq Key /\ t.pool \in Pool
      /\ Cardinality(KeysOf(t)) = Cardinality(t.printed)
  BY RowsFacts
<1>2. t.block \in Block /\ t.printed \in SUBSET Staker
  BY DEF Sound, Transaction
<1>3. LastBlock \in Nat /\ IsFiniteSet(Block) /\ \A b \in Block : b \in Nat /\ Held(b) = b
  <2>1. LastBlock \in Nat
    BY RedistributionAssumption
  <2>2. IsFiniteSet(1..LastBlock)
    BY <2>1, FS_Interval
  <2> QED
    BY <2>1, <2>2 DEF Block, Held
<1>4. \A k, b : <<k, b>> \in Inserts(t) <=> k \in KeysOf(t) /\ b = t.block
  BY DEF Inserts, KeysOf
<1> DEFINE at(k) == {b \in Block : <<k, b>> \in history}
           f == [b \in Block |-> Held(b)]
<1>5. \A k : HistoryOf(k) = SumOver(f, at(k)) /\ IsFiniteSet(at(k))
  <2> SUFFICES ASSUME NEW k PROVE HistoryOf(k) = SumOver(f, at(k)) /\ IsFiniteSet(at(k))
    OBVIOUS
  <2>1. IsFiniteSet(at(k))
    BY <1>3, FS_Subset
  <2> QED
    BY <2>1 DEF HistoryOf
<1>6. \A k : k \notin KeysOf(t) => HistoryOf(k)' = HistoryOf(k)
  <2> SUFFICES ASSUME NEW k, k \notin KeysOf(t) PROVE HistoryOf(k)' = HistoryOf(k)
    OBVIOUS
  <2>1. \A b : <<k, b>> \in history' <=> <<k, b>> \in history
    BY <1>4
  <2>2. {b \in Block : <<k, b>> \in history'} = {b \in Block : <<k, b>> \in history}
    BY <2>1
  <2> QED
    BY <2>2 DEF HistoryOf, Block, Held
<1>7. ASSUME NEW k \in KeysOf(t) PROVE HistoryOf(k)' = HistoryOf(k) + t.block
  <2> DEFINE new == {b \in Block : <<k, b>> \in history'}
             old == at(k)
  <2>1. HistoryOf(k)' = SumOver(f, new)
    BY DEF HistoryOf, Block, Held
  <2>2. new = old \cup {t.block} /\ t.block \notin old
    <3>1. <<k, t.block>> \in Inserts(t)
      BY <1>4
    <3>2. \A b : b \in new <=> b \in old \/ b = t.block
      BY <1>2, <1>4
    <3>3. t.block \notin old
      BY <3>1
    <3> HIDE DEF new, old
    <3> QED
      BY <3>2, <3>3
  <2>3. IsFiniteSet(old) /\ HistoryOf(k) = SumOver(f, old)
    BY <1>5
  <2>4. \A b \in old \cup {t.block} : f[b] \in Nat
    BY <1>2, <1>3
  <2>5. f[t.block] = t.block /\ SumOver(f, old) \in Nat
    <3>1. f[t.block] = t.block
      BY <1>2, <1>3
    <3>2. HistoryOf(k) \in Nat
      BY HistoryFacts DEF HistoryShape
    <3> QED
      BY <2>3, <3>1, <3>2
  <2> HIDE DEF new, old, f
  <2>6. SumOver(f, old \cup {t.block}) = f[t.block] + SumOver(f, old)
    BY <2>2, <2>3, <2>4, SumAdd
  <2> DEFINE n == SumOver(f, old)
             b == t.block
  <2>7. n \in Nat /\ b \in Nat /\ HistoryOf(k) = n /\ HistoryOf(k)' = b + n
    BY <1>1, <2>1, <2>2, <2>3, <2>5, <2>6
  <2> HIDE DEF n, b
  <2>8. b + n = n + b
    BY <2>7
  <2> QED
    BY <2>7, <2>8 DEF b
<1> DEFINE g == [k \in Key |-> HistoryOf(k)]
           h == [k \in Key |-> HistoryOf(k)']
           of(p) == {k \in Key : k[2] = p}
<1>8. \A p : /\ PoolHistory(p) = SumOver(g, of(p)) /\ PoolHistory(p)' = SumOver(h, of(p))
             /\ IsFiniteSet(of(p))
  <2>1. \A p : PoolHistory(p) = SumOver(g, of(p))
    BY DEF PoolHistory
  <2>2. \A p : PoolHistory(p)' = SumOver(h, of(p))
    BY DEF PoolHistory
  <2>3. \A p : IsFiniteSet(of(p))
    BY HistoryFacts DEF HistoryShape
  <2> QED
    BY <2>1, <2>2, <2>3
<1>9. \A k \in Key : g[k] = HistoryOf(k) /\ h[k] = HistoryOf(k)' /\ HistoryOf(k) \in Nat
  BY HistoryFacts DEF HistoryShape
<1>10. \A k \in KeysOf(t) : k[2] = t.pool
  BY DEF KeysOf
<1> HIDE DEF g, h, at, f
<1>11. PoolHistory(t.pool)' = PoolHistory(t.pool) + t.block * Cardinality(t.printed)
  <2> DEFINE S == of(t.pool)
             A == KeysOf(t)
             c == t.block
  <2>1. A \in SUBSET S /\ IsFiniteSet(S) /\ c \in Nat
    BY <1>1, <1>8, <1>10
  <2>2. \A x \in S : g[x] \in Nat
    BY <1>9
  <2>3. \A x \in A : h[x] = g[x] + c
    BY <1>1, <1>7, <1>9
  <2>4. \A x \in S \ A : h[x] = g[x]
    BY <1>6, <1>9
  <2> HIDE DEF S, A, c
  <2>5. SumOver(h, S) = SumOver(g, S) + c * Cardinality(A)
    BY <2>1, <2>2, <2>3, <2>4, SumRaised
  <2> QED
    BY <1>1, <1>8, <2>5 DEF S, A, c
<1>12. ASSUME NEW q, q # t.pool PROVE PoolHistory(q)' = PoolHistory(q)
  <2> DEFINE S == of(q)
  <2>1. IsFiniteSet(S) /\ \A x \in S : g[x] \in Nat /\ g[x] = h[x]
    BY <1>6, <1>8, <1>9, <1>10, <1>12
  <2> HIDE DEF S
  <2>2. SumOver(g, S) = SumOver(h, S)
    BY <2>1, SumSame
  <2> QED
    BY <1>8, <2>2 DEF S
<1> QED
  BY <1>6, <1>7, <1>11, <1>12

(* Where the table agrees with the history, the rows of a pool add up to   *)
(* no more than its history, and none is more than they add up to.         *)
LEMMA TotalFacts ==
  ASSUME TableShape, NEW p \in Pool,
         \A u \in Staker : Accumulated(<<u, p>>) = HistoryOf(<<u, p>>)
  PROVE  /\ PoolTotal(p) \in Nat /\ PoolTotal(p) <= PoolHistory(p)
         /\ \A u \in Staker : Accumulated(<<u, p>>) <= PoolTotal(p)
<1> DEFINE f == [k \in Known |-> HourlyRow(k).sum]
           S == {k \in Known : k[2] = p}
           g == [k \in Key |-> HistoryOf(k)]
           T == {k \in Key : k[2] = p}
<1>1. PoolTotal(p) = SumOver(f, S) /\ PoolHistory(p) = SumOver(g, T)
  BY DEF PoolTotal, PoolHistory
<1>2. IsFiniteSet(Known) /\ Known \subseteq Key /\ \A k \in Known : HourlyRow(k).sum \in Nat
  BY DEF TableShape
<1>3. IsFiniteSet(T) /\ (\A k \in T : g[k] \in Nat) /\ S \in SUBSET T /\ IsFiniteSet(S)
  <2>1. IsFiniteSet(T) /\ \A k \in T : g[k] \in Nat
    BY HistoryFacts DEF HistoryShape
  <2>2. S \in SUBSET T /\ S \in SUBSET Known
    BY <1>2
  <2>3. IsFiniteSet(S)
    <3> HIDE DEF S, T, f, g
    <3> QED
      BY <1>2, <2>2, FS_Subset
  <2> QED
    BY <2>1, <2>2, <2>3
<1>4. \A k \in S : f[k] \in Nat
  BY <1>2
<1>5. \A k \in T : \E u \in Staker : k = <<u, p>>
  BY DEF Key
<1>6. \A k \in S : f[k] = g[k]
  <2> SUFFICES ASSUME NEW k \in S PROVE f[k] = g[k]
    OBVIOUS
  <2>1. f[k] = Accumulated(k)
    BY DEF Accumulated
  <2>2. PICK u \in Staker : k = <<u, p>>
    BY <1>3, <1>5
  <2>3. Accumulated(k) = HistoryOf(k) /\ k \in Key
    BY <1>2, <2>2
  <2> QED
    BY <2>1, <2>3
<1>7. \A u \in Staker : IF <<u, p>> \in S THEN Accumulated(<<u, p>>) = f[<<u, p>>]
                                       ELSE Accumulated(<<u, p>>) = 0
  BY DEF Accumulated
<1> HIDE DEF f, S, g, T
<1>8. SumOver(f, S) \in Nat
  BY <1>3, <1>4, SumIsNumber
<1>9. \A x \in S : f[x] \in Nat /\ f[x] <= g[x]
  BY <1>3, <1>4, <1>6
<1>10. SumOver(f, S) <= SumOver(g, T)
  BY <1>3, <1>9, SumLeq
<1>11. ASSUME NEW u \in Staker PROVE Accumulated(<<u, p>>) <= SumOver(f, S)
  <2>1. CASE <<u, p>> \in S
    <3> DEFINE k == <<u, p>>
    <3>1. k \in S /\ Accumulated(<<u, p>>) = f[k]
      BY <1>7, <2>1
    <3> HIDE DEF k
    <3>2. SumOver(f, S) = f[k] + SumOver(f, S \ {k})
      BY <1>3, <1>4, <3>1, SumRemove
    <3>3. IsFiniteSet(S \ {k}) /\ \A x \in S \ {k} : f[x] \in Nat
      BY <1>3, <1>4, FS_Subset
    <3>4. SumOver(f, S \ {k}) \in Nat /\ f[k] \in Nat
      BY <1>4, <3>1, <3>3, SumIsNumber
    <3> QED
      BY <3>1, <3>2, <3>4
  <2>2. CASE <<u, p>> \notin S
    <3>1. Accumulated(<<u, p>>) = 0
      BY <1>7, <2>2
    <3> QED
      BY <1>8, <3>1
  <2> QED
    BY <2>1, <2>2
<1> QED
  BY <1>1, <1>8, <1>10, <1>11

(* The rows of other pools add up to what they did.                        *)
LEMMA OtherTotals ==
  ASSUME TableShape, TableShape', NEW t, Known' = Known \cup KeysOf(t),
         \A k \in Known \ KeysOf(t) : HourlyRow(k)' = HourlyRow(k)
  PROVE  /\ \A q : q # t.pool => PoolTotal(q)' = PoolTotal(q)
         /\ \A k : k \notin KeysOf(t) => Accumulated(k)' = Accumulated(k)
<1>1. ASSUME NEW q, q # t.pool PROVE PoolTotal(q)' = PoolTotal(q)
  <2> DEFINE f == [k \in Known |-> HourlyRow(k).sum]
             S == {k \in Known : k[2] = q}
             g == [k \in Known' |-> HourlyRow(k)'.sum]
             T == {k \in Known' : k[2] = q}
  <2>1. PoolTotal(q) = SumOver(f, S) /\ PoolTotal(q)' = SumOver(g, T)
    BY DEF PoolTotal
  <2>2. IsFiniteSet(Known) /\ \A k \in Known : HourlyRow(k).sum \in Nat
    BY DEF TableShape
  <2>3. \A k \in KeysOf(t) : k[2] # q
    BY <1>1 DEF KeysOf
  <2>4. S = T
    BY <2>3
  <2>5. S \in SUBSET Known
    OBVIOUS
  <2>6. \A k \in S : f[k] \in Nat /\ f[k] = g[k]
    BY <2>2, <2>3
  <2> HIDE DEF S, T, f, g
  <2>7. IsFiniteSet(S)
    BY <2>2, <2>5, FS_Subset
  <2>8. SumOver(f, S) = SumOver(g, S)
    BY <2>6, <2>7, SumSame
  <2> QED
    BY <2>1, <2>4, <2>8
<1>2. ASSUME NEW k, k \notin KeysOf(t) PROVE Accumulated(k)' = Accumulated(k)
  BY <1>2 DEF Accumulated
<1> QED
  BY <1>1, <1>2

------------------------------------------------------------------------------
(* The steps. *)

(* What the sums are made of stays when the two tables stay.           *)
LEMMA SumsStay ==
  ASSUME UNCHANGED <<history, hourly>>
  PROVE  /\ \A p : PoolTotal(p)' = PoolTotal(p) /\ PoolHistory(p)' = PoolHistory(p)
         /\ \A k : /\ Accumulated(k)' = Accumulated(k) /\ HistoryOf(k)' = HistoryOf(k)
                   /\ HourlyRow(k)' = HourlyRow(k)
         /\ Known' = Known /\ (SumIsHistory /\ raced \subseteq raced' => SumIsHistory')
<1>1. Known' = Known /\ \A k : HourlyRow(k)' = HourlyRow(k)
  BY DEF Known, HourlyRow
<1>2. \A k : Accumulated(k)' = Accumulated(k)
  BY <1>1 DEF Accumulated
<1>3. \A p : PoolTotal(p)' = PoolTotal(p)
  BY <1>1 DEF PoolTotal
<1>4. \A k : HistoryOf(k)' = HistoryOf(k)
  BY DEF HistoryOf
<1>5. \A p : PoolHistory(p)' = PoolHistory(p)
  BY <1>4 DEF PoolHistory
<1>6. SumIsHistory /\ raced \subseteq raced' => SumIsHistory'
  BY <1>1, <1>2, <1>4, <1>5 DEF SumIsHistory
<1> QED
  BY <1>1, <1>2, <1>3, <1>4, <1>5, <1>6

(* A step that leaves the two tables and the transactions alone.       *)
LEMMA RestStays ==
  ASSUME ShareInv, UNCHANGED <<history, hourly, raced, open>>
  PROVE  Transactions' /\ Apart' /\ Current' /\ SumIsHistory'
<1>1. Transactions' /\ Apart'
  BY DEF ShareInv, Transactions, Sound, Apart, Writing, Inserts
<1>2. Current'
  BY SumsStay DEF ShareInv, Current
<1>3. SumIsHistory'
  BY SumsStay DEF ShareInv
<1> QED
  BY <1>1, <1>2, <1>3

(* The process starts again.                                               *)
LEMMA RestartKeeps ==
  ASSUME ShareInv, Restarted, UNCHANGED <<block, hourlyTables, hours, raced>>
  PROVE  ShareInv'
<1>1. /\ UNCHANGED <<block, history, hourly, staked, users, hours, raced>>
      /\ open' = {} /\ offset' = 0 /\ got' = <<>> /\ lpc' = "read" /\ run' = [r \in Run |-> Idle]
  BY DEF Restarted, hourlyTables
<1>2. Tables'
  BY <1>1 DEF ShareInv, Tables, KeysDiffer
<1>3. Runs'
  <2>1. Len(Pools) \in Nat
    BY RedistributionAssumption
  <2> QED
    BY <1>1, <2>1 DEF Runs, Idle
<1>4. Transactions' /\ Apart' /\ Current'
  BY <1>1 DEF Transactions, Apart, Writing, Current
<1>5. Copying'
  BY <1>1 DEF ShareInv, Copying
<1>6. SumIsHistory'
  BY <1>1, SumsStay DEF ShareInv
<1> QED
  BY <1>2, <1>3, <1>4, <1>5, <1>6 DEF ShareInv

(* An hour begins.                                                         *)
LEMMA HourKeeps ==
  ASSUME ShareInv, NEW r \in Run, Hour(r)
  PROVE  ShareInv'
<1>1. /\ UNCHANGED <<history, hourly, staked, users, open, offset, got, lpc, raced>>
      /\ hours' = hours + 1 /\ block' \in Block /\ block' \in {block, block + 1}
      /\ run' = [run EXCEPT ![r] = [at |-> 1, block |-> block', hour |-> hours']]
  BY DEF Hour, hourlyTables, reading
<1>2. Tables'
  BY <1>1 DEF ShareInv, Tables, KeysDiffer
<1>3. Runs'
  <2>1. LastBlock \in Nat /\ Len(Pools) \in Nat \ {0}
    <3>1. Pools \in Seq(Pool) /\ Pools # <<>> /\ LastBlock \in Nat
      BY RedistributionAssumption
    <3> QED
      BY <3>1, EmptySeq
  <2>2. block \in Nat /\ block <= block' /\ block' \in Nat /\ 1 <= block' /\ hours' \in Nat
    BY <1>1, <2>1 DEF ShareInv, Tables, Block
  <2>3. \A b \in 1..block : b \in 1..block'
    BY <2>2
  <2> DEFINE new == [at |-> 1, block |-> block', hour |-> hours']
             R == [at : 0..Len(Pools), block : Nat, hour : Nat]
  <2>4. new \in R /\ new.at \in 1..Len(Pools) /\ new.block \in 1..block'
    BY <2>1, <2>2
  <2>5. run \in [Run -> R]
    BY DEF ShareInv, Runs
  <2> HIDE DEF new, R
  <2>6. run' = [run EXCEPT ![r] = new]
    BY <1>1 DEF new
  <2>7. run' \in [Run -> R] /\ run'[r] = new /\ \A q \in Run \ {r} : run'[q] = run[q]
    BY <2>4, <2>5, <2>6
  <2>8. \A q \in Run : run'[q] # Idle => run'[q].at \in 1..Len(Pools) /\ run'[q].block \in 1..block'
    BY <2>3, <2>4, <2>7 DEF ShareInv, Runs
  <2> QED
    BY <2>7, <2>8 DEF Runs, R
<1>4. Copying'
  BY <1>1 DEF ShareInv, Copying
<1> QED
  BY <1>1, <1>2, <1>3, <1>4, RestStays DEF ShareInv

(* A run goes to the next pool or comes to its end.                        *)
LEMMA RunsMove ==
  ASSUME ShareInv, NEW r \in Run, run[r] # Idle, UNCHANGED block,
         Advance(r) \/ run' = [run EXCEPT ![r] = Idle]
  PROVE  Runs'
<1> DEFINE R == [at : 0..Len(Pools), block : Nat, hour : Nat]
           n == Len(Pools)
           onward == [run[r] EXCEPT !.at = run[r].at + 1]
<1>1. n \in Nat
  BY RedistributionAssumption
<1>2. run \in [Run -> R] /\ run[r] \in R /\ run[r].at \in 1..n /\ run[r].block \in 1..block
  BY DEF ShareInv, Runs
<1>3. run[r].at # n => onward \in R /\ onward.at \in 1..n /\ onward.block = run[r].block
  <2> DEFINE a == run[r].at + 1
  <2>1. onward = [run[r] EXCEPT !.at = a]
    OBVIOUS
  <2>2. run[r].at # n => a \in 1..n /\ a \in 0..n
    BY <1>1, <1>2
  <2> HIDE DEF a, n
  <2>3. a \in 0..n => [run[r] EXCEPT !.at = a] \in [at : 0..n, block : Nat, hour : Nat]
    BY <1>2 DEF n
  <2>4. onward.at = a /\ onward.block = run[r].block
    BY <1>2, <2>1
  <2> QED
    BY <2>1, <2>2, <2>3, <2>4 DEF n
<1>4. Idle \in R
  BY <1>1 DEF Idle
<1>5. \E new \in R : /\ new = Idle \/ (new.at \in 1..n /\ new.block = run[r].block)
                     /\ run' = [run EXCEPT ![r] = new]
  <2>1. CASE run' = [run EXCEPT ![r] = Idle]
    BY <1>4, <2>1
  <2>2. CASE Advance(r)
    <3>1. CASE run[r].at = n
      BY <1>2, <1>4, <2>2, <3>1 DEF Advance
    <3>2. CASE run[r].at # n
      <4>1. run' = [run EXCEPT ![r] = onward]
        BY <1>2, <2>2, <3>2 DEF Advance
      <4> HIDE DEF onward
      <4> QED
        BY <1>3, <3>2, <4>1
    <3> QED
      BY <3>1, <3>2
  <2> QED
    BY <2>1, <2>2
<1> HIDE DEF R, onward
<1>6. PICK new \in R : /\ new = Idle \/ (new.at \in 1..n /\ new.block = run[r].block)
                       /\ run' = [run EXCEPT ![r] = new]
  BY <1>5
<1>7. run' \in [Run -> R] /\ run'[r] = new /\ \A q \in Run \ {r} : run'[q] = run[q]
  BY <1>2, <1>6
<1>8. \A q \in Run : run'[q] # Idle => run'[q].at \in 1..n /\ run'[q].block \in 1..block
  BY <1>2, <1>6, <1>7 DEF ShareInv, Runs
<1> QED
  BY <1>7, <1>8 DEF Runs, R

(* An adapter has answered; a transaction may be opened.                   *)
LEMMA AdapterKeeps ==
  ASSUME ShareInv, NEW r \in Run, Adapter(r)
  PROVE  ShareInv'
<1>1. PICK us \in SUBSET Holders[Pools[run[r].at]] :
        open' = IF us = {} THEN open ELSE open \cup {Opened(r, us)}
  BY DEF Adapter
<1>2. /\ UNCHANGED <<block, history, hourly, staked, users, offset, got, lpc, hours, raced>>
      /\ run[r] # Idle /\ Advance(r)
  BY DEF Adapter, hourlyTables, reading, bounds
<1> DEFINE new == Opened(r, us)
<1>3. Sound(new) /\ new.stage = "insert"
  <2>1. /\ run[r].at \in 1..Len(Pools) /\ run[r].block \in 1..block /\ run[r].hour \in Nat
        /\ block \in Block
    BY <1>2 DEF ShareInv, Runs, Tables
  <2>2. run[r].block \in Block
    <3>1. LastBlock \in Nat
      BY RedistributionAssumption
    <3> QED
      BY <2>1, <3>1 DEF Block
  <2>3. Pools[run[r].at] \in Pool
    <3>1. DOMAIN Pools = 1..Len(Pools)
      BY RedistributionAssumption
    <3> QED
      BY <2>1, <3>1 DEF Pool, ToSet
  <2>4. us \in SUBSET Staker
    <3>1. Holders[Pools[run[r].at]] \in SUBSET Staker
      BY <2>3, RedistributionAssumption
    <3> QED
      BY <3>1
  <2> DEFINE p == Pools[run[r].at]
             b == run[r].block
             h == run[r].hour
             z == [u \in us |-> 0]
  <2>5. z \in [us -> Nat]
    OBVIOUS
  <2>6. new = [pool |-> p, block |-> b, hour |-> h, printed |-> us, stage |-> "insert",
               total |-> 0, sums |-> z]
    BY DEF Opened
  <2> HIDE DEF p, b, h, z, new
  <2>7. z \in UNION {[vs -> Nat] : vs \in SUBSET Staker}
    BY <2>4, <2>5
  <2> QED
    BY <2>1, <2>2, <2>3, <2>4, <2>5, <2>6, <2>7 DEF Sound, Transaction, p, b, h
<1> HIDE DEF new
<1>4. open' = open \/ open' = open \cup {new}
  BY <1>1 DEF new
<1>5. Transactions'
  BY <1>3, <1>4 DEF ShareInv, Transactions, Sound
<1>6. Writing' = Writing
  BY <1>3, <1>4 DEF Writing
<1>7. Apart'
  BY <1>2, <1>6 DEF ShareInv, Apart, Inserts
<1>8. Current'
  BY <1>2, <1>3, <1>4, SumsStay DEF ShareInv, Current
<1>9. Tables' /\ Copying' /\ SumIsHistory'
  BY <1>2, SumsStay DEF ShareInv, Tables, KeysDiffer, Copying
<1>10. Runs'
  BY <1>2, RunsMove
<1> QED
  BY <1>5, <1>7, <1>8, <1>9, <1>10 DEF ShareInv

(* An adapter has failed. *)
LEMMA AdapterFailsKeeps ==
  ASSUME ShareInv, NEW r \in Run, AdapterFails(r)
  PROVE  ShareInv'
<1>1. /\ UNCHANGED <<block, history, hourly, staked, users, open, offset, got, lpc, hours, raced>>
      /\ run[r] # Idle /\ (Advance(r) \/ run' = [run EXCEPT ![r] = Idle])
  BY DEF AdapterFails, hourlyTables, reading, bounds
<1>2. Tables' /\ Copying'
  BY <1>1 DEF ShareInv, Tables, KeysDiffer, Copying
<1> QED
  BY <1>1, <1>2, RunsMove, RestStays DEF ShareInv

(* A transaction that is another value afterwards, of the same pool, block *)
(* and users.                                                              *)
Alike(t, n) == n.pool = t.pool /\ n.block = t.block /\ n.printed = t.printed

(* The rows of both are the same.                                          *)
LEMMA AlikeInserts ==
  ASSUME NEW t, NEW n, Alike(t, n)
  PROVE  Inserts(n) = Inserts(t)
BY DEF Alike, Inserts

(* The history of a transaction goes in, or is there. *)
LEMMA InsertKeeps ==
  ASSUME ShareInv, NEW t \in open, InsertHistory(t)
  PROVE  ShareInv'
<1>1. /\ t.stage = "insert" /\ UNCHANGED <<block, history, hourly, staked, users, hours>>
      /\ \A o \in open : o.stage # "insert" => Inserts(o) \cap Inserts(t) = {}
  BY DEF InsertHistory, hourlyTables, bounds
<1>2. CASE Inserted(t)
  <2>1. Restarted /\ UNCHANGED <<block, hourlyTables, hours, raced>>
    BY <1>1, <1>2 DEF InsertHistory, hourlyTables
  <2> QED
    BY <2>1, RestartKeeps
<1>3. CASE ~ Inserted(t)
  <2> DEFINE n == [t EXCEPT !.stage = "read"]
             met == {x \in open \ {t} : x.pool = t.pool /\ x.stage # "insert"}
  <2>1. /\ open' = (open \ {t}) \cup {n} /\ raced' = raced \cup {o.pool : o \in met}
        /\ UNCHANGED <<run, offset, got, lpc>>
    BY <1>3 DEF InsertHistory, Becomes, reading
  <2>2. Sound(t)
    BY DEF ShareInv, Transactions
  <2>3. Sound(n) /\ n.stage = "read" /\ Alike(t, n)
    <3>1. t \in Transaction /\ t.sums \in [t.printed -> Nat]
      BY <2>2 DEF Sound
    <3>2. n \in Transaction
      BY <3>1 DEF Transaction
    <3>3. /\ n.pool = t.pool /\ n.block = t.block /\ n.printed = t.printed /\ n.stage = "read"
          /\ n.sums = t.sums
      BY <3>1 DEF Transaction
    <3> HIDE DEF n
    <3> QED
      BY <3>1, <3>2, <3>3 DEF Sound, Alike
  <2>4. Inserts(n) = Inserts(t)
    BY <2>3, AlikeInserts
  <2>5. Inserts(t) \cap history = {}
    BY <1>3 DEF Inserted
  <2> HIDE DEF n
  <2>6. /\ raced \subseteq raced' /\ raced' \subseteq Pool
        /\ \A o \in open \ {t} : o.stage # "insert" /\ o.pool = t.pool => t.pool \in raced'
    <3>1. \A o \in met : o.pool = t.pool
      OBVIOUS
    <3>2. t.pool \in Pool /\ raced \subseteq Pool
      BY <2>2 DEF Sound, Transaction, ShareInv, Tables
    <3>3. \A o \in open \ {t} : o.stage # "insert" /\ o.pool = t.pool => o \in met
      OBVIOUS
    <3> HIDE DEF met
    <3> QED
      BY <2>1, <3>1, <3>2, <3>3
  <2>7. Tables' /\ Runs' /\ Copying'
    BY <1>1, <2>1, <2>6 DEF ShareInv, Tables, KeysDiffer, Runs, Copying
  <2>8. Transactions'
    <3>1. \A o \in open : Sound(o)
      BY DEF ShareInv, Transactions
    <3> QED
      BY <2>1, <2>3, <3>1 DEF Transactions, Sound
  <2>9. Apart'
    <3>1. \A o \in Writing' : o = n \/ (o \in Writing /\ o \in open \ {t} /\ o.stage # "insert")
      BY <1>1, <2>1 DEF Writing
    <3>2. n.pool = t.pool /\ \A o : Inserts(o)' = Inserts(o)
      BY <2>3 DEF Alike, Inserts
    <3>3. \A o \in Writing : /\ Inserts(o) \cap history = {}
                             /\ \A x \in Writing \ {o} : /\ Inserts(x) \cap Inserts(o) = {}
                                                         /\ x.pool = o.pool => o.pool \in raced
      BY DEF ShareInv, Apart
    <3>4. ASSUME NEW o \in Writing', NEW x \in Writing' \ {o}
          PROVE  /\ Inserts(o) \cap history = {} /\ Inserts(x) \cap Inserts(o) = {}
                 /\ x.pool = o.pool => o.pool \in raced'
      <4>1. CASE o = n
        <5>1. x \in open \ {t} /\ x.stage # "insert"
          BY <3>1, <4>1
        <5> QED
          BY <1>1, <2>4, <2>5, <2>6, <3>2, <4>1, <5>1
      <4>2. CASE o # n /\ x = n
        <5>1. o \in Writing /\ o \in open \ {t} /\ o.stage # "insert"
          BY <3>1, <4>2
        <5>2. Inserts(o) \cap Inserts(t) = {} /\ (o.pool = t.pool => t.pool \in raced')
          BY <1>1, <2>6, <5>1
        <5> QED
          BY <2>4, <3>2, <3>3, <4>2, <5>1, <5>2
      <4>3. CASE o # n /\ x # n
        BY <2>6, <3>1, <3>3, <4>3
      <4> QED
        BY <4>1, <4>2, <4>3
    <3>5. \A o \in Writing' : Inserts(o) \cap history = {}
      BY <2>4, <2>5, <3>1, <3>3
    <3> QED
      BY <1>1, <3>2, <3>4, <3>5 DEF Apart
  <2>10. Current'
    <3>1. \A o \in open' : o.stage = "commit" => o \in open
      BY <2>1, <2>3
    <3> QED
      BY <1>1, <2>6, <3>1, SumsStay DEF ShareInv, Current
  <2>11. SumIsHistory'
    BY <1>1, <2>6, SumsStay DEF ShareInv
  <2> QED
    BY <2>7, <2>8, <2>9, <2>10, <2>11 DEF ShareInv
<1> QED
  BY <1>2, <1>3

(* A transaction reads the table. *)
LEMMA ReadKeeps ==
  ASSUME ShareInv, NEW t \in open, ReadTable(t)
  PROVE  ShareInv'
<1> DEFINE sums == [u \in t.printed |-> Accumulated(<<u, t.pool>>)]
           total == PoolTotal(t.pool)
<1>0. PICK n : n = [t EXCEPT !.stage = "commit", !.total = total, !.sums = sums]
  OBVIOUS
<1>1. /\ t.stage = "read" /\ open' = (open \ {t}) \cup {n}
      /\ UNCHANGED <<block, history, hourly, staked, users, hours, run, offset, got, lpc, raced>>
  BY <1>0 DEF ReadTable, Becomes, hourlyTables, bounds, reading
<1>2. t \in Transaction
  BY DEF ShareInv, Transactions, Sound
<1>3. TableShape
  BY TableFacts DEF ShareInv, Tables
<1>4. total \in Nat
  <2> DEFINE f == [k \in Known |-> HourlyRow(k).sum]
             S == {k \in Known : k[2] = t.pool}
  <2>1. IsFiniteSet(Known) /\ S \in SUBSET Known /\ \A k \in S : f[k] \in Nat
    BY <1>3 DEF TableShape
  <2>2. total = SumOver(f, S)
    BY DEF PoolTotal
  <2> HIDE DEF f, S, total
  <2>3. IsFiniteSet(S)
    BY <2>1, FS_Subset
  <2> QED
    BY <2>1, <2>2, <2>3, SumIsNumber
<1>5. sums \in [t.printed -> Nat] /\ \A u \in t.printed : sums[u] = Accumulated(<<u, t.pool>>)
  BY <1>3 DEF TableShape
<1> HIDE DEF sums, total
<1>6. Sound(n) /\ n.stage = "commit" /\ n.total = total /\ n.sums = sums /\ Alike(t, n)
  <2>1. sums \in UNION {[us -> Nat] : us \in SUBSET Staker}
    BY <1>2, <1>5 DEF Transaction
  <2>2. n \in Transaction
    BY <1>0, <1>2, <1>4, <2>1 DEF Transaction
  <2>3. /\ n.stage = "commit" /\ n.total = total /\ n.sums = sums
        /\ n.pool = t.pool /\ n.block = t.block /\ n.printed = t.printed
    BY <1>0, <1>2 DEF Transaction
  <2> QED
    BY <1>5, <2>2, <2>3 DEF Sound, Alike
<1>7. Inserts(n) = Inserts(t) /\ n.pool = t.pool /\ n.printed = t.printed
  BY <1>6, AlikeInserts DEF Alike
<1>8. Tables' /\ Runs' /\ Copying' /\ SumIsHistory'
  BY <1>1, SumsStay DEF ShareInv, Tables, KeysDiffer, Runs, Copying
<1>9. Transactions'
  <2>1. \A o \in open : Sound(o)
    BY DEF ShareInv, Transactions
  <2> QED
    BY <1>1, <1>6, <2>1 DEF Transactions, Sound
<1>10. Apart'
  <2>1. t \in Writing /\ \A o \in Writing' : o = n \/ o \in Writing \ {t}
    BY <1>1 DEF Writing
  <2>2. \A o : Inserts(o)' = Inserts(o)
    BY DEF Inserts
  <2>3. \A o \in Writing : /\ Inserts(o) \cap history = {}
                           /\ \A x \in Writing \ {o} : /\ Inserts(x) \cap Inserts(o) = {}
                                                       /\ x.pool = o.pool => o.pool \in raced
    BY DEF ShareInv, Apart
  <2>4. ASSUME NEW o \in Writing', NEW x \in Writing' \ {o}
        PROVE  /\ Inserts(x) \cap Inserts(o) = {}
               /\ x.pool = o.pool => o.pool \in raced
    <3>1. CASE o = n
      BY <1>7, <2>1, <2>3, <3>1
    <3>2. CASE o # n /\ x = n
      BY <1>7, <2>1, <2>3, <3>2
    <3>3. CASE o # n /\ x # n
      BY <2>1, <2>3, <3>3
    <3> QED
      BY <3>1, <3>2, <3>3
  <2>5. \A o \in Writing' : Inserts(o) \cap history = {}
    BY <1>7, <2>1, <2>3
  <2> QED
    BY <1>1, <2>2, <2>4, <2>5 DEF Apart
<1>11. Current'
  <2>1. \A o \in open' : o = n \/ o \in open
    BY <1>1
  <2>2. n.total = PoolTotal(n.pool)' /\ \A u \in n.printed : n.sums[u] = Accumulated(<<u, n.pool>>)'
    <3>1. n.total = PoolTotal(n.pool) /\ \A u \in n.printed : n.sums[u] = Accumulated(<<u, n.pool>>)
      BY <1>5, <1>6, <1>7 DEF total
    <3> QED
      BY <1>1, <3>1, SumsStay
  <2> QED
    BY <1>1, <2>1, <2>2, SumsStay DEF ShareInv, Current
<1> QED
  BY <1>8, <1>9, <1>10, <1>11 DEF ShareInv

(* A transaction commits its history and its rows. *)
LEMMA CommitKeeps ==
  ASSUME ShareInv, NEW t \in open, Commit(t)
  PROVE  ShareInv'
<1>1. /\ t.stage = "commit" /\ history' = history \cup Inserts(t) /\ hourly' = Upsert(RowsOf(t))
      /\ open' = open \ {t}
      /\ UNCHANGED <<block, staked, users, hours, run, offset, got, lpc, raced>>
  BY DEF Commit, bounds, reading
<1>2. Sound(t) /\ hourly \in Seq(Row) /\ KeysDiffer
  BY DEF ShareInv, Transactions, Tables
<1>3. t \in Writing /\ Inserts(t) \cap history = {}
  BY <1>1 DEF ShareInv, Apart, Writing
<1>4. /\ hourly' \in Seq(Row) /\ KeysDiffer' /\ TableShape /\ TableShape'
      /\ Known' = Known \cup KeysOf(t)
      /\ \A u \in t.printed : /\ HourlyRow(<<u, t.pool>>)'.sum = NewSum(t, u)
                              /\ HourlyRow(<<u, t.pool>>)'.of = NewTotal(t)
      /\ \A k \in Known \ KeysOf(t) : HourlyRow(k)' = HourlyRow(k)
  BY <1>1, <1>2, TableAfter
<1>5. /\ \A q : q # t.pool => PoolTotal(q)' = PoolTotal(q)
      /\ \A k : k \notin KeysOf(t) => Accumulated(k)' = Accumulated(k)
  BY <1>4, OtherTotals
<1>6. /\ \A k \in KeysOf(t) : HistoryOf(k)' = HistoryOf(k) + t.block
      /\ \A k : k \notin KeysOf(t) => HistoryOf(k)' = HistoryOf(k)
      /\ PoolHistory(t.pool)' = PoolHistory(t.pool) + t.block * Cardinality(t.printed)
      /\ \A q : q # t.pool => PoolHistory(q)' = PoolHistory(q)
  BY <1>1, <1>2, <1>3, HistoryAfter
<1>7. /\ IsFiniteSet(t.printed) /\ Cardinality(t.printed) \in Nat
      /\ t.block \in Nat \ {0} /\ t.pool \in Pool /\ KeysOf(t) \subseteq Key
      /\ NewTotal(t) = t.total + t.block * Cardinality(t.printed)
      /\ \A u \in t.printed : NewSum(t, u) = t.sums[u] + t.block
  BY <1>2, RowsFacts
<1>8. \A u, q : <<u, q>> \in KeysOf(t) <=> u \in t.printed /\ q = t.pool
  BY DEF KeysOf
<1>9. Tables'
  <2>1. Inserts(t) \subseteq Key \X Block
    BY <1>2 DEF Sound, Transaction, Inserts, Key
  <2> QED
    BY <1>1, <1>4, <2>1 DEF ShareInv, Tables
<1>10. Runs' /\ Transactions' /\ Copying'
  BY <1>1 DEF ShareInv, Runs, Transactions, Sound, Copying
<1>11. Apart'
  <2>1. Writing' \subseteq Writing \ {t}
    BY <1>1 DEF Writing
  <2>2. \A o : Inserts(o)' = Inserts(o)
    BY DEF Inserts
  <2>3. \A o \in Writing : /\ Inserts(o) \cap history = {}
                           /\ \A x \in Writing \ {o} : /\ Inserts(x) \cap Inserts(o) = {}
                                                       /\ x.pool = o.pool => o.pool \in raced
    BY DEF ShareInv, Apart
  <2>4. \A o \in Writing' : Inserts(o) \cap history' = {}
    BY <1>1, <1>3, <2>1, <2>3
  <2> QED
    BY <1>1, <2>1, <2>2, <2>3, <2>4 DEF Apart
<1>12. Current'
  <2> SUFFICES ASSUME NEW o \in open \ {t}, o.stage = "commit", o.pool \notin raced
               PROVE  /\ o.total = PoolTotal(o.pool)'
                      /\ \A u \in o.printed : o.sums[u] = Accumulated(<<u, o.pool>>)'
    BY <1>1 DEF Current
  <2>1. o.pool # t.pool
    BY <1>1, <1>3 DEF ShareInv, Apart, Writing
  <2>2. /\ o.total = PoolTotal(o.pool)
        /\ \A u \in o.printed : o.sums[u] = Accumulated(<<u, o.pool>>)
    BY DEF ShareInv, Current
  <2> QED
    BY <1>5, <1>8, <2>1, <2>2
<1>13. SumIsHistory'
  <2>0. \A p \in Pool \ raced : \A u \in Staker :
          /\ Accumulated(<<u, p>>) = HistoryOf(<<u, p>>)
          /\ <<u, p>> \in Known => /\ HourlyRow(<<u, p>>).sum <= HourlyRow(<<u, p>>).of
                                   /\ HourlyRow(<<u, p>>).of <= PoolHistory(p)
    BY DEF ShareInv, SumIsHistory
  <2> SUFFICES ASSUME NEW p \in Pool \ raced, NEW u \in Staker
               PROVE  /\ Accumulated(<<u, p>>)' = HistoryOf(<<u, p>>)'
                      /\ <<u, p>> \in Known' => /\ HourlyRow(<<u, p>>)'.sum <= HourlyRow(<<u, p>>)'.of
                                                /\ HourlyRow(<<u, p>>)'.of <= PoolHistory(p)'
    BY <1>1 DEF SumIsHistory
  <2> DEFINE k == <<u, p>>
  <2>1. CASE p # t.pool
    <3>1. k \notin KeysOf(t)
      BY <1>8, <2>1
    <3> HIDE DEF k
    <3>2. Accumulated(k)' = HistoryOf(k)'
      BY <1>5, <1>6, <2>0, <3>1 DEF k
    <3>3. k \in Known' => k \in Known /\ HourlyRow(k)' = HourlyRow(k)
      BY <1>4, <3>1
    <3>4. PoolHistory(p)' = PoolHistory(p)
      BY <1>6, <2>1
    <3> QED
      BY <2>0, <3>2, <3>3, <3>4 DEF k
  <2>2. CASE p = t.pool
    <3>1. \A v \in Staker : Accumulated(<<v, p>>) = HistoryOf(<<v, p>>)
      BY <2>0
    <3>2. /\ PoolTotal(p) \in Nat /\ PoolTotal(p) <= PoolHistory(p)
          /\ Accumulated(k) <= PoolTotal(p)
      BY <1>4, <3>1, TotalFacts
    <3>3. PoolHistory(p) \in Nat /\ HistoryOf(k) \in Nat /\ Accumulated(k) \in Nat
      BY <1>4, HistoryFacts DEF HistoryShape, TableShape
    <3>4. t.total = PoolTotal(p) /\ \A v \in t.printed : t.sums[v] = Accumulated(<<v, p>>)
      BY <1>1, <2>2 DEF ShareInv, Current
    <3> DEFINE H == PoolHistory(p)
               T == PoolTotal(p)
               b == t.block
               c == Cardinality(t.printed)
               a == Accumulated(k)
    <3>5. /\ H \in Nat /\ T \in Nat /\ b \in Nat /\ c \in Nat /\ a \in Nat /\ a <= T /\ T <= H
          /\ PoolHistory(p)' = H + b * c /\ HistoryOf(k) = a /\ NewTotal(t) = T + b * c
      BY <1>6, <1>7, <2>2, <3>1, <3>2, <3>3, <3>4
    <3>6. CASE u \in t.printed
      <4>1. k \in KeysOf(t)
        BY <1>8, <2>2, <3>6
      <4>2. /\ HourlyRow(k)'.sum = a + b /\ HourlyRow(k)'.of = T + b * c
            /\ HistoryOf(k)' = a + b
        BY <1>4, <1>6, <1>7, <2>2, <3>4, <3>5, <3>6, <4>1
      <4>3. Accumulated(k)' = HourlyRow(k)'.sum
        BY <1>4, <4>1 DEF Accumulated
      <4>4. 1 <= c
        <5>1. t.printed # {}
          BY <3>6
        <5>2. c # 0
          BY <1>7, <5>1, FS_EmptySet
        <5> QED
          BY <3>5, <5>2
      <4> HIDE DEF k, H, T, b, c, a
      <4>5. b <= b * c /\ b * c \in Nat
        BY <3>5, <4>4
      <4>6. a + b <= T + b * c /\ T + b * c <= H + b * c
        <5> DEFINE m == b * c
        <5>1. m \in Nat /\ b <= m
          BY <4>5
        <5> HIDE DEF m
        <5>2. a + b <= T + m /\ T + m <= H + m
          BY <3>5, <5>1
        <5> QED
          BY <5>2 DEF m
      <4>7. Accumulated(k)' = HistoryOf(k)'
        BY <4>2, <4>3
      <4>8. HourlyRow(k)'.sum <= HourlyRow(k)'.of /\ HourlyRow(k)'.of <= PoolHistory(p)'
        BY <3>5, <4>2, <4>6
      <4> QED
        BY <4>7, <4>8 DEF k
    <3>7. CASE u \notin t.printed
      <4>1. k \notin KeysOf(t)
        BY <1>8, <3>7
      <4>2. Accumulated(k)' = HistoryOf(k)'
        BY <1>5, <1>6, <3>1, <4>1
      <4>3. k \in Known' => /\ k \in Known /\ HourlyRow(k)' = HourlyRow(k)
                            /\ HourlyRow(k).sum <= HourlyRow(k).of /\ HourlyRow(k).of <= H
        <5>1. k \in Known' => k \in Known /\ HourlyRow(k)' = HourlyRow(k)
          BY <1>4, <4>1
        <5> QED
          BY <2>0, <5>1
      <4>4. k \in Known => HourlyRow(k).of \in Nat
        <5>1. k \in Known => HourlyRow(k) \in Row
          BY <1>4 DEF TableShape
        <5> QED
          BY <5>1 DEF Row
      <4> HIDE DEF k, H, T, b, c, a
      <4>5. H <= H + b * c /\ b * c \in Nat
        <5>1. b * c \in Nat
          BY <3>5
        <5> QED
          BY <3>5, <5>1
      <4>6. k \in Known' => HourlyRow(k)'.sum <= HourlyRow(k)'.of /\ HourlyRow(k)'.of <= PoolHistory(p)'
        BY <3>5, <4>3, <4>4, <4>5
      <4> QED
        BY <4>2, <4>6 DEF k
    <3> QED
      BY <3>6, <3>7
  <2> QED
    BY <2>1, <2>2
<1> QED
  BY <1>9, <1>10, <1>11, <1>12, <1>13 DEF ShareInv

------------------------------------------------------------------------------
(* The copy to user_staked. *)

(* A part of a sequence has elements of the sequence.                      *)
LEMMA PartFacts ==
  ASSUME NEW S, NEW s \in Seq(S), NEW m \in Nat \ {0}, NEW n \in Nat, n <= Len(s)
  PROVE  /\ SubSeq(s, m, n) \in Seq(S)
         /\ \A i \in DOMAIN SubSeq(s, m, n) : \E j \in DOMAIN s : SubSeq(s, m, n)[i] = s[j]
<1> DEFINE part == SubSeq(s, m, n)
<1>1. DOMAIN s = 1..Len(s) /\ Len(s) \in Nat /\ \A i \in 1..Len(s) : s[i] \in S
  OBVIOUS
<1>2. \A i \in m..n : i \in DOMAIN s /\ s[i] \in S
  BY <1>1
<1>3. /\ part \in Seq(S) /\ Len(part) = IF m <= n THEN n - m + 1 ELSE 0
      /\ \A i \in 1..(n - m + 1) : part[i] = s[m + i - 1]
  BY <1>2, SubSeqProperties
<1> HIDE DEF part
<1>4. DOMAIN part = 1..Len(part)
  BY <1>3
<1>5. \A i \in DOMAIN part : i \in 1..(n - m + 1) /\ m + i - 1 \in m..n
  BY <1>3, <1>4
<1> QED
  BY <1>2, <1>3, <1>5 DEF part

(* And so has what is left behind the first p. *)
LEMMA RestFacts ==
  ASSUME NEW S, NEW s \in Seq(S), NEW p \in Nat
  PROVE  /\ SubSeq(s, p + 1, Len(s)) \in Seq(S)
         /\ \A i \in DOMAIN SubSeq(s, p + 1, Len(s)) :
              \E j \in DOMAIN s : SubSeq(s, p + 1, Len(s))[i] = s[j]
<1>1. p + 1 \in Nat \ {0} /\ Len(s) \in Nat /\ Len(s) <= Len(s)
  OBVIOUS
<1> QED
  BY <1>1, PartFacts

(* The least of two numbers. *)
LEMMA LeastOfTwo ==
  ASSUME NEW a \in Nat, NEW b \in Nat
  PROVE  Min({a, b}) \in Nat /\ Min({a, b}) <= a
<1>1. \E x \in {a, b} : \A y \in {a, b} : x <= y
  OBVIOUS
<1>2. Min({a, b}) \in {a, b} /\ \A y \in {a, b} : Min({a, b}) <= y
  BY <1>1 DEF Min
<1> QED
  BY <1>2

(* A page is read. *)
LEMMA PageKeeps ==
  ASSUME ShareInv, ReadPage
  PROVE  ShareInv'
<1> DEFINE page == SubSeq(hourly, offset + 1, Min({Len(hourly), offset + PageSize}))
<1>1. /\ got' = got \o page
      /\ \/ offset' = offset + PageSize /\ lpc' = "read"
         \/ offset' = 0 /\ lpc' = "users"
      /\ UNCHANGED <<block, history, hourly, staked, users, hours, run, open, raced>>
  BY DEF ReadPage, hourlyTables, bounds
<1>2. /\ hourly \in Seq(Row) /\ got \in Seq(Row) /\ offset \in Nat /\ PageSize \in Nat
      /\ Len(hourly) \in Nat
  <2>1. PageSize \in Nat
    BY RedistributionAssumption
  <2>2. hourly \in Seq(Row) /\ got \in Seq(Row) /\ offset \in Nat
    BY DEF ShareInv, Tables, Copying
  <2> QED
    BY <2>1, <2>2
<1>3. page \in Seq(Row)
  <2> DEFINE a == Len(hourly)
             b == offset + PageSize
             n == Min({a, b})
             m == offset + 1
  <2>1. a \in Nat /\ b \in Nat /\ m \in Nat \ {0}
    BY <1>2
  <2> HIDE DEF a, b
  <2>2. n \in Nat /\ n <= a
    BY <2>1, LeastOfTwo
  <2>3. n \in Nat /\ n <= Len(hourly)
    BY <2>2 DEF a
  <2>4. page = SubSeq(hourly, m, n)
    BY DEF a, b
  <2> HIDE DEF page, m, n
  <2>5. SubSeq(hourly, m, n) \in Seq(Row)
    BY <1>2, <2>1, <2>3, PartFacts
  <2> QED
    BY <2>4, <2>5
<1> HIDE DEF page
<1>4. got' \in Seq(Row)
  BY <1>1, <1>2, <1>3, ConcatProperties
<1>5. Copying'
  BY <1>1, <1>2, <1>4 DEF ShareInv, Copying
<1>6. Tables' /\ Runs'
  BY <1>1 DEF ShareInv, Tables, KeysDiffer, Runs
<1> QED
  BY <1>1, <1>5, <1>6, RestStays DEF ShareInv

(* The users of what has been read are written. *)
LEMMA UsersKeep ==
  ASSUME ShareInv, InsertUsers
  PROVE  ShareInv'
<1>1. /\ lpc' = "staked" /\ users' = users \cup {got[i].key[1] : i \in DOMAIN got}
      /\ UNCHANGED <<block, history, hourly, staked, hours, run, open, offset, got, raced>>
  BY DEF InsertUsers, bounds
<1>2. \A i \in DOMAIN got : got[i].key[1] \in Staker
  <2>1. got \in Seq(Row)
    BY DEF ShareInv, Copying
  <2>2. \A i \in DOMAIN got : got[i] \in Row
    BY <2>1
  <2>3. \A i \in DOMAIN got : got[i].key \in Staker \X Pool
    BY <2>2 DEF Row, Key
  <2> QED
    BY <2>3
<1>3. Copying'
  BY <1>1, <1>2 DEF ShareInv, Copying
<1>4. Tables' /\ Runs'
  BY <1>1 DEF ShareInv, Tables, KeysDiffer, Runs
<1> QED
  BY <1>1, <1>3, <1>4, RestStays DEF ShareInv

(* A pass ends, with user_staked as it was.                                *)
LEMMA PassEndKeeps ==
  ASSUME ShareInv, PassEnds, UNCHANGED <<block, history, hourly, staked, users, hours, run, open, raced>>
  PROVE  ShareInv'
<1>1. Copying'
  BY DEF ShareInv, Copying, PassEnds
<1>2. Tables' /\ Runs'
  BY DEF ShareInv, Tables, KeysDiffer, Runs
<1> QED
  BY <1>1, <1>2, RestStays DEF ShareInv

(* A batch of rows is written. *)
LEMMA StakedKeeps ==
  ASSUME ShareInv, UpsertStaked
  PROVE  ShareInv'
<1> DEFINE batch == SubSeq(got, 1, Min({Len(got), PageSize}))
           rest  == SubSeq(got, PageSize + 1, Len(got))
           rows  == ToSet(batch)
           keys  == {r.key : r \in rows}
<1>1. UNCHANGED <<block, history, hourly, users, hours, run, open, raced>> /\ lpc = "staked"
  BY DEF UpsertStaked, bounds
<1>2. CASE Cardinality(keys) < Len(batch)
  <2>1. PassEnds /\ UNCHANGED staked
    BY <1>2 DEF UpsertStaked
  <2> QED
    BY <1>1, <2>1, PassEndKeeps
<1>3. CASE ~ (Cardinality(keys) < Len(batch))
  <2>1. /\ staked' = [k \in DOMAIN staked \cup keys |->
                        IF k \in keys THEN CHOOSE r \in rows : r.key = k ELSE staked[k]]
        /\ PassEnds \/ (got' = rest /\ UNCHANGED <<lpc, offset>>)
    BY <1>3 DEF UpsertStaked
  <2>2. /\ got \in Seq(Row) /\ PageSize \in Nat \ {0} /\ Len(got) \in Nat
        /\ \A i \in DOMAIN got : got[i] \in Row /\ got[i].key[1] \in users
    <3>1. got \in Seq(Row) /\ \A i \in DOMAIN got : got[i].key[1] \in users
      BY <1>1 DEF ShareInv, Copying
    <3> QED
      BY <3>1, RedistributionAssumption
  <2>3. \A i \in DOMAIN batch : \E j \in DOMAIN got : batch[i] = got[j]
    <3> DEFINE a == Len(got)
               n == Min({a, PageSize})
    <3>1. a \in Nat
      BY <2>2
    <3> HIDE DEF a
    <3>2. n \in Nat /\ n <= a
      BY <2>2, <3>1, LeastOfTwo
    <3>3. n \in Nat /\ n <= Len(got)
      BY <3>2 DEF a
    <3>4. batch = SubSeq(got, 1, n)
      BY DEF a
    <3> HIDE DEF batch, n
    <3>5. \A i \in DOMAIN SubSeq(got, 1, n) : \E j \in DOMAIN got : SubSeq(got, 1, n)[i] = got[j]
      BY <2>2, <3>3, PartFacts
    <3> QED
      BY <3>4, <3>5
  <2>4. rest \in Seq(Row) /\ \A i \in DOMAIN rest : \E j \in DOMAIN got : rest[i] = got[j]
    BY <2>2, RestFacts
  <2> HIDE DEF batch, rest
  <2>5. \A r \in rows : r \in Row /\ r.key \in Key /\ r.key[1] \in users
    <3>1. \A r \in rows : \E i \in DOMAIN batch : r = batch[i]
      BY DEF ToSet
    <3> HIDE DEF rows
    <3>2. \A r \in rows : r \in Row /\ r.key[1] \in users
      BY <2>2, <2>3, <3>1
    <3> QED
      BY <3>2 DEF Row
  <2>6. /\ \A k \in keys : \E r \in rows : r.key = k
        /\ \A k \in keys : k \in Key /\ k[1] \in users
    <3> HIDE DEF rows
    <3> QED
      BY <2>5
  <2> HIDE DEF rows, keys
  <2>7. \A k \in keys : (CHOOSE r \in rows : r.key = k) \in Row
    BY <2>5, <2>6
  <2>8. /\ DOMAIN staked \subseteq Key /\ \A k \in DOMAIN staked : staked[k] \in Row /\ k[1] \in users
    BY DEF ShareInv, Copying
  <2>9. /\ DOMAIN staked' \subseteq Key
        /\ \A k \in DOMAIN staked' : staked'[k] \in Row /\ k[1] \in users
    <3>1. DOMAIN staked' = DOMAIN staked \cup keys
      BY <2>1
    <3>2. \A k \in DOMAIN staked' :
            staked'[k] = IF k \in keys THEN CHOOSE r \in rows : r.key = k ELSE staked[k]
      BY <2>1
    <3>3. ASSUME NEW k \in DOMAIN staked' PROVE staked'[k] \in Row /\ k[1] \in users /\ k \in Key
      <4>1. CASE k \in keys
        BY <2>6, <2>7, <3>2, <4>1
      <4>2. CASE k \notin keys
        BY <2>8, <3>1, <3>2, <4>2
      <4> QED
        BY <4>1, <4>2
    <3> QED
      BY <3>3
  <2>10. Copying'
    <3>1. CASE PassEnds
      BY <1>1, <2>9, <3>1 DEF ShareInv, Copying, PassEnds
    <3>2. CASE got' = rest /\ UNCHANGED <<lpc, offset>>
      <4>1. \A i \in DOMAIN rest : rest[i].key[1] \in users
        BY <2>2, <2>4
      <4> QED
        BY <1>1, <2>4, <2>9, <3>2, <4>1 DEF ShareInv, Copying
    <3> QED
      BY <2>1, <3>1, <3>2
  <2>11. Tables' /\ Runs'
    BY <1>1 DEF ShareInv, Tables, KeysDiffer, Runs
  <2> QED
    BY <1>1, <2>10, <2>11, RestStays DEF ShareInv
<1> QED
  BY <1>2, <1>3

------------------------------------------------------------------------------
(* The theorems. *)

(* No table and no history: nothing adds up to anything.                   *)
LEMMA InitHolds == ShareInit => ShareInv
<1> SUFFICES ASSUME ShareInit PROVE ShareInv
  OBVIOUS
<1>1. /\ block = 1 /\ history = {} /\ hourly = <<>> /\ staked = [k \in {} |-> <<>>] /\ users = {}
      /\ run = [r \in Run |-> Idle] /\ open = {} /\ offset = 0 /\ got = <<>> /\ lpc = "read"
      /\ hours = 0 /\ raced = {}
  BY DEF ShareInit
<1>2. LastBlock \in Nat \ {0} /\ Len(Pools) \in Nat
  BY RedistributionAssumption
<1>3. Tables
  BY <1>1, <1>2 DEF Tables, KeysDiffer, Block
<1>4. Runs
  BY <1>1, <1>2 DEF Runs, Idle
<1>5. Transactions /\ Apart /\ Current
  BY <1>1 DEF Transactions, Apart, Writing, Current
<1>6. Copying
  BY <1>1 DEF Copying
<1>7. SumIsHistory
  <2>1. Known = {}
    BY <1>1 DEF Known, ToSet
  <2>2. \A k : Accumulated(k) = 0
    BY <2>1 DEF Accumulated
  <2>3. ASSUME NEW k PROVE HistoryOf(k) = 0
    <3>1. {b \in Block : <<k, b>> \in history} = {}
      BY <1>1
    <3> DEFINE f == [b \in Block |-> Held(b)]
    <3>2. HistoryOf(k) = SumOver(f, {})
      BY <3>1 DEF HistoryOf
    <3> HIDE DEF f
    <3> QED
      BY <3>2, SumEmpty
  <2> QED
    BY <2>1, <2>2, <2>3 DEF SumIsHistory
<1> QED
  BY <1>3, <1>4, <1>5, <1>6, <1>7 DEF ShareInv

(* Every step keeps the invariant. *)
LEMMA StepKeeps == ShareInv /\ [ShareNext]_shareVars => ShareInv'
<1> SUFFICES ASSUME ShareInv, [ShareNext]_shareVars PROVE ShareInv'
  OBVIOUS
<1>1. CASE Crash
  <2>1. Restarted /\ UNCHANGED <<block, hourlyTables, hours, raced>>
    BY <1>1 DEF Crash
  <2> QED
    BY <2>1, RestartKeeps
<1>2. ASSUME NEW r \in Run, Hour(r) PROVE ShareInv'
  BY <1>2, HourKeeps
<1>3. ASSUME NEW r \in Run, Adapter(r) PROVE ShareInv'
  BY <1>3, AdapterKeeps
<1>4. ASSUME NEW r \in Run, AdapterFails(r) PROVE ShareInv'
  BY <1>4, AdapterFailsKeeps
<1>5. ASSUME NEW t \in open, InsertHistory(t) PROVE ShareInv'
  BY <1>5, InsertKeeps
<1>6. ASSUME NEW t \in open, ReadTable(t) PROVE ShareInv'
  BY <1>6, ReadKeeps
<1>7. ASSUME NEW t \in open, Commit(t) PROVE ShareInv'
  BY <1>7, CommitKeeps
<1>8. CASE ReadPage
  BY <1>8, PageKeeps
<1>9. CASE InsertUsers
  BY <1>9, UsersKeep
<1>10. CASE UpsertStaked
  BY <1>10, StakedKeeps
<1>11. CASE PassFails
  <2>1. PassEnds /\ UNCHANGED <<block, history, hourly, staked, users, hours, run, open, raced>>
    BY <1>11 DEF PassFails, hourlyTables
  <2> QED
    BY <2>1, PassEndKeeps
<1>12. CASE UNCHANGED shareVars
  <2>1. UNCHANGED <<block, history, hourly, staked, users, run, open, offset, got, lpc, hours, raced>>
    BY <1>12 DEF shareVars, hourlyTables, reading, bounds
  <2>2. Tables' /\ Runs' /\ Copying'
    BY <2>1 DEF ShareInv, Tables, KeysDiffer, Runs, Copying
  <2> QED
    BY <2>1, <2>2, RestStays DEF ShareInv
<1> QED
  BY <1>1, <1>2, <1>3, <1>4, <1>5, <1>6, <1>7, <1>8, <1>9, <1>10, <1>11, <1>12
     DEF ShareNext, TxStep, LoopStep

(* The rows, the runs, the transactions and the copy keep their shape; no  *)
(* two writing transactions share a row, what one has read is current when *)
(* it commits unless its pool was raced, and sums are histories.           *)
THEOREM RedistributionInvariant == ShareSpec => []ShareInv
BY InitHolds, StepKeeps, PTL DEF ShareSpec

(* Type correctness, with one row of the table for each key.               *)
THEOREM ShareTypeCorrect == ShareSpec => []ShareTypeOK
<1>1. ShareInv => ShareTypeOK
  <2> SUFFICES ASSUME ShareInv PROVE ShareTypeOK
    OBVIOUS
  <2>1. Cardinality(Known) = Len(hourly)
    BY TableFacts DEF ShareInv, Tables, TableShape
  <2>2. \A r \in Run : run[r].at \in 0..Len(Pools) /\ run[r].block \in 0..block
    <3>1. block \in Nat
      <4>1. LastBlock \in Nat
        BY RedistributionAssumption
      <4> QED
        BY <4>1 DEF ShareInv, Tables, Block
    <3> SUFFICES ASSUME NEW r \in Run
                 PROVE  run[r].at \in 0..Len(Pools) /\ run[r].block \in 0..block
      OBVIOUS
    <3>2. run[r].at \in 0..Len(Pools)
      BY DEF ShareInv, Runs
    <3>3. run[r] = Idle => run[r].block = 0
      BY DEF Idle
    <3>4. run[r] # Idle => run[r].block \in 1..block
      BY DEF ShareInv, Runs
    <3> QED
      BY <3>1, <3>2, <3>3, <3>4
  <2>3. \A t \in open : t.pool \in Pool /\ t.printed \subseteq Staker /\ t.block \in Block
    BY DEF ShareInv, Transactions, Sound, Transaction
  <2> QED
    BY <2>1, <2>2, <2>3 DEF ShareInv, Tables, Copying, ShareTypeOK
<1> QED
  BY <1>1, RedistributionInvariant, PTL

(* Of every pool that never had two transactions under way together, the   *)
(* sum of a user is the sum of the user's history, and the share is of no  *)
(* more than the pool's.                                                   *)
THEOREM SumsAreHistory == ShareSpec => []SumIsHistory
<1>1. ShareInv => SumIsHistory
  BY DEF ShareInv
<1> QED
  BY <1>1, RedistributionInvariant, PTL
==============================================================================
