--------------------------- MODULE BaseDataProofs ---------------------------
(***************************************************************************)
(* Theorems about BaseData for every set of addresses, every chain and     *)
(* every assignment of depositors to its blocks, any number of deliveries  *)
(* of the event and of failures.                                           *)
(***************************************************************************)
EXTENDS BaseData, FiniteSetTheorems, TLAPS

(* A worker has had no more loops since the process began than events were *)
(* handled, and one: there is always a next one.                           *)
Handled == {h \in Handler : hpc[h] = "handled"}
Born ==
  \A w \in Worker : \E m \in 1 .. Cardinality(Handled) + 1 :
    \A l \in Loop : pc[w][l] = "unborn" <=> m < l

(* Unless two events are handled at once, a worker has at most one loop:   *)
(* the one of its promise, or the one the handler waits for.               *)
OnlyPromised == \A w \in Worker : /\ promise[w] # None
                                  /\ \A l \in Loop : Alive(w, l) => l = promise[w]
OnlyAwaited(h) == \A w \in Worker : /\ promise[w] = None /\ awaits[h][w] # None
                                    /\ \A l \in Loop : Alive(w, l) => l = awaits[h][w]
Alone ==
  ~overlapped =>
    /\ (\A h \in Handler : hpc[h] # "stopping") => OnlyPromised
    /\ \A h \in Handler : hpc[h] = "stopping" =>
         OnlyAwaited(h) /\ \A g \in Handler : hpc[g] = "stopping" => g = h

(* What a pass is about to read, insert or store; the pointer and the      *)
(* beginning of the record are there together.                             *)
At(l, where) == pc["base"][l] = where
PassShape(l) ==
  /\ At(l, "sync")   => number[l] = None \/ 1 <= begin[l]
  /\ At(l, "insert") => /\ number[l] \in 1..latest /\ 1 <= begin[l]
                        /\ fresh[l] \subseteq Depositors[number[l]]
  /\ At(l, "store")  => 1 <= number[l] /\ 1 <= begin[l]
Shapes ==
  /\ \A l \in Loop : PassShape(l)
  /\ (start = None) <=> (pointer = None)
  /\ \A u \in User : first[u] # None => first[u] <= latest /\ u \in Depositors[first[u]]

(* Where the record begins if the pass of l stores its pointer. *)
Since(l) == IF start = None THEN begin[l] ELSE start

(* From there on the pass has recorded every depositor of the blocks it    *)
(* has left behind, and the earliest deposit of everybody recorded.        *)
EarliestFrom(b0) ==
  \A u \in User : first[u] # None => \A b \in b0 .. first[u] - 1 : u \notin Depositors[b]
RecordedUpTo(b0, b1) == \A b \in b0 .. b1 - 1 : \A u \in Depositors[b] : first[u] # None

Recording(l) ==
  /\ At(l, "pointer") => \A u \in User : first[u] # None => first[u] <= target[l]
  /\ At(l, "sync") \/ At(l, "insert") \/ At(l, "store") =>
       EarliestFrom(Since(l)) /\ RecordedUpTo(Since(l), number[l])
  /\ At(l, "insert") => \A u \in Depositors[number[l]] : u \in fresh[l] \/ first[u] # None
Recorded ==
  ~overlapped =>
    /\ \A l \in Loop : Recording(l)
    /\ start # None => EarliestFrom(start) /\ RecordedUpTo(start, pointer)

IInv == TypeOK /\ Born /\ Alone /\ Shapes /\ Recorded

PcState == {"unborn", "pass", "pointer", "sync", "insert", "store", "wait", "ended"}

------------------------------------------------------------------------------
(* The operators of the model. *)

(* Loops are numbered from one, and there is a first. *)
LEMMA LoopFacts == /\ Loop \subseteq Nat /\ 1 \in Loop /\ None \notin Loop
                   /\ Cardinality(Handler) \in Nat /\ None = 0
<1>1. Cardinality(Handler) \in Nat
  BY BaseDataAssumption, FS_CardinalityType
<1> QED
  BY <1>1 DEF Loop, None

(* A step of a loop moves that loop and no other. *)
LEMMA GotoFacts ==
  ASSUME pc \in [Worker -> [Loop -> PcState]], NEW w \in Worker, NEW l \in Loop,
         NEW from, NEW to \in PcState, Goto(w, l, from, to)
  PROVE  /\ pc' \in [Worker -> [Loop -> PcState]]
         /\ pc[w][l] = from /\ pc'[w][l] = to
         /\ \A v \in Worker, k \in Loop : v # w \/ k # l => pc'[v][k] = pc[v][k]
BY DEF Goto

(* While an event is being handled fewer are handled than delivered, so    *)
(* the next loop of a worker is the one behind those it has had.           *)
LEMMA NextLoopFacts ==
  ASSUME TypeOK, Born, NEW w \in Worker, NEW h \in Handler, hpc[h] = "stopping"
  PROVE  \E m \in 1 .. Cardinality(Handled) + 1 :
           /\ m + 1 \in Loop /\ NextLoop(w) = m + 1
           /\ \A l \in Loop : pc[w][l] = "unborn" <=> m < l
<1>1. PICK m \in 1 .. Cardinality(Handled) + 1 : \A l \in Loop : pc[w][l] = "unborn" <=> m < l
  BY DEF Born
<1>2. IsFiniteSet(Handled) /\ h \notin Handled /\ Handled \cup {h} \subseteq Handler
  BY BaseDataAssumption, FS_Subset DEF Handled
<1>3. Cardinality(Handled) \in Nat /\ Cardinality(Handled \cup {h}) = Cardinality(Handled) + 1
  BY <1>2, FS_AddElement, FS_CardinalityType
<1>4. Cardinality(Handled \cup {h}) <= Cardinality(Handler)
  BY <1>2, BaseDataAssumption, FS_Subset
<1>5. m + 1 \in Loop /\ m \in Nat
  BY <1>1, <1>3, <1>4, LoopFacts DEF Loop
<1>6. pc[w][m + 1] = "unborn" /\ \A k \in Loop : pc[w][k] = "unborn" => m + 1 <= k
  BY <1>1, <1>5, LoopFacts
<1>7. NextLoop(w) = m + 1
  <2>1. \A l \in Loop : (/\ pc[w][l] = "unborn"
                         /\ \A k \in Loop : pc[w][k] = "unborn" => l <= k) => l = m + 1
    <3> SUFFICES ASSUME NEW l \in Loop, pc[w][l] = "unborn",
                        \A k \in Loop : pc[w][k] = "unborn" => l <= k
                 PROVE  l = m + 1
      OBVIOUS
    <3>1. l <= m + 1 /\ m + 1 <= l /\ l \in Nat
      BY <1>5, <1>6, LoopFacts
    <3> QED
      BY <1>5, <3>1
  <2> QED
    BY <1>5, <1>6, <2>1 DEF NextLoop
<1> QED
  BY <1>1, <1>5, <1>7

(* A restart gives every worker whose promise is cleared its next loop, at *)
(* the beginning of a pass; the other workers stay as they are.            *)
LEMMA RestartFacts ==
  ASSUME TypeOK, Born, NEW h \in Handler, Restart(h)
  PROVE  /\ hpc[h] = "stopping" /\ Stopped(h) /\ hpc' = [hpc EXCEPT ![h] = "handled"]
         /\ awaits' = [awaits EXCEPT ![h] = [w \in Worker |-> None]]
         /\ UNCHANGED <<latest, first, pointer, pending, target, number, fresh, begin, overlapped,
                        faults, start>>
         /\ pc' \in [Worker -> [Loop -> PcState]] /\ promise' \in [Worker -> {None} \cup Loop]
         /\ \A w \in Worker :
              \/ promise[w] # None /\ promise'[w] = promise[w] /\ pc'[w] = pc[w]
              \/ \E m \in 1 .. Cardinality(Handled) + 1 :
                   /\ promise[w] = None /\ m + 1 \in Loop /\ promise'[w] = m + 1
                   /\ pc'[w] = [pc[w] EXCEPT ![m + 1] = "pass"]
                   /\ \A l \in Loop : pc[w][l] = "unborn" <=> m < l
<1>1. /\ hpc[h] = "stopping" /\ Stopped(h) /\ hpc' = [hpc EXCEPT ![h] = "handled"]
      /\ awaits' = [awaits EXCEPT ![h] = [w \in Worker |-> None]]
      /\ UNCHANGED <<latest, first, pointer, pending, target, number, fresh, begin, overlapped,
                     faults, start>>
  BY DEF Restart, explorer, tables, passLocal
<1>2. /\ pc' = [w \in Worker |-> IF promise[w] = None THEN [pc[w] EXCEPT ![NextLoop(w)] = "pass"]
                                 ELSE pc[w]]
      /\ promise' = [w \in Worker |-> IF promise[w] = None THEN NextLoop(w) ELSE promise[w]]
  BY DEF Restart, StartWorkers, Starting, NewLoop
<1>3. \A w \in Worker :
        \E m \in 1 .. Cardinality(Handled) + 1 :
           /\ m + 1 \in Loop /\ NextLoop(w) = m + 1
           /\ \A l \in Loop : pc[w][l] = "unborn" <=> m < l
  BY <1>1, NextLoopFacts
<1>4. \A w \in Worker :
        \/ promise[w] # None /\ promise'[w] = promise[w] /\ pc'[w] = pc[w]
        \/ \E m \in 1 .. Cardinality(Handled) + 1 :
             /\ promise[w] = None /\ m + 1 \in Loop /\ promise'[w] = m + 1
             /\ pc'[w] = [pc[w] EXCEPT ![m + 1] = "pass"]
             /\ \A l \in Loop : pc[w][l] = "unborn" <=> m < l
  BY <1>2, <1>3
<1>5. \A w \in Worker : pc[w] \in [Loop -> PcState] /\ promise[w] \in {None} \cup Loop
  BY DEF TypeOK, PcState
<1>6. \A w \in Worker : NextLoop(w) \in Loop
  BY <1>3
<1>7. pc' \in [Worker -> [Loop -> PcState]]
  BY <1>2, <1>5 DEF PcState
<1>8. promise' \in [Worker -> {None} \cup Loop]
  BY <1>2, <1>5, <1>6
<1> QED
  BY <1>1, <1>4, <1>7, <1>8

(* When the process begins every worker has one loop, its first. *)
LEMMA BootFacts ==
  /\ Boot \in [Worker -> [Loop -> PcState]]
  /\ \A w \in Worker, l \in Loop : Boot[w][l] = IF l = 1 THEN "pass" ELSE "unborn"
BY LoopFacts DEF Boot, Unborn, PcState

(* What a step of a loop, or the failure of its pass, may do to the loops. *)
LEMMA LoopSteps ==
  ASSUME TypeOK, NEW l \in Loop, BaseStep(l) \/ DirectStep(l) \/ PassFails(l)
  PROVE  /\ UNCHANGED <<latest, promise, hpc, awaits, overlapped>>
         /\ pc' \in [Worker -> [Loop -> PcState]]
         /\ \A v \in Worker, k \in Loop :
              \/ pc'[v][k] = pc[v][k]
              \/ /\ pc[v][k] \notin {"unborn", "ended"} /\ pc'[v][k] # "unborn"
                 /\ pc'[v][k] = "ended" => promise[v] = None
<1> USE DEF Alive
<1>0. pc \in [Worker -> [Loop -> PcState]] /\ "base" \in Worker /\ "direct" \in Worker
  BY DEF TypeOK, PcState, Worker
<1>1. CASE ReadLatest(l)
  BY <1>0, <1>1, GotoFacts DEF ReadLatest, explorer, handling, PcState
<1>2. CASE ReadPointer(l)
  <2>1. PICK to \in {"sync", "store"} : Goto("base", l, "pointer", to)
    BY <1>2 DEF ReadPointer
  <2> QED
    BY <1>0, <1>2, <2>1, GotoFacts DEF ReadPointer, explorer, handling, PcState
<1>3. CASE Sync(l)
  <2>1. PICK to \in {"insert", "wait"} : Goto("base", l, "sync", to)
    BY <1>3 DEF Sync
  <2> QED
    BY <1>0, <1>3, <2>1, GotoFacts DEF Sync, explorer, handling, PcState
<1>4. CASE Insert(l)
  <2>1. PICK to \in {"sync", "store"} : Goto("base", l, "insert", to)
    BY <1>4 DEF Insert
  <2> QED
    BY <1>0, <1>4, <2>1, GotoFacts DEF Insert, explorer, handling, PcState
<1>5. CASE StorePointer(l)
  BY <1>0, <1>5, GotoFacts DEF StorePointer, explorer, handling, PcState
<1>6. ASSUME NEW w \in Worker, CheckPromise(w, l)
      PROVE  /\ UNCHANGED <<latest, promise, hpc, awaits, overlapped>>
             /\ pc' \in [Worker -> [Loop -> PcState]]
             /\ \A v \in Worker, k \in Loop :
                  \/ pc'[v][k] = pc[v][k]
                  \/ /\ pc[v][k] \notin {"unborn", "ended"} /\ pc'[v][k] # "unborn"
                     /\ pc'[v][k] = "ended" => promise[v] = None
  <2>1. PICK to \in {"ended", "pass"} : Goto(w, l, "wait", to) /\ (to = "ended" => promise[w] = None)
    BY <1>6 DEF CheckPromise
  <2>2. UNCHANGED <<latest, promise, hpc, awaits, overlapped>>
    BY <1>6 DEF CheckPromise, explorer, handling
  <2> QED
    BY <1>0, <2>1, <2>2, GotoFacts DEF PcState
<1>7. CASE PayPending(l)
  BY <1>0, <1>7, GotoFacts DEF PayPending, explorer, handling, PcState
<1>8. CASE PassFails(l)
  <2>1. \A v \in Worker, k \in Loop :
          pc'[v][k] = IF v = "base" /\ k = l THEN "wait" ELSE pc[v][k]
    BY <1>0, <1>8 DEF PassFails
  <2>2. pc["base"][l] \in {"pointer", "sync", "insert", "store"}
    BY <1>8 DEF PassFails
  <2>3. pc' \in [Worker -> [Loop -> PcState]]
    BY <1>0, <1>8 DEF PassFails, PcState
  <2> QED
    BY <1>8, <2>1, <2>2, <2>3 DEF PassFails, explorer, handling
<1> QED
  BY <1>0, <1>1, <1>2, <1>3, <1>4, <1>5, <1>6, <1>7, <1>8 DEF BaseStep, DirectStep

(* A pass that is over leaves nothing behind. *)
LEMMA FreshFacts ==
  ASSUME TypeOK, NEW l \in Loop, Fresh(l)
  PROVE  /\ target' \in [Loop -> 0..latest] /\ number' \in [Loop -> 0..(latest + 1)]
         /\ fresh' \in [Loop -> SUBSET User] /\ begin' \in [Loop -> 0..(latest + 1)]
         /\ \A k \in Loop : k # l => /\ target'[k] = target[k] /\ number'[k] = number[k]
                                     /\ fresh'[k] = fresh[k] /\ begin'[k] = begin[k]
<1>1. latest \in Nat /\ None \in 0..latest /\ None \in 0..(latest + 1)
  BY DEF TypeOK, None
<1> QED
  BY <1>1 DEF TypeOK, Fresh

(* The loop of DirectPoint touches nothing of BaseData. *)
LEMMA DirectSteps ==
  ASSUME TypeOK, NEW l \in Loop, DirectStep(l)
  PROVE  /\ UNCHANGED <<latest, first, pointer, promise, target, number, fresh, begin, handling,
                        faults, start>>
         /\ pending' \in BOOLEAN /\ pc'["base"] = pc["base"]
<1>1. pc \in [Worker -> [Loop -> PcState]] /\ "base" \in Worker /\ "direct" \in Worker
  BY DEF TypeOK, PcState, Worker
<1> QED
  BY <1>1 DEF DirectStep, PayPending, CheckPromise, Goto, explorer, tables, passLocal, TypeOK

(* What a step of the loop of BaseData writes, and that it leaves the      *)
(* other loops alone.                                                      *)
LEMMA BaseSteps ==
  ASSUME TypeOK, NEW l \in Loop, BaseStep(l) \/ PassFails(l)
  PROVE  /\ UNCHANGED <<latest, pending, promise, handling>>
         /\ \A k \in Loop \ {l} :
              /\ pc'["base"][k] = pc["base"][k] /\ target'[k] = target[k]
              /\ number'[k] = number[k] /\ fresh'[k] = fresh[k] /\ begin'[k] = begin[k]
         /\ \/ /\ At(l, "pass") /\ pc'["base"][l] = "pointer"
               /\ target' = [target EXCEPT ![l] = latest]
               /\ UNCHANGED <<first, pointer, number, fresh, begin, faults, start>>
            \/ /\ At(l, "pointer")
               /\ \E from \in {pointer, target[l]} :
                    /\ from = IF pointer = None THEN target[l] ELSE pointer
                    /\ number' = [number EXCEPT ![l] = from] /\ begin' = [begin EXCEPT ![l] = from]
                    /\ pc'["base"][l] = IF from <= target[l] THEN "sync" ELSE "store"
               /\ UNCHANGED <<first, pointer, target, fresh, faults, start>>
            \/ /\ At(l, "sync") /\ pc'["base"][l] = "insert" /\ number[l] \in 1..latest
               /\ fresh' = [fresh EXCEPT ![l] = NewDepositors(number[l])]
               /\ UNCHANGED <<first, pointer, target, number, begin, faults, start>>
            \/ /\ At(l, "insert") /\ pc'["base"][l] \in {"sync", "store"}
               /\ first' = [u \in User |-> IF u \in fresh[l] /\ first[u] = None THEN number[l]
                                           ELSE first[u]]
               /\ number' = [number EXCEPT ![l] = @ + 1] /\ fresh' = [fresh EXCEPT ![l] = {}]
               /\ UNCHANGED <<pointer, target, begin, faults, start>>
            \/ /\ At(l, "store") /\ pc'["base"][l] = "wait"
               /\ pointer' = number[l] /\ start' = IF start = None THEN begin[l] ELSE start
               /\ Fresh(l) /\ UNCHANGED <<first, faults>>
            \/ /\ pc'["base"][l] \in {"wait", "pass", "ended"}
               /\ faults' = faults \/ (faults < MaxFaults /\ faults' = faults + 1)
               /\ Fresh(l) \/ UNCHANGED <<target, number, fresh, begin>>
               /\ UNCHANGED <<first, pointer, start>>
<1> USE DEF At, explorer, tables, passLocal, handling
<1>0. pc \in [Worker -> [Loop -> PcState]] /\ "base" \in Worker
      /\ {"pass", "pointer", "sync", "insert", "store", "wait", "ended"} \subseteq PcState
  BY DEF TypeOK, PcState, Worker
<1>t. /\ target \in [Loop -> 0..latest] /\ number \in [Loop -> 0..(latest + 1)]
      /\ fresh \in [Loop -> SUBSET User] /\ begin \in [Loop -> 0..(latest + 1)]
  BY DEF TypeOK
<1>1. CASE ReadLatest(l)
  BY <1>0, <1>t, <1>1, GotoFacts DEF ReadLatest
<1>2. CASE ReadPointer(l)
  <2> DEFINE from == IF pointer = None THEN target[l] ELSE pointer
  <2>1. Goto("base", l, "pointer", IF from <= target[l] THEN "sync" ELSE "store")
    BY <1>2 DEF ReadPointer
  <2>2. number' = [number EXCEPT ![l] = from] /\ begin' = [begin EXCEPT ![l] = from]
        /\ from \in {pointer, target[l]}
    BY <1>2 DEF ReadPointer
  <2>3. UNCHANGED <<latest, pending, promise, handling, first, pointer, target, fresh, faults, start>>
    BY <1>2 DEF ReadPointer
  <2>4. (IF from <= target[l] THEN "sync" ELSE "store") \in PcState
    BY <1>0
  <2>5. At(l, "pointer") /\ pc'["base"][l] = IF from <= target[l] THEN "sync" ELSE "store"
    BY <1>0, <2>1, <2>4, GotoFacts
  <2>6. \A k \in Loop \ {l} : pc'["base"][k] = pc["base"][k]
    BY <1>0, <2>1, <2>4, GotoFacts
  <2>7. \A k \in Loop \ {l} : number'[k] = number[k] /\ begin'[k] = begin[k]
    BY <1>t, <2>2
  <2>8. \E f \in {pointer, target[l]} :
          /\ f = IF pointer = None THEN target[l] ELSE pointer
          /\ number' = [number EXCEPT ![l] = f] /\ begin' = [begin EXCEPT ![l] = f]
          /\ pc'["base"][l] = IF f <= target[l] THEN "sync" ELSE "store"
    BY <2>2, <2>5
  <2> QED
    BY <2>3, <2>5, <2>6, <2>7, <2>8
<1>3. CASE Sync(l)
  <2>1. CASE number[l] \in 1..latest
    BY <1>0, <1>t, <1>3, <2>1, GotoFacts DEF Sync
  <2>2. CASE number[l] \notin 1..latest
    <3>1. Goto("base", l, "sync", "wait") /\ Fresh(l)
          /\ UNCHANGED <<latest, first, pointer, pending, promise, handling, faults, start>>
      BY <1>3, <2>2 DEF Sync
    <3> QED
      BY <1>0, <3>1, GotoFacts, FreshFacts
  <2> QED
    BY <2>1, <2>2
<1>4. CASE Insert(l)
  <2>1. PICK to \in {"sync", "store"} : Goto("base", l, "insert", to)
    BY <1>4 DEF Insert
  <2> QED
    BY <1>0, <1>t, <1>4, <2>1, GotoFacts DEF Insert
<1>5. CASE StorePointer(l)
  <2>1. /\ Goto("base", l, "store", "wait") /\ Fresh(l)
        /\ pointer' = number[l] /\ start' = IF start = None THEN begin[l] ELSE start
        /\ UNCHANGED <<latest, first, pending, promise, handling, faults>>
    BY <1>5 DEF StorePointer
  <2> QED
    BY <1>0, <2>1, GotoFacts, FreshFacts
<1>6. CASE CheckPromise("base", l)
  <2>1. PICK to \in {"ended", "pass"} : Goto("base", l, "wait", to)
    BY <1>6 DEF CheckPromise
  <2> QED
    BY <1>0, <1>t, <1>6, <2>1, GotoFacts DEF CheckPromise
<1>7. CASE PassFails(l)
  <2>1. /\ Fresh(l) /\ faults < MaxFaults /\ faults' = faults + 1
        /\ UNCHANGED <<latest, first, pointer, pending, promise, handling, start>>
        /\ pc' = [pc EXCEPT !["base"][l] = "wait"]
    BY <1>7 DEF PassFails
  <2>2. pc'["base"][l] = "wait" /\ \A k \in Loop \ {l} : pc'["base"][k] = pc["base"][k]
    BY <1>0, <2>1
  <2> QED
    BY <2>1, <2>2, FreshFacts
<1> QED
  BY <1>1, <1>2, <1>3, <1>4, <1>5, <1>6, <1>7 DEF BaseStep

------------------------------------------------------------------------------
(* Types. *)

(* The process begins with empty tables. *)
LEMMA InitTypeOK == Init => TypeOK
<1> SUFFICES ASSUME Init PROVE TypeOK
  OBVIOUS
<1>1. pc \in [Worker -> [Loop -> PcState]] /\ \A w \in Worker : Alive(w, promise[w])
  BY BootFacts, LoopFacts DEF Init, Alive
<1>2. pending \in BOOLEAN /\ overlapped \in BOOLEAN
  BY DEF Init
<1>3. /\ latest = 0 /\ pointer = 0 /\ start = 0 /\ faults = 0
      /\ 0 \in 0..MaxBlock /\ 0 \in 0..MaxFaults /\ 0 \in 0..latest /\ 0 \in 0..(latest + 1)
  BY BaseDataAssumption DEF Init, None
<1>4. /\ first \in [User -> {None} \cup Block] /\ promise \in [Worker -> {None} \cup Loop]
      /\ target \in [Loop -> 0..latest] /\ number \in [Loop -> 0..(latest + 1)]
      /\ fresh \in [Loop -> SUBSET User] /\ begin \in [Loop -> 0..(latest + 1)]
      /\ hpc \in [Handler -> {"none", "stopping", "handled"}]
      /\ awaits \in [Handler -> [Worker -> {None} \cup Loop]]
  BY <1>3, LoopFacts DEF Init
<1> QED
  BY <1>1, <1>2, <1>3, <1>4 DEF TypeOK, PcState

(* Every action keeps every variable in its range. *)
LEMMA NextTypeOK == TypeOK /\ Born /\ Shapes /\ [Next]_vars => TypeOK'
<1> SUFFICES ASSUME TypeOK, Born, Shapes, [Next]_vars PROVE TypeOK'
  OBVIOUS
<1>0. latest \in Nat /\ MaxBlock \in Nat /\ MaxFaults \in Nat /\ None = 0 /\ latest <= MaxBlock
      /\ Block = 1..MaxBlock
  BY BaseDataAssumption DEF TypeOK, None, Block
<1>1. CASE IndexBlock
  <2>1. /\ latest' = latest + 1 /\ latest' \in 0..MaxBlock
        /\ 0..latest \subseteq 0..latest' /\ 0..(latest + 1) \subseteq 0..(latest' + 1)
    BY <1>0, <1>1 DEF IndexBlock
  <2>2. UNCHANGED <<tables, promise, pc, passLocal, handling, faults, start>>
    BY <1>1 DEF IndexBlock
  <2> QED
    BY <2>1, <2>2 DEF TypeOK, Alive, tables, passLocal, handling
<1>2. CASE Schedule
  BY <1>2 DEF Schedule, TypeOK, Alive, explorer, passLocal, handling
<1>3. CASE Crash
  <2>1. /\ pc' = Boot /\ promise' = [w \in Worker |-> 1]
        /\ target' = [l \in Loop |-> None] /\ number' = [l \in Loop |-> None]
        /\ fresh' = [l \in Loop |-> {}] /\ begin' = [l \in Loop |-> None]
        /\ hpc' = [h \in Handler |-> IF hpc[h] = "stopping" THEN "handled" ELSE hpc[h]]
        /\ awaits' = [h \in Handler |-> [w \in Worker |-> None]]
        /\ faults' = faults + 1 /\ faults < MaxFaults
        /\ UNCHANGED <<latest, first, pointer, pending, overlapped, start>>
    BY <1>3 DEF Crash, explorer, tables
  <2>2. pc' \in [Worker -> [Loop -> PcState]] /\ \A w \in Worker : pc'[w][promise'[w]] = "pass"
    BY <2>1, BootFacts, LoopFacts
  <2>3. faults' \in 0..MaxFaults
    BY <1>0, <2>1 DEF TypeOK
  <2>4. hpc' \in [Handler -> {"none", "stopping", "handled"}]
    BY <2>1 DEF TypeOK
  <2> QED
    BY <1>0, <2>1, <2>2, <2>3, <2>4, LoopFacts DEF TypeOK, PcState, Alive
<1>4. ASSUME NEW l \in Loop, BaseStep(l) \/ DirectStep(l) \/ PassFails(l) PROVE TypeOK'
  <2>1. /\ UNCHANGED <<latest, promise, hpc, awaits, overlapped>>
        /\ pc' \in [Worker -> [Loop -> PcState]]
    BY <1>4, LoopSteps
  <2>2. \A w \in Worker : promise'[w] # None => pc'[w][promise'[w]] \notin {"unborn", "ended"}
    <3> SUFFICES ASSUME NEW w \in Worker, promise[w] # None
                 PROVE  pc'[w][promise[w]] \notin {"unborn", "ended"}
      BY <2>1
    <3>1. promise[w] \in Loop /\ pc[w][promise[w]] \notin {"unborn", "ended"}
      BY DEF TypeOK, Alive
    <3> QED
      BY <1>4, <3>1, LoopSteps
  <2>3. CASE DirectStep(l)
    <3>1. /\ pending' \in BOOLEAN
          /\ UNCHANGED <<first, pointer, target, number, fresh, begin, faults, start>>
      BY <2>3, DirectSteps
    <3> QED
      BY <2>1, <2>2, <3>1 DEF TypeOK, PcState, Alive
  <2>4. CASE BaseStep(l) \/ PassFails(l)
    <3>1. /\ target' \in [Loop -> 0..latest] /\ number' \in [Loop -> 0..(latest + 1)]
          /\ fresh' \in [Loop -> SUBSET User] /\ begin' \in [Loop -> 0..(latest + 1)]
          /\ first' \in [User -> {None} \cup Block] /\ pointer' \in 0..(latest + 1)
          /\ faults' \in 0..MaxFaults /\ start' \in 0..(latest + 1)
      <4>t. /\ target \in [Loop -> 0..latest] /\ number \in [Loop -> 0..(latest + 1)]
            /\ fresh \in [Loop -> SUBSET User] /\ begin \in [Loop -> 0..(latest + 1)]
            /\ first \in [User -> {None} \cup Block] /\ pointer \in 0..(latest + 1)
            /\ faults \in 0..MaxFaults /\ start \in 0..(latest + 1)
            /\ latest \in 0..latest /\ 0..latest \subseteq 0..(latest + 1)
        BY <1>0 DEF TypeOK
      <4>1. CASE /\ target' = [target EXCEPT ![l] = latest]
                 /\ UNCHANGED <<first, pointer, number, fresh, begin, faults, start>>
        BY <4>t, <4>1
      <4>2. CASE /\ \E from \in {pointer, target[l]} :
                      number' = [number EXCEPT ![l] = from] /\ begin' = [begin EXCEPT ![l] = from]
                 /\ UNCHANGED <<first, pointer, target, fresh, faults, start>>
        BY <4>t, <4>2
      <4>3. CASE /\ fresh' = [fresh EXCEPT ![l] = NewDepositors(number[l])]
                 /\ number[l] \in 1..latest
                 /\ UNCHANGED <<first, pointer, target, number, begin, faults, start>>
        <5>1. number[l] \in Block
          BY <1>0, <4>3
        <5>2. NewDepositors(number[l]) \subseteq User
          BY <5>1, BaseDataAssumption DEF NewDepositors
        <5> QED
          BY <4>t, <4>3, <5>2
      <4>4. CASE /\ At(l, "insert")
                 /\ first' = [u \in User |-> IF u \in fresh[l] /\ first[u] = None THEN number[l]
                                             ELSE first[u]]
                 /\ number' = [number EXCEPT ![l] = @ + 1] /\ fresh' = [fresh EXCEPT ![l] = {}]
                 /\ UNCHANGED <<pointer, target, begin, faults, start>>
        <5>1. number[l] \in 1..latest
          BY <4>4 DEF Shapes, PassShape
        <5>2. number[l] \in Block /\ number[l] + 1 \in 0..(latest + 1)
          BY <1>0, <5>1
        <5> QED
          BY <4>t, <4>4, <5>2
      <4>5. CASE /\ pointer' = number[l] /\ start' = IF start = None THEN begin[l] ELSE start
                 /\ Fresh(l) /\ UNCHANGED <<first, faults>>
        BY <4>t, <4>5, FreshFacts
      <4>6. CASE /\ faults' = faults \/ (faults < MaxFaults /\ faults' = faults + 1)
                 /\ Fresh(l) \/ UNCHANGED <<target, number, fresh, begin>>
                 /\ UNCHANGED <<first, pointer, start>>
        BY <1>0, <4>t, <4>6, FreshFacts
      <4> QED
        BY <2>4, <4>1, <4>2, <4>3, <4>4, <4>5, <4>6, BaseSteps
    <3>2. pending' = pending
      BY <2>4, BaseSteps
    <3> QED
      BY <2>1, <2>2, <3>1, <3>2 DEF TypeOK, PcState, Alive
  <2> QED
    BY <1>4, <2>3, <2>4
<1>5. ASSUME NEW h \in Handler, StopWorkers(h) PROVE TypeOK'
  BY <1>5 DEF StopWorkers, TypeOK, explorer, tables, passLocal
<1>6. ASSUME NEW h \in Handler, Restart(h) PROVE TypeOK'
  <2>1. \A w \in Worker : promise'[w] # None => pc'[w][promise'[w]] \notin {"unborn", "ended"}
    <3> SUFFICES ASSUME NEW w \in Worker, promise'[w] # None
                 PROVE  pc'[w][promise'[w]] \notin {"unborn", "ended"}
      OBVIOUS
    <3>1. pc[w] \in [Loop -> PcState]
      BY DEF TypeOK, PcState
    <3>2. CASE promise[w] # None /\ promise'[w] = promise[w] /\ pc'[w] = pc[w]
      BY <3>2 DEF TypeOK, Alive
    <3>3. CASE \E m \in 1 .. Cardinality(Handled) + 1 :
                   /\ m + 1 \in Loop /\ promise'[w] = m + 1
                   /\ pc'[w] = [pc[w] EXCEPT ![m + 1] = "pass"]
      BY <3>1, <3>3
    <3> QED
      BY <1>6, <3>2, <3>3, RestartFacts
  <2>2. hpc' \in [Handler -> {"none", "stopping", "handled"}]
        /\ awaits' \in [Handler -> [Worker -> {None} \cup Loop]]
    <3>1. /\ hpc' = [hpc EXCEPT ![h] = "handled"]
          /\ awaits' = [awaits EXCEPT ![h] = [w \in Worker |-> None]]
      BY <1>6, RestartFacts
    <3> QED
      BY <3>1 DEF TypeOK
  <2> QED
    BY <1>6, <2>1, <2>2, RestartFacts DEF TypeOK, PcState, Alive
<1>7. CASE UNCHANGED vars
  BY <1>7 DEF vars, explorer, tables, passLocal, handling, TypeOK, Alive
<1> QED
  BY <1>1, <1>2, <1>3, <1>4, <1>5, <1>6, <1>7 DEF Next

------------------------------------------------------------------------------
(* Loops. *)

(* In the first state every worker has one loop, its promise. *)
LEMMA InitLoops == Init => Born /\ Alone
<1> SUFFICES ASSUME Init PROVE Born /\ Alone
  OBVIOUS
<1>1. IsFiniteSet(Handled)
  BY BaseDataAssumption, FS_Subset DEF Handled
<1>2. Cardinality(Handled) \in Nat /\ 1 \in 1 .. Cardinality(Handled) + 1
  BY <1>1, FS_CardinalityType
<1>3. \A w \in Worker, l \in Loop : pc[w][l] = IF l = 1 THEN "pass" ELSE "unborn"
  BY BootFacts DEF Init
<1>4. \A l \in Loop : l # 1 <=> 1 < l
  BY DEF Loop
<1>5. Born
  BY <1>2, <1>3, <1>4 DEF Born
<1>6. OnlyPromised /\ \A h \in Handler : hpc[h] # "stopping"
  BY <1>3, LoopFacts DEF Init, OnlyPromised, Alive
<1> QED
  BY <1>5, <1>6 DEF Alone

(* Every action keeps the count of the loops. *)
LEMMA NextBorn == TypeOK /\ Born /\ [Next]_vars => Born'
<1> SUFFICES ASSUME TypeOK, Born, [Next]_vars PROVE Born'
  OBVIOUS
<1>0. IsFiniteSet(Handled) /\ IsFiniteSet(Handled')
  BY BaseDataAssumption, FS_Subset DEF Handled
<1>c. Cardinality(Handled) \in Nat /\ Cardinality(Handled') \in Nat
  BY <1>0, FS_CardinalityType
<1>q. ASSUME Handled' = Handled,
             \A w \in Worker, l \in Loop : pc'[w][l] = "unborn" <=> pc[w][l] = "unborn"
      PROVE  Born'
  BY <1>q DEF Born
<1>1. CASE IndexBlock \/ Schedule \/ UNCHANGED vars
  <2>1. UNCHANGED <<pc, hpc>>
    BY <1>1 DEF IndexBlock, Schedule, vars, handling
  <2> QED
    BY <1>q, <2>1 DEF Handled
<1>2. CASE Crash
  <2>1. \A w \in Worker, l \in Loop : pc'[w][l] = "unborn" <=> 1 < l
    BY <1>2, BootFacts DEF Crash, Loop
  <2>2. 1 \in 1 .. Cardinality(Handled') + 1
    BY <1>c
  <2> QED
    BY <2>1, <2>2 DEF Born
<1>3. ASSUME NEW l \in Loop, BaseStep(l) \/ DirectStep(l) \/ PassFails(l) PROVE Born'
  <2>1. Handled' = Handled
    BY <1>3, LoopSteps DEF Handled
  <2>2. \A w \in Worker, k \in Loop : pc'[w][k] = "unborn" <=> pc[w][k] = "unborn"
    BY <1>3, LoopSteps
  <2> QED
    BY <1>q, <2>1, <2>2
<1>4. ASSUME NEW h \in Handler, StopWorkers(h) PROVE Born'
  <2>1. hpc[h] = "none" /\ hpc' = [hpc EXCEPT ![h] = "stopping"] /\ pc' = pc
    BY <1>4 DEF StopWorkers
  <2>2. \A g \in Handler : hpc'[g] = "handled" <=> hpc[g] = "handled"
    BY <2>1 DEF TypeOK
  <2> QED
    BY <1>q, <2>1, <2>2 DEF Handled
<1>5. ASSUME NEW h \in Handler, Restart(h) PROVE Born'
  <2>1. hpc[h] = "stopping" /\ hpc' = [hpc EXCEPT ![h] = "handled"]
    BY <1>5, RestartFacts
  <2>2. \A g \in Handler : hpc'[g] = IF g = h THEN "handled" ELSE hpc[g]
    BY <2>1 DEF TypeOK
  <2>3. Handled' = Handled \cup {h} /\ h \notin Handled
    BY <2>1, <2>2 DEF Handled
  <2>4. Cardinality(Handled') = Cardinality(Handled) + 1
    BY <1>0, <2>3, FS_AddElement
  <2> SUFFICES ASSUME NEW w \in Worker
               PROVE  \E m \in 1 .. Cardinality(Handled') + 1 :
                        \A l \in Loop : pc'[w][l] = "unborn" <=> m < l
    BY DEF Born
  <2>5. CASE pc'[w] = pc[w]
    <3>1. PICK m \in 1 .. Cardinality(Handled) + 1 : \A l \in Loop : pc[w][l] = "unborn" <=> m < l
      BY DEF Born
    <3>2. m \in 1 .. Cardinality(Handled') + 1
      BY <1>c, <2>4
    <3> QED
      BY <2>5, <3>1, <3>2
  <2>6. CASE \E m \in 1 .. Cardinality(Handled) + 1 :
               /\ m + 1 \in Loop /\ pc'[w] = [pc[w] EXCEPT ![m + 1] = "pass"]
               /\ \A l \in Loop : pc[w][l] = "unborn" <=> m < l
    <3>1. PICK m \in 1 .. Cardinality(Handled) + 1 :
               /\ m + 1 \in Loop /\ pc'[w] = [pc[w] EXCEPT ![m + 1] = "pass"]
               /\ \A l \in Loop : pc[w][l] = "unborn" <=> m < l
      BY <2>6
    <3>2. m + 1 \in 1 .. Cardinality(Handled') + 1
      BY <1>c, <2>4
    <3>3. \A l \in Loop : pc'[w][l] = IF l = m + 1 THEN "pass" ELSE pc[w][l]
      BY <3>1 DEF TypeOK
    <3>4. \A l \in Loop : pc'[w][l] = "unborn" <=> m + 1 < l
      BY <1>c, <3>1, <3>3, LoopFacts
    <3> QED
      BY <3>2, <3>4
  <2> QED
    BY <1>5, <2>5, <2>6, RestartFacts
<1> QED
  BY <1>1, <1>2, <1>3, <1>4, <1>5 DEF Next

(* Every action keeps a worker to one loop, or two events meet. *)
LEMMA NextAlone == TypeOK /\ Born /\ Alone /\ [Next]_vars => Alone'
<1> SUFFICES ASSUME TypeOK, Born, Alone, [Next]_vars PROVE Alone'
  OBVIOUS
<1>1. CASE IndexBlock \/ Schedule \/ UNCHANGED vars
  BY <1>1 DEF IndexBlock, Schedule, vars, handling, Alone, OnlyPromised, OnlyAwaited, Alive
<1>2. CASE Crash
  <2>1. /\ promise' = [w \in Worker |-> 1]
        /\ \A h \in Handler : hpc'[h] # "stopping"
        /\ \A w \in Worker, l \in Loop : pc'[w][l] = IF l = 1 THEN "pass" ELSE "unborn"
    BY <1>2, BootFacts DEF Crash
  <2>2. OnlyPromised'
    BY <2>1, LoopFacts DEF OnlyPromised, Alive
  <2> QED
    BY <2>1, <2>2 DEF Alone
<1>3. ASSUME NEW l \in Loop, BaseStep(l) \/ DirectStep(l) \/ PassFails(l) PROVE Alone'
  <2>1. UNCHANGED <<promise, hpc, awaits, overlapped>>
    BY <1>3, LoopSteps
  <2>2. \A w \in Worker, k \in Loop : Alive(w, k)' => Alive(w, k)
    BY <1>3, LoopSteps DEF Alive
  <2>3. OnlyPromised => OnlyPromised'
    BY <2>1, <2>2 DEF OnlyPromised
  <2>4. \A h \in Handler : OnlyAwaited(h) => OnlyAwaited(h)'
    BY <2>1, <2>2 DEF OnlyAwaited
  <2> QED
    BY <2>1, <2>3, <2>4 DEF Alone
<1>4. ASSUME NEW h \in Handler, StopWorkers(h) PROVE Alone'
  <2>1. /\ hpc[h] = "none" /\ hpc' = [hpc EXCEPT ![h] = "stopping"] /\ pc' = pc
        /\ awaits' = [awaits EXCEPT ![h] = promise] /\ promise' = [w \in Worker |-> None]
        /\ overlapped' = (overlapped \/ \E g \in Handler : hpc[g] = "stopping")
    BY <1>4 DEF StopWorkers
  <2> SUFFICES ASSUME ~overlapped'
               PROVE  /\ \E g \in Handler : hpc'[g] = "stopping"
                      /\ \A g \in Handler : hpc'[g] = "stopping" => OnlyAwaited(g)' /\ g = h
    BY DEF Alone
  <2>2. OnlyPromised /\ \A g \in Handler : hpc[g] # "stopping"
    BY <2>1 DEF Alone
  <2>3. \A g \in Handler : hpc'[g] = "stopping" <=> g = h
    BY <2>1, <2>2 DEF TypeOK
  <2>4. awaits'[h] = promise
    BY <2>1 DEF TypeOK
  <2>5. OnlyAwaited(h)'
    BY <2>1, <2>2, <2>4 DEF OnlyAwaited, OnlyPromised, Alive
  <2> QED
    BY <2>3, <2>5
<1>5. ASSUME NEW h \in Handler, Restart(h) PROVE Alone'
  <2>1. hpc[h] = "stopping" /\ Stopped(h) /\ hpc' = [hpc EXCEPT ![h] = "handled"]
        /\ overlapped' = overlapped
    BY <1>5, RestartFacts
  <2> SUFFICES ASSUME ~overlapped
               PROVE  OnlyPromised' /\ \A g \in Handler : hpc'[g] # "stopping"
    BY <2>1 DEF Alone
  <2>2. OnlyAwaited(h) /\ \A g \in Handler : hpc[g] = "stopping" => g = h
    BY <2>1 DEF Alone
  <2>3. \A g \in Handler : hpc'[g] # "stopping"
    BY <2>1, <2>2 DEF TypeOK
  <2>4. \A w \in Worker, l \in Loop : pc[w][l] \in {"unborn", "ended"}
    <3> SUFFICES ASSUME NEW w \in Worker, NEW l \in Loop, Alive(w, l) PROVE FALSE
      BY DEF Alive
    <3>1. awaits[h][w] # None /\ l = awaits[h][w]
      BY <2>2 DEF OnlyAwaited
    <3> QED
      BY <2>1, <3>1 DEF Stopped
  <2>5. \A w \in Worker : promise[w] = None
    BY <2>2 DEF OnlyAwaited
  <2>6. \A w \in Worker : \E k \in Loop :
          promise'[w] = k /\ pc'[w] = [pc[w] EXCEPT ![k] = "pass"]
    BY <1>5, <2>5, RestartFacts
  <2>7. \A w \in Worker : /\ promise'[w] # None
                          /\ \A l \in Loop : pc'[w][l] \notin {"unborn", "ended"} => l = promise'[w]
    <3> SUFFICES ASSUME NEW w \in Worker
                 PROVE  /\ promise'[w] # None
                        /\ \A l \in Loop : pc'[w][l] \notin {"unborn", "ended"} => l = promise'[w]
      OBVIOUS
    <3>1. PICK k \in Loop : promise'[w] = k /\ pc'[w] = [pc[w] EXCEPT ![k] = "pass"]
      BY <2>6
    <3>2. \A l \in Loop : l # k => pc'[w][l] = pc[w][l]
      BY <3>1 DEF TypeOK
    <3> QED
      BY <2>4, <3>1, <3>2, LoopFacts
  <2>8. OnlyPromised'
    BY <2>7 DEF OnlyPromised, Alive
  <2> QED
    BY <2>3, <2>8
<1> QED
  BY <1>1, <1>2, <1>3, <1>4, <1>5 DEF Next

(* So two loops of a worker that are not over are one. *)
LEMMA OneLoop ==
  ASSUME Alone, ~overlapped, NEW w \in Worker, NEW k \in Loop, NEW l \in Loop, Alive(w, k), Alive(w, l)
  PROVE  k = l
BY DEF Alone, OnlyPromised, OnlyAwaited


------------------------------------------------------------------------------
(* Passes. *)

(* In the first state no pass has begun and nothing is recorded. *)
LEMMA InitShapes == Init => Shapes /\ Recorded
<1> SUFFICES ASSUME Init PROVE Shapes /\ Recorded
  OBVIOUS
<1>1. \A l \in Loop : pc["base"][l] \in {"pass", "unborn"}
  BY BootFacts DEF Init, Worker
<1>2. start = None /\ pointer = None /\ \A u \in User : first[u] = None
  BY DEF Init
<1>3. Shapes
  BY <1>1, <1>2 DEF Shapes, PassShape, At
<1> QED
  BY <1>1, <1>2, <1>3 DEF Recorded, Recording, At

(* A step that is not one of a loop of BaseData begins passes at most, and *)
(* leaves the record, the pointer and every pass under way alone.          *)
LEMMA OtherSteps ==
  ASSUME TypeOK, Born, [Next]_vars, ~ \E l \in Loop : BaseStep(l) \/ PassFails(l)
  PROVE  /\ UNCHANGED <<first, pointer, start>> /\ latest' \in {latest, latest + 1}
         /\ overlapped => overlapped'
         /\ \A l \in Loop :
              \/ pc'["base"][l] \in {"pass", "unborn"}
              \/ /\ pc'["base"][l] = pc["base"][l] /\ target'[l] = target[l]
                 /\ number'[l] = number[l] /\ fresh'[l] = fresh[l] /\ begin'[l] = begin[l]
<1> USE DEF explorer, tables, passLocal, handling
<1>1. CASE IndexBlock
  BY <1>1 DEF IndexBlock
<1>2. CASE Schedule \/ UNCHANGED vars
  BY <1>2 DEF Schedule, vars
<1>3. CASE Crash
  <2>1. \A l \in Loop : pc'["base"][l] \in {"pass", "unborn"}
    BY <1>3, BootFacts DEF Crash, Worker
  <2> QED
    BY <1>3, <2>1 DEF Crash
<1>4. ASSUME NEW l \in Loop, DirectStep(l)
      PROVE  /\ UNCHANGED <<first, pointer, start, latest, overlapped, target, number, fresh, begin>>
             /\ pc'["base"] = pc["base"]
  BY <1>4, DirectSteps
<1>5. ASSUME NEW h \in Handler, StopWorkers(h)
      PROVE  /\ UNCHANGED <<first, pointer, start, latest, pc, target, number, fresh, begin>>
             /\ overlapped => overlapped'
  BY <1>5 DEF StopWorkers
<1>6. ASSUME NEW h \in Handler, Restart(h)
      PROVE  /\ UNCHANGED <<first, pointer, start, latest, overlapped, target, number, fresh, begin>>
             /\ \A l \in Loop : pc'["base"][l] \in {pc["base"][l], "pass"}
  <2>1. pc["base"] \in [Loop -> PcState] /\ "base" \in Worker
    BY DEF TypeOK, PcState, Worker
  <2>2. \/ pc'["base"] = pc["base"]
        \/ \E m \in 1 .. Cardinality(Handled) + 1 : pc'["base"] = [pc["base"] EXCEPT ![m + 1] = "pass"]
    BY <1>6, <2>1, RestartFacts
  <2>3. \A l \in Loop : pc'["base"][l] \in {pc["base"][l], "pass"}
    BY <2>1, <2>2
  <2> QED
    BY <1>6, <2>3, RestartFacts
<1> QED
  BY <1>1, <1>2, <1>3, <1>4, <1>5, <1>6 DEF Next

(* Every action keeps the shape of the passes. *)
LEMMA NextShapes == TypeOK /\ Born /\ Shapes /\ [Next]_vars => Shapes'
<1> SUFFICES ASSUME TypeOK, Born, Shapes, [Next]_vars PROVE Shapes'
  OBVIOUS
<1>0. latest \in Nat /\ MaxBlock \in Nat /\ None = 0 /\ latest <= MaxBlock /\ Block = 1..MaxBlock
  BY BaseDataAssumption DEF TypeOK, None, Block
<1>t. /\ \A k \in Loop : /\ target[k] \in Nat /\ number[k] \in Nat /\ begin[k] \in Nat
                         /\ number[k] <= latest + 1
      /\ \A u \in User : first[u] \in Nat
  BY <1>0 DEF TypeOK
<1>1. CASE ~ \E l \in Loop : BaseStep(l) \/ PassFails(l)
  <2>1. /\ UNCHANGED <<first, pointer, start>> /\ latest <= latest' /\ 1..latest \subseteq 1..latest'
    BY <1>0, <1>1, OtherSteps
  <2>2. \A l \in Loop : PassShape(l)'
    <3> SUFFICES ASSUME NEW l \in Loop PROVE PassShape(l)'
      OBVIOUS
    <3>1. CASE pc'["base"][l] \in {"pass", "unborn"}
      BY <3>1 DEF PassShape, At
    <3>2. CASE /\ pc'["base"][l] = pc["base"][l] /\ number'[l] = number[l]
               /\ fresh'[l] = fresh[l] /\ begin'[l] = begin[l]
      BY <2>1, <3>2 DEF Shapes, PassShape, At
    <3> QED
      BY <1>1, <3>1, <3>2, OtherSteps
  <2>3. \A u \in User : first'[u] # None => first'[u] <= latest' /\ u \in Depositors[first'[u]]
    <3> SUFFICES ASSUME NEW u \in User, first'[u] # None
                 PROVE  first'[u] <= latest' /\ u \in Depositors[first'[u]]
      OBVIOUS
    <3>1. first'[u] = first[u] /\ first[u] <= latest /\ u \in Depositors[first[u]]
      BY <2>1 DEF Shapes
    <3>2. latest' \in Nat /\ first[u] \in Nat
      BY <1>0, <1>1, <1>t, OtherSteps
    <3> QED
      BY <1>0, <2>1, <3>1, <3>2
  <2> QED
    BY <2>1, <2>2, <2>3 DEF Shapes
<1>2. ASSUME NEW l \in Loop, BaseStep(l) \/ PassFails(l) PROVE Shapes'
  <2>0. latest' = latest
    BY <1>2, BaseSteps
  <2>1. ASSUME NEW k \in Loop, k # l PROVE PassShape(k)'
    <3>1. /\ pc'["base"][k] = pc["base"][k] /\ number'[k] = number[k]
          /\ fresh'[k] = fresh[k] /\ begin'[k] = begin[k]
      BY <1>2, <2>1, BaseSteps
    <3> QED
      BY <2>0, <3>1 DEF Shapes, PassShape, At
  <2>r. /\ number \in [Loop -> 0..(latest + 1)] /\ begin \in [Loop -> 0..(latest + 1)]
        /\ fresh \in [Loop -> SUBSET User]
    BY DEF TypeOK
  <2>s. PassShape(l)
    BY DEF Shapes
  <2> DEFINE RecordShape == /\ (start = None) <=> (pointer = None)
                            /\ \A u \in User : first[u] # None => /\ first[u] <= latest
                                                                  /\ u \in Depositors[first[u]]
  <2>2. UNCHANGED <<first, pointer, start>> => RecordShape'
    BY <2>0 DEF Shapes
  <2>3. PassShape(l)' /\ RecordShape'
    <3>1. CASE /\ pc'["base"][l] \in {"pointer", "wait", "pass", "ended"}
               /\ UNCHANGED <<first, pointer, start>>
      BY <2>2, <3>1 DEF PassShape, At
    <3>2. CASE /\ At(l, "pointer")
               /\ \E from \in {pointer, target[l]} :
                    /\ from = IF pointer = None THEN target[l] ELSE pointer
                    /\ number' = [number EXCEPT ![l] = from] /\ begin' = [begin EXCEPT ![l] = from]
                    /\ pc'["base"][l] = IF from <= target[l] THEN "sync" ELSE "store"
               /\ UNCHANGED <<first, pointer, target, fresh, faults, start>>
      <4>1. PICK from \in {pointer, target[l]} :
                    /\ number' = [number EXCEPT ![l] = from] /\ begin' = [begin EXCEPT ![l] = from]
                    /\ pc'["base"][l] = IF from <= target[l] THEN "sync" ELSE "store"
        BY <3>2
      <4>2. from \in Nat /\ target[l] \in Nat
        BY <1>0, <1>t DEF TypeOK
      <4>3. number'[l] = from /\ begin'[l] = from
        BY <4>1, <2>r
      <4>4. PassShape(l)'
        BY <1>0, <4>1, <4>2, <4>3 DEF PassShape, At
      <4> QED
        BY <2>2, <3>2, <4>4
    <3>3. CASE /\ At(l, "sync") /\ pc'["base"][l] = "insert" /\ number[l] \in 1..latest
               /\ fresh' = [fresh EXCEPT ![l] = NewDepositors(number[l])]
               /\ UNCHANGED <<first, pointer, target, number, begin, faults, start>>
      <4>1. fresh'[l] \subseteq Depositors[number[l]]
        BY <3>3, <2>r DEF NewDepositors
      <4>2. 1 <= begin[l]
        BY <1>0, <2>s, <3>3 DEF PassShape
      <4>3. PassShape(l)'
        BY <2>0, <3>3, <4>1, <4>2 DEF PassShape, At
      <4> QED
        BY <2>2, <3>3, <4>3
    <3>4. CASE /\ At(l, "insert") /\ pc'["base"][l] \in {"sync", "store"}
               /\ first' = [u \in User |-> IF u \in fresh[l] /\ first[u] = None THEN number[l]
                                           ELSE first[u]]
               /\ number' = [number EXCEPT ![l] = @ + 1] /\ fresh' = [fresh EXCEPT ![l] = {}]
               /\ UNCHANGED <<pointer, target, begin, faults, start>>
      <4>1. /\ number[l] \in 1..latest /\ 1 <= begin[l] /\ fresh[l] \subseteq Depositors[number[l]]
        BY <2>s, <3>4 DEF PassShape
      <4>2. number'[l] = number[l] + 1 /\ begin'[l] = begin[l]
        BY <2>r, <3>4
      <4>3. PassShape(l)'
        BY <1>t, <3>4, <4>1, <4>2 DEF PassShape, At
      <4>4. \A u \in User : first'[u] # None => first'[u] <= latest /\ u \in Depositors[first'[u]]
        <5> SUFFICES ASSUME NEW u \in User, first'[u] # None
                     PROVE  first'[u] <= latest /\ u \in Depositors[first'[u]]
          OBVIOUS
        <5>1. CASE u \in fresh[l] /\ first[u] = None
          <6>1. first'[u] = number[l]
            BY <3>4, <5>1
          <6>2. u \in Depositors[number[l]] /\ number[l] <= latest
            BY <1>0, <4>1, <5>1
          <6> QED
            BY <6>1, <6>2
        <5>2. CASE ~(u \in fresh[l] /\ first[u] = None)
          BY <3>4, <5>2 DEF Shapes
        <5> QED
          BY <5>1, <5>2
      <4> QED
        BY <2>0, <3>4, <4>3, <4>4 DEF Shapes
    <3>5. CASE /\ At(l, "store") /\ pc'["base"][l] = "wait"
               /\ pointer' = number[l] /\ start' = IF start = None THEN begin[l] ELSE start
               /\ first' = first
      <4>1. 1 <= number[l] /\ 1 <= begin[l]
        BY <2>s, <3>5 DEF PassShape
      <4>2. pointer' # None /\ start' # None
        BY <1>0, <1>t, <3>5, <4>1
      <4>3. PassShape(l)'
        BY <3>5 DEF PassShape, At
      <4> QED
        BY <2>0, <3>5, <4>2, <4>3 DEF Shapes
    <3> HIDE DEF RecordShape
    <3> QED
      BY <1>2, <3>1, <3>2, <3>3, <3>4, <3>5, BaseSteps
  <2> QED
    BY <2>1, <2>3 DEF Shapes
<1> QED
  BY <1>1, <1>2

(* In the first place a pass leaves behind nothing that is not recorded.   *)
(* Every action keeps that: only one loop writes.                          *)
LEMMA NextRecorded ==
  TypeOK /\ Born /\ Alone /\ Shapes /\ Recorded /\ [Next]_vars => Recorded'
<1> SUFFICES ASSUME TypeOK, Born, Alone, Shapes, Recorded, [Next]_vars PROVE Recorded'
  OBVIOUS
<1>0. latest \in Nat /\ MaxBlock \in Nat /\ None = 0 /\ latest <= MaxBlock /\ Block = 1..MaxBlock
  BY BaseDataAssumption DEF TypeOK, None, Block
<1>t. /\ \A k \in Loop : /\ target[k] \in Nat /\ number[k] \in Nat /\ begin[k] \in Nat
                         /\ number[k] <= latest + 1
      /\ \A u \in User : first[u] \in Nat
      /\ start \in Nat /\ pointer \in Nat /\ pointer <= latest + 1
  BY <1>0 DEF TypeOK
<1> DEFINE Behind == start # None => EarliestFrom(start) /\ RecordedUpTo(start, pointer)
<1>b. UNCHANGED <<first, pointer, start>> /\ Behind => Behind'
  BY DEF EarliestFrom, RecordedUpTo
<1>k. ASSUME NEW k \in Loop, UNCHANGED <<first, start>>, Recording(k),
             /\ pc'["base"][k] = pc["base"][k] /\ target'[k] = target[k]
             /\ number'[k] = number[k] /\ fresh'[k] = fresh[k] /\ begin'[k] = begin[k]
      PROVE  Recording(k)'
  BY <1>k DEF Recording, At, Since, EarliestFrom, RecordedUpTo
<1>i. ASSUME NEW k \in Loop, pc'["base"][k] \in {"pass", "wait", "ended", "unborn"}
      PROVE  Recording(k)'
  BY <1>i DEF Recording, At
<1>1. CASE ~ \E l \in Loop : BaseStep(l) \/ PassFails(l)
  <2> SUFFICES ASSUME ~overlapped PROVE (\A l \in Loop : Recording(l)') /\ Behind'
    BY <1>1, OtherSteps DEF Recorded
  <2>1. Behind'
    BY <1>1, <1>b, OtherSteps DEF Recorded
  <2>2. \A l \in Loop : Recording(l)'
    BY <1>1, <1>k, <1>i, OtherSteps DEF Recorded
  <2> QED
    BY <2>1, <2>2
<1>2. ASSUME NEW l \in Loop, BaseStep(l) \/ PassFails(l) PROVE Recorded'
  <2>0. latest' = latest /\ overlapped' = overlapped
    BY <1>2, BaseSteps DEF handling
  <2> SUFFICES ASSUME ~overlapped PROVE (\A k \in Loop : Recording(k)') /\ Behind'
    BY <2>0 DEF Recorded
  <2>a. Behind /\ \A k \in Loop : Recording(k)
    BY DEF Recorded
  <2>s. PassShape(l)
    BY DEF Shapes
  <2>r. /\ number \in [Loop -> 0..(latest + 1)] /\ begin \in [Loop -> 0..(latest + 1)]
        /\ target \in [Loop -> 0..latest] /\ fresh \in [Loop -> SUBSET User]
        /\ pc["base"] \in [Loop -> PcState]
    BY DEF TypeOK, PcState, Worker
  <2>k. UNCHANGED <<first, start>> => \A k \in Loop \ {l} : Recording(k)'
    BY <1>2, <1>k, <2>a, BaseSteps
  <2>o. ASSUME pc["base"][l] \notin {"unborn", "ended"}
        PROVE  \A k \in Loop \ {l} : Recording(k)'
    <3> SUFFICES ASSUME NEW k \in Loop \ {l} PROVE Recording(k)'
      OBVIOUS
    <3>1. pc["base"][k] \in {"unborn", "ended"}
      BY <2>o, OneLoop DEF Alive, Worker
    <3> QED
      BY <1>2, <1>i, <3>1, BaseSteps
  <2>1. CASE /\ At(l, "pass") /\ pc'["base"][l] = "pointer"
             /\ target' = [target EXCEPT ![l] = latest]
             /\ UNCHANGED <<first, pointer, number, fresh, begin, faults, start>>
    <3>1. \A u \in User : first'[u] # None => first'[u] <= target'[l]
      BY <2>1, <2>r DEF Shapes
    <3>2. Recording(l)'
      BY <2>1, <3>1 DEF Recording, At
    <3> QED
      BY <1>b, <2>a, <2>k, <2>1, <3>2
  <2>2. CASE /\ At(l, "pointer")
             /\ \E from \in {pointer, target[l]} :
                  /\ from = IF pointer = None THEN target[l] ELSE pointer
                  /\ number' = [number EXCEPT ![l] = from] /\ begin' = [begin EXCEPT ![l] = from]
                  /\ pc'["base"][l] = IF from <= target[l] THEN "sync" ELSE "store"
             /\ UNCHANGED <<first, pointer, target, fresh, faults, start>>
    <3>1. PICK from \in {pointer, target[l]} :
                  /\ from = IF pointer = None THEN target[l] ELSE pointer
                  /\ number' = [number EXCEPT ![l] = from] /\ begin' = [begin EXCEPT ![l] = from]
                  /\ pc'["base"][l] = IF from <= target[l] THEN "sync" ELSE "store"
      BY <2>2
    <3>2. number'[l] = from /\ begin'[l] = from /\ pc'["base"][l] \in {"sync", "store"}
      BY <3>1, <2>r
    <3>3. EarliestFrom(Since(l))' /\ RecordedUpTo(Since(l), number[l])'
      <4>1. CASE start = None
        <5>1. pointer = None /\ from = target[l] /\ Since(l)' = target[l]
          BY <2>2, <3>1, <3>2, <4>1 DEF Shapes, Since
        <5>2. \A u \in User : first'[u] # None => first'[u] <= target[l]
          BY <2>a, <2>2 DEF Recording
        <5>3. \A u \in User : first'[u] \in Nat
          BY <1>t, <2>2
        <5> QED
          BY <1>t, <3>2, <5>1, <5>2, <5>3 DEF EarliestFrom, RecordedUpTo
      <4>2. CASE start # None
        <5>1. from = pointer /\ Since(l)' = start
          BY <2>2, <3>1, <4>2 DEF Shapes, Since
        <5> QED
          BY <2>a, <2>2, <3>2, <4>2, <5>1 DEF EarliestFrom, RecordedUpTo
      <4> QED
        BY <4>1, <4>2
    <3>4. Recording(l)'
      BY <3>2, <3>3 DEF Recording, At
    <3> QED
      BY <1>b, <2>a, <2>k, <2>2, <3>4
  <2>3. CASE /\ At(l, "sync") /\ pc'["base"][l] = "insert" /\ number[l] \in 1..latest
             /\ fresh' = [fresh EXCEPT ![l] = NewDepositors(number[l])]
             /\ UNCHANGED <<first, pointer, target, number, begin, faults, start>>
    <3>1. \A u \in Depositors[number[l]] : u \in fresh'[l] \/ first[u] # None
      BY <2>3, <2>r DEF NewDepositors
    <3>2. EarliestFrom(Since(l)) /\ RecordedUpTo(Since(l), number[l])
      BY <2>a, <2>3 DEF Recording
    <3>3. Recording(l)'
      BY <2>3, <3>1, <3>2 DEF Recording, At, Since, EarliestFrom, RecordedUpTo
    <3> QED
      BY <1>b, <2>a, <2>k, <2>3, <3>3
  <2>4. CASE /\ At(l, "insert") /\ pc'["base"][l] \in {"sync", "store"}
             /\ first' = [u \in User |-> IF u \in fresh[l] /\ first[u] = None THEN number[l]
                                         ELSE first[u]]
             /\ number' = [number EXCEPT ![l] = @ + 1] /\ fresh' = [fresh EXCEPT ![l] = {}]
             /\ UNCHANGED <<pointer, target, begin, faults, start>>
    <3>1. /\ number[l] \in 1..latest /\ 1 <= begin[l] /\ fresh[l] \subseteq Depositors[number[l]]
      BY <2>s, <2>4 DEF PassShape
    <3>2. number'[l] = number[l] + 1 /\ begin'[l] = begin[l]
      BY <2>r, <2>4
    <3>3. EarliestFrom(Since(l)) /\ RecordedUpTo(Since(l), number[l])
          /\ \A u \in Depositors[number[l]] : u \in fresh[l] \/ first[u] # None
      BY <2>a, <2>4 DEF Recording
    <3>4. Since(l) \in Nat /\ 1 <= Since(l) /\ Since(l)' = Since(l) /\ (start # None => Since(l) = start)
      BY <1>0, <1>t, <2>4, <3>1, <3>2 DEF Since
    <3>5. \A b \in Block : Depositors[b] \subseteq User
      BY BaseDataAssumption
    <3>6. \A u \in User : first[u] # None => first'[u] = first[u]
      BY <2>4
    <3>7. EarliestFrom(Since(l))'
      <4> SUFFICES ASSUME NEW u \in User, first'[u] # None,
                          NEW b \in Since(l) .. first'[u] - 1, u \in Depositors[b]
                   PROVE  FALSE
        BY <3>4 DEF EarliestFrom
      <4>1. CASE first[u] # None
        BY <3>3, <3>6, <4>1 DEF EarliestFrom
      <4>2. CASE first[u] = None
        <5>1. first'[u] = number[l]
          BY <2>4, <4>2
        <5>2. b \in Since(l) .. number[l] - 1
          BY <5>1
        <5> QED
          BY <3>3, <4>2, <5>2 DEF RecordedUpTo
      <4> QED
        BY <4>1, <4>2
    <3>8. RecordedUpTo(Since(l), number[l])'
      <4> SUFFICES ASSUME NEW b \in Since(l) .. number[l], NEW u \in Depositors[b]
                   PROVE  first'[u] # None
        BY <3>1, <3>2, <3>4 DEF RecordedUpTo
      <4>1. b \in Block
        BY <1>0, <3>1, <3>4
      <4>2. u \in User
        BY <3>5, <4>1
      <4>3. CASE b = number[l]
        <5>1. number[l] # None /\ (u \in fresh[l] \/ first[u] # None)
          BY <1>0, <3>1, <3>3, <4>3
        <5> QED
          BY <2>4, <4>2, <5>1
      <4>4. CASE b # number[l]
        <5>1. b \in Since(l) .. number[l] - 1
          BY <1>t, <3>4, <4>4
        <5> QED
          BY <3>3, <3>6, <4>2, <5>1 DEF RecordedUpTo
      <4> QED
        BY <4>3, <4>4
    <3>9. Behind'
      <4> SUFFICES ASSUME start # None PROVE EarliestFrom(start)' /\ RecordedUpTo(start, pointer)'
        BY <2>4
      <4>1. EarliestFrom(start)'
        BY <2>4, <3>4, <3>7
      <4>2. RecordedUpTo(start, pointer)'
        <5> SUFFICES ASSUME NEW b \in start .. pointer - 1, NEW u \in Depositors[b]
                     PROVE  first'[u] # None
          BY <2>4 DEF RecordedUpTo
        <5>1. b \in Block
          BY <1>0, <1>t, <3>4
        <5>2. u \in User /\ first[u] # None
          BY <2>a, <3>5, <5>1 DEF RecordedUpTo
        <5> QED
          BY <3>6, <5>2
      <4> QED
        BY <4>1, <4>2
    <3>10. fresh'[l] = {} /\ pc["base"][l] \notin {"unborn", "ended"}
      BY <2>r, <2>4 DEF At
    <3>11. Recording(l)'
      BY <2>4, <3>7, <3>8 DEF Recording, At
    <3> QED
      BY <2>o, <3>9, <3>10, <3>11
  <2>5. CASE /\ At(l, "store") /\ pc'["base"][l] = "wait"
             /\ pointer' = number[l] /\ start' = IF start = None THEN begin[l] ELSE start
             /\ first' = first
    <3>1. start' = Since(l) /\ EarliestFrom(Since(l)) /\ RecordedUpTo(Since(l), number[l])
      BY <2>a, <2>5 DEF Recording, Since
    <3>2. Behind'
      BY <2>5, <3>1 DEF EarliestFrom, RecordedUpTo
    <3>3. Recording(l)' /\ pc["base"][l] \notin {"unborn", "ended"}
      BY <1>i, <2>5 DEF At
    <3> QED
      BY <2>o, <3>2, <3>3
  <2>6. CASE pc'["base"][l] \in {"wait", "pass", "ended"} /\ UNCHANGED <<first, pointer, start>>
    <3>1. Recording(l)'
      BY <1>i, <2>6
    <3> QED
      BY <1>b, <2>a, <2>k, <2>6, <3>1
  <2> HIDE DEF Behind
  <2> QED
    BY <1>2, <2>1, <2>2, <2>3, <2>4, <2>5, <2>6, BaseSteps
<1> QED
  BY <1>1, <1>2

------------------------------------------------------------------------------
(* Theorems. *)

(* The inductive invariant. *)
THEOREM BaseInvariant == Spec => []IInv
<1>1. Init => IInv
  BY InitTypeOK, InitLoops, InitShapes DEF IInv
<1>2. IInv /\ [Next]_vars => IInv'
  BY NextTypeOK, NextBorn, NextAlone, NextShapes, NextRecorded DEF IInv
<1> QED
  BY <1>1, <1>2, PTL DEF Spec

(* Every variable keeps its range: a worker that has a promise has the     *)
(* loop of it, in BaseDataService and DirectPointService alike.            *)
THEOREM TypeCorrect == Spec => []TypeOK
<1>1. IInv => TypeOK
  BY DEF IInv
<1> QED
  BY <1>1, BaseInvariant, PTL

(* Unless two events were handled at once, addressFirstDeposits has the    *)
(* earliest deposit of everybody recorded that the service could see, and  *)
(* everybody who deposited in a block behind the stored pointer.           *)
THEOREM FirstDepositsAreEarliest == Spec => []FirstDepositIsEarliest
<1>1. IInv => FirstDepositIsEarliest
  <2> SUFFICES ASSUME IInv, ~overlapped
               PROVE  /\ \A u \in User : first[u] # None => u \in Depositors[first[u]]
                      /\ start # None => EarliestFrom(start) /\ RecordedUpTo(start, pointer)
    BY DEF FirstDepositIsEarliest, EarliestFrom, RecordedUpTo
  <2> QED
    BY DEF IInv, Shapes, Recorded
<1> QED
  BY <1>1, BaseInvariant, PTL
=============================================================================
