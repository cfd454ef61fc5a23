----------------------------- MODULE PointLedger -----------------------------
(***************************************************************************)
(* What a points pipeline promises, with no pipeline in it.                *)
(*                                                                         *)
(* A ledger holds one row per (statistical block, account); a running      *)
(* total per account adds rows up.  A row is recorded once and is never    *)
(* taken back, and the total takes a row in at most once and only after    *)
(* the row is recorded.  The total is kept here as the rows it is made of: *)
(* credit[a][b] is how many times the points of block b are inside the     *)
(* stakePoint of account a, so that stakePoint(a) is the sum over b of     *)
(* credit[a][b] times the holdPoint of the row <<b, a>>.                   *)
(***************************************************************************)
EXTENDS Naturals

CONSTANTS
  Account,  \* who is credited
  Block     \* the statistical blocks

VARIABLES
  rows,     \* the (block, account) pairs that have a ledger row
  credit    \* how often the points of a block are inside an account's total

ledgerVars == <<rows, credit>>

Init ==
  /\ rows = {}
  /\ credit = [a \in Account |-> [b \in Block |-> 0]]

(* New rows of one block enter the ledger, the totals do not move yet. *)
Record(b, S) ==
  /\ S \subseteq Account
  /\ \A a \in S : <<b, a>> \notin rows
  /\ rows' = rows \cup {<<b, a>> : a \in S}
  /\ UNCHANGED credit

(* Rows already recorded are taken into the totals, each for the first time. *)
Settle(b, S) ==
  /\ S \subseteq Account
  /\ \A a \in S : <<b, a>> \in rows /\ credit[a][b] = 0
  /\ credit' = [a \in Account |->
                  IF a \in S THEN [credit[a] EXCEPT ![b] = 1] ELSE credit[a]]
  /\ UNCHANGED rows

Next ==
  \E b \in Block : \E S \in SUBSET Account : Record(b, S) \/ Settle(b, S)

Spec == Init /\ [][Next]_ledgerVars
==============================================================================
