------------------------------- MODULE Shares -------------------------------
(***************************************************************************)
(* RedistributePointService.fetchData: what the users of a token get of    *)
(* its points.  An indexer answers what each user holds, weighted by time, *)
(* what users have withdrawn, and the totals; a list in the code adds the  *)
(* transfers that failed.  A weight is a balance multiplied by the time it *)
(* was held.                                                               *)
(*                                                                         *)
(* An answer is of one token: held is a function of the users the indexer  *)
(* knows, withdrawn a sequence of withdrawals, failed a function of the    *)
(* users on the list, pool the pool the token is the share of, or NoPool.  *)
(***************************************************************************)
EXTENDS Integers, Sequences, FiniteSets, SequencesExt, Sums

CONSTANTS
  User,     \* addresses
  Now,      \* the time of the pass
  Until(_), \* until when a withdrawal of a time counts (Configuration)
  FailedAt, FailedUntil, \* transferFailedStartTime and withdrawTime of the failed transfers
  NoPool

ASSUME ShareAssumption ==
  /\ FailedAt \in Nat /\ Now \in Nat /\ FailedUntil \in Nat
  /\ Now >= FailedAt /\ FailedUntil >= FailedAt

Least(a, b) == IF a < b THEN a ELSE b

Add(S, Value(_)) == SumOver([x \in S |-> Value(x)], S)

------------------------------------------------------------------------------
(* Weights. *)

(* weightBalance * now - (timeWeightAmountIn - timeWeightAmountOut), which *)
(* is what was held times how long.                                        *)
HeldWeight(h) == h.balance * (Now - h.since)

WithdrawWeight(w) == w.balance * (Least(Until(w.at), Now) - w.since)

FailedWeight(balance) == balance * (Least(Now, FailedUntil) - FailedAt)

(* Of a user; several withdrawals add up.                                  *)
WithdrawnBy(a, u) ==
  Add({i \in DOMAIN a.withdrawn : a.withdrawn[i].user = u},
      LAMBDA i : WithdrawWeight(a.withdrawn[i]))

FailedOf(a, u) == IF u \in DOMAIN a.failed THEN FailedWeight(a.failed[u]) ELSE 0

(* The indexer's total of a token is the sum of what it answers of users.  *)
TokenTotal(a) == Add(DOMAIN a.held, LAMBDA u : HeldWeight(a.held[u]))

TotalWeight(a) ==
  TokenTotal(a)
    + Add(DOMAIN a.withdrawn, LAMBDA i : WithdrawWeight(a.withdrawn[i]))
    + Add(DOMAIN a.failed, LAMBDA u : FailedOf(a, u))

------------------------------------------------------------------------------
(* Rows. *)

(* A balance in a pool is a part of what the pool has, rounded down.       *)
BalanceOf(a, u) ==
  IF a.pool = NoPool THEN a.held[u].balance
  ELSE (a.held[u].balance * a.pool.balance) \div a.pool.totalSupplied

(* Who the indexer knows: a row with all there is of the user.             *)
KnownRow(a, u) ==
  [user |-> u, balance |-> BalanceOf(a, u),
   weight |-> HeldWeight(a.held[u]) + WithdrawnBy(a, u) + FailedOf(a, u)]

(* Mutant of LeftOver: the failed transfers of everyone. *)
LeftOverAll(a) == {[user |-> u, balance |-> 0, weight |-> FailedOf(a, u)] : u \in DOMAIN a.failed}

(* Who only has a failed transfer.                                         *)
LeftOver(a) ==
  {[user |-> u, balance |-> 0, weight |-> FailedOf(a, u)] : u \in DOMAIN a.failed \ DOMAIN a.held}

(* A division of integers by zero ends the whole pass.                     *)
Throws(a) == a.pool # NoPool /\ a.pool.totalSupplied = 0 /\ a.held # <<>>

Rows(a) == {KnownRow(a, u) : u \in DOMAIN a.held} \cup LeftOver(a)

==============================================================================
