------------------------------- MODULE Pools -------------------------------
(***************************************************************************)
(* The subgraphs of two lending adapters, Shoebill and the sample adapter  *)
(* the others start from.  They keep, for each user, the tokens of the     *)
(* pool the user holds and, for the pool, its cash and its supply: each    *)
(* time read from the contract, after the block of the event.  A report    *)
(* shares the cash of the pool among its holders.                          *)
(*                                                                         *)
(* The sample's pool is told of transfers only, Shoebill's of borrows and  *)
(* repayments too.  A report is asked for a block: Shoebill's reads all of *)
(* it as of that block, the sample's only what the users hold, and of the  *)
(* pools what is newest.                                                   *)
(***************************************************************************)
EXTENDS Subgraph

------------------------------------------------------------------------------
(* The contract.  Interest comes with a repayment, so that the cash of the *)
(* pool may exceed its supply; lendAt and moveAt are the last blocks of a  *)
(* loan's event and of a transfer.                                         *)

PoolChain ==
  [block |-> 1, supply |-> 0, cash |-> 0, lent |-> 0, held |-> [u \in User \cup {Pool} |-> 0],
   lendAt |-> 0, moveAt |-> 0]

Issued(c, from, u) ==
  Becomes([c EXCEPT !.supply = @ + 1, !.cash = @ + 1, !.held[u] = @ + 1, !.moveAt = c.block],
    Emits("Transfer", from, u, 1, 0))
Redeemed(c, u, to) ==
  Becomes([c EXCEPT !.supply = @ - 1, !.cash = @ - 1, !.held[u] = @ - 1, !.moveAt = c.block],
    Emits("Transfer", u, to, 1, 0))
Lent(c, u) ==
  Becomes([c EXCEPT !.cash = @ - 1, !.lent = @ + 1, !.lendAt = c.block],
    Emits("Borrow", Pool, u, 1, 0))
PaidBack(c, u, interest) ==
  Becomes([c EXCEPT !.cash = @ + 1 + interest, !.lent = @ - 1, !.lendAt = c.block],
    Emits("RepayBorrow", u, Pool, 1, 0))
Sent(c, from, to) ==
  Becomes([c EXCEPT !.held = Transferred(@, from, to), !.moveAt = c.block],
    Emits("Transfer", from, to, 1, 0))

(* The sample's market issues from the zero address, Shoebill's from its   *)
(* own.                                                                    *)
PoolTransactions(c, issuer) ==
  LET holders == {u \in User : c.held[u] > 0} IN
  {Issued(c, issuer, u) : u \in User}
    \cup {Redeemed(c, u, issuer) : u \in {v \in holders : c.cash > 0}}
    \cup {Lent(c, u) : u \in {v \in User : c.cash > 0}}
    \cup {PaidBack(c, u, i) : u \in {v \in User : c.lent > 0}, i \in {0, 1}}
    \cup {Sent(c, from, to) : from \in holders, to \in User \cup {Pool}}

------------------------------------------------------------------------------
(* The index. *)

(* The store keeps its entities as they were after each block; of the      *)
(* sample's, versions has what a report of an older block needs.           *)
NoIndex == [pool |-> <<>>, positions |-> Nothing, invalid |-> Nothing, versions |-> Nothing]

Version(ix) == [positions |-> ix.positions, invalid |-> ix.invalid, supplied |-> ix.pool[1].supplied]
Versioned(ix, block) == [ix EXCEPT !.versions = Save(@, block, Version(ix))]

(* A market that is listed again keeps its pool.                           *)
ShoebillMarketListed(ix, c) ==
  IF ix.pool # <<>> THEN ix ELSE [ix EXCEPT !.pool = <<[balance |-> c.cash, supplied |-> c.supply]>>]
ExampleMarketListed(ix, c) ==
  IF ix.pool = <<>> THEN [ix EXCEPT !.pool = <<[balance |-> c.cash, supplied |-> c.supply]>>] ELSE ix

UpdateUserBalance(ix, u) == [ix EXCEPT !.invalid = Save(@, u, Load(@, u, FALSE))]
SetUserInvalid(ix, u) == [ix EXCEPT !.invalid = Save(@, u, TRUE)]

(* updateTokenPosition: what the contract says of the pool and the user.   *)
ShoebillTokenPosition(ix, u, c) ==
  [UpdateUserBalance(ix, u) EXCEPT !.pool[1] = [balance |-> c.cash, supplied |-> c.supply],
                                   !.positions = Save(@, u, c.held[u])]
ExampleTokenPosition(ix, u, c) ==
  [UpdateUserBalance(ix, u) EXCEPT !.positions = Save(@, u, c.held[u]),
                                   !.pool = <<[balance |-> c.cash, supplied |-> c.supply]>>]

(* A pool that was not listed is made, with nothing in it.                 *)
PoolKnown(ix) ==
  [SetUserInvalid(ix, Pool) EXCEPT !.pool = IF @ = <<>> THEN <<[balance |-> 0, supplied |-> 0]>> ELSE @]

(* Shoebill leaves the contract's own tokens out, the sample does not.     *)
ShoebillTransfer(ix, e, c) ==
  LET step(i, u) == IF u \in {Zero, Pool} THEN i ELSE ShoebillTokenPosition(i, u, c)
  IN  step(step(PoolKnown(ix), e.from), e.to)
ExampleTransfer(ix, e, c) ==
  LET step(i, u) == IF u = Zero THEN i ELSE ExampleTokenPosition(i, u, c)
  IN  step(step(PoolKnown(ix), e.from), e.to)

ShoebillBorrow(ix, c) == [ix EXCEPT !.pool[1].balance = c.cash]
ShoebillRepayBorrow(ix, c) == [ix EXCEPT !.pool[1].balance = c.cash]

ShoebillHandled(ix, e, c) ==
  CASE e.kind = "Transfer"    -> ShoebillTransfer(ix, e, c)
    [] e.kind = "Borrow"      -> ShoebillBorrow(ix, c)
    [] e.kind = "RepayBorrow" -> ShoebillRepayBorrow(ix, c)
ExampleHandled(ix, e, c) ==
  IF e.kind = "Transfer" THEN Versioned(ExampleTransfer(ix, e, c), e.block) ELSE ix

------------------------------------------------------------------------------
(* The reports: the share of the pool's cash each user holds.              *)

ShareOf(pool, held) ==
  IF pool.supplied = 0 THEN 0 ELSE (held * pool.balance) \div pool.supplied

(* Both of the block that is asked for.                                    *)
ShoebillReport(ix) == [u \in DOMAIN ix.positions |-> ShareOf(ix.pool[1], ix.positions[u])]

(* The positions of the block that is asked for, of users that are not     *)
(* invalid, and the newest pool.  One pool for a token: nothing to add up. *)
ExampleReport(ix, asked) ==
  [u \in {v \in DOMAIN asked.positions : ~asked.invalid[v]} |-> ShareOf(ix.pool[1], asked.positions[u])]

(* After a block each user holds what the contract says, and so does the   *)
(* pool; but the sample's pool has the cash of the last block with a       *)
(* transfer, and what was lent since is still shared out.  A report of     *)
(* that block never shares more than the pool had, and loses less than a   *)
(* unit to each user.                                                      *)
PoolMatches(ix, c, report, stale) ==
  LET pool == ix.pool[1]
      shared == SumOver(report, DOMAIN report)
      kept == IF pool.supplied = 0 THEN 0 ELSE (c.held[Pool] * pool.balance) \div pool.supplied
  IN
  /\ \A u \in User : Load(ix.positions, u, 0) = c.held[u]
  /\ Pool \notin DOMAIN report
  /\ pool.supplied = c.supply
  /\ stale \/ pool.balance = c.cash
  /\ shared <= pool.balance
  /\ pool.supplied > 0 => pool.balance - shared - kept <= Cardinality(User)

ShoebillMatches(ix, c) == PoolMatches(ix, c, ShoebillReport(ix), FALSE)

(* The sample's report of an older block may share more than the newest    *)
(* pool has, but only by as much as the supply has fallen since.           *)
ExampleMatches(ix, c) ==
  /\ PoolMatches(ix, c, ExampleReport(ix, ix), c.lendAt > c.moveAt)
  /\ \A b \in DOMAIN ix.versions :
       LET asked == ix.versions[b]
           report == ExampleReport(ix, asked)
       IN  SumOver(report, DOMAIN report) * ix.pool[1].supplied <= asked.supplied * ix.pool[1].balance

ShoebillIndex == ShoebillMarketListed(NoIndex, PoolChain)
ExampleIndex  == ExampleMarketListed(NoIndex, PoolChain)
==============================================================================
