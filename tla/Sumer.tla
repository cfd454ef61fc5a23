------------------------------- MODULE Sumer -------------------------------
(***************************************************************************)
(* The subgraph of Sumer, a lending market: one cToken (Pool), its users   *)
(* and the comptroller.  The contract itself is external: here are what    *)
(* its transactions change and which events they emit.  The events of a    *)
(* block are handled after the block, and a handler that asks the contract *)
(* gets the contract of the end of the block.                              *)
(*                                                                         *)
(* A cToken is worth its rate of the underlying token, in halves here so   *)
(* that what the rate makes of an amount is cut off as in the code.  Of    *)
(* the market the index keeps when it was last accrued and what it read    *)
(* then, the rate among it.                                                *)
(***************************************************************************)
EXTENDS Subgraph

RateUnit == 2

(* exchangeRate times the amount, truncated.                               *)
Underlying(rate, amount) == (rate * amount) \div RateUnit

------------------------------------------------------------------------------
(* The contract.  Interest that raises the rate accrues in a transaction   *)
(* of its own, the first of its block to accrue; others accrue without.    *)

SumerChain ==
  [block |-> 1, accrued |-> 0, rate |-> 3, supply |-> 0, cash |-> 0, held |-> [u \in User \cup {Pool} |-> 0],
   owed |-> [u \in User |-> 0], entered |-> {}, oracle |-> 0, price |-> 1,
   factor |-> 0, missed |-> FALSE]

Accrued(c) == [c EXCEPT !.accrued = c.block]
AccrueEvent(c) == IF c.accrued = c.block THEN <<>> ELSE Emits("AccrueInterest", Pool, Pool, 0, 0)

SumerAccrue(c) == Becomes([Accrued(c) EXCEPT !.rate = @ + 1], AccrueEvent(c))

(* What a cToken costs, rounded up, and what it brings, rounded down.      *)
Cost(c)  == (c.rate + RateUnit - 1) \div RateUnit
Worth(c) == Underlying(c.rate, 1)

Moves(c, from, to) == [c EXCEPT !.held = Transferred(@, from, to)]

SumerMint(c, u) ==
  Becomes([Accrued(c) EXCEPT !.supply = @ + 1, !.cash = @ + Cost(c), !.held[u] = @ + 1],
    AccrueEvent(c) \o Emits("Mint", Pool, u, 1, 0) \o Emits("Transfer", Pool, u, 1, 0))

SumerRedeem(c, u) ==
  Becomes([Accrued(c) EXCEPT !.supply = @ - 1, !.cash = @ - Worth(c), !.held[u] = @ - 1],
    AccrueEvent(c) \o Emits("Transfer", u, Pool, 1, 0) \o Emits("Redeem", u, Pool, 1, 0))

(* Interest since the user's last event is added to what the user owes.    *)
SumerBorrow(c, u, interest) ==
  LET owed == c.owed[u] + interest + 1 IN
  Becomes([Accrued(c) EXCEPT !.cash = @ - 1, !.owed[u] = owed],
    AccrueEvent(c) \o Emits("Borrow", Pool, u, 1, owed))

Repaid(c, u) == [Accrued(c) EXCEPT !.cash = @ + 1, !.owed[u] = @ - 1]
RepayEvent(c, payer, u) == Emits("Repay", payer, u, 1, c.owed[u] - 1)

SumerRepay(c, payer, u) == Becomes(Repaid(c, u), AccrueEvent(c) \o RepayEvent(c, payer, u))

(* Two debts repaid by one transaction.                                    *)
SumerRepayTwo(c, payer, u, v) ==
  Becomes(Repaid(Repaid(c, u), v),
    AccrueEvent(c) \o RepayEvent(c, payer, u) \o RepayEvent(Repaid(c, u), payer, v))

(* Liquidation, and redemption at face value: a debt is repaid and the     *)
(* debtor's cTokens go to the one who repaid it.                           *)
SumerSeize(c, kind, u, debtor) ==
  Becomes(Moves(Repaid(c, debtor), debtor, u),
    AccrueEvent(c) \o RepayEvent(c, u, debtor)
      \o Emits("Transfer", debtor, u, 1, 0) \o Emits(kind, debtor, u, 1, 0))

SumerTransfer(c, from, to) == Becomes(Moves(c, from, to), Emits("Transfer", from, to, 1, 0))

SumerEnter(c, u) ==
  Becomes([c EXCEPT !.entered = @ \cup {u}], Emits("MarketEntered", Pool, u, 0, 0))
SumerExit(c, u) ==
  Becomes([c EXCEPT !.entered = @ \ {u}], Emits("MarketExited", Pool, u, 0, 0))

SumerOracle(c) ==
  Becomes([c EXCEPT !.oracle = 1], Emits("NewPriceOracle", Pool, Pool, 0, 1))
SumerFactor(c) ==
  Becomes([c EXCEPT !.factor = @ + 1, !.missed = (c.oracle = 0)],
    Emits("NewCloseFactor", Pool, Pool, 0, c.factor + 1))

SumerTransactions(c) ==
  {t \in {SumerAccrue(c)} : c.accrued # c.block}
    \cup {SumerMint(c, u) : u \in User}
    \cup {SumerRedeem(c, u) : u \in {v \in User : c.held[v] > 0 /\ c.cash >= Worth(c)}}
    \cup {SumerBorrow(c, u, i) : u \in {v \in User : c.cash > 0}, i \in {0, 1}}
    \cup {SumerRepay(c, p, u) : p \in User, u \in {v \in User : c.owed[v] > 0}}
    \cup {SumerRepayTwo(c, p, u, v) : p \in User,
            u \in {w \in User : c.owed[w] > 0}, v \in {w \in User : c.owed[w] > 1}}
    \cup (UNION {{SumerSeize(c, kind, u, d) :
                    u \in {v \in User : v # d}, kind \in {"Liquidate", "RedeemFaceValue"}} :
                  d \in {v \in User : c.owed[v] > 0 /\ c.held[v] > 0}})
    \cup {SumerTransfer(c, from, to) : from \in {v \in User : c.held[v] > 0}, to \in User \cup {Pool}}
    \cup {SumerEnter(c, u) : u \in User \ c.entered}
    \cup {SumerExit(c, u) : u \in c.entered}
    \cup {SumerOracle(c), SumerFactor(c)}

------------------------------------------------------------------------------
(* The index. *)

(* createAccount, createAccountCToken.                                     *)
NewAccount ==
  [hasBorrowed |-> FALSE, liquidated |-> 0, liquidator |-> 0, redeemer |-> 0, redeemed |-> 0]
NewStats ==
  [balance |-> 0, supplied |-> 0, redeemed |-> 0, borrowed |-> 0, repaid |-> 0, stored |-> 0,
   entered |-> FALSE, accrual |-> 0]

(* getTokenPrice: none without a comptroller and its oracle.               *)
TokenPrice(ix, c) == IF ix.comptroller = <<>> THEN 0 ELSE c.price

(* createMarket.                                                           *)
NewMarket(ix, c) == [accrual |-> 0, rate |-> 0, supply |-> 0, cash |-> 0, price |-> TokenPrice(ix, c)]

(* updateMarket, once per accrual.                                         *)
Updated(ix, e, c) ==
  LET m == IF ix.market = <<>> THEN NewMarket(ix, c) ELSE ix.market[1] IN
  IF m.accrual = e.block THEN ix
  ELSE [ix EXCEPT !.market =
          <<[accrual |-> c.accrued, rate |-> c.rate, supply |-> c.supply, cash |-> c.cash,
             price |-> TokenPrice(ix, c)]>>]

AccountMade(ix, u) == [ix EXCEPT !.accounts = Save(@, u, Load(@, u, NewAccount))]
CountedIn(ix, u, field) ==
  LET a == Load(ix.accounts, u, NewAccount) IN
  [ix EXCEPT !.accounts = Save(@, u, [a EXCEPT ![field] = @ + 1])]

(* updateCommonCTokenStats and the caller's save: the statistics of a user *)
(* in the market, and the record that this transaction touched them.       *)
StatsOf(ix, u) == Load(ix.stats, u, NewStats)
Touched(ix, e, u, stats) ==
  [ix EXCEPT !.stats = Save(@, u, [stats EXCEPT !.accrual = e.block]),
             !.touched = @ \cup {<<u, e.tx, e.log>>}]

Recorded(ix, e) == [ix EXCEPT !.events = Save(@, ByLog(e), e)]

(* saveRatePerBlock.                                                       *)
Rated(ix, e) == [ix EXCEPT !.rates = @ \cup {e.block}]

HandleMarketListed(ix, c) == [ix EXCEPT !.market = <<NewMarket(ix, c)>>]

HandleMint(ix, e) == Rated(Recorded(ix, e), e)

HandleRedeem(ix, e) == Rated(Recorded(ix, e), e)

HandleBorrow(ix, e) ==
  LET a == Load(ix.accounts, e.to, NewAccount)
      s == StatsOf(ix, e.to)
      known == [ix EXCEPT !.accounts = Save(@, e.to, [a EXCEPT !.hasBorrowed = TRUE])]
      stats == [s EXCEPT !.stored = e.total, !.borrowed = @ + e.amount]
  IN  Rated(Recorded(Touched(known, e, e.to, stats), e), e)

(* The id of a repayment is its transaction's hash and a dash: the line    *)
(* that should append the log index is a statement of its own.             *)
HandleRepayBorrow(ix, e) ==
  LET s == StatsOf(ix, e.to)
      stats == [s EXCEPT !.stored = e.total, !.repaid = @ + e.amount]
      touched == Touched(AccountMade(ix, e.to), e, e.to, stats)
  IN  Rated([touched EXCEPT !.events = Save(@, ByTx(e), e)], e)

HandleLiquidateBorrow(ix, e) ==
  Recorded(CountedIn(CountedIn(ix, e.to, "liquidator"), e.from, "liquidated"), e)

(* The redeemer is counted before and after the provider, from one copy.   *)
HandleRedeemFaceValue(ix, e) ==
  LET first  == CountedIn(ix, e.to, "redeemer")
      second == CountedIn(first, e.from, "redeemed")
      copy   == [first.accounts[e.to] EXCEPT !.redeemer = @ + 1]
  IN  Recorded([second EXCEPT !.accounts = Save(@, e.to, copy)], e)

(* Mutant of MovedTo: the receiver's balance is the amount received.       *)
MovedToReplaces(ix, e) ==
  LET s == StatsOf(ix, e.to) IN
  IF e.to = Pool THEN ix
  ELSE Touched(AccountMade(ix, e.to), e, e.to,
         [s EXCEPT !.balance = e.amount, !.supplied = @ + Underlying(ix.market[1].rate, e.amount)])

(* The two halves of handleTransfer, at the rate of the market: balances   *)
(* are in cTokens, what was supplied and redeemed in the underlying token. *)
(* The cToken itself has no statistics.                                    *)
MovedFrom(ix, e) ==
  LET s == StatsOf(ix, e.from) IN
  IF e.from = Pool THEN ix
  ELSE Touched(AccountMade(ix, e.from), e, e.from,
         [s EXCEPT !.balance = @ - e.amount, !.redeemed = @ + Underlying(ix.market[1].rate, e.amount)])
MovedTo(ix, e) ==
  LET s == StatsOf(ix, e.to) IN
  IF e.to = Pool THEN ix
  ELSE Touched(AccountMade(ix, e.to), e, e.to,
         [s EXCEPT !.balance = @ + e.amount, !.supplied = @ + Underlying(ix.market[1].rate, e.amount)])

HandleTransfer(ix, e, c) == Recorded(MovedTo(MovedFrom(Updated(ix, e, c), e), e), e)

HandleAccrueInterest(ix, e, c) == Updated(ix, e, c)

HandleMarketEntered(ix, e) ==
  Touched(AccountMade(ix, e.to), e, e.to, [StatsOf(ix, e.to) EXCEPT !.entered = TRUE])
HandleMarketExited(ix, e) ==
  Touched(AccountMade(ix, e.to), e, e.to, [StatsOf(ix, e.to) EXCEPT !.entered = FALSE])

(* Only the price oracle's event makes the comptroller's entity.           *)
HandleNewPriceOracle(ix, e) ==
  [ix EXCEPT !.comptroller =
     <<[oracle |-> e.total, factor |-> IF @ = <<>> THEN 0 ELSE @[1].factor]>>]
HandleNewCloseFactor(ix, e) ==
  IF ix.comptroller = <<>> THEN ix ELSE [ix EXCEPT !.comptroller[1].factor = e.total]

SumerIndex ==
  HandleMarketListed(
    [market |-> <<>>, accounts |-> Nothing, stats |-> Nothing, events |-> Nothing,
     touched |-> {}, rates |-> {}, comptroller |-> <<>>], SumerChain)

SumerHandled(ix, e, c) ==
  CASE e.kind = "Mint"            -> HandleMint(ix, e)
    [] e.kind = "Redeem"          -> HandleRedeem(ix, e)
    [] e.kind = "Borrow"          -> HandleBorrow(ix, e)
    [] e.kind = "Repay"           -> HandleRepayBorrow(ix, e)
    [] e.kind = "Liquidate"       -> HandleLiquidateBorrow(ix, e)
    [] e.kind = "RedeemFaceValue" -> HandleRedeemFaceValue(ix, e)
    [] e.kind = "Transfer"        -> HandleTransfer(ix, e, c)
    [] e.kind = "AccrueInterest"  -> HandleAccrueInterest(ix, e, c)
    [] e.kind = "MarketEntered"   -> HandleMarketEntered(ix, e)
    [] e.kind = "MarketExited"    -> HandleMarketExited(ix, e)
    [] e.kind = "NewPriceOracle"  -> HandleNewPriceOracle(ix, e)
    [] e.kind = "NewCloseFactor"  -> HandleNewCloseFactor(ix, e)

------------------------------------------------------------------------------
(* What the index says of the contract once a block is handled: what each  *)
(* user holds and owes, and of the market what the last block with an      *)
(* event left.  The interest that the schema has its readers compute, the  *)
(* balance at the market's rate less what was supplied and more what was   *)
(* redeemed, is never below zero, the balance taken by cTokens: each was   *)
(* entered at a rate no newer than the market's.  Only cTokens sent to the *)
(* cToken itself are in no account.  A redemption at face value counts     *)
(* twice for the redeemer, and a close factor set before the first oracle  *)
(* is not known.                                                           *)
SumerMatches(ix, c) ==
  LET stats == [u \in User |-> StatsOf(ix, u)]
      count(u, field) == Load(ix.accounts, u, NewAccount)[field]
      entities(kind, side, u) ==
        Cardinality({i \in DOMAIN ix.events :
          ix.events[i].kind = kind /\ ix.events[i][side] = u})
  IN
  /\ \A u \in User :
       /\ stats[u].balance = c.held[u] /\ stats[u].stored = c.owed[u]
       /\ stats[u].supplied - stats[u].redeemed <= Underlying(ix.market[1].rate, 1) * stats[u].balance
       /\ stats[u].entered <=> u \in c.entered
       /\ u \in DOMAIN ix.stats => u \in DOMAIN ix.accounts
       /\ count(u, "liquidator") = entities("Liquidate", "to", u)
       /\ count(u, "liquidated") = entities("Liquidate", "from", u)
       /\ count(u, "redeemer") = 2 * entities("RedeemFaceValue", "to", u)
       /\ count(u, "redeemed") = entities("RedeemFaceValue", "from", u)
  /\ ix.market[1].supply = c.supply /\ ix.market[1].cash = c.cash
  /\ c.accrued > 0 => ix.market[1].rate = c.rate
  /\ SumOver([u \in User |-> stats[u].balance], User) + c.held[Pool] = c.supply
  /\ c.oracle # 0 /\ ~c.missed => ix.comptroller[1].factor = c.factor
==============================================================================
