------------------------------- MODULE Prices -------------------------------
(***************************************************************************)
(* The price BaseDataService stores for a token at a block.  It is taken   *)
(* from the chart kept in memory (tokenPriceCache), or from a new chart    *)
(* that the price provider is asked for, with retries.  Times are whole    *)
(* numbers of a unit the constants are given in; a chart is the ascending  *)
(* sequence of the times it has a price for.  Then what balances are worth *)
(* at the stored prices, to the worker of the holders and to that of the   *)
(* pools, which does without a price.                                      *)
(***************************************************************************)
EXTENDS Integers, Sequences, SequencesExt, FiniteSets, Functions, Sums

CONSTANTS
  Hour,       \* 3600000 ms
  Expiration, \* PRICE_EXPIRATION_TIME
  Attempts,   \* API_RETRY_ATTEMPTS
  MaxTime,    \* bound: the last time
  Token,      \* supported tokens, each with a price id of its own
  Stablecoin, \* those of type STABLE_COIN_TYPE
  Eth         \* ETHEREUM_CG_PRICE_ID

ASSUME PriceAssumption ==
  Hour \in Nat \ {0} /\ Expiration \in 1..Hour /\ Attempts \in Nat /\ MaxTime \in Nat
    /\ Stablecoin \subseteq Token /\ Eth \in Token \ Stablecoin

Time == 0..MaxTime

(* An answer is <<>> (null) or <<chart>>, a price <<>> (none) or <<time>>. *)
Ascending(c) == \A i, j \in DOMAIN c : i < j => c[i] < c[j]
Chart == {c \in BoundedSeq(Time, 2) : Ascending(c)}

------------------------------------------------------------------------------
(* The request. *)

(* A request that was told to wait (429) starts counting again.            *)
NextAttempt(r, n) == IF r = 429 THEN 0 ELSE n + 1

(* What comes of the statuses rs of one request after another: no chart    *)
(* for an unknown token (404) or once the attempts are used up.  A list    *)
(* that ends before that is decided stands for a request still waiting.    *)
Request(rs) ==
  LET Count[i \in 0..Len(rs)] == IF i = 0 THEN 0 ELSE NextAttempt(rs[i], Count[i - 1])
      decides(i) == rs[i] \in {200, 404} \/ (rs[i] # 429 /\ Count[i - 1] >= Attempts)
      decided == {i \in DOMAIN rs : decides(i)}
  IN  IF decided = {} THEN "waiting"
      ELSE IF rs[Min(decided)] = 200 THEN "chart"
      ELSE "null"

------------------------------------------------------------------------------
(* The choice of a price. *)

InHour(t, ts) == t \div Hour = ts \div Hour

(* The cached chart (<<>>: there is none) has a price for the clock hour   *)
(* of the block, the first of which is taken, or it ends late enough.      *)
FromCache(chart, ts) ==
  LET hour == {i \in DOMAIN chart : InHour(chart[i], ts)} IN
  IF hour # {} THEN <<chart[Min(hour)]>>
  ELSE IF chart # <<>> /\ Last(chart) + Expiration > ts THEN <<Last(chart)>>
  ELSE <<>>

(* Mutant of FromProvider: how old the chart is does not matter. *)
FromProviderAnyAge(answer, ts) ==
  IF answer = <<>> \/ answer = <<<<>>>> THEN <<>> ELSE <<Last(answer[1])>>

(* The newest price of a new chart.  A chart that is missing, empty or an  *)
(* hour old fails the token: no price is stored for the block.             *)
FromProvider(answer, ts) ==
  IF answer = <<>> \/ answer = <<<<>>>> THEN <<>>
  ELSE IF Last(answer[1]) + Hour <= ts THEN <<>>
  ELSE <<Last(answer[1])>>

(* The time of the price stored for a block at ts, if any, with a chart in *)
(* the cache and an answer that a request would bring.                     *)
PriceAt(cached, answer, ts) ==
  LET hit == FromCache(cached, ts) IN IF hit # <<>> THEN hit ELSE FromProvider(answer, ts)

------------------------------------------------------------------------------
(* What balances are worth.  stored is a function from the tokens with a   *)
(* price at the block to their prices. *)

AllPriceIds == Token \ Stablecoin

(* The worker of the holders fails without a price of every token.         *)
HoldPrices(stored) ==
  IF AllPriceIds \subseteq DOMAIN stored THEN <<Restrict(stored, AllPriceIds)>> ELSE <<>>

(* To the worker of the pools a token without a price is worth a dollar,   *)
(* so that what looks for a missing price after that finds none.           *)
LpPrices(stored) ==
  [t \in AllPriceIds |-> IF t \in DOMAIN stored THEN stored[t] ELSE 1]

TokenPrice(t, prices) == IF t \in Stablecoin THEN 1 ELSE prices[t]
EthPrice(prices) == prices[Eth]

(* Dollars: amount times price times multiplier (or booster) of each       *)
(* token; and the base points, a fraction of them over the price of ETH.   *)
Dollars(balances, weight, prices) ==
  SumOver([t \in Token |-> balances[t] * TokenPrice(t, prices) * weight[t]], Token)

HoldBasePoint(balances, multiplier, prices) ==
  <<Dollars(balances, multiplier, prices), EthPrice(prices)>>

(* A token that is not in the table of the project counts for nothing.     *)
PoolTokenBooster(booster, t) == IF t \in DOMAIN booster THEN booster[t] ELSE 0

LpBasePoint(balances, booster, prices) ==
  <<Dollars(balances, [t \in Token |-> PoolTokenBooster(booster, t)], prices), EthPrice(prices)>>

=============================================================================
