------------------------------ MODULE Formulas ------------------------------
(***************************************************************************)
(* The computations of Prices, Configuration, Shares and Statistics, each  *)
(* against what it is meant to compute, over all inputs of a small size.   *)
(* A state is an input.                                                    *)
(***************************************************************************)
EXTENDS Prices, Configuration, Shares, Statistics

CONSTANTS
  Times, Balances, \* bounds: the times and the balances of a token's answer
  Pair,            \* bound: pairs of the reports
  NBlocks          \* bound: blocks of the reports, over two days

ASSUME FormulaAssumption ==
  /\ IsFiniteSet(Token) /\ IsFiniteSet(User) /\ NBlocks \in Nat
  /\ Balances \subseteq Nat /\ \A t \in Times : t \in 0..Now /\ Until(t) \in Nat /\ t <= Until(t)
  /\ Unnamed \notin {"a", "aqua"}

VARIABLE input

Status == {200, 404, 429, 500}

PriceInputs ==
  [of : {"price"}, cached : Chart, answer : {<<>>} \cup {<<c>> : c \in Chart}, ts : Time]
RequestInputs == [of : {"request"}, statuses : BoundedSeq(Status, Attempts + 3)]
Partial(D, S) == UNION {[E -> S] : E \in SUBSET D}
WorthInputs ==
  [of : {"worth"}, prices : [AllPriceIds -> 1..3], priced : SUBSET AllPriceIds,
   balances : [Token -> 0..2], booster : Partial(Token, 1..2)]

(* Every boundary of a table, one before and one behind it.                *)
Around(S) == UNION {{n - 1, n, n + 1} : n \in S}
Blocks   == Around({s.first : s \in ToSet(Seasons)} \cup {s.end : s \in ToSet(Seasons)}) \cap Nat
Moments  == Around({l.first : l \in ToSet(WithdrawTime)} \cup {l.end : l \in ToSet(WithdrawTime)}
                     \cup {Phase1 + n * Week : n \in 0..5} \cup {WithdrawStart + n * Day : n \in 0..102})
Counts   == 0..1000
Turns    == Around(UNION {{m.timestamp : m \in ToSet(ms)} : ms \in TokenMultipliers \cup AddressMultipliers}) \cap Nat
Multipliers == UNION {[1..n -> [multiplier : 1..2, timestamp : {0, From, From + Day}]] : n \in 1..3}
ConfigurationInputs ==
  [of : {"block"}, block : Blocks] \cup [of : {"count"}, count : Counts]
    \cup [of : {"moment"}, t : Moments]
    \cup [of : {"multiplier"}, ms : Multipliers, t : {From - 1, From, From + Day}]
    \cup {[of |-> "configured", ms |-> ms, t |-> t] :
             ms \in TokenMultipliers \cup AddressMultipliers, t \in Turns}
    \cup [of : {"project"}, name : Directories \cup TvlPaths \cup TxPaths]

Held == [balance : Balances, since : Times]
Withdrawal == {w \in [user : User, balance : Balances, since : Times, at : Times] : w.since <= w.at}
ShareInputs ==
  [of : {"share"}, held : Partial(User, Held), withdrawn : BoundedSeq(Withdrawal, 1),
   failed : Partial(User, Balances), pool : {NoPool} \cup [balance : 0..3, totalSupplied : 0..3]]

BlockNumbers == 1..NBlocks
Days         == {0, 1}
BlockTimes   == {f \in [BlockNumbers -> 0..(2 * DayLength - 1)] :
                   \A i, j \in BlockNumbers : i <= j => f[i] <= f[j]}
LedgerRow    == [block : BlockNumbers, address : User, pair : Pair, type : {"txNum", "tvl"}]
Ledgers      == {{}} \cup {{r, s} : r, s \in LedgerRow}
DayInputs ==
  UNION {[of : {"day"}, times : BlockTimes, projects : [Pair -> {"a", "b"}],
          early : SUBSET late, late : {late}] : late \in Ledgers}
SnapshotInputs ==
  [of : {"snapshots"}, worth : Partial(BlockNumbers \X Pair, 1..2),
   groups : {<<Pair>>} \cup {<<{p}, Pair \ {p}>> : p \in Pair},
   range : {<<1, NBlocks>>, <<1, NBlocks - 1>>, <<2, NBlocks>>}]
ProjectInputs ==
  {[of |-> "projects", projects |-> f, held |-> held] :
     f \in {f \in Partial(Pair \cup {AquaPair} \cup Tokens, {"a", "aqua", Unnamed}) :
             AquaPair \in DOMAIN f => f[AquaPair] = "aqua"},
     held \in Partial(Pair \cup {AquaPair, Vault} \cup Tokens, {1})}
StatisticsInputs == DayInputs \cup SnapshotInputs \cup ProjectInputs

FormulaInit ==
  \/ input \in PriceInputs \cup RequestInputs \cup WorthInputs
  \/ input \in ConfigurationInputs \cup ShareInputs \cup StatisticsInputs
FormulaNext == UNCHANGED input
FormulaSpec == FormulaInit /\ [][FormulaNext]_input

------------------------------------------------------------------------------
(* Properties. *)

(* A block gets a price less than an hour older than itself; it gets none  *)
(* only if the cache has none either for its hour or after it and no chart *)
(* came, or one that ended an hour before.                                 *)
PriceAgrees(cached, answer, ts) ==
  LET p == PriceAt(cached, answer, ts)
      fresh(c) == \E i \in DOMAIN c : c[i] + Hour > ts
  IN  IF p # <<>> THEN p[1] + Hour > ts
      ELSE /\ \A i \in DOMAIN cached : cached[i] < ts
           /\ answer # <<>> => ~fresh(answer[1])

(* No chart comes only of an unknown token or after one attempt and        *)
(* Attempts more, none of which was told to wait.                          *)
RequestAgrees(rs) ==
  Request(rs) = "null" =>
    \E i \in DOMAIN rs :
      \/ rs[i] = 404
      \/ i > Attempts /\ \A j \in i - Attempts..i : rs[j] \notin {200, 429}

(* The worker of the pools counts what the worker of the holders would, at *)
(* the same weights, and what it would at the true prices, unless the      *)
(* price of a token that counts is missing, or that of ETH while another   *)
(* token counts: then a dollar stood in for a price.                       *)
WorthAgrees(a) ==
  LET stored == Restrict(a.prices, a.priced)
      lp     == LpBasePoint(a.balances, a.booster, LpPrices(stored))
      true   == LpBasePoint(a.balances, a.booster, a.prices)
      hold   == HoldPrices(stored)
      counts(t)  == a.balances[t] > 0 /\ t \in DOMAIN a.booster
      missing(t) == t \in AllPriceIds \ a.priced
  IN  /\ hold # <<>> =>
           lp = HoldBasePoint(a.balances, [t \in Token |-> PoolTokenBooster(a.booster, t)], hold[1])
      /\ \/ lp[1] * true[2] = true[1] * lp[2]
         \/ \E t \in Token \ {Eth} : counts(t) /\ (missing(t) \/ missing(Eth))

(* Prices: fresh ones are stored, requests are not given up early, and     *)
(* what is held is worth what its prices say, with the exception named.    *)
PricesAreRight ==
  /\ input.of = "price" => PriceAgrees(input.cached, input.answer, input.ts)
  /\ input.of = "request" => RequestAgrees(input.statuses)
  /\ input.of = "worth" => WorthAgrees(input)

(* Seasons: every block but 5727189 is in exactly one, up to the last end. *)
SeasonsCover(b) ==
  b < 999999999 => Cardinality(SeasonsOf(b)) = IF b = 5727189 THEN 0 ELSE 1

(* What a time earns never falls below what it is worth later, nor above   *)
(* twice; loyalty is worth 1 to 1.5, less only for a first deposit after   *)
(* the block; a withdrawal counts for a week or two, by one line of the    *)
(* table, or by two on the day that two lines share, of one period.        *)
MomentAgrees(t) ==
  /\ \A u \in {t + 1, t + Day, t + Week} : EarlyBird(t) >= EarlyBird(u)
  /\ EarlyBird(t) \in 1000..2000
  /\ \A d \in {Phase1, WithdrawStart, t - Day, t - 100 * Day, t} :
       d <= t => Loyalty(t, d) \in 1000..1500
  /\ t >= WithdrawStart => Loyalty(t, t + 1) = 995
  /\ t >= From /\ t < 2029766400 => CountsUntil(t) - t \in 7 * Day..14 * Day
  /\ t < From => CountsUntil(t) = t
  /\ Cardinality(LinesAt(t)) = CASE t < From \/ t >= 2029766400 -> 0
                                 [] t - From \in 13 * Day..14 * Day - 1 -> 2
                                 [] OTHER -> 1
  /\ \A i, j \in LinesAt(t) : WithdrawTime[i].period = WithdrawTime[j].period

(* A list of multipliers means its newest entry that has begun, or its     *)
(* oldest, whatever order it is in.                                        *)
MultiplierAgrees(ms, t) ==
  LET times == {ms[i].timestamp : i \in DOMAIN ms}
      begun == {s \in times : s <= t}
      meant == IF begun # {} THEN Max(begun) ELSE Min(times)
  IN  \E i \in DOMAIN ms : ms[i].timestamp = meant /\ ms[i].multiplier = AddressMultiplier(ms, t)

(* Bridges: every transfer of a day earns something by one rule, and no    *)
(* more than the one before it.                                            *)
CountAgrees(n) ==
  /\ Cardinality(RulesFor(n)) = 1
  /\ CalculatePoint(n) >= 1 /\ CalculatePoint(n + 1) <= CalculatePoint(n)

(* Two rows of a project for one block, account and pair: of all projects  *)
(* in two tables only these, where the older primary key of the ledger     *)
(* keeps one row of the two.  No project is without a job, and none of a   *)
(* table without a directory.                                              *)
TwoTypes == {"agx", "interport", "logx", "wagmi", "zkdx"}
ProjectAgrees(name) ==
  /\ name \in Directories /\ RowTypes(name) # {}
  /\ Cardinality(RowTypes(name) \ {"tvl"}) <= 1
  /\ Cardinality(RowTypes(name)) > 1 <=> name \in TwoTypes
  /\ \A type \in RowTypes(name) :
       /\ type = "txVol" => ProjectBooster(name, TxVolBooster) \in 1..999
       /\ type = "txNum" => ProjectBooster(name, TxNumBooster) \in 1..1000

(* Configuration: at no boundary of the tables is there a gap, an overlap  *)
(* or a step in the wrong direction, with two exceptions: block 5727189    *)
(* lies between seasons 3 and 4, and the last two lines of withdrawTime    *)
(* share the day from 1714147200, on which they say the same; a list of    *)
(* multipliers means what its times say; tables that have to agree do.     *)
TablesAgree ==
  /\ input.of = "block" => SeasonsCover(input.block)
  /\ input.of = "moment" => MomentAgrees(input.t)
  /\ input.of \in {"multiplier", "configured"} => MultiplierAgrees(input.ms, input.t)
  /\ input.of = "configured" => IsInjective([i \in DOMAIN input.ms |-> input.ms[i].timestamp])
  /\ input.of = "count" => CountAgrees(input.count)
  /\ input.of = "project" => ProjectAgrees(input.name)

(* Shares: the rows of a token add up to its total weight, up to what was  *)
(* withdrawn by users the indexer has no balance of; and the balances of a *)
(* pool add up to no more than the pool has, if the balances it is divided *)
(* by are all there.                                                       *)
SharesAddUp ==
  input.of = "share" /\ ~Throws(input) =>
    LET a == input
        kept == Add(Rows(a), LAMBDA r : r.weight)
        lost == Add(User \ DOMAIN a.held, LAMBDA u : WithdrawnBy(a, u))
        users == DOMAIN a.held
    IN  /\ kept + lost = TotalWeight(a)
        /\ a.pool # NoPool /\ Add(users, LAMBDA u : a.held[u].balance) <= a.pool.totalSupplied =>
             Add(users, LAMBDA u : BalanceOf(a, u)) <= a.pool.balance

(* Of a day: no more addresses were active on it than up to it, although   *)
(* the second is counted later; up to it no fewer than up to the day       *)
(* before, and no more than on all the days.                               *)
DayAgrees(a) ==
  LET dau(l, d) == ProtocolDau(l, a.projects, a.times, d)
      cumulative(l, d) == CumulativeDau(l, a.projects, a.times, d)
      on(d, n) == IF dau(a.late, d) = <<>> THEN 0 ELSE dau(a.late, d)[n]
  IN  \A d \in Days :
        \A n \in DOMAIN cumulative(a.late, d) :
          LET upTo == cumulative(a.late, d)[n] IN
          /\ dau(a.early, d)[n] <= upTo
          /\ upTo <= SumOver([e \in 0..d |-> on(e, n)], 0..d)
          /\ d = 1 /\ cumulative(a.early, 0) # <<>> => cumulative(a.early, 0)[n] <= upTo

(* A name's pools are worth what their own last snapshot of the day says,  *)
(* unless the first name that has one has a last one of another block.     *)
SnapshotAgrees(a) ==
  LET rows == {[block |-> k[1], pair |-> k[2], worth |-> a.worth[k]] : k \in DOMAIN a.worth}
      own(i) == SnapshotsOf(rows, a.groups[i], a.range)
  IN  \A i \in DOMAIN a.groups :
        LET tvl == StatisticTvl(rows, a.groups, a.range)[i] IN
        \/ tvl = IF own(i) = {} THEN 0 ELSE WorthAt(rows, a.groups[i], Max(own(i)))
        \/ \E j \in 1..(i - 1) : own(j) # {} /\ Max(own(j)) # Max(own(i) \cup {NoSnapshot})

(* No pair has two rows in one statement, which the database would refuse; *)
(* and the contracts that become projects by being reported on change      *)
(* neither what is reported nor the pairs of a name.                       *)
ProjectsAgree(a) ==
  LET rows  == ProjectTvl(a.projects, a.held)
      after == ProjectsAfter(a.projects, rows)
  IN  /\ \A r, s \in rows : r.pair = s.pair => r = s
      /\ ProjectTvl(after, a.held) = rows
      /\ \A n \in {"a", "aqua"} : PairsOf(after, n) = PairsOf(a.projects, n)

(* Statistics: the reports agree with each other and with what they are    *)
(* of.                                                                     *)
StatisticsAgree ==
  /\ input.of = "day" => DayAgrees(input)
  /\ input.of = "snapshots" => SnapshotAgrees(input)
  /\ input.of = "projects" => ProjectsAgree(input)
=============================================================================
