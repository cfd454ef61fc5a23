--------------------------- MODULE Configuration ---------------------------
(***************************************************************************)
(* What a block number, a time, a count or a name stands for in the tables *)
(* of the configuration: the season of a block, the multiplier of a token  *)
(* or an address, the boosters of a time, how long a withdrawal still      *)
(* counts, what the next bridge transfer of a day earns, which projects    *)
(* have jobs.  Times are in seconds, boosters in thousandths, multipliers  *)
(* in hundredths.                                                          *)
(***************************************************************************)
EXTENDS Integers, Sequences, FiniteSets, FiniteSetsExt, SequencesExt

CONSTANTS
  Phase1,        \* points.pointsPhase1StartTime
  WithdrawStart  \* a month later

Day  == 24 * 3600
Week == 7 * Day

ASSUME PeriodAssumption ==
  Phase1 \in Nat /\ WithdrawStart \in (Phase1 + 28 * Day)..(Phase1 + 31 * Day)

------------------------------------------------------------------------------
(* Seasons: from a block up to, and without, another. *)

Seasons == <<
  [season |-> 1, first |-> 0,       end |-> 2226304],
  [season |-> 2, first |-> 2226304, end |-> 4087520],
  [season |-> 3, first |-> 4087520, end |-> 5727189],
  [season |-> 4, first |-> 5727190, end |-> 999999999] >>

(* The seasons whose totals the points of a block enter.                   *)
SeasonsOf(b) == {s \in ToSet(Seasons) : s.first <= b /\ b < s.end}

------------------------------------------------------------------------------
(* Multipliers: of all that have begun, the newest; before the first, the  *)
(* oldest. *)

(* A list is sorted by time, the newest first; of two of one time, which   *)
(* the tables do not have, the one that is first in the list stays so.     *)
Newer(ms, i, j) ==
  \/ ms[i].timestamp > ms[j].timestamp
  \/ ms[i].timestamp = ms[j].timestamp /\ i < j

FirstOf(ms, S) == CHOOSE i \in S : \A j \in S \ {i} : Newer(ms, i, j)
LastOf(ms, S)  == CHOOSE i \in S : \A j \in S \ {i} : Newer(ms, j, i)

Begun(ms, t) == {i \in DOMAIN ms : t >= ms[i].timestamp}

(* Mutant of MultiplierAt: the list is taken in the order it is in. *)
MultiplierAtUnsorted(ms, t) ==
  ms[IF Begun(ms, t) # {} THEN Min(Begun(ms, t)) ELSE Len(ms)].multiplier

MultiplierAt(ms, t) ==
  ms[IF Begun(ms, t) # {} THEN FirstOf(ms, Begun(ms, t)) ELSE LastOf(ms, DOMAIN ms)].multiplier

(* An address without multipliers of its own. *)
AddressMultiplier(ms, t) == IF ms = <<>> THEN 100 ELSE MultiplierAt(ms, t)

From0(m) == <<[multiplier |-> m, timestamp |-> 0]>>
Then(m, t) == <<[multiplier |-> m, timestamp |-> t]>>

(* The lists of the supported tokens, each once however many have it.      *)
TokenMultipliers ==
  { From0(500), From0(100),
    From0(200) \o Then(500, 1715594400), From0(250) \o Then(500, 1715594400),
    From0(300) \o Then(500, 1715594400),
    From0(200) \o Then(100, 1720713600), From0(200) \o Then(0, 1717516800),
    From0(150) \o Then(100, 1717516800), From0(150) \o Then(0, 1717516800),
    From0(150) \o Then(100, 1712138400),
    From0(150) \o Then(180, 1711015200) \o Then(150, 1712224800) \o Then(100, 1717516800),
    From0(150) \o Then(100, 1717516800) \o Then(0, 1720087200),
    From0(150) \o Then(200, 1716825600) \o Then(100, 1720713600),
    From0(100) \o Then(120, 1711015200) \o Then(100, 1717516800),
    From0(100) \o Then(115, 1712559600) \o Then(100, 1717516800),
    From0(100) \o Then(0, 1720087200), From0(100) \o Then(0, 1717516800),
    From0(100) \o Then(0, 1720713600),
    Then(100, 1718856000), Then(100, 1717516800) }

(* The lists of the addresses that have one.                               *)
AddressMultipliers == {From0(300), From0(225) \o Then(0, 1718593542)}

------------------------------------------------------------------------------
(* Boosters. *)

(* \div rounds down, as Math.floor does, below zero too.                   *)
EarlyBird(t) ==
  LET weeks == (t - Phase1) \div Week IN
  IF weeks < 1 THEN 2000
  ELSE IF weeks < 2 THEN 1500
  ELSE IF t < WithdrawStart THEN 1200
  ELSE 1000

NoDeposit == 0

Loyalty(t, deposit) ==
  IF t < WithdrawStart \/ deposit = NoDeposit THEN 1000
  ELSE LET days == (t - deposit) \div Day IN
       1000 + IF 5 * days < 500 THEN 5 * days ELSE 500

------------------------------------------------------------------------------
(* A withdrawal counts for some days after it was asked for. *)

From == 1713024000
Lasts(first, end, days) == [first |-> first, end |-> end, period |-> days * Day]

WithdrawTime ==
  <<Lasts(From, From + Week, 14)>>
    \o [i \in 1..7 |-> Lasts(From + Week + (i - 1) * Day, From + Week + i * Day, 14 - i)]
    \o <<Lasts(From + 13 * Day, 2029766400, 7)>>

(* The lines that a time is in: the last two begin at the same time,       *)
(* although the comment beside the last one names the day after.           *)
LinesAt(t) == {i \in DOMAIN WithdrawTime : WithdrawTime[i].first <= t /\ t < WithdrawTime[i].end}

CountsUntil(t) == IF LinesAt(t) = {} THEN t ELSE t + WithdrawTime[Min(LinesAt(t))].period

------------------------------------------------------------------------------
(* Bridges. *)

PointsRule == <<
  [start |-> 0,   end |-> 200, points |-> 5],
  [start |-> 201, end |-> 400, points |-> 4],
  [start |-> 401, end |-> 600, points |-> 3],
  [start |-> 601, end |-> 800, points |-> 2],
  [start |-> 801, end |-> 0,   points |-> 1] >>

RulesFor(count) ==
  {i \in DOMAIN PointsRule : /\ count >= PointsRule[i].start
                             /\ PointsRule[i].end = 0 \/ count <= PointsRule[i].end}

CalculatePoint(count) ==
  IF RulesFor(count) = {} THEN 0 ELSE PointsRule[Min(RulesFor(count))].points

------------------------------------------------------------------------------
(* Projects.  A project has jobs of a kind if it is in a table of it.      *)

(* The boosters of the tokens of a project's pools.                        *)
ProjectTokenBooster ==
  [layerbank |-> {0, 2, 4, 10}, aqua |-> {4, 10}, izumi |-> {3, 10}, interport |-> {10},
   novaswap |-> {10, 20}, steer |-> {10, 20}, logx |-> {10}, agx |-> {10, 20}, wagmi |-> {10},
   zkdx |-> {10}, shoebill |-> {4, 10}, desyn |-> {2, 10}, sumer |-> {4, 20}, predx |-> {5}]

(* Points of a transaction's value, in thousandths, and of a transaction.  *)
TxVolBooster == [logx |-> 5, eddy |-> 5, agx |-> 10, wagmi |-> 5, zkdx |-> 5, interport |-> 5]
TxNumBooster == [allspark |-> 1000, rubic |-> 1000, skyrangers |-> 200, zns |-> 1000]

TvlPaths == DOMAIN ProjectTokenBooster
TxPaths  == DOMAIN TxVolBooster \cup DOMAIN TxNumBooster

(* The directories of the adapters, but the example's.                     *)
Directories ==
  {"agx", "allspark", "aqua", "desyn", "eddy", "interport", "izumi", "layerbank", "logx",
   "novaswap", "predx", "rubic", "shoebill", "skyrangers", "steer", "sumer", "wagmi", "zkdx", "zns"}

(* A project that is in no table of a kind earns one point.                *)
ProjectBooster(project, table) == IF project \in DOMAIN table THEN table[project] ELSE 1000

(* The types of the rows that the jobs of a project write.                 *)
RowTypes(project) ==
  {t \in {"tvl"} : project \in TvlPaths}
    \cup {t \in {"txVol"} : project \in DOMAIN TxVolBooster}
    \cup {t \in {"txNum"} : project \in DOMAIN TxNumBooster}

=============================================================================
