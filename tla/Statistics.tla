----------------------------- MODULE Statistics -----------------------------
(***************************************************************************)
(* The reports: each night, for every project name, the addresses active   *)
(* on the day before, those active up to then, and what the pools held at  *)
(* the day's last snapshot (StatisticService); every half hour, what each  *)
(* contract holds (ProjectTvlService).                                     *)
(*                                                                         *)
(* times is a function from block numbers to seconds, projects one from    *)
(* pairs to names, a ledger a set of rows [block, address, pair, type].    *)
(***************************************************************************)
EXTENDS Integers, FiniteSets, Functions, Sequences, SequencesExt, Sums

CONSTANTS
  DayLength,                \* 86400 s
  Unnamed,                  \* a project without a name
  Vault, AquaPair, Tokens   \* AQUA_VALUT, AQUA_PAIRADDRESS, {WETH, MERGE_TOKEN}

ASSUME StatisticsAssumption ==
  DayLength \in Nat \ {0} /\ Vault \notin Tokens /\ AquaPair \notin Tokens \cup {Vault}

------------------------------------------------------------------------------
(* The blocks of a day. *)

(* Mutant of DayOf: the last second of the day is in none. *)
DayOfShort(d) == (d * DayLength)..(d * DayLength + DayLength - 2)

DayOf(d) == (d * DayLength)..(d * DayLength + DayLength - 1)

(* The first and the last, or <<>> if the index has none or is not         *)
(* answering: then the report of the day is not written, now or later.     *)
BlockRange(times, d) ==
  LET blocks == {b \in DOMAIN times : times[b] \in DayOf(d)} IN
  IF blocks = {} THEN <<>> ELSE <<Min(blocks), Max(blocks)>>

------------------------------------------------------------------------------
(* Active addresses. *)

PairsOf(projects, name) == {p \in DOMAIN projects : projects[p] = name}
GroupByName(projects) == Range(projects)

(* Holding earns no activity.                                              *)
Active(ledger, projects, name, blocks) ==
  {r.address : r \in {x \in ledger :
     x.pair \in PairsOf(projects, name) /\ x.block \in blocks /\ x.type \in {"txNum", "txVol"}}}

ProtocolDau(ledger, projects, times, d) ==
  LET range == BlockRange(times, d) IN
  IF range = <<>> THEN <<>>
  ELSE [name \in GroupByName(projects) |->
          Cardinality(Active(ledger, projects, name, range[1]..range[2]))]

CumulativeDau(ledger, projects, times, d) ==
  LET range == BlockRange(times, d) IN
  IF range = <<>> THEN <<>>
  ELSE [name \in GroupByName(projects) |->
          Cardinality(Active(ledger, projects, name, 0..range[2]))]

------------------------------------------------------------------------------
(* What the pools of a name held: groups is the sequence of the sets of    *)
(* pairs of the names, in the order the names are come across; a snapshot  *)
(* is a set of rows [block, pair, worth].                                  *)

NoSnapshot == 0
SnapshotsOf(snapshots, pairs, range) ==
  {r.block : r \in {x \in snapshots : x.pair \in pairs /\ x.block \in range[1]..range[2]}}

(* maxBlockNumberCurday is looked up until there is one, and then kept for *)
(* all the names that come after.                                          *)
BlockUsed(snapshots, groups, range, i) ==
  LET having == {j \in 1..i : SnapshotsOf(snapshots, groups[j], range) # {}} IN
  IF having = {} THEN NoSnapshot
  ELSE Max(SnapshotsOf(snapshots, groups[Min(having)], range))

WorthAt(snapshots, pairs, b) ==
  LET rows == {x \in snapshots : x.pair \in pairs /\ x.block = b} IN
  SumOver([r \in rows |-> r.worth], rows)

StatisticTvl(snapshots, groups, range) ==
  [i \in DOMAIN groups |->
     WorthAt(snapshots, groups[i], BlockUsed(snapshots, groups, range, i))]

------------------------------------------------------------------------------
(* What each contract holds.  held is a function from the addresses that   *)
(* hold a supported token with a price to what that is worth.              *)

(* Aqua's tokens are in its vault.  name <> 'aqua' is not true of a        *)
(* project without a name.                                                 *)
PairAddressVault(projects) ==
  {p \in DOMAIN projects : projects[p] \notin {"aqua", Unnamed}} \cup {Vault} \cup Tokens

RowOf(a) == IF a = Vault THEN AquaPair ELSE a
ProjectTvl(projects, held) ==
  {[pair |-> RowOf(a), from |-> a, tvl |-> held[a]] :
     a \in PairAddressVault(projects) \cap DOMAIN held}

(* A row of a pair that is no project yet makes it one.                    *)
ProjectsAfter(projects, rows) ==
  [p \in DOMAIN projects \cup {r.pair : r \in rows} |->
     IF p \in DOMAIN projects THEN projects[p] ELSE Unnamed]
=============================================================================
