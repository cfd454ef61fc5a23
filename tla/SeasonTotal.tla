----------------------------- MODULE SeasonTotal -----------------------------
(***************************************************************************)
(* The derived tables of a season: seasonTotalPoint, rebuilt by            *)
(* SeasonTotalPointService.handlePoint three times a day, referralPoints,  *)
(* rebuilt by ReferralPointService half an hour before, and the rows of    *)
(* type "other", refreshed every second by handleOtherPoint.  Each reads   *)
(* what another wrote: the totals contain the referral points, and the     *)
(* referral points are a tenth of the totals of the invited addresses.     *)
(*                                                                         *)
(* A rebuild reads table after table, then hands its rows to               *)
(* useTransaction, which returns at once: the delete and the insert commit *)
(* while the job counts as ended.                                          *)
(*                                                                         *)
(* A season row is keyed by <<type, user, pair>>.  A ledger row is worth   *)
(* Unit points, a hundred, so that a tenth of a tenth is still visible.    *)
(***************************************************************************)
EXTENDS Naturals, FiniteSets, Sums

CONSTANTS
  User,          \* addresses
  Vault,         \* the addresses of getPairAddressValut
  Pair,          \* pools, apart from the pair of direct holdings
  Block,         \* block numbers
  First, After,  \* startBlockNumber and endBlockNumber of the season
  Gifted,        \* bound: the addresses points are given to outside the pipeline
  MaxRows,       \* bound: rows of the two ledgers
  MaxInvites,    \* bound: how often the table of referrers changes
  MaxOther,      \* bound: points given outside the pipeline
  MaxFaults      \* bound: failed jobs and ends of the process, together

ASSUME SeasonAssumption ==
  /\ IsFiniteSet(User) /\ IsFiniteSet(Pair)  \* addresses have twenty bytes
  /\ Vault \subseteq User /\ Gifted \subseteq User
  /\ Block \subseteq Nat /\ {First, After} \subseteq Nat
ASSUME SeasonBoundAssumption ==
  {MaxRows, MaxInvites, MaxOther, MaxFaults} \subseteq Nat

Unit      == 100
Nobody    == "nobody"    \* an address nobody invited
HoldPair  == "hold"      \* ZERO_HASH_64
OtherPair == "other"     \* OTHER_HASH_64
Places    == Pair \cup {HoldPair}
Ledger    == {"directHold", "tvl"}
Credits   == ({"directHold"} \X User \X {HoldPair} \X Block) \cup ({"tvl"} \X User \X Pair \X Block)
Source    == {"points", "supplementPoint"}
Job       == {"totals", "referral", "other"}
Empty     == [k \in {} |-> 0]

VARIABLES
  credited,        \* rows of blockAddressPoint and blockAddressPointOfLp
  given,           \* the tables points and supplementPoint
  referrer,        \* the table referrers
  seasonTotal,     \* seasonTotalPoint, of this season
  referralPoints,  \* referralPoints, of this season
  pc,              \* per job: what it reads next
  read,            \* per job: what it has read
  open,            \* per job: {rows} while its transaction runs, else {}
  invites, faults

tables == <<credited, given, referrer, seasonTotal, referralPoints>>
locals == <<pc, read, open>>
bounds == <<invites, faults>>
vars   == <<tables, locals, bounds>>

------------------------------------------------------------------------------
(* The queries. *)

Join(f, g) == [k \in DOMAIN f \cup DOMAIN g |-> IF k \in DOMAIN g THEN g[k] ELSE f[k]]

InSeason(b) == First <= b /\ b < After

(* SUM(points) GROUP BY address, pair and type over the season's blocks.   *)
SumBy(type) ==
  LET rows == {c \in credited : c[1] = type /\ InSeason(c[4])}
  IN  [k \in {<<type, c[2], c[3]>> : c \in rows} |->
         Unit * Cardinality({c \in rows : <<type, c[2], c[3]>> = k})]

(* getDirectHoldPoint: what a project's vault holds belongs to the users   *)
(* of the project.                                                         *)
DirectHoldPoint == LET all == SumBy("directHold")
                   IN  [k \in {x \in DOMAIN all : x[2] \notin Vault} |-> all[k]]

LpPoint == SumBy("tvl")

ReferralPoint == [k \in {<<"referral", x[1], x[2]>> : x \in DOMAIN referralPoints} |->
                    referralPoints[<<k[2], k[3]>>]]

(* Mutant of StakePoint: the referral rows are not left out. *)
StakePointCompounds(total, invited) ==
  [k \in {x \in DOMAIN total : x[2] \in invited /\ x[1] # "other"} |-> total[k]]

(* getPointByAddresses: the season's rows of the invited addresses.        *)
StakePoint(total, invited) ==
  [k \in {x \in DOMAIN total : x[2] \in invited /\ x[1] \notin {"referral", "other"}} |-> total[k]]

(* A tenth of every row of an invited address goes to the address that     *)
(* invited it, added up by address and pair (REFERRAL_BOOSTER).            *)
Tenths(ref, stake) ==
  LET kept == {k \in DOMAIN stake : stake[k] > 0}
  IN  [a \in {<<ref[k[2]], k[3]>> : k \in kept} |->
         SumOver([k \in kept |-> stake[k] \div 10], {k \in kept : <<ref[k[2]], k[3]>> = a})]

OtherPoint(daily, supplement) ==
  [k \in {<<"other", u, OtherPair>> : u \in {x \in User : daily[x] + supplement[x] > 0}} |->
     daily[k[2]] + supplement[k[2]]]

------------------------------------------------------------------------------
Init ==
  /\ credited = {}
  /\ given = [s \in Source |-> [u \in User |-> 0]]
  /\ referrer = [u \in User |-> Nobody]
  /\ seasonTotal = Empty /\ referralPoints = Empty
  /\ pc = [j \in Job |-> "idle"]
  /\ read = [j \in Job |-> Empty]
  /\ open = [j \in Job |-> {}]
  /\ invites = 0 /\ faults = 0

(* The workers of the other modules pay points. *)
Pay(c) ==
  /\ c \in Credits \ credited /\ Cardinality(credited) < MaxRows
  /\ credited' = credited \cup {c}
  /\ UNCHANGED <<given, referrer, seasonTotal, referralPoints, locals, bounds>>

(* Points are given out by the application behind the two tables. *)
Give(s, u) ==
  /\ SumOver([t \in Source |-> SumOver(given[t], User)], Source) < MaxOther
  /\ given' = [given EXCEPT ![s][u] = @ + 1]
  /\ UNCHANGED <<credited, referrer, seasonTotal, referralPoints, locals, bounds>>

(* An address enters, or changes, the address that invited it.  A vault,   *)
(* being a contract, invites nobody.                                       *)
Invite(u, r) ==
  /\ invites < MaxInvites /\ r # u /\ referrer[u] # r
  /\ invites' = invites + 1
  /\ referrer' = [referrer EXCEPT ![u] = r]
  /\ UNCHANGED <<credited, given, seasonTotal, referralPoints, locals, faults>>

------------------------------------------------------------------------------
(* A step of job j: at `from`, having read `got` so far.                   *)
Reads(j, from, to, got) ==
  /\ pc[j] = from
  /\ pc' = [pc EXCEPT ![j] = to]
  /\ read' = [read EXCEPT ![j] = got]
  /\ UNCHANGED <<tables, bounds>>

(* Mutant of Opens: the job stays where it is. *)
OpensAgain(j, from, rows) ==
  /\ pc[j] = from
  /\ open' = [open EXCEPT ![j] = @ \cup {rows}]
  /\ UNCHANGED <<tables, bounds, pc, read>>

(* The last read of a job: its rows go to a transaction it does not wait   *)
(* for.                                                                    *)
Opens(j, from, rows) ==
  /\ Reads(j, from, "idle", Empty)
  /\ open' = [open EXCEPT ![j] = {rows}]

(* handlePoint.  Eight hours are taken to outlast a transaction.           *)
ReadDirectHold == /\ open["totals"] = {}
                  /\ Reads("totals", "idle", "lp", DirectHoldPoint) /\ UNCHANGED open

ReadLp == Reads("totals", "lp", "referral", Join(read["totals"], LpPoint)) /\ UNCHANGED open

ReadReferral == Opens("totals", "referral", Join(read["totals"], ReferralPoint))

(* handleReferralPoint: the referrers, then the season's rows.             *)
ReadReferrers == /\ open["referral"] = {}
                 /\ Reads("referral", "idle", "stake", referrer) /\ UNCHANGED open

ReadStake ==
  LET ref     == read["referral"]
      invited == {u \in DOMAIN ref : ref[u] # Nobody}
  IN  Opens("referral", "stake", Tenths(ref, StakePoint(seasonTotal, invited)))

(* Mutant of DeleteBySeason: the rows of type "other" go as well. *)
DeleteBySeasonAll(total) == Empty

(* deleteBySeason keeps the rows of type "other".                          *)
DeleteBySeason(total) == [k \in {x \in DOMAIN total : x[1] = "other"} |-> total[k]]

CommitTotals ==
  /\ \E rows \in open["totals"] : seasonTotal' = Join(DeleteBySeason(seasonTotal), rows)
  /\ open' = [open EXCEPT !["totals"] = {}]
  /\ UNCHANGED <<credited, given, referrer, referralPoints, pc, read, bounds>>

(* Mutant of CommitReferral: rows are inserted or updated, none deleted. *)
CommitReferralNoDelete ==
  /\ \E rows \in open["referral"] : referralPoints' = Join(referralPoints, rows)
  /\ open' = [open EXCEPT !["referral"] = {}]
  /\ UNCHANGED <<credited, given, referrer, seasonTotal, pc, read, bounds>>

CommitReferral ==
  /\ \E rows \in open["referral"] : referralPoints' = rows
  /\ open' = [open EXCEPT !["referral"] = {}]
  /\ UNCHANGED <<credited, given, referrer, seasonTotal, pc, read, bounds>>

(* handleOtherPoint: two reads and an upsert, with no transaction.         *)
ReadPoints == Reads("other", "idle", "supplement", given["points"]) /\ UNCHANGED open

ReadSupplement ==
  Reads("other", "supplement", "write", OtherPoint(read["other"], given["supplementPoint"]))
  /\ UNCHANGED open

UpsertOther ==
  /\ pc["other"] = "write"
  /\ pc' = [pc EXCEPT !["other"] = "idle"]
  /\ read' = [read EXCEPT !["other"] = Empty]
  /\ seasonTotal' = Join(seasonTotal, read["other"])
  /\ UNCHANGED <<credited, given, referrer, referralPoints, open, bounds>>

------------------------------------------------------------------------------
(* A query throws; the job logs it and ends. *)
JobFails(j) ==
  /\ pc[j] # "idle" /\ faults < MaxFaults
  /\ faults' = faults + 1
  /\ pc' = [pc EXCEPT ![j] = "idle"]
  /\ read' = [read EXCEPT ![j] = Empty]
  /\ UNCHANGED <<tables, open, invites>>

(* The process ends; so it does when a transaction fails, whose rejection  *)
(* the try block of the job no longer covers.                              *)
Crash ==
  /\ faults < MaxFaults
  /\ faults' = faults + 1
  /\ pc' = [j \in Job |-> "idle"]
  /\ read' = [j \in Job |-> Empty]
  /\ open' = [j \in Job |-> {}]
  /\ UNCHANGED <<tables, invites>>

------------------------------------------------------------------------------
TotalsStep   == ReadDirectHold \/ ReadLp \/ ReadReferral
ReferralStep == ReadReferrers \/ ReadStake
OtherStep    == ReadPoints \/ ReadSupplement \/ UpsertOther

Next ==
  \/ \E c \in Credits : Pay(c)
  \/ \E s \in Source, u \in Gifted : Give(s, u)
  \/ \E u \in User, r \in User \ Vault : Invite(u, r)
  \/ TotalsStep \/ CommitTotals
  \/ ReferralStep \/ CommitReferral
  \/ OtherStep
  \/ \E j \in Job : JobFails(j)
  \/ Crash

(* The two cron schedules and the one-second loop come round for ever, and *)
(* the database answers every transaction.                                 *)
Fairness ==
  /\ WF_vars(TotalsStep) /\ WF_vars(CommitTotals)
  /\ WF_vars(ReferralStep) /\ WF_vars(CommitReferral)
  /\ WF_vars(OtherStep)

Spec == Init /\ [][Next]_vars /\ Fairness

------------------------------------------------------------------------------
(* Properties. *)

SeasonKey == (Ledger \cup {"referral"}) \X User \X Places \cup {"other"} \X User \X {OtherPair}
IsTable(f, keys) == DOMAIN f \subseteq keys /\ \A k \in DOMAIN f : f[k] \in Nat

TypeOK ==
  /\ credited \subseteq Credits
  /\ given \in [Source -> [User -> 0..MaxOther]]
  /\ referrer \in [User -> User \cup {Nobody}]
  /\ IsTable(seasonTotal, SeasonKey) /\ IsTable(referralPoints, User \X Places)
  /\ pc \in [Job -> {"idle", "lp", "referral", "stake", "supplement", "write"}]
  /\ pc["totals"] # "idle" => IsTable(read["totals"], SeasonKey)
  /\ pc["referral"] # "idle" => read["referral"] \in [User -> User \cup {Nobody}]
  /\ pc["other"] = "supplement" => read["other"] \in [User -> Nat]
  /\ \A rows \in open["totals"] : IsTable(rows, SeasonKey)
  /\ \A rows \in open["referral"] : IsTable(rows, User \X Places)
  /\ open["other"] = {} /\ \A j \in Job : Cardinality(open[j]) <= 1

Paid(p) == Unit * Cardinality({c \in credited : c[3] = p /\ InSeason(c[4])})

(* All referral points of a pair together are at most a tenth of the       *)
(* points the ledgers paid in it, in both tables and at any time, although *)
(* the referral points are computed from a table that contains them,       *)
(* people invite each other in circles and change who invited them.        *)
ReferralIsATenth ==
  \A p \in Places :
    /\ 10 * SumOver(referralPoints, {k \in DOMAIN referralPoints : k[2] = p}) <= Paid(p)
    /\ 10 * SumOver(seasonTotal, {k \in DOMAIN seasonTotal : k[1] = "referral" /\ k[3] = p})
         <= Paid(p)

(* The rebuild of the season deletes and inserts in the table that the     *)
(* one-second loop upserts into: what is there of the points of type       *)
(* "other" never leaves it and never shrinks.                              *)
OtherRowsSurvive ==
  [][\A k \in DOMAIN seasonTotal :
       k[1] = "other" => k \in DOMAIN seasonTotal' /\ seasonTotal[k] <= seasonTotal'[k]]_vars

(* What the tables say when nothing is left to catch up with.              *)
Stake   == Join(DirectHoldPoint, LpPoint)
Invited == {u \in User : referrer[u] # Nobody}
Settled ==
  /\ referralPoints = Tenths(referrer, StakePoint(Stake, Invited))
  /\ seasonTotal = Join(Join(Stake, ReferralPoint),
                        OtherPoint(given["points"], given["supplementPoint"]))

(* Once points and invitations stop, the tables come to agree with the     *)
(* ledgers, in spite of stale reads, failed jobs and a crash: a row of an  *)
(* invitation that no longer exists goes too.                              *)
SeasonSettles == <>[]Settled

==============================================================================
