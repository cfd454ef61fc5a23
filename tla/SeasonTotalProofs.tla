-------------------------- MODULE SeasonTotalProofs --------------------------
(***************************************************************************)
(* Theorems about SeasonTotal for every set of addresses, vaults, pools    *)
(* and blocks, and any number of rows, invitations, gifts and failures.    *)
(***************************************************************************)
EXTENDS SeasonTotal, DataTheorems, TLAPS

(* What a job has read, and what a transaction is about to insert, is of   *)
(* the types that job deals with.                                          *)
OfTypes(f, types) == \A k \in DOMAIN f : k[1] \in types
Types ==
  /\ pc["totals"] = "lp" => OfTypes(read["totals"], {"directHold"})
  /\ pc["totals"] = "referral" => OfTypes(read["totals"], Ledger)
  /\ pc["other"] = "write" => IsTable(read["other"], {"other"} \X User \X {OtherPair})
  /\ \A rows \in open["totals"] : OfTypes(rows, Ledger \cup {"referral"})

(* The points of type "other" of an address never exceed those it was      *)
(* given, nor what handleOtherPoint is about to write.                     *)
OtherWithin(f, most) == \A k \in DOMAIN f : k[1] = "other" => f[k] <= most[k[2]]
Given == [u \in User |-> given["points"][u] + given["supplementPoint"][u]]
GivenFrom(points) == [u \in User |-> points[u] + given["supplementPoint"][u]]
OthersGrow ==
  /\ OtherWithin(seasonTotal, Given)
  /\ pc["other"] = "supplement" =>
       /\ \A u \in User : read["other"][u] <= given["points"][u]
       /\ OtherWithin(seasonTotal, GivenFrom(read["other"]))
  /\ pc["other"] = "write" =>
       /\ OtherWithin(read["other"], Given)
       /\ \A k \in DOMAIN seasonTotal \cap DOMAIN read["other"] : seasonTotal[k] <= read["other"][k]

(* The rows of a type and a pair, and the sum of their points.  Of the two *)
(* ledgers they never exceed what was paid, ten times the referral points  *)
(* neither: in the tables and in every copy a job or a transaction has.    *)
RowsOf(f, type, p) == {k \in DOMAIN f : k[1] = type /\ k[3] = p}
Points(f, type, p) == SumOver(f, RowsOf(f, type, p))
PaidRows(type, p)  == {c \in credited : c[1] = type /\ c[3] = p /\ InSeason(c[4])}
PaidAs(type, p)    == Unit * Cardinality(PaidRows(type, p))

LedgersWithin(f, paid)  == \A t \in Ledger, p \in Places : Points(f, t, p) <= paid[t][p]
ReferralWithin(f, paid) == \A p \in Places : 10 * Points(f, "referral", p) <= paid[p]
TenthsWithin(f, paid)   ==
  \A p \in Places : 10 * SumOver(f, {k \in DOMAIN f : k[2] = p}) <= paid[p]

PaidByType == [t \in Ledger |-> [p \in Places |-> PaidAs(t, p)]]
PaidInAll  == [p \in Places |-> Paid(p)]
TotalsWithin(f) == LedgersWithin(f, PaidByType) /\ ReferralWithin(f, PaidInAll)
Tenth ==
  /\ TotalsWithin(seasonTotal) /\ TenthsWithin(referralPoints, PaidInAll)
  /\ pc["totals"] \in {"lp", "referral"} => LedgersWithin(read["totals"], PaidByType)
  /\ \A rows \in open["totals"] : TotalsWithin(rows)
  /\ \A rows \in open["referral"] : TenthsWithin(rows, PaidInAll)

Shapes == DOMAIN read = Job /\ DOMAIN open = Job /\ IsFiniteSet(credited)
IInv == TypeOK /\ Shapes /\ Types /\ OthersGrow /\ Tenth

------------------------------------------------------------------------------
(* Tables. *)

(* The keys of the two tables are finitely many. *)
LEMMA KeysAreFinite ==
  IsFiniteSet(SeasonKey) /\ IsFiniteSet(User \X Places)
<1>1. IsFiniteSet(User) /\ IsFiniteSet(Places) /\ IsFiniteSet({OtherPair})
  BY SeasonAssumption, FS_Singleton, FS_Union DEF Places
<1>2. /\ IsFiniteSet({"directHold"}) /\ IsFiniteSet({"tvl"})
      /\ IsFiniteSet({"referral"}) /\ IsFiniteSet({"other"})
  BY FS_Singleton
<1>3. IsFiniteSet(Ledger \cup {"referral"})
  <2>1. Ledger = {"directHold"} \cup {"tvl"}
    BY DEF Ledger
  <2>2. IsFiniteSet(Ledger)
    BY <1>2, <2>1, FS_Union
  <2> QED
    BY <1>2, <2>2, FS_Union
<1>4. IsFiniteSet((Ledger \cup {"referral"}) \X User \X Places)
  BY <1>1, <1>3, FiniteTriples
<1>5. IsFiniteSet({"other"} \X User \X {OtherPair})
  BY <1>1, <1>2, FiniteTriples
<1>6. IsFiniteSet(SeasonKey)
  BY <1>4, <1>5, FS_Union DEF SeasonKey
<1>7. IsFiniteSet(User \X Places)
  BY <1>1, FS_Product
<1> QED
  BY <1>6, <1>7

(* So the rows of a type and pair are, and the points they add up to are a *)
(* number.                                                                 *)
LEMMA RowsAreFinite ==
  ASSUME NEW f, IsTable(f, SeasonKey), NEW t, NEW p
  PROVE  /\ IsFiniteSet(RowsOf(f, t, p)) /\ \A k \in RowsOf(f, t, p) : f[k] \in Nat
         /\ Points(f, t, p) \in Nat
<1>1. RowsOf(f, t, p) \in SUBSET SeasonKey /\ \A k \in RowsOf(f, t, p) : f[k] \in Nat
  BY DEF RowsOf, IsTable
<1>2. IsFiniteSet(RowsOf(f, t, p))
  BY <1>1, KeysAreFinite, FS_Subset
<1>3. Points(f, t, p) \in Nat
  BY <1>1, <1>2, SumIsNumber DEF Points
<1> QED
  BY <1>1, <1>2, <1>3

(* A table without rows of a type has no points of it. *)
LEMMA NoRowsNoPoints ==
  ASSUME NEW f, NEW t, \A k \in DOMAIN f : k[1] # t, NEW p
  PROVE  Points(f, t, p) = 0
<1>1. RowsOf(f, t, p) = {}
  BY DEF RowsOf
<1> QED
  BY <1>1, SumEmpty DEF Points

(* Tables with the same rows of a type have the same points of it. *)
LEMMA SameRowsSamePoints ==
  ASSUME NEW f, IsTable(f, SeasonKey), NEW g, NEW t,
         \A k \in DOMAIN f : k[1] = t => k \in DOMAIN g /\ f[k] = g[k],
         \A k \in DOMAIN g : k[1] = t => k \in DOMAIN f,
         NEW p
  PROVE  Points(g, t, p) = Points(f, t, p)
<1>1. RowsOf(g, t, p) = RowsOf(f, t, p)
  BY DEF RowsOf
<1>2. \A k \in RowsOf(f, t, p) : f[k] \in Nat /\ f[k] = g[k]
  BY DEF RowsOf, IsTable
<1>3. SumOver(f, RowsOf(f, t, p)) = SumOver(g, RowsOf(f, t, p))
  BY <1>2, RowsAreFinite, SumSame
<1> QED
  BY <1>1, <1>3 DEF Points

(* Join takes the rows of the second table, and those of the first that    *)
(* the second does not have.                                               *)
LEMMA JoinFacts ==
  ASSUME NEW f, NEW g
  PROVE  /\ DOMAIN Join(f, g) = DOMAIN f \cup DOMAIN g
         /\ \A k \in DOMAIN g : Join(f, g)[k] = g[k]
         /\ \A k \in DOMAIN f \ DOMAIN g : Join(f, g)[k] = f[k]
BY DEF Join

(* What Join keeps of the types of its tables and of their points.         *)
LEMMA JoinKeeps ==
  ASSUME NEW f, NEW g, NEW keys, IsTable(f, keys), IsTable(g, keys)
  PROVE  /\ IsTable(Join(f, g), keys)
         /\ \A R, S : OfTypes(f, R) /\ OfTypes(g, S) => OfTypes(Join(f, g), R \cup S)
<1> DEFINE h == Join(f, g)
<1>1. /\ DOMAIN h = DOMAIN f \cup DOMAIN g
      /\ \A k \in DOMAIN g : h[k] = g[k]
      /\ \A k \in DOMAIN f \ DOMAIN g : h[k] = f[k]
  BY JoinFacts
<1> HIDE DEF h
<1>2. IsTable(h, keys)
  BY <1>1 DEF IsTable
<1>3. ASSUME NEW R, NEW S, OfTypes(f, R), OfTypes(g, S)
      PROVE  OfTypes(h, R \cup S)
  BY <1>1, <1>3 DEF OfTypes
<1> QED
  BY <1>2, <1>3 DEF h

(* The points of a type only one of the two tables has rows of.            *)
LEMMA PointsOfJoin ==
  ASSUME NEW f, NEW g, IsTable(f, SeasonKey), IsTable(g, SeasonKey), NEW t, NEW p
  PROVE  /\ (\A k \in DOMAIN g : k[1] # t) => Points(Join(f, g), t, p) = Points(f, t, p)
         /\ (\A k \in DOMAIN f : k[1] # t) => Points(Join(f, g), t, p) = Points(g, t, p)
<1> DEFINE h == Join(f, g)
<1>1. /\ DOMAIN h = DOMAIN f \cup DOMAIN g
      /\ \A k \in DOMAIN g : h[k] = g[k]
      /\ \A k \in DOMAIN f \ DOMAIN g : h[k] = f[k]
  BY JoinFacts
<1> HIDE DEF h
<1>2. ASSUME \A k \in DOMAIN g : k[1] # t
      PROVE  Points(h, t, p) = Points(f, t, p)
  <2>1. \A k \in DOMAIN f : k[1] = t => k \in DOMAIN h /\ f[k] = h[k]
    BY <1>1, <1>2
  <2>2. \A k \in DOMAIN h : k[1] = t => k \in DOMAIN f
    BY <1>1, <1>2
  <2> QED
    BY <2>1, <2>2, SameRowsSamePoints
<1>3. ASSUME \A k \in DOMAIN f : k[1] # t
      PROVE  Points(h, t, p) = Points(g, t, p)
  <2>1. \A k \in DOMAIN g : k[1] = t => k \in DOMAIN h /\ g[k] = h[k]
    BY <1>1
  <2>2. \A k \in DOMAIN h : k[1] = t => k \in DOMAIN g
    BY <1>1, <1>3
  <2> QED
    BY <2>1, <2>2, SameRowsSamePoints
<1> QED
  BY <1>2, <1>3 DEF h

(* Points within what is paid stay within what is more.                     *)
LEMMA WithinMore ==
  ASSUME NEW f, IsTable(f, SeasonKey),
         NEW paid \in [Ledger -> [Places -> Nat]], NEW paid2 \in [Ledger -> [Places -> Nat]],
         \A t \in Ledger, p \in Places : paid[t][p] <= paid2[t][p],
         NEW all \in [Places -> Nat], NEW all2 \in [Places -> Nat],
         \A p \in Places : all[p] <= all2[p]
  PROVE  /\ LedgersWithin(f, paid) => LedgersWithin(f, paid2)
         /\ ReferralWithin(f, all) => ReferralWithin(f, all2)
<1>1. ASSUME LedgersWithin(f, paid), NEW t \in Ledger, NEW p \in Places
      PROVE  Points(f, t, p) <= paid2[t][p]
  <2> DEFINE n == Points(f, t, p)
  <2>1. n \in Nat /\ n <= paid[t][p]
    BY <1>1, RowsAreFinite DEF LedgersWithin
  <2> HIDE DEF n
  <2>2. paid[t][p] \in Nat /\ paid2[t][p] \in Nat /\ paid[t][p] <= paid2[t][p]
    OBVIOUS
  <2>3. n <= paid2[t][p]
    BY <2>1, <2>2
  <2> QED
    BY <2>3 DEF n
<1>2. ASSUME ReferralWithin(f, all), NEW p \in Places
      PROVE  10 * Points(f, "referral", p) <= all2[p]
  <2> DEFINE n == Points(f, "referral", p)
  <2>1. n \in Nat /\ 10 * n <= all[p]
    BY <1>2, RowsAreFinite DEF ReferralWithin
  <2> HIDE DEF n
  <2>2. all[p] \in Nat /\ all2[p] \in Nat /\ all[p] <= all2[p]
    OBVIOUS
  <2>3. 10 * n <= all2[p]
    BY <2>1, <2>2
  <2> QED
    BY <2>3 DEF n
<1> QED
  BY <1>1, <1>2 DEF LedgersWithin, ReferralWithin

------------------------------------------------------------------------------
(* The queries. *)

(* Rows of the ledgers are finitely many, so what they pay is a number;    *)
(* what is paid in a pair is what both ledgers pay in it.                  *)
LEMMA PaidFacts ==
  ASSUME credited \subseteq Credits, IsFiniteSet(credited)
  PROVE  /\ PaidByType \in [Ledger -> [Places -> Nat]] /\ PaidInAll \in [Places -> Nat]
         /\ \A t, p : IsFiniteSet(PaidRows(t, p)) /\ PaidAs(t, p) \in Nat
         /\ \A p : Paid(p) = PaidAs("directHold", p) + PaidAs("tvl", p)
<1>1. ASSUME NEW S \in SUBSET credited
      PROVE  IsFiniteSet(S) /\ Cardinality(S) \in Nat /\ Unit * Cardinality(S) \in Nat
  <2>1. IsFiniteSet(S)
    BY FS_Subset
  <2>2. Cardinality(S) \in Nat
    BY <2>1, FS_CardinalityType
  <2> QED
    BY <2>1, <2>2 DEF Unit
<1>2. \A t, p : PaidRows(t, p) \in SUBSET credited
  BY DEF PaidRows
<1>3. \A t, p : IsFiniteSet(PaidRows(t, p)) /\ PaidAs(t, p) \in Nat
  BY <1>1, <1>2 DEF PaidAs
<1>4. ASSUME NEW p PROVE Paid(p) = PaidAs("directHold", p) + PaidAs("tvl", p)
  <2> DEFINE D == PaidRows("directHold", p)
             L == PaidRows("tvl", p)
             S == {c \in credited : c[3] = p /\ InSeason(c[4])}
  <2>1. S = D \cup L /\ D \cap L = {}
    <3>1. \A c \in credited : c[1] = "directHold" \/ c[1] = "tvl"
      BY DEF Credits
    <3> QED
      BY <3>1 DEF PaidRows
  <2>2. IsFiniteSet(D) /\ IsFiniteSet(L) /\ Cardinality(D) \in Nat /\ Cardinality(L) \in Nat
    BY <1>1, <1>2
  <2>3. Paid(p) = Unit * Cardinality(S)
    BY DEF Paid
  <2>4. PaidAs("directHold", p) = Unit * Cardinality(D) /\ PaidAs("tvl", p) = Unit * Cardinality(L)
    BY DEF PaidAs
  <2> HIDE DEF S, D, L
  <2>5. Cardinality(D \cup L) = Cardinality(D) + Cardinality(L) - Cardinality(D \cap L)
    BY <2>2, FS_Union
  <2>6. Cardinality(S) = Cardinality(D) + Cardinality(L)
    <3>1. Cardinality(S) = Cardinality(D \cup L) /\ Cardinality(D \cap L) = Cardinality({})
      BY <2>1
    <3>2. Cardinality({}) = 0
      BY FS_EmptySet
    <3> QED
      BY <2>2, <2>5, <3>1, <3>2
  <2> QED
    BY <2>2, <2>3, <2>4, <2>6 DEF Unit
<1>5. PaidByType \in [Ledger -> [Places -> Nat]]
  BY <1>3 DEF PaidByType
<1>6. \A p \in Places : Paid(p) \in Nat
  <2> SUFFICES ASSUME NEW p \in Places PROVE Paid(p) \in Nat
    OBVIOUS
  <2>1. PaidAs("directHold", p) \in Nat /\ PaidAs("tvl", p) \in Nat
    BY <1>3
  <2> QED
    BY <1>4, <2>1
<1> QED
  BY <1>3, <1>4, <1>5, <1>6 DEF PaidInAll

(* The rows of SumBy are of its type, and add up to what that ledger paid. *)
LEMMA SumByFacts ==
  ASSUME credited \subseteq Credits, IsFiniteSet(credited), NEW t \in Ledger
  PROVE  /\ IsTable(SumBy(t), SeasonKey) /\ OfTypes(SumBy(t), {t})
         /\ \A p : Points(SumBy(t), t, p) = PaidAs(t, p)
<1> DEFINE rows == {c \in credited : c[1] = t /\ InSeason(c[4])}
           m    == [c \in credited |-> <<t, c[2], c[3]>>]
           one  == [c \in credited |-> Unit]
           f    == SumBy(t)
<1>1. DOMAIN f = {m[c] : c \in rows}
  BY DEF SumBy
<1>2. \A k \in DOMAIN f : f[k] = Unit * Cardinality(Class(rows, m, k))
  BY DEF SumBy, Class
<1>3. IsFiniteSet(rows)
  BY FS_Subset
<1>4. \A c \in rows : /\ one[c] = Unit /\ one[c] \in Nat /\ m[c] \in SeasonKey
                      /\ m[c][1] = t /\ m[c][3] = c[3]
  BY DEF SeasonKey, Credits, Places, Ledger, Unit
<1>5. \A p : PaidRows(t, p) = {c \in rows : c[3] = p}
  BY DEF PaidRows
<1> HIDE DEF rows, m, one, f
<1>6. \A k : /\ IsFiniteSet(Class(rows, m, k)) /\ Cardinality(Class(rows, m, k)) \in Nat
             /\ Unit * Cardinality(Class(rows, m, k)) \in Nat
  <2> SUFFICES ASSUME NEW k
               PROVE  /\ IsFiniteSet(Class(rows, m, k)) /\ Cardinality(Class(rows, m, k)) \in Nat
                      /\ Unit * Cardinality(Class(rows, m, k)) \in Nat
    OBVIOUS
  <2>1. IsFiniteSet(Class(rows, m, k))
    BY <1>3, FS_Subset DEF Class
  <2>2. Cardinality(Class(rows, m, k)) \in Nat
    BY <2>1, FS_CardinalityType
  <2> QED
    BY <2>1, <2>2 DEF Unit
<1>7. \A k \in DOMAIN f : k \in SeasonKey /\ k[1] = t /\ f[k] \in Nat
  BY <1>1, <1>2, <1>4, <1>6
<1>8. ASSUME NEW p PROVE Points(f, t, p) = PaidAs(t, p)
  <2> DEFINE A == RowsOf(f, t, p)
  <2>1. A \subseteq DOMAIN f /\ A \in SUBSET SeasonKey
    BY <1>7 DEF RowsOf
  <2>2. IsFiniteSet(A)
    BY <2>1, KeysAreFinite, FS_Subset
  <2>3. Classes(rows, m, A) = PaidRows(t, p)
    BY <1>1, <1>4, <1>5 DEF RowsOf, Classes
  <2> HIDE DEF A
  <2>4. \A k \in A : f[k] = SumOver(one, Class(rows, m, k))
    <3> SUFFICES ASSUME NEW k \in A PROVE f[k] = SumOver(one, Class(rows, m, k))
      OBVIOUS
    <3> DEFINE s == Class(rows, m, k)
    <3>1. IsFiniteSet(s) /\ Unit \in Nat /\ \A c \in s : one[c] = Unit
      BY <1>4, <1>6, <2>1 DEF Unit, Class
    <3>2. f[k] = Unit * Cardinality(s)
      BY <1>2, <2>1
    <3> HIDE DEF s
    <3>3. SumOver(one, s) = Unit * Cardinality(s)
      BY <3>1, SumOfEqual
    <3>4. f[k] = SumOver(one, s)
      BY <3>2, <3>3
    <3> QED
      BY <3>4 DEF s
  <2>5. \A c \in rows : one[c] \in Nat
    BY <1>4
  <2>6. SumOver(f, A) = SumOver(one, Classes(rows, m, A))
    BY <1>3, <2>2, <2>4, <2>5, SumByClass
  <2>7. SumOver(one, PaidRows(t, p)) = Unit * Cardinality(PaidRows(t, p))
    <3>1. IsFiniteSet(PaidRows(t, p)) /\ Unit \in Nat /\ \A c \in PaidRows(t, p) : one[c] = Unit
      BY <1>4, <1>5, PaidFacts DEF Unit
    <3> QED
      BY <3>1, SumOfEqual
  <2> QED
    BY <2>3, <2>6, <2>7 DEF Points, PaidAs, A
<1>9. IsTable(f, SeasonKey) /\ OfTypes(f, {t})
  BY <1>7 DEF IsTable, OfTypes
<1> QED
  BY <1>8, <1>9 DEF f

(* What the totals read of the ledgers. *)
LEMMA LedgerQueries ==
  ASSUME credited \subseteq Credits, IsFiniteSet(credited)
  PROVE  /\ IsTable(DirectHoldPoint, SeasonKey) /\ OfTypes(DirectHoldPoint, {"directHold"})
         /\ IsTable(LpPoint, SeasonKey) /\ OfTypes(LpPoint, {"tvl"})
         /\ \A p : Points(DirectHoldPoint, "directHold", p) <= PaidAs("directHold", p)
         /\ \A p : Points(LpPoint, "tvl", p) = PaidAs("tvl", p)
<1> DEFINE all == SumBy("directHold")
           f   == DirectHoldPoint
<1>1. DOMAIN f \subseteq DOMAIN all /\ \A k \in DOMAIN f : f[k] = all[k]
  BY DEF DirectHoldPoint
<1>2. /\ IsTable(all, SeasonKey) /\ OfTypes(all, {"directHold"})
      /\ \A p : Points(all, "directHold", p) = PaidAs("directHold", p)
  BY SumByFacts DEF Ledger
<1> HIDE DEF all, f
<1>3. IsTable(f, SeasonKey) /\ OfTypes(f, {"directHold"})
  BY <1>1, <1>2 DEF IsTable, OfTypes
<1>4. ASSUME NEW p PROVE Points(f, "directHold", p) <= PaidAs("directHold", p)
  <2> DEFINE S == RowsOf(f, "directHold", p)
             T == RowsOf(all, "directHold", p)
  <2>1. S \in SUBSET T /\ \A k \in S : f[k] = all[k]
    BY <1>1 DEF RowsOf
  <2>2. IsFiniteSet(T) /\ (\A k \in S : f[k] \in Nat) /\ (\A k \in T : all[k] \in Nat)
    BY <1>2, <1>3, RowsAreFinite
  <2> HIDE DEF S, T
  <2>3. \A k \in S : f[k] \in Nat /\ f[k] <= all[k]
    BY <2>1, <2>2
  <2>4. SumOver(f, S) <= SumOver(all, T)
    BY <2>1, <2>2, <2>3, SumLeq
  <2> QED
    BY <1>2, <2>4 DEF Points, S, T
<1>5. /\ IsTable(LpPoint, SeasonKey) /\ OfTypes(LpPoint, {"tvl"})
      /\ \A p : Points(LpPoint, "tvl", p) = PaidAs("tvl", p)
  BY SumByFacts DEF Ledger, LpPoint
<1> QED
  BY <1>3, <1>4, <1>5 DEF f

(* A sum of one number. *)
LEMMA SumOfOne ==
  ASSUME NEW f, NEW x, f[x] \in Nat
  PROVE  SumOver(f, {x}) = f[x]
<1>1. SumOver(f, {x}) = f[x] + SumOver(f, {x} \ {x})
  BY FS_Singleton, SumRemove
<1>2. SumOver(f, {}) = 0 /\ {x} \ {x} = {}
  BY SumEmpty
<1> QED
  BY <1>1, <1>2

(* The totals contain the referral points as they are. *)
LEMMA ReferralQuery ==
  ASSUME IsTable(referralPoints, User \X Places)
  PROVE  /\ IsTable(ReferralPoint, SeasonKey) /\ OfTypes(ReferralPoint, {"referral"})
         /\ \A p : Points(ReferralPoint, "referral", p)
                     = SumOver(referralPoints, {k \in DOMAIN referralPoints : k[2] = p})
<1> DEFINE f == referralPoints
           g == ReferralPoint
           m == [x \in DOMAIN f |-> <<"referral", x[1], x[2]>>]
<1>1. DOMAIN g = {m[x] : x \in DOMAIN f}
  BY DEF ReferralPoint
<1>2. \A x \in DOMAIN f : /\ g[m[x]] = f[x] /\ m[x] \in SeasonKey /\ m[x][1] = "referral"
                          /\ m[x][3] = x[2] /\ f[x] \in Nat
                          /\ \A y \in DOMAIN f : m[y] = m[x] => y = x
  <2> SUFFICES ASSUME NEW x \in DOMAIN f
               PROVE  /\ g[m[x]] = f[x] /\ m[x] \in SeasonKey /\ m[x][1] = "referral"
                      /\ m[x][3] = x[2] /\ f[x] \in Nat
                      /\ \A y \in DOMAIN f : m[y] = m[x] => y = x
    OBVIOUS
  <2>1. x \in User \X Places /\ f[x] \in Nat /\ \A y \in DOMAIN f : y \in User \X Places
    BY DEF IsTable
  <2>2. x = <<x[1], x[2]>> /\ \A y \in DOMAIN f : y = <<y[1], y[2]>>
    BY <2>1
  <2>3. g[m[x]] = f[<<x[1], x[2]>>]
    BY DEF ReferralPoint
  <2>4. m[x] \in SeasonKey
    BY <2>1 DEF SeasonKey
  <2> QED
    BY <2>1, <2>2, <2>3, <2>4
<1> HIDE DEF f, g, m
<1>3. IsTable(g, SeasonKey) /\ OfTypes(g, {"referral"})
  BY <1>1, <1>2 DEF IsTable, OfTypes
<1>4. ASSUME NEW p
      PROVE  Points(g, "referral", p) = SumOver(f, {k \in DOMAIN f : k[2] = p})
  <2> DEFINE A == RowsOf(g, "referral", p)
  <2>1. IsFiniteSet(A)
    BY <1>3, RowsAreFinite
  <2>2. IsFiniteSet(DOMAIN f) /\ \A x \in DOMAIN f : f[x] \in Nat
    BY KeysAreFinite, FS_Subset, <1>2 DEF IsTable, f
  <2>3. \A a \in A : g[a] = SumOver(f, Class(DOMAIN f, m, a))
    <3> SUFFICES ASSUME NEW a \in A PROVE g[a] = SumOver(f, Class(DOMAIN f, m, a))
      OBVIOUS
    <3>1. PICK x \in DOMAIN f : a = m[x]
      BY <1>1 DEF RowsOf
    <3>2. Class(DOMAIN f, m, a) = {x}
      BY <1>2, <3>1 DEF Class
    <3> HIDE DEF A
    <3>3. SumOver(f, {x}) = f[x]
      BY <1>2, SumOfOne
    <3> QED
      BY <1>2, <3>1, <3>2, <3>3
  <2>4. Classes(DOMAIN f, m, A) = {k \in DOMAIN f : k[2] = p}
    BY <1>1, <1>2 DEF RowsOf, Classes
  <2> HIDE DEF A
  <2>5. SumOver(g, A) = SumOver(f, Classes(DOMAIN f, m, A))
    BY <2>1, <2>2, <2>3, SumByClass
  <2> QED
    BY <2>4, <2>5 DEF Points, A
<1> QED
  BY <1>3, <1>4 DEF f, g

(* A tenth of the rows of the invited addresses: of a pair, ten times the  *)
(* tenths are no more than the points of both ledgers in that pair.        *)
LEMMA TenthsFacts ==
  ASSUME NEW ref \in [User -> User \cup {Nobody}], NEW total, IsTable(total, SeasonKey)
  PROVE  LET tenths == Tenths(ref, StakePoint(total, {u \in DOMAIN ref : ref[u] # Nobody}))
         IN  /\ IsTable(tenths, User \X Places)
             /\ \A p : 10 * SumOver(tenths, {k \in DOMAIN tenths : k[2] = p})
                         <= Points(total, "directHold", p) + Points(total, "tvl", p)
<1> DEFINE stake  == StakePoint(total, {u \in DOMAIN ref : ref[u] # Nobody})
           tenths == Tenths(ref, stake)
           kept   == {k \in DOMAIN stake : stake[k] > 0}
           m      == [k \in kept |-> <<ref[k[2]], k[3]>>]
           tenth  == [k \in kept |-> stake[k] \div 10]
           tenfold == [k \in kept |-> 10 * tenth[k]]
<1>1. /\ DOMAIN stake = {x \in DOMAIN total : /\ x[2] \in {u \in DOMAIN ref : ref[u] # Nobody}
                                              /\ x[1] \notin {"referral", "other"}}
      /\ \A k \in DOMAIN stake : stake[k] = total[k]
  BY DEF StakePoint
<1>2. /\ DOMAIN tenths = {m[k] : k \in kept}
      /\ \A a \in DOMAIN tenths : tenths[a] = SumOver(tenth, Class(kept, m, a))
  BY DEF Tenths, Class
<1>3. \A k \in kept : /\ k \in DOMAIN total /\ k \in SeasonKey /\ total[k] \in Nat
                      /\ stake[k] = total[k] /\ k[1] \in Ledger /\ k[2] \in User
                      /\ k[3] \in Places /\ ref[k[2]] \in User
                      /\ m[k] = <<ref[k[2]], k[3]>> /\ tenth[k] = total[k] \div 10
                      /\ tenfold[k] = 10 * tenth[k]
  <2> HIDE DEF stake
  <2> SUFFICES ASSUME NEW k \in kept
               PROVE  /\ k \in DOMAIN total /\ k \in SeasonKey /\ total[k] \in Nat
                      /\ stake[k] = total[k] /\ k[1] \in Ledger /\ k[2] \in User
                      /\ k[3] \in Places /\ ref[k[2]] \in User
                      /\ m[k] = <<ref[k[2]], k[3]>> /\ tenth[k] = total[k] \div 10
                      /\ tenfold[k] = 10 * tenth[k]
    OBVIOUS
  <2>1. /\ k \in DOMAIN total /\ k \in SeasonKey /\ total[k] \in Nat /\ stake[k] = total[k]
        /\ k[2] \in User /\ ref[k[2]] \in User /\ k[1] \notin {"referral", "other"}
    BY <1>1 DEF IsTable
  <2>2. k[1] \in Ledger /\ k[3] \in Places
    BY <2>1 DEF SeasonKey
  <2> QED
    BY <2>1, <2>2
<1> HIDE DEF stake, tenths, kept, m, tenth, tenfold
<1>4. IsFiniteSet(kept)
  BY <1>3, KeysAreFinite, FS_Subset
<1>5. \A k \in kept : tenth[k] \in Nat /\ tenfold[k] \in Nat /\ tenfold[k] <= total[k]
  <2>1. \A n \in Nat : n \div 10 \in Nat /\ 10 * (n \div 10) \in Nat /\ 10 * (n \div 10) <= n
    OBVIOUS
  <2> QED
    BY <1>3, <2>1
<1>6. \A S \in SUBSET kept : IsFiniteSet(S) /\ SumOver(tenth, S) \in Nat
  <2> SUFFICES ASSUME NEW S \in SUBSET kept
               PROVE  IsFiniteSet(S) /\ SumOver(tenth, S) \in Nat
    OBVIOUS
  <2>1. IsFiniteSet(S) /\ \A k \in S : tenth[k] \in Nat
    BY <1>4, <1>5, FS_Subset
  <2> QED
    BY <2>1, SumIsNumber
<1>7. IsTable(tenths, User \X Places)
  <2>1. \A a \in DOMAIN tenths : a \in User \X Places
    <3>1. ASSUME NEW k \in kept PROVE m[k] \in User \X Places
      <4>1. k[3] \in Places /\ ref[k[2]] \in User /\ m[k] = <<ref[k[2]], k[3]>>
        BY <1>3
      <4> QED
        BY <4>1
    <3> QED
      BY <1>2, <3>1
  <2>2. \A a \in DOMAIN tenths : tenths[a] \in Nat
    BY <1>2, <1>6 DEF Class
  <2> QED
    BY <2>1, <2>2 DEF IsTable
<1>8. ASSUME NEW p
      PROVE  10 * SumOver(tenths, {k \in DOMAIN tenths : k[2] = p})
               <= Points(total, "directHold", p) + Points(total, "tvl", p)
  <2> DEFINE A == {a \in DOMAIN tenths : a[2] = p}
             K == {k \in kept : k[3] = p}
             D == RowsOf(total, "directHold", p)
             L == RowsOf(total, "tvl", p)
  <2>1. IsFiniteSet(A) /\ \A a \in A : tenths[a] = SumOver(tenth, Class(kept, m, a))
    <3>1. A \in SUBSET (User \X Places)
      BY <1>7 DEF IsTable
    <3>2. IsFiniteSet(A)
      BY <3>1, KeysAreFinite, FS_Subset
    <3> QED
      BY <1>2, <3>2
  <2>2. Classes(kept, m, A) = K
    BY <1>2, <1>3 DEF Classes
  <2>3. K \in SUBSET kept /\ K \in SUBSET (D \cup L) /\ D \cap L = {}
    BY <1>3 DEF RowsOf, Ledger
  <2>4. /\ IsFiniteSet(D) /\ IsFiniteSet(L) /\ \A k \in D \cup L : total[k] \in Nat
        /\ Points(total, "directHold", p) = SumOver(total, D)
        /\ Points(total, "tvl", p) = SumOver(total, L)
    BY RowsAreFinite DEF Points
  <2> HIDE DEF A, K, D, L
  <2>5. SumOver(tenths, A) = SumOver(tenth, K)
    <3>1. \A k \in kept : tenth[k] \in Nat
      BY <1>5
    <3>2. SumOver(tenths, A) = SumOver(tenth, Classes(kept, m, A))
      BY <1>4, <2>1, <3>1, SumByClass
    <3> QED
      BY <2>2, <3>2
  <2>6. IsFiniteSet(K) /\ \A k \in K : tenth[k] \in Nat /\ tenfold[k] \in Nat /\ tenfold[k] <= total[k]
    BY <1>5, <1>6, <2>3
  <2>7. SumOver(tenfold, K) = 10 * SumOver(tenth, K)
    <3> DEFINE h == [k \in K |-> 10 * tenth[k]]
    <3>1. SumOver(h, K) = 10 * SumOver(tenth, K)
      <4>1. 10 \in Nat /\ \A k \in K : tenth[k] \in Nat
        BY <2>6
      <4> QED
        BY <2>6, <4>1, SumScaled
    <3>2. \A k \in K : tenfold[k] \in Nat /\ tenfold[k] = h[k]
      BY <1>3, <2>3, <2>6
    <3> HIDE DEF h
    <3>3. SumOver(tenfold, K) = SumOver(h, K)
      BY <2>6, <3>2, SumSame
    <3> QED
      BY <3>1, <3>3
  <2>8. SumOver(tenfold, K) <= SumOver(total, D \cup L)
    <3>1. IsFiniteSet(D \cup L)
      BY <2>4, FS_Union
    <3> QED
      BY <2>3, <2>4, <2>6, <3>1, SumLeq
  <2>9. SumOver(total, D \cup L) = SumOver(total, D) + SumOver(total, L)
    BY <2>3, <2>4, SumUnion
  <2>10. 10 * SumOver(tenths, A) <= Points(total, "directHold", p) + Points(total, "tvl", p)
    BY <2>4, <2>5, <2>7, <2>8, <2>9
  <2> QED
    BY <2>10 DEF A
<1> QED
  BY <1>7, <1>8 DEF stake, tenths

(* The rows of type "other" that are about to be written. *)
LEMMA OtherQuery ==
  ASSUME NEW daily \in [User -> Nat], NEW supplement \in [User -> Nat]
  PROVE  LET rows == OtherPoint(daily, supplement)
         IN  /\ IsTable(rows, {"other"} \X User \X {OtherPair}) /\ IsTable(rows, SeasonKey)
             /\ \A k \in DOMAIN rows : rows[k] = daily[k[2]] + supplement[k[2]]
<1> DEFINE rows == OtherPoint(daily, supplement)
<1>1. \A k \in DOMAIN rows : /\ k \in {"other"} \X User \X {OtherPair}
                             /\ rows[k] = daily[k[2]] + supplement[k[2]]
  BY DEF OtherPoint
<1>2. \A u \in User : daily[u] + supplement[u] \in Nat
  OBVIOUS
<1>3. \A k \in DOMAIN rows : k[2] \in User /\ k \in SeasonKey
  BY <1>1 DEF SeasonKey
<1> HIDE DEF rows
<1>4. \A k \in DOMAIN rows : rows[k] \in Nat
  BY <1>1, <1>2, <1>3
<1> QED
  BY <1>1, <1>3, <1>4 DEF IsTable, rows

(* What the deletion leaves is of type "other". *)
LEMMA DeleteFacts ==
  ASSUME NEW total, IsTable(total, SeasonKey)
  PROVE  /\ IsTable(DeleteBySeason(total), SeasonKey) /\ OfTypes(DeleteBySeason(total), {"other"})
         /\ \A k \in DOMAIN total : k[1] = "other" =>
              k \in DOMAIN DeleteBySeason(total) /\ DeleteBySeason(total)[k] = total[k]
         /\ \A k \in DOMAIN DeleteBySeason(total) :
              k \in DOMAIN total /\ DeleteBySeason(total)[k] = total[k]
BY DEF DeleteBySeason, IsTable, OfTypes

------------------------------------------------------------------------------
(* The invariant holds at first. *)
LEMMA InitInvariant == Init => IInv
<1> SUFFICES ASSUME Init PROVE IInv
  OBVIOUS
<1>1. TypeOK
  BY FS_EmptySet, SeasonBoundAssumption
     DEF Init, TypeOK, IsTable, Empty, Job, Source, Credits
<1>2. Shapes
  BY FS_EmptySet DEF Init, Shapes
<1>3. Types
  BY DEF Init, Types, Job
<1>4. OthersGrow
  BY DEF Init, OthersGrow, OtherWithin, Empty, Job
<1>5. Tenth
  <2>1. credited \subseteq Credits /\ IsFiniteSet(credited)
    BY <1>1, <1>2 DEF TypeOK, Shapes
  <2>2. /\ \A t \in Ledger, p \in Places : PaidByType[t][p] \in Nat
        /\ \A p \in Places : PaidInAll[p] \in Nat
    BY <2>1, PaidFacts
  <2>3. \A t, p : Points(Empty, t, p) = 0
    BY NoRowsNoPoints DEF Empty
  <2>4. \A p : SumOver(Empty, {k \in DOMAIN Empty : k[2] = p}) = 0
    <3>1. \A p : {k \in DOMAIN Empty : k[2] = p} = {}
      BY DEF Empty
    <3> QED
      BY <3>1, SumEmpty
  <2>5. TotalsWithin(Empty) /\ TenthsWithin(Empty, PaidInAll)
    BY <2>2, <2>3, <2>4 DEF TotalsWithin, LedgersWithin, ReferralWithin, TenthsWithin
  <2> QED
    BY <2>5 DEF Init, Tenth, Job
<1> QED
  BY <1>1, <1>2, <1>3, <1>4, <1>5 DEF IInv

------------------------------------------------------------------------------
(* Types of the variables. *)

(* Where a job can be. *)
Stage == {"idle", "lp", "referral", "stake", "supplement", "write"}

(* A step of a job: where it is afterwards and what it has read; the other *)
(* jobs are where they were.                                               *)
LEMMA ReadsFacts ==
  ASSUME IInv, NEW j \in Job, NEW from, NEW to \in Stage, NEW got, Reads(j, from, to, got)
  PROVE  /\ pc[j] = from /\ pc'[j] = to /\ read'[j] = got
         /\ \A i \in Job \ {j} : pc'[i] = pc[i] /\ read'[i] = read[i]
         /\ pc' \in [Job -> Stage] /\ DOMAIN read' = Job
         /\ UNCHANGED <<tables, bounds>>
<1>1. pc \in [Job -> Stage] /\ DOMAIN read = Job
  BY DEF IInv, TypeOK, Shapes, Stage
<1> QED
  BY <1>1 DEF Reads

(* So is the last step, which leaves its rows to a transaction. *)
LEMMA OpensFacts ==
  ASSUME IInv, NEW j \in Job, NEW from, NEW rows, Opens(j, from, rows)
  PROVE  /\ open'[j] = {rows} /\ DOMAIN open' = Job
         /\ \A i \in Job \ {j} : open'[i] = open[i]
         /\ Reads(j, from, "idle", Empty)
<1>1. DOMAIN open = Job
  BY DEF IInv, Shapes
<1> QED
  BY <1>1 DEF Opens

(* The end of a job. *)
LEMMA StopsFacts ==
  ASSUME IInv, NEW j \in Job, pc' = [pc EXCEPT ![j] = "idle"], read' = [read EXCEPT ![j] = Empty]
  PROVE  /\ pc'[j] = "idle" /\ \A i \in Job \ {j} : pc'[i] = pc[i] /\ read'[i] = read[i]
         /\ pc' \in [Job -> Stage] /\ DOMAIN read' = Job
<1>1. pc \in [Job -> Stage] /\ DOMAIN read = Job
  BY DEF IInv, TypeOK, Shapes, Stage
<1> QED
  BY <1>1 DEF Stage

(* The end of a transaction. *)
LEMMA ClosesFacts ==
  ASSUME IInv, NEW j \in Job, open' = [open EXCEPT ![j] = {}]
  PROVE  open'[j] = {} /\ DOMAIN open' = Job /\ \A i \in Job \ {j} : open'[i] = open[i]
<1>1. DOMAIN open = Job
  BY DEF IInv, Shapes
<1> QED
  BY <1>1

(* The types of the tables the services outside write. *)
LEMMA OutsideTypes ==
  ASSUME IInv, Next
  PROVE  /\ credited' \subseteq Credits /\ IsFiniteSet(credited') /\ credited \subseteq credited'
         /\ given' \in [Source -> [User -> 0..MaxOther]]
         /\ \A s \in Source, u \in User : given[s][u] <= given'[s][u]
         /\ referrer' \in [User -> User \cup {Nobody}]
<1>0. TypeOK /\ IsFiniteSet(credited)
  BY DEF IInv, Shapes
<1>t. \A s \in Source, u \in User : given[s][u] \in Nat /\ given[s][u] <= MaxOther
  BY <1>0, SeasonBoundAssumption DEF TypeOK
<1>1. ASSUME UNCHANGED <<credited, given, referrer>>
      PROVE  /\ credited' \subseteq Credits /\ IsFiniteSet(credited') /\ credited \subseteq credited'
             /\ given' \in [Source -> [User -> 0..MaxOther]]
             /\ \A s \in Source, u \in User : given[s][u] <= given'[s][u]
             /\ referrer' \in [User -> User \cup {Nobody}]
  BY <1>0, <1>1, <1>t DEF TypeOK
<1>2. CASE \E c \in Credits : Pay(c)
  <2>1. PICK c \in Credits : Pay(c)
    BY <1>2
  <2>2. credited' = credited \cup {c} /\ given' = given /\ referrer' = referrer
    BY <2>1 DEF Pay
  <2>3. IsFiniteSet(credited')
    BY <1>0, <2>2, FS_AddElement
  <2> QED
    BY <1>0, <1>t, <2>2, <2>3 DEF TypeOK
<1>3. CASE \E s \in Source, u \in Gifted : Give(s, u)
  <2>1. PICK s \in Source, u \in Gifted : Give(s, u)
    BY <1>3
  <2>2. /\ SumOver([t \in Source |-> SumOver(given[t], User)], Source) < MaxOther
        /\ given' = [given EXCEPT ![s][u] = @ + 1]
        /\ UNCHANGED <<credited, referrer>>
    BY <2>1 DEF Give
  <2>3. u \in User /\ MaxOther \in Nat
    BY SeasonAssumption, SeasonBoundAssumption
  <2>4. given[s][u] < MaxOther
    <3> DEFINE of == [t \in Source |-> SumOver(given[t], User)]
    <3>1. IsFiniteSet(Source) /\ IsFiniteSet(User)
      <4>1. IsFiniteSet({"points"}) /\ IsFiniteSet({"supplementPoint"})
        BY FS_Singleton
      <4>2. IsFiniteSet({"points"} \cup {"supplementPoint"})
        BY <4>1, FS_Union
      <4>3. Source = {"points"} \cup {"supplementPoint"}
        BY DEF Source
      <4> QED
        BY <4>2, <4>3, SeasonAssumption
    <3>2. \A t \in Source : SumOver(given[t], User) \in Nat
      BY <1>t, <3>1, SumIsNumber
    <3>3. \A t \in Source : of[t] = SumOver(given[t], User) /\ of[t] \in Nat
      BY <3>2
    <3> HIDE DEF of
    <3>4. SumOver(of, Source) = of[s] + SumOver(of, Source \ {s})
      BY <3>1, <3>3, SumRemove
    <3>5. SumOver(of, Source \ {s}) \in Nat
      <4>1. IsFiniteSet(Source \ {s}) /\ \A t \in Source \ {s} : of[t] \in Nat
        BY <3>1, <3>3, SmallerSet
      <4> QED
        BY <4>1, SumIsNumber
    <3>6. SumOver(given[s], User) = given[s][u] + SumOver(given[s], User \ {u})
      BY <1>t, <2>3, <3>1, SumRemove
    <3>7. SumOver(given[s], User \ {u}) \in Nat
      <4>1. IsFiniteSet(User \ {u}) /\ \A v \in User \ {u} : given[s][v] \in Nat
        BY <1>t, <2>3, <3>1, SmallerSet
      <4> QED
        BY <4>1, SumIsNumber
    <3>8. SumOver(of, Source) < MaxOther
      BY <2>2 DEF of
    <3> QED
      BY <1>t, <2>3, <3>3, <3>4, <3>5, <3>6, <3>7, <3>8
  <2>5. /\ \A x \in Source, v \in User :
             given'[x][v] = IF x = s /\ v = u THEN given[s][u] + 1 ELSE given[x][v]
        /\ given' \in [Source -> [User -> 0..MaxOther]]
    BY <1>0, <1>t, <2>2, <2>3, <2>4 DEF TypeOK
  <2>6. \A x \in Source, v \in User : given[x][v] <= given'[x][v]
    BY <1>t, <2>3, <2>5
  <2> QED
    BY <1>0, <2>2, <2>5, <2>6 DEF TypeOK
<1>4. CASE \E u \in User, r \in User \ Vault : Invite(u, r)
  <2>1. PICK u \in User, r \in User \ Vault : Invite(u, r)
    BY <1>4
  <2>2. referrer' = [referrer EXCEPT ![u] = r] /\ UNCHANGED <<credited, given>>
    BY <2>1 DEF Invite
  <2>3. referrer' \in [User -> User \cup {Nobody}]
    BY <1>0, <2>2 DEF TypeOK
  <2> QED
    BY <1>0, <1>t, <2>2, <2>3 DEF TypeOK
<1>5. CASE TotalsStep
  BY <1>1, <1>5 DEF TotalsStep, ReadDirectHold, ReadLp, ReadReferral, Opens, Reads, tables
<1>6. CASE ReferralStep
  BY <1>1, <1>6 DEF ReferralStep, ReadReferrers, ReadStake, Opens, Reads, tables
<1>7. CASE CommitTotals \/ CommitReferral \/ OtherStep
  BY <1>1, <1>7 DEF CommitTotals, CommitReferral, OtherStep, ReadPoints, ReadSupplement,
                    UpsertOther, Reads, tables
<1>8. CASE (\E j \in Job : JobFails(j)) \/ Crash
  BY <1>1, <1>8 DEF JobFails, Crash, tables
<1> QED
  BY <1>2, <1>3, <1>4, <1>5, <1>6, <1>7, <1>8 DEF Next

(* Outside those three no job and no transaction moves. *)
LEMMA OutsideKeeps ==
  ASSUME (\E c \in Credits : Pay(c)) \/ (\E s \in Source, u \in Gifted : Give(s, u))
           \/ (\E u \in User, r \in User \ Vault : Invite(u, r))
  PROVE  UNCHANGED <<seasonTotal, referralPoints, pc, read, open>>
BY DEF Pay, Give, Invite, locals, bounds

------------------------------------------------------------------------------
(* Types of the jobs: what a job has read is a table, of the types that    *)
(* it deals with.                                                          *)
TableTypes ==
  /\ IsTable(seasonTotal, SeasonKey) /\ IsTable(referralPoints, User \X Places)
PcTypes == pc \in [Job -> Stage] /\ DOMAIN read = Job
ReadTypes ==
  /\ pc["totals"] # "idle" => IsTable(read["totals"], SeasonKey)
  /\ pc["totals"] = "lp" => OfTypes(read["totals"], {"directHold"})
  /\ pc["totals"] = "referral" => OfTypes(read["totals"], Ledger)
  /\ pc["referral"] # "idle" => read["referral"] \in [User -> User \cup {Nobody}]
  /\ pc["other"] = "supplement" => read["other"] \in [User -> Nat]
  /\ pc["other"] = "write" => IsTable(read["other"], {"other"} \X User \X {OtherPair})
OpenTypes ==
  /\ \A rows \in open["totals"] : /\ IsTable(rows, SeasonKey)
                                  /\ OfTypes(rows, Ledger \cup {"referral"})
  /\ \A rows \in open["referral"] : IsTable(rows, User \X Places)
  /\ open["other"] = {} /\ DOMAIN open = Job /\ \A j \in Job : Cardinality(open[j]) <= 1
JobTypes == TableTypes /\ PcTypes /\ ReadTypes /\ OpenTypes

(* These, and the types of the other tables, are what IInv says of types.  *)
LEMMA JobTypesSuffice ==
  /\ IInv => JobTypes
  /\ JobTypes /\ credited \subseteq Credits /\ IsFiniteSet(credited)
       /\ given \in [Source -> [User -> 0..MaxOther]]
       /\ referrer \in [User -> User \cup {Nobody}]
     => TypeOK /\ Shapes /\ Types
<1>1. IInv => TableTypes /\ PcTypes
  BY DEF IInv, TypeOK, Shapes, TableTypes, PcTypes, Stage
<1>2. IInv => ReadTypes
  BY DEF IInv, TypeOK, Types, ReadTypes
<1>3. IInv => OpenTypes
  BY DEF IInv, TypeOK, Shapes, Types, OpenTypes
<1>4. JobTypes /\ credited \subseteq Credits /\ IsFiniteSet(credited)
        /\ given \in [Source -> [User -> 0..MaxOther]]
        /\ referrer \in [User -> User \cup {Nobody}]
      => TypeOK
  BY DEF JobTypes, TypeOK, TableTypes, PcTypes, ReadTypes, OpenTypes, Stage
<1>5. JobTypes /\ IsFiniteSet(credited) => Shapes /\ Types
  BY DEF JobTypes, Shapes, Types, PcTypes, ReadTypes, OpenTypes
<1> QED
  BY <1>1, <1>2, <1>3, <1>4, <1>5 DEF JobTypes

(* What UpsertOther writes are rows of the table. *)
LEMMA OtherKeysAreKeys ==
  ASSUME NEW f, IsTable(f, {"other"} \X User \X {OtherPair})
  PROVE  IsTable(f, SeasonKey) /\ OfTypes(f, {"other"})
BY DEF IsTable, SeasonKey, OfTypes

(* Every step keeps the types of the jobs. *)
LEMMA NextJobTypes ==
  ASSUME IInv, Next
  PROVE  JobTypes'
<1>0. /\ TableTypes /\ PcTypes /\ ReadTypes /\ OpenTypes
      /\ credited \subseteq Credits /\ IsFiniteSet(credited)
      /\ given \in [Source -> [User -> 0..MaxOther]]
      /\ referrer \in [User -> User \cup {Nobody}]
  BY JobTypesSuffice DEF JobTypes, IInv, TypeOK, Shapes
<1>g. \A s \in Source : given[s] \in [User -> Nat]
  BY <1>0, SeasonBoundAssumption
<1>c. Cardinality({}) = 0 /\ \A x : Cardinality({x}) = 1
  BY FS_Singleton, FS_EmptySet
<1>1. CASE (\E c \in Credits : Pay(c)) \/ (\E s \in Source, u \in Gifted : Give(s, u))
             \/ (\E u \in User, r \in User \ Vault : Invite(u, r))
  BY <1>0, <1>1, OutsideKeeps DEF JobTypes, TableTypes, PcTypes, ReadTypes, OpenTypes
<1>2. CASE ReadDirectHold
  <2> DEFINE got == DirectHoldPoint
  <2>1. Reads("totals", "idle", "lp", got) /\ UNCHANGED open
    BY <1>2 DEF ReadDirectHold
  <2>2. IsTable(got, SeasonKey) /\ OfTypes(got, {"directHold"})
    BY <1>0, LedgerQueries
  <2> HIDE DEF got
  <2>3. /\ pc'["totals"] = "lp" /\ read'["totals"] = got
        /\ pc'["referral"] = pc["referral"] /\ read'["referral"] = read["referral"]
        /\ pc'["other"] = pc["other"] /\ read'["other"] = read["other"]
        /\ pc' \in [Job -> Stage] /\ DOMAIN read' = Job /\ UNCHANGED <<tables, open>>
    <3>1. "totals" \in Job /\ "lp" \in Stage /\ {"referral", "other"} \subseteq Job \ {"totals"}
      BY DEF Job, Stage
    <3>2. /\ pc'["totals"] = "lp" /\ read'["totals"] = got
          /\ \A i \in Job \ {"totals"} : pc'[i] = pc[i] /\ read'[i] = read[i]
          /\ pc' \in [Job -> Stage] /\ DOMAIN read' = Job /\ UNCHANGED tables
      BY <2>1, <3>1, ReadsFacts
    <3> QED
      BY <2>1, <3>1, <3>2
  <2> QED
    BY <1>0, <2>2, <2>3
       DEF JobTypes, TableTypes, PcTypes, ReadTypes, OpenTypes, tables
<1>3. CASE ReadLp
  <2> DEFINE got == Join(read["totals"], LpPoint)
  <2>1. Reads("totals", "lp", "referral", got) /\ UNCHANGED open
    BY <1>3 DEF ReadLp
  <2>2. IsTable(LpPoint, SeasonKey) /\ OfTypes(LpPoint, {"tvl"})
    BY <1>0, LedgerQueries
  <2>3. pc["totals"] = "lp"
    BY <2>1 DEF Reads
  <2>4. IsTable(read["totals"], SeasonKey) /\ OfTypes(read["totals"], {"directHold"})
    BY <1>0, <2>3 DEF ReadTypes
  <2>5. IsTable(got, SeasonKey) /\ OfTypes(got, {"directHold"} \cup {"tvl"})
    BY <2>2, <2>4, JoinKeeps
  <2>6. {"directHold"} \cup {"tvl"} = Ledger
    BY DEF Ledger
  <2> HIDE DEF got
  <2>7. /\ pc'["totals"] = "referral" /\ read'["totals"] = got
        /\ pc'["referral"] = pc["referral"] /\ read'["referral"] = read["referral"]
        /\ pc'["other"] = pc["other"] /\ read'["other"] = read["other"]
        /\ pc' \in [Job -> Stage] /\ DOMAIN read' = Job /\ UNCHANGED <<tables, open>>
    BY <2>1, ReadsFacts DEF Job, Stage
  <2> QED
    BY <1>0, <2>5, <2>6, <2>7
       DEF JobTypes, TableTypes, PcTypes, ReadTypes, OpenTypes, tables
<1>4. CASE ReadReferral
  <2> DEFINE got == Join(read["totals"], ReferralPoint)
  <2>1. Opens("totals", "referral", got)
    BY <1>4 DEF ReadReferral
  <2>2. IsTable(ReferralPoint, SeasonKey) /\ OfTypes(ReferralPoint, {"referral"})
    BY <1>0, ReferralQuery DEF TableTypes
  <2>3. pc["totals"] = "referral"
    BY <2>1 DEF Opens, Reads
  <2>4. IsTable(read["totals"], SeasonKey) /\ OfTypes(read["totals"], Ledger)
    BY <1>0, <2>3 DEF ReadTypes
  <2>5. IsTable(got, SeasonKey) /\ OfTypes(got, Ledger \cup {"referral"})
    BY <2>2, <2>4, JoinKeeps
  <2> HIDE DEF got
  <2>6. /\ open'["totals"] = {got} /\ DOMAIN open' = Job
        /\ open'["referral"] = open["referral"] /\ open'["other"] = open["other"]
        /\ Reads("totals", "referral", "idle", Empty)
    BY <2>1, OpensFacts DEF Job
  <2>7. /\ pc'["totals"] = "idle"
        /\ pc'["referral"] = pc["referral"] /\ read'["referral"] = read["referral"]
        /\ pc'["other"] = pc["other"] /\ read'["other"] = read["other"]
        /\ pc' \in [Job -> Stage] /\ DOMAIN read' = Job /\ UNCHANGED tables
    BY <2>6, ReadsFacts DEF Job, Stage
  <2>8. OpenTypes'
    <3>1. ASSUME NEW j \in Job PROVE Cardinality(open'[j]) <= 1
      <4>1. open'[j] = {got} \/ open'[j] = open[j]
        BY <2>6 DEF Job
      <4>2. Cardinality(open[j]) <= 1 /\ Cardinality({got}) = 1
        BY <1>0, <1>c DEF OpenTypes
      <4> QED
        BY <4>1, <4>2
    <3>2. /\ \A rows \in open'["totals"] : /\ IsTable(rows, SeasonKey)
                                           /\ OfTypes(rows, Ledger \cup {"referral"})
          /\ \A rows \in open'["referral"] : IsTable(rows, User \X Places)
      BY <1>0, <2>5, <2>6 DEF OpenTypes
    <3>3. open'["other"] = {}
      BY <1>0, <2>6 DEF OpenTypes
    <3> QED
      BY <2>6, <3>1, <3>2, <3>3 DEF OpenTypes
  <2> QED
    BY <1>0, <2>7, <2>8 DEF JobTypes, TableTypes, PcTypes, ReadTypes, tables
<1>5. CASE ReadReferrers
  <2> DEFINE got == referrer
  <2>1. Reads("referral", "idle", "stake", got) /\ UNCHANGED open
    BY <1>5 DEF ReadReferrers
  <2>2. got \in [User -> User \cup {Nobody}]
    BY <1>0
  <2> HIDE DEF got
  <2>3. /\ pc'["referral"] = "stake" /\ read'["referral"] = got
        /\ pc'["totals"] = pc["totals"] /\ read'["totals"] = read["totals"]
        /\ pc'["other"] = pc["other"] /\ read'["other"] = read["other"]
        /\ pc' \in [Job -> Stage] /\ DOMAIN read' = Job /\ UNCHANGED <<tables, open>>
    <3>1. "referral" \in Job /\ "stake" \in Stage /\ {"totals", "other"} \subseteq Job \ {"referral"}
      BY DEF Job, Stage
    <3>2. /\ pc'["referral"] = "stake" /\ read'["referral"] = got
          /\ \A i \in Job \ {"referral"} : pc'[i] = pc[i] /\ read'[i] = read[i]
          /\ pc' \in [Job -> Stage] /\ DOMAIN read' = Job /\ UNCHANGED tables
      BY <2>1, <3>1, ReadsFacts
    <3> QED
      BY <2>1, <3>1, <3>2
  <2> QED
    BY <1>0, <2>2, <2>3
       DEF JobTypes, TableTypes, PcTypes, ReadTypes, OpenTypes, tables
<1>6. CASE ReadStake
  <2> DEFINE ref == read["referral"]
             got == Tenths(ref, StakePoint(seasonTotal, {u \in DOMAIN ref : ref[u] # Nobody}))
  <2>1. Opens("referral", "stake", got)
    BY <1>6 DEF ReadStake
  <2>2. pc["referral"] = "stake"
    BY <2>1 DEF Opens, Reads
  <2>3. ref \in [User -> User \cup {Nobody}] /\ IsTable(seasonTotal, SeasonKey)
    BY <1>0, <2>2 DEF ReadTypes, TableTypes
  <2>4. IsTable(got, User \X Places)
    BY <2>3, TenthsFacts
  <2> HIDE DEF got, ref
  <2>6. /\ open'["referral"] = {got} /\ DOMAIN open' = Job
        /\ open'["totals"] = open["totals"] /\ open'["other"] = open["other"]
        /\ Reads("referral", "stake", "idle", Empty)
    BY <2>1, OpensFacts DEF Job
  <2>7. /\ pc'["referral"] = "idle"
        /\ pc'["totals"] = pc["totals"] /\ read'["totals"] = read["totals"]
        /\ pc'["other"] = pc["other"] /\ read'["other"] = read["other"]
        /\ pc' \in [Job -> Stage] /\ DOMAIN read' = Job /\ UNCHANGED tables
    BY <2>6, ReadsFacts DEF Job, Stage
  <2>8. OpenTypes'
    <3>1. ASSUME NEW j \in Job PROVE Cardinality(open'[j]) <= 1
      <4>1. open'[j] = {got} \/ open'[j] = open[j]
        BY <2>6 DEF Job
      <4>2. Cardinality(open[j]) <= 1 /\ Cardinality({got}) = 1
        BY <1>0, <1>c DEF OpenTypes
      <4> QED
        BY <4>1, <4>2
    <3>2. /\ \A rows \in open'["totals"] : /\ IsTable(rows, SeasonKey)
                                           /\ OfTypes(rows, Ledger \cup {"referral"})
          /\ \A rows \in open'["referral"] : IsTable(rows, User \X Places)
      BY <1>0, <2>4, <2>6 DEF OpenTypes
    <3>3. open'["other"] = {}
      BY <1>0, <2>6 DEF OpenTypes
    <3> QED
      BY <2>6, <3>1, <3>2, <3>3 DEF OpenTypes
  <2> QED
    BY <1>0, <2>7, <2>8 DEF JobTypes, TableTypes, PcTypes, ReadTypes, tables
<1>7. CASE ReadPoints
  <2> DEFINE got == given["points"]
  <2>1. Reads("other", "idle", "supplement", got) /\ UNCHANGED open
    BY <1>7 DEF ReadPoints
  <2>2. got \in [User -> Nat]
    BY <1>g DEF Source
  <2> HIDE DEF got
  <2>3. /\ pc'["other"] = "supplement" /\ read'["other"] = got
        /\ pc'["totals"] = pc["totals"] /\ read'["totals"] = read["totals"]
        /\ pc'["referral"] = pc["referral"] /\ read'["referral"] = read["referral"]
        /\ pc' \in [Job -> Stage] /\ DOMAIN read' = Job /\ UNCHANGED <<tables, open>>
    <3>1. "other" \in Job /\ "supplement" \in Stage /\ {"totals", "referral"} \subseteq Job \ {"other"}
      BY DEF Job, Stage
    <3>2. /\ pc'["other"] = "supplement" /\ read'["other"] = got
          /\ \A i \in Job \ {"other"} : pc'[i] = pc[i] /\ read'[i] = read[i]
          /\ pc' \in [Job -> Stage] /\ DOMAIN read' = Job /\ UNCHANGED tables
      BY <2>1, <3>1, ReadsFacts
    <3> QED
      BY <2>1, <3>1, <3>2
  <2> QED
    BY <1>0, <2>2, <2>3
       DEF JobTypes, TableTypes, PcTypes, ReadTypes, OpenTypes, tables
<1>8. CASE ReadSupplement
  <2> DEFINE got == OtherPoint(read["other"], given["supplementPoint"])
  <2>1. Reads("other", "supplement", "write", got) /\ UNCHANGED open
    BY <1>8 DEF ReadSupplement
  <2>2. pc["other"] = "supplement"
    BY <2>1 DEF Reads
  <2>3. read["other"] \in [User -> Nat] /\ given["supplementPoint"] \in [User -> Nat]
    BY <1>0, <1>g, <2>2 DEF ReadTypes, Source
  <2>4. IsTable(got, {"other"} \X User \X {OtherPair})
    BY <2>3, OtherQuery
  <2> HIDE DEF got
  <2>5. /\ pc'["other"] = "write" /\ read'["other"] = got
        /\ pc'["totals"] = pc["totals"] /\ read'["totals"] = read["totals"]
        /\ pc'["referral"] = pc["referral"] /\ read'["referral"] = read["referral"]
        /\ pc' \in [Job -> Stage] /\ DOMAIN read' = Job /\ UNCHANGED <<tables, open>>
    BY <2>1, ReadsFacts DEF Job, Stage
  <2> QED
    BY <1>0, <2>4, <2>5
       DEF JobTypes, TableTypes, PcTypes, ReadTypes, OpenTypes, tables
<1>9. CASE UpsertOther
  <2>1. /\ pc["other"] = "write" /\ pc' = [pc EXCEPT !["other"] = "idle"]
        /\ read' = [read EXCEPT !["other"] = Empty]
        /\ seasonTotal' = Join(seasonTotal, read["other"])
        /\ UNCHANGED <<referralPoints, open>>
    BY <1>9 DEF UpsertOther
  <2>2. IsTable(read["other"], SeasonKey) /\ IsTable(seasonTotal, SeasonKey)
    BY <1>0, <2>1, OtherKeysAreKeys DEF ReadTypes, TableTypes
  <2>3. IsTable(seasonTotal', SeasonKey)
    BY <2>1, <2>2, JoinKeeps
  <2>4. /\ pc'["other"] = "idle"
        /\ pc'["totals"] = pc["totals"] /\ read'["totals"] = read["totals"]
        /\ pc'["referral"] = pc["referral"] /\ read'["referral"] = read["referral"]
        /\ pc' \in [Job -> Stage] /\ DOMAIN read' = Job
    BY <2>1, StopsFacts DEF Job
  <2> QED
    BY <1>0, <2>1, <2>3, <2>4
       DEF JobTypes, TableTypes, PcTypes, ReadTypes, OpenTypes
<1>10. CASE CommitTotals
  <2>1. PICK rows \in open["totals"] : seasonTotal' = Join(DeleteBySeason(seasonTotal), rows)
    BY <1>10 DEF CommitTotals
  <2>2. open' = [open EXCEPT !["totals"] = {}] /\ UNCHANGED <<referralPoints, pc, read>>
    BY <1>10 DEF CommitTotals
  <2>3. IsTable(rows, SeasonKey) /\ IsTable(DeleteBySeason(seasonTotal), SeasonKey)
    BY <1>0, DeleteFacts DEF OpenTypes, TableTypes
  <2>4. IsTable(seasonTotal', SeasonKey)
    BY <2>1, <2>3, JoinKeeps
  <2>5. /\ open'["totals"] = {} /\ DOMAIN open' = Job
        /\ open'["referral"] = open["referral"] /\ open'["other"] = open["other"]
    BY <2>2, ClosesFacts DEF Job
  <2>6. OpenTypes'
    BY <1>0, <1>c, <2>5 DEF OpenTypes, Job
  <2> QED
    BY <1>0, <2>2, <2>4, <2>6 DEF JobTypes, TableTypes, PcTypes, ReadTypes
<1>11. CASE CommitReferral
  <2>1. PICK rows \in open["referral"] : referralPoints' = rows
    BY <1>11 DEF CommitReferral
  <2>2. open' = [open EXCEPT !["referral"] = {}] /\ UNCHANGED <<seasonTotal, pc, read>>
    BY <1>11 DEF CommitReferral
  <2>3. IsTable(referralPoints', User \X Places)
    BY <1>0, <2>1 DEF OpenTypes
  <2>5. /\ open'["referral"] = {} /\ DOMAIN open' = Job
        /\ open'["totals"] = open["totals"] /\ open'["other"] = open["other"]
    BY <2>2, ClosesFacts DEF Job
  <2>6. OpenTypes'
    BY <1>0, <1>c, <2>5 DEF OpenTypes, Job
  <2> QED
    BY <1>0, <2>2, <2>3, <2>6 DEF JobTypes, TableTypes, PcTypes, ReadTypes
<1>12. CASE \E j \in Job : JobFails(j)
  <2>1. PICK j \in Job : JobFails(j)
    BY <1>12
  <2>2. /\ pc' = [pc EXCEPT ![j] = "idle"] /\ read' = [read EXCEPT ![j] = Empty]
        /\ UNCHANGED <<tables, open>>
    BY <2>1 DEF JobFails
  <2>3. /\ pc'[j] = "idle" /\ \A i \in Job \ {j} : pc'[i] = pc[i] /\ read'[i] = read[i]
        /\ pc' \in [Job -> Stage] /\ DOMAIN read' = Job
    BY <2>2, StopsFacts
  <2>4. ReadTypes'
    BY <1>0, <2>3 DEF ReadTypes, Job
  <2> QED
    BY <1>0, <2>2, <2>3, <2>4 DEF JobTypes, TableTypes, PcTypes, OpenTypes, tables
<1>13. CASE Crash
  <2>1. /\ pc' = [j \in Job |-> "idle"] /\ read' = [j \in Job |-> Empty]
        /\ open' = [j \in Job |-> {}] /\ UNCHANGED tables
    BY <1>13 DEF Crash
  <2>2. OpenTypes'
    BY <1>c, <2>1 DEF OpenTypes, Job
  <2> QED
    BY <1>0, <2>1, <2>2 DEF JobTypes, TableTypes, PcTypes, ReadTypes, Job, Stage, tables
<1> QED
  BY <1>1, <1>2, <1>3, <1>4, <1>5, <1>6, <1>7, <1>8, <1>9, <1>10, <1>11, <1>12, <1>13
     DEF Next, TotalsStep, ReferralStep, OtherStep

------------------------------------------------------------------------------
(* The points of type "other". *)

(* Who has more has at least as much. *)
LEMMA OtherMore ==
  ASSUME NEW f, IsTable(f, SeasonKey), NEW most \in [User -> Nat], NEW most2 \in [User -> Nat],
         \A u \in User : most[u] <= most2[u], OtherWithin(f, most)
  PROVE  OtherWithin(f, most2)
<1> SUFFICES ASSUME NEW k \in DOMAIN f, k[1] = "other"
             PROVE  f[k] <= most2[k[2]]
  BY DEF OtherWithin
<1>1. k \in SeasonKey /\ f[k] \in Nat
  BY DEF IsTable
<1>2. k[2] \in User
  BY <1>1 DEF SeasonKey
<1>3. most[k[2]] \in Nat /\ most2[k[2]] \in Nat /\ most[k[2]] <= most2[k[2]]
  BY <1>2
<1>4. f[k] <= most[k[2]]
  BY DEF OtherWithin
<1> QED
  BY <1>1, <1>3, <1>4

(* What was given, and what a job read of it. *)
LEMMA GivenFacts ==
  ASSUME IInv, Next
  PROVE  /\ Given \in [User -> Nat] /\ Given' \in [User -> Nat]
         /\ \A u \in User : Given[u] <= Given'[u]
         /\ \A u \in User : given["points"][u] \in Nat /\ given'["points"][u] \in Nat
                            /\ given["points"][u] <= given'["points"][u]
<1>1. /\ given \in [Source -> [User -> 0..MaxOther]] /\ given' \in [Source -> [User -> 0..MaxOther]]
      /\ \A s \in Source, u \in User : given[s][u] <= given'[s][u]
  BY OutsideTypes DEF IInv, TypeOK
<1>2. \A u \in User :
        /\ given["points"][u] \in Nat /\ given'["points"][u] \in Nat
        /\ given["supplementPoint"][u] \in Nat /\ given'["supplementPoint"][u] \in Nat
        /\ given["points"][u] <= given'["points"][u]
        /\ given["supplementPoint"][u] <= given'["supplementPoint"][u]
  BY <1>1, SeasonBoundAssumption DEF Source
<1>3. /\ Given \in [User -> Nat] /\ Given' \in [User -> Nat]
      /\ \A u \in User : Given[u] <= Given'[u]
  BY <1>2 DEF Given
<1> QED
  BY <1>2, <1>3

(* A step that leaves the season's table and the loop alone, or ends the   *)
(* loop's round, leaves the points of type "other" within what was given.  *)
LEMMA OthersStay ==
  ASSUME IInv, Next, seasonTotal' = seasonTotal,
         pc'["other"] = "idle" \/ (pc'["other"] = pc["other"] /\ read'["other"] = read["other"])
  PROVE  OthersGrow'
<1>0. OthersGrow /\ TableTypes /\ ReadTypes
  BY JobTypesSuffice DEF IInv, JobTypes
<1>1. IsTable(seasonTotal, SeasonKey)
  BY <1>0 DEF TableTypes
<1>2. OtherWithin(seasonTotal', Given')
  <2>1. OtherWithin(seasonTotal, Given)
    BY <1>0 DEF OthersGrow
  <2> DEFINE most == Given
             most2 == Given'
  <2>2. /\ most \in [User -> Nat] /\ most2 \in [User -> Nat]
        /\ \A u \in User : most[u] <= most2[u]
    BY GivenFacts
  <2> HIDE DEF most, most2
  <2>3. OtherWithin(seasonTotal, most2)
    BY <1>1, <2>1, <2>2, OtherMore DEF most
  <2> QED
    BY <2>3 DEF most2
<1>3. ASSUME pc'["other"] = "supplement"
      PROVE  /\ \A u \in User : read'["other"][u] <= given'["points"][u]
             /\ OtherWithin(seasonTotal', GivenFrom(read["other"])')
             /\ read'["other"] = read["other"]
  <2>1. pc["other"] = "supplement" /\ read'["other"] = read["other"]
    BY <1>3
  <2>2. /\ \A u \in User : read["other"][u] <= given["points"][u]
        /\ OtherWithin(seasonTotal, GivenFrom(read["other"]))
        /\ read["other"] \in [User -> Nat]
    BY <1>0, <2>1 DEF OthersGrow, ReadTypes
  <2>3. \A u \in User : read'["other"][u] <= given'["points"][u]
    <3>1. \A u \in User : /\ read["other"][u] \in Nat /\ given["points"][u] \in Nat
                          /\ given'["points"][u] \in Nat
                          /\ given["points"][u] <= given'["points"][u]
      BY <2>2, GivenFacts
    <3> QED
      BY <2>1, <2>2, <3>1
  <2> DEFINE points == read["other"]
             most  == [u \in User |-> points[u] + given["supplementPoint"][u]]
             most2 == [u \in User |-> points[u] + given'["supplementPoint"][u]]
  <2>4. /\ most \in [User -> Nat] /\ most2 \in [User -> Nat]
        /\ \A u \in User : most[u] <= most2[u]
    <3>1. \A u \in User : points[u] \in Nat /\ given["supplementPoint"][u] \in Nat
                          /\ given'["supplementPoint"][u] \in Nat
                          /\ given["supplementPoint"][u] <= given'["supplementPoint"][u]
      <4>1. /\ given \in [Source -> [User -> 0..MaxOther]]
            /\ given' \in [Source -> [User -> 0..MaxOther]]
            /\ \A s \in Source, u \in User : given[s][u] <= given'[s][u]
        BY OutsideTypes DEF IInv, TypeOK
      <4> QED
        BY <2>2, <4>1, SeasonBoundAssumption DEF Source
    <3> HIDE DEF points
    <3> QED
      BY <3>1
  <2>5. OtherWithin(seasonTotal, most)
    BY <2>2 DEF GivenFrom
  <2> HIDE DEF most, most2
  <2>6. OtherWithin(seasonTotal, most2)
    BY <1>1, <2>4, <2>5, OtherMore
  <2> QED
    BY <2>1, <2>3, <2>6 DEF most2, GivenFrom
<1>4. ASSUME pc'["other"] = "write"
      PROVE  /\ OtherWithin(read'["other"], Given')
             /\ \A k \in DOMAIN seasonTotal' \cap DOMAIN read'["other"] :
                  seasonTotal'[k] <= read'["other"][k]
  <2>1. pc["other"] = "write" /\ read'["other"] = read["other"]
    BY <1>4
  <2> DEFINE f == read["other"]
             most == Given
             most2 == Given'
  <2>2. /\ OtherWithin(f, most) /\ IsTable(f, SeasonKey)
        /\ \A k \in DOMAIN seasonTotal \cap DOMAIN f : seasonTotal[k] <= f[k]
    BY <1>0, <2>1, OtherKeysAreKeys DEF OthersGrow, ReadTypes
  <2>3. /\ most \in [User -> Nat] /\ most2 \in [User -> Nat]
        /\ \A u \in User : most[u] <= most2[u]
    BY GivenFacts
  <2> HIDE DEF most, most2, f
  <2>4. OtherWithin(f, most2)
    BY <2>2, <2>3, OtherMore
  <2> QED
    BY <2>1, <2>2, <2>4 DEF most2, f
<1> QED
  BY <1>2, <1>3, <1>4 DEF OthersGrow, GivenFrom

(* The rows of type "other" the loop writes, or the rebuild leaves, are    *)
(* within what was given.                                                  *)
LEMMA NextOthers ==
  ASSUME IInv, Next
  PROVE  OthersGrow'
<1>0. OthersGrow /\ TableTypes /\ ReadTypes /\ OpenTypes
  BY JobTypesSuffice DEF IInv, JobTypes
<1>1. IsTable(seasonTotal, SeasonKey) /\ OtherWithin(seasonTotal, Given)
  BY <1>0 DEF TableTypes, OthersGrow
<1>2. CASE (\E c \in Credits : Pay(c)) \/ (\E s \in Source, u \in Gifted : Give(s, u))
             \/ (\E u \in User, r \in User \ Vault : Invite(u, r))
  BY <1>2, OutsideKeeps, OthersStay
<1>3. CASE ReadDirectHold \/ ReadLp \/ ReadReferral
  <2>1. PICK from, to, got : from \in Stage /\ to \in Stage /\ Reads("totals", from, to, got)
    BY <1>3 DEF ReadDirectHold, ReadLp, ReadReferral, Opens, Stage
  <2>2. "totals" \in Job /\ "other" \in Job \ {"totals"}
    BY DEF Job
  <2>3. pc'["other"] = pc["other"] /\ read'["other"] = read["other"] /\ UNCHANGED tables
    BY <2>1, <2>2, ReadsFacts
  <2> QED
    BY <2>3, OthersStay DEF tables
<1>4. CASE ReadReferrers \/ ReadStake
  <2>1. PICK from, to, got : from \in Stage /\ to \in Stage /\ Reads("referral", from, to, got)
    BY <1>4 DEF ReadReferrers, ReadStake, Opens, Stage
  <2>2. "referral" \in Job /\ "other" \in Job \ {"referral"}
    BY DEF Job
  <2>3. pc'["other"] = pc["other"] /\ read'["other"] = read["other"] /\ UNCHANGED tables
    BY <2>1, <2>2, ReadsFacts
  <2> QED
    BY <2>3, OthersStay DEF tables
<1>5. CASE CommitReferral
  BY <1>5, OthersStay DEF CommitReferral
<1>6. CASE (\E j \in Job : JobFails(j)) \/ Crash
  <2>1. seasonTotal' = seasonTotal
    BY <1>6 DEF JobFails, Crash, tables
  <2>2. pc'["other"] = "idle" \/ (pc'["other"] = pc["other"] /\ read'["other"] = read["other"])
    <3>1. CASE \E j \in Job : JobFails(j)
      <4>1. PICK j \in Job : /\ pc' = [pc EXCEPT ![j] = "idle"]
                             /\ read' = [read EXCEPT ![j] = Empty]
        BY <3>1 DEF JobFails
      <4>2. "other" = j \/ "other" \in Job \ {j}
        BY DEF Job
      <4> QED
        BY <4>1, <4>2, StopsFacts
    <3>2. CASE Crash
      BY <3>2 DEF Crash, Job
    <3> QED
      BY <1>6, <3>1, <3>2
  <2> QED
    BY <2>1, <2>2, OthersStay
<1>7. CASE ReadPoints
  <2> DEFINE got == given["points"]
  <2>1. Reads("other", "idle", "supplement", got)
    BY <1>7 DEF ReadPoints
  <2>2. "other" \in Job /\ "supplement" \in Stage
    BY DEF Job, Stage
  <2> HIDE DEF got
  <2>3. pc'["other"] = "supplement" /\ read'["other"] = got /\ UNCHANGED tables
    BY <2>1, <2>2, ReadsFacts
  <2>4. seasonTotal' = seasonTotal /\ given' = given
    BY <2>3 DEF tables
  <2>5. \A u \in User : given["points"][u] <= given["points"][u]
    BY GivenFacts
  <2>6. OtherWithin(seasonTotal', Given')
    BY <1>1, <2>4 DEF Given
  <2>7. GivenFrom(read["other"])' = Given
    BY <2>3, <2>4 DEF GivenFrom, Given, got
  <2> QED
    BY <1>1, <2>3, <2>4, <2>5, <2>6, <2>7 DEF OthersGrow, got
<1>8. CASE ReadSupplement
  <2> DEFINE daily == read["other"]
             more  == given["supplementPoint"]
             got   == OtherPoint(daily, more)
  <2>1. Reads("other", "supplement", "write", got)
    BY <1>8 DEF ReadSupplement
  <2>2. "other" \in Job /\ "write" \in Stage
    BY DEF Job, Stage
  <2>3. pc["other"] = "supplement"
    BY <2>1 DEF Reads
  <2>4. /\ \A u \in User : daily[u] <= given["points"][u]
        /\ OtherWithin(seasonTotal, GivenFrom(daily))
    BY <1>0, <2>3 DEF OthersGrow
  <2>5. daily \in [User -> Nat] /\ more \in [User -> Nat]
    BY <1>0, <2>3, SeasonBoundAssumption DEF ReadTypes, IInv, TypeOK, Source
  <2>6. /\ IsTable(got, {"other"} \X User \X {OtherPair})
        /\ \A k \in DOMAIN got : got[k] = daily[k[2]] + more[k[2]]
    BY <2>5, OtherQuery
  <2> HIDE DEF got
  <2>7. pc'["other"] = "write" /\ read'["other"] = got /\ UNCHANGED tables
    BY <2>1, <2>2, ReadsFacts
  <2>8. seasonTotal' = seasonTotal /\ given' = given
    BY <2>7 DEF tables
  <2>9. \A k \in DOMAIN got : k[2] \in User /\ k[1] = "other"
    BY <2>6 DEF IsTable
  <2>10. \A u \in User : daily[u] + more[u] <= Given[u]
    <3> SUFFICES ASSUME NEW u \in User PROVE daily[u] + more[u] <= Given[u]
      OBVIOUS
    <3>1. Given[u] = given["points"][u] + more[u]
      BY DEF Given
    <3>2. daily[u] \in Nat /\ more[u] \in Nat /\ given["points"][u] \in Nat
      BY <2>5, GivenFacts
    <3>3. daily[u] <= given["points"][u]
      BY <2>4
    <3> HIDE DEF daily, more
    <3> QED
      BY <3>1, <3>2, <3>3
  <2>11. OtherWithin(got, Given)
    BY <2>6, <2>9, <2>10 DEF OtherWithin
  <2>12. \A k \in DOMAIN seasonTotal \cap DOMAIN got : seasonTotal[k] <= got[k]
    <3>1. \A u \in User : GivenFrom(daily)[u] = daily[u] + more[u]
      BY DEF GivenFrom
    <3> HIDE DEF daily, more
    <3> QED
      BY <2>4, <2>6, <2>9, <3>1 DEF OtherWithin
  <2>13. OtherWithin(seasonTotal', Given') /\ OtherWithin(got, Given')
    BY <1>1, <2>8, <2>11 DEF Given
  <2> QED
    BY <2>7, <2>8, <2>12, <2>13 DEF OthersGrow
<1>9. CASE UpsertOther
  <2> DEFINE f == read["other"]
  <2>1. /\ pc["other"] = "write" /\ pc' = [pc EXCEPT !["other"] = "idle"]
        /\ read' = [read EXCEPT !["other"] = Empty]
        /\ seasonTotal' = Join(seasonTotal, f) /\ given' = given
    BY <1>9 DEF UpsertOther
  <2>2. pc'["other"] = "idle"
    BY <2>1, StopsFacts DEF Job
  <2>3. OtherWithin(f, Given)
    BY <1>0, <2>1 DEF OthersGrow
  <2> HIDE DEF f
  <2>4. OtherWithin(seasonTotal', Given)
    <3>1. /\ DOMAIN seasonTotal' = DOMAIN seasonTotal \cup DOMAIN f
          /\ \A k \in DOMAIN f : seasonTotal'[k] = f[k]
          /\ \A k \in DOMAIN seasonTotal \ DOMAIN f : seasonTotal'[k] = seasonTotal[k]
      <4>1. seasonTotal' = Join(seasonTotal, f)
        BY <2>1
      <4>2. /\ DOMAIN Join(seasonTotal, f) = DOMAIN seasonTotal \cup DOMAIN f
            /\ \A k \in DOMAIN f : Join(seasonTotal, f)[k] = f[k]
            /\ \A k \in DOMAIN seasonTotal \ DOMAIN f : Join(seasonTotal, f)[k] = seasonTotal[k]
        BY JoinFacts
      <4> QED
        BY <4>1, <4>2
    <3> QED
      BY <1>1, <2>3, <3>1 DEF OtherWithin
  <2>5. OtherWithin(seasonTotal', Given')
    BY <2>1, <2>4 DEF Given
  <2> QED
    BY <2>2, <2>5 DEF OthersGrow
<1>10. CASE CommitTotals
  <2> DEFINE kept == DeleteBySeason(seasonTotal)
  <2>1. PICK rows \in open["totals"] : seasonTotal' = Join(kept, rows)
    BY <1>10 DEF CommitTotals
  <2>2. pc' = pc /\ read' = read /\ given' = given
    BY <1>10 DEF CommitTotals
  <2>3. \A k \in DOMAIN rows : k[1] # "other"
    BY <1>0 DEF OpenTypes, OfTypes, Ledger
  <2>4. \A k \in DOMAIN kept : k \in DOMAIN seasonTotal /\ kept[k] = seasonTotal[k]
    BY <1>1, DeleteFacts
  <2> HIDE DEF kept
  <2>5. \A k \in DOMAIN seasonTotal' : k[1] = "other" =>
          k \in DOMAIN seasonTotal /\ seasonTotal'[k] = seasonTotal[k]
    <3>1. /\ DOMAIN seasonTotal' = DOMAIN kept \cup DOMAIN rows
          /\ \A k \in DOMAIN kept \ DOMAIN rows : seasonTotal'[k] = kept[k]
      BY <2>1, JoinFacts
    <3> QED
      BY <2>3, <2>4, <3>1
  <2>6. \A most : OtherWithin(seasonTotal, most) => OtherWithin(seasonTotal', most)
    BY <2>5 DEF OtherWithin
  <2>7. OtherWithin(seasonTotal', Given')
    BY <1>1, <2>2, <2>6 DEF Given
  <2>8. ASSUME pc["other"] = "supplement"
        PROVE  /\ \A u \in User : read["other"][u] <= given["points"][u]
               /\ OtherWithin(seasonTotal', GivenFrom(read["other"]))
    BY <1>0, <2>6, <2>8 DEF OthersGrow
  <2>9. ASSUME pc["other"] = "write"
        PROVE  /\ OtherWithin(read["other"], Given)
               /\ \A k \in DOMAIN seasonTotal' \cap DOMAIN read["other"] :
                    seasonTotal'[k] <= read["other"][k]
    <3>1. IsTable(read["other"], {"other"} \X User \X {OtherPair})
      BY <1>0, <2>9 DEF ReadTypes
    <3>2. \A k \in DOMAIN read["other"] : k[1] = "other"
      BY <3>1 DEF IsTable
    <3> QED
      BY <1>0, <2>5, <2>9, <3>2 DEF OthersGrow
  <2> QED
    BY <2>2, <2>7, <2>8, <2>9 DEF OthersGrow, Given, GivenFrom
<1> QED
  BY <1>2, <1>3, <1>4, <1>5, <1>6, <1>7, <1>8, <1>9, <1>10
     DEF Next, TotalsStep, ReferralStep, OtherStep

------------------------------------------------------------------------------
(* Ten times the referral points stay within what the ledgers paid.        *)

(* What was paid never shrinks. *)
LEMMA PaidGrows ==
  ASSUME IInv, Next
  PROVE  /\ PaidByType \in [Ledger -> [Places -> Nat]] /\ PaidInAll \in [Places -> Nat]
         /\ PaidByType' \in [Ledger -> [Places -> Nat]] /\ PaidInAll' \in [Places -> Nat]
         /\ \A t \in Ledger, p \in Places : PaidByType[t][p] <= PaidByType'[t][p]
         /\ \A p \in Places : PaidInAll[p] <= PaidInAll'[p]
<1>1. /\ credited \subseteq Credits /\ IsFiniteSet(credited)
      /\ credited' \subseteq Credits /\ IsFiniteSet(credited') /\ credited \subseteq credited'
  BY OutsideTypes DEF IInv, TypeOK, Shapes
<1>2. /\ PaidByType \in [Ledger -> [Places -> Nat]] /\ PaidInAll \in [Places -> Nat]
      /\ \A t, p : IsFiniteSet(PaidRows(t, p)) /\ PaidAs(t, p) \in Nat
      /\ \A p : Paid(p) = PaidAs("directHold", p) + PaidAs("tvl", p)
  BY <1>1, PaidFacts
<1>3. /\ PaidByType' \in [Ledger -> [Places -> Nat]] /\ PaidInAll' \in [Places -> Nat]
      /\ \A t, p : IsFiniteSet(PaidRows(t, p)') /\ PaidAs(t, p)' \in Nat
      /\ \A p : Paid(p)' = PaidAs("directHold", p)' + PaidAs("tvl", p)'
  <2>1. (credited \subseteq Credits /\ IsFiniteSet(credited)
         => /\ PaidByType \in [Ledger -> [Places -> Nat]] /\ PaidInAll \in [Places -> Nat]
            /\ \A t, p : IsFiniteSet(PaidRows(t, p)) /\ PaidAs(t, p) \in Nat
            /\ \A p : Paid(p) = PaidAs("directHold", p) + PaidAs("tvl", p))'
    BY PaidFacts, PTL
  <2> QED
    BY <1>1, <2>1
<1>4. ASSUME NEW t, NEW p PROVE PaidAs(t, p) <= PaidAs(t, p)'
  <2>1. PaidRows(t, p) \in SUBSET PaidRows(t, p)' /\ IsFiniteSet(PaidRows(t, p)')
    BY <1>1, <1>3 DEF PaidRows
  <2> DEFINE m == Cardinality(PaidRows(t, p))
             n == Cardinality(PaidRows(t, p)')
  <2>2. m <= n
    BY <2>1, FS_Subset
  <2>3. m \in Nat /\ n \in Nat
    BY <1>2, <2>1, FS_CardinalityType
  <2>4. PaidAs(t, p) = Unit * m /\ PaidAs(t, p)' = Unit * n
    BY DEF PaidAs
  <2> HIDE DEF m, n
  <2> QED
    BY <2>2, <2>3, <2>4 DEF Unit
<1>5. ASSUME NEW p PROVE Paid(p) <= Paid(p)'
  <2>1. /\ PaidAs("directHold", p) \in Nat /\ PaidAs("directHold", p)' \in Nat
        /\ PaidAs("tvl", p) \in Nat /\ PaidAs("tvl", p)' \in Nat
    BY <1>2, <1>3
  <2>2. PaidAs("directHold", p) <= PaidAs("directHold", p)' /\ PaidAs("tvl", p) <= PaidAs("tvl", p)'
    BY <1>4
  <2> QED
    BY <1>2, <1>3, <2>1, <2>2
<1>6. \A t \in Ledger, p \in Places : PaidByType[t][p] <= PaidByType'[t][p]
  BY <1>4 DEF PaidByType
<1>7. \A p \in Places : PaidInAll[p] <= PaidInAll'[p]
  BY <1>5 DEF PaidInAll
<1> QED
  BY <1>2, <1>3, <1>6, <1>7

(* A table within what was paid stays within it. *)
LEMMA WithinStays ==
  ASSUME IInv, Next, NEW f
  PROVE  /\ IsTable(f, SeasonKey) /\ LedgersWithin(f, PaidByType) => LedgersWithin(f, PaidByType')
         /\ IsTable(f, SeasonKey) /\ TotalsWithin(f) =>
              LedgersWithin(f, PaidByType') /\ ReferralWithin(f, PaidInAll')
         /\ IsTable(f, User \X Places) /\ TenthsWithin(f, PaidInAll) => TenthsWithin(f, PaidInAll')
<1> DEFINE paid == PaidByType
           paid2 == PaidByType'
           all == PaidInAll
           all2 == PaidInAll'
<1>1. /\ paid \in [Ledger -> [Places -> Nat]] /\ all \in [Places -> Nat]
      /\ paid2 \in [Ledger -> [Places -> Nat]] /\ all2 \in [Places -> Nat]
      /\ \A t \in Ledger, p \in Places : paid[t][p] <= paid2[t][p]
      /\ \A p \in Places : all[p] <= all2[p]
  BY PaidGrows
<1>2. TotalsWithin(f) <=> LedgersWithin(f, paid) /\ ReferralWithin(f, all)
  BY DEF TotalsWithin
<1> HIDE DEF paid, paid2, all, all2
<1>3. ASSUME IsTable(f, SeasonKey)
      PROVE  /\ LedgersWithin(f, paid) => LedgersWithin(f, paid2)
             /\ ReferralWithin(f, all) => ReferralWithin(f, all2)
  BY <1>1, <1>3, WithinMore
<1>4. ASSUME IsTable(f, User \X Places), TenthsWithin(f, all), NEW p \in Places
      PROVE  10 * SumOver(f, {k \in DOMAIN f : k[2] = p}) <= all2[p]
  <2> DEFINE S == {k \in DOMAIN f : k[2] = p}
  <2>1. S \in SUBSET (User \X Places) /\ \A k \in S : f[k] \in Nat
    BY <1>4 DEF IsTable
  <2>2. 10 * SumOver(f, S) <= all[p]
    BY <1>4 DEF TenthsWithin
  <2> HIDE DEF S
  <2>3. IsFiniteSet(S)
    BY <2>1, KeysAreFinite, FS_Subset
  <2>4. SumOver(f, S) \in Nat
    BY <2>1, <2>3, SumIsNumber
  <2>5. all[p] \in Nat /\ all2[p] \in Nat /\ all[p] <= all2[p]
    BY <1>1
  <2>6. 10 * SumOver(f, S) <= all2[p]
    BY <2>2, <2>4, <2>5
  <2> QED
    BY <2>6 DEF S
<1> QED
  BY <1>2, <1>3, <1>4 DEF TenthsWithin, paid, paid2, all, all2

(* It is enough to compare what a step leaves with what was paid before.   *)
LEMMA TenthByParts ==
  ASSUME IInv, Next,
         LedgersWithin(seasonTotal', PaidByType) /\ ReferralWithin(seasonTotal', PaidInAll),
         TenthsWithin(referralPoints', PaidInAll),
         pc'["totals"] \in {"lp", "referral"} => LedgersWithin(read'["totals"], PaidByType),
         \A rows \in open'["totals"] : TotalsWithin(rows),
         \A rows \in open'["referral"] : TenthsWithin(rows, PaidInAll)
  PROVE  Tenth'
<1>1. /\ IsTable(seasonTotal', SeasonKey) /\ IsTable(referralPoints', User \X Places)
      /\ pc'["totals"] # "idle" => IsTable(read'["totals"], SeasonKey)
      /\ \A rows \in open'["totals"] : IsTable(rows, SeasonKey)
      /\ \A rows \in open'["referral"] : IsTable(rows, User \X Places)
  BY NextJobTypes DEF JobTypes, TableTypes, ReadTypes, OpenTypes
<1>2. LedgersWithin(seasonTotal', PaidByType') /\ ReferralWithin(seasonTotal', PaidInAll')
  <2> DEFINE f == seasonTotal'
  <2>1. IsTable(f, SeasonKey) /\ TotalsWithin(f)
    BY <1>1 DEF TotalsWithin
  <2> HIDE DEF f
  <2>2. LedgersWithin(f, PaidByType') /\ ReferralWithin(f, PaidInAll')
    BY <2>1, WithinStays
  <2> QED
    BY <2>2 DEF f
<1>3. TenthsWithin(referralPoints', PaidInAll')
  BY <1>1, WithinStays
<1>4. ASSUME pc'["totals"] \in {"lp", "referral"}
      PROVE  LedgersWithin(read'["totals"], PaidByType')
  <2>1. IsTable(read'["totals"], SeasonKey) /\ LedgersWithin(read'["totals"], PaidByType)
    BY <1>1, <1>4
  <2> QED
    BY <2>1, WithinStays
<1>5. ASSUME NEW rows \in open'["totals"]
      PROVE  LedgersWithin(rows, PaidByType') /\ ReferralWithin(rows, PaidInAll')
  BY <1>1, WithinStays
<1>6. ASSUME NEW rows \in open'["referral"] PROVE TenthsWithin(rows, PaidInAll')
  BY <1>1, WithinStays
<1> QED
  BY <1>2, <1>3, <1>4, <1>5, <1>6 DEF Tenth, TotalsWithin

(* The rows read of the ledgers are within what they paid. *)
LEMMA HoldWithin ==
  ASSUME credited \subseteq Credits, IsFiniteSet(credited)
  PROVE  LedgersWithin(DirectHoldPoint, PaidByType)
<1> DEFINE f == DirectHoldPoint
<1>1. OfTypes(f, {"directHold"}) /\ \A p : Points(f, "directHold", p) <= PaidAs("directHold", p)
  BY LedgerQueries
<1>2. /\ \A t \in Ledger, p \in Places : PaidByType[t][p] = PaidAs(t, p)
      /\ \A t, p : PaidAs(t, p) \in Nat
  BY PaidFacts DEF PaidByType
<1> HIDE DEF f
<1>3. \A p : Points(f, "tvl", p) = 0
  <2>1. \A k \in DOMAIN f : k[1] # "tvl"
    BY <1>1 DEF OfTypes
  <2> QED
    BY <2>1, NoRowsNoPoints
<1>4. ASSUME NEW t \in Ledger, NEW p \in Places PROVE Points(f, t, p) <= PaidByType[t][p]
  <2>1. PaidByType[t][p] = PaidAs(t, p) /\ PaidAs(t, p) \in Nat
    BY <1>2
  <2>2. CASE t = "directHold"
    BY <1>1, <2>1, <2>2
  <2>3. CASE t = "tvl"
    <3>1. Points(f, t, p) = 0
      BY <1>3, <2>3
    <3> QED
      BY <2>1, <3>1
  <2> QED
    BY <2>2, <2>3 DEF Ledger
<1> QED
  BY <1>4 DEF LedgersWithin, f

(* So are they with those of the second ledger. *)
LEMMA LpWithin ==
  ASSUME credited \subseteq Credits, IsFiniteSet(credited),
         NEW got, IsTable(got, SeasonKey), OfTypes(got, {"directHold"}),
         LedgersWithin(got, PaidByType)
  PROVE  LedgersWithin(Join(got, LpPoint), PaidByType)
<1> DEFINE f == LpPoint
<1>1. /\ IsTable(f, SeasonKey) /\ OfTypes(f, {"tvl"})
      /\ \A p : Points(f, "tvl", p) = PaidAs("tvl", p)
  BY LedgerQueries
<1>2. /\ \A t \in Ledger, p \in Places : PaidByType[t][p] = PaidAs(t, p)
      /\ \A t, p : PaidAs(t, p) \in Nat
  BY PaidFacts DEF PaidByType
<1>3. /\ \A k \in DOMAIN f : k[1] # "directHold"
      /\ \A k \in DOMAIN got : k[1] # "tvl"
  BY <1>1 DEF OfTypes
<1> HIDE DEF f
<1>4. ASSUME NEW p \in Places PROVE Points(Join(got, f), "directHold", p) <= PaidByType["directHold"][p]
  <2>1. Points(Join(got, f), "directHold", p) = Points(got, "directHold", p)
    BY <1>1, <1>3, PointsOfJoin
  <2>2. Points(got, "directHold", p) <= PaidByType["directHold"][p]
    BY DEF LedgersWithin, Ledger
  <2> QED
    BY <2>1, <2>2
<1>5. ASSUME NEW p \in Places PROVE Points(Join(got, f), "tvl", p) <= PaidByType["tvl"][p]
  <2>1. Points(Join(got, f), "tvl", p) = Points(f, "tvl", p)
    BY <1>1, <1>3, PointsOfJoin
  <2>2. Points(f, "tvl", p) = PaidAs("tvl", p) /\ PaidByType["tvl"][p] = PaidAs("tvl", p)
        /\ PaidAs("tvl", p) \in Nat
    BY <1>1, <1>2 DEF Ledger
  <2> QED
    BY <2>1, <2>2
<1> QED
  BY <1>4, <1>5 DEF LedgersWithin, Ledger, f

(* Rows joined to a table that add none of a type, or take none from it,   *)
(* leave what is within what was paid where it was.                        *)
LEMMA WithinJoin ==
  ASSUME NEW f, NEW g, IsTable(f, SeasonKey), IsTable(g, SeasonKey)
  PROVE  /\ OfTypes(f, {"other"}) /\ TotalsWithin(g) => TotalsWithin(Join(f, g))
         /\ OfTypes(g, {"other"}) /\ TotalsWithin(f) => TotalsWithin(Join(f, g))
<1>1. ASSUME OfTypes(f, {"other"}), NEW t \in Ledger \cup {"referral"}, NEW p
      PROVE  Points(Join(f, g), t, p) = Points(g, t, p)
  <2>1. \A k \in DOMAIN f : k[1] # t
    BY <1>1 DEF OfTypes, Ledger
  <2> QED
    BY <2>1, PointsOfJoin
<1>2. ASSUME OfTypes(g, {"other"}), NEW t \in Ledger \cup {"referral"}, NEW p
      PROVE  Points(Join(f, g), t, p) = Points(f, t, p)
  <2>1. \A k \in DOMAIN g : k[1] # t
    BY <1>2 DEF OfTypes, Ledger
  <2> QED
    BY <2>1, PointsOfJoin
<1> QED
  BY <1>1, <1>2 DEF TotalsWithin, LedgersWithin, ReferralWithin

(* The referral points, once in the totals, are the same points.           *)
LEMMA ReferralJoins ==
  ASSUME IsTable(referralPoints, User \X Places), TenthsWithin(referralPoints, PaidInAll),
         NEW got, IsTable(got, SeasonKey), OfTypes(got, Ledger), LedgersWithin(got, PaidByType)
  PROVE  TotalsWithin(Join(got, ReferralPoint))
<1> DEFINE f == ReferralPoint
           of == [p \in Places |-> SumOver(referralPoints, {k \in DOMAIN referralPoints : k[2] = p})]
<1>1. /\ IsTable(f, SeasonKey) /\ OfTypes(f, {"referral"})
      /\ \A p \in Places : Points(f, "referral", p) = of[p]
  BY ReferralQuery
<1>2. \A p \in Places : 10 * of[p] <= PaidInAll[p]
  BY DEF TenthsWithin
<1> HIDE DEF f, of
<1>3. \A k \in DOMAIN got : k[1] # "referral"
  BY DEF OfTypes, Ledger
<1>4. \A t \in Ledger, k \in DOMAIN f : k[1] # t
  BY <1>1 DEF OfTypes, Ledger
<1>5. ASSUME NEW t \in Ledger, NEW p PROVE Points(Join(got, f), t, p) = Points(got, t, p)
  BY <1>1, <1>4, PointsOfJoin
<1>6. ASSUME NEW p PROVE Points(Join(got, f), "referral", p) = Points(f, "referral", p)
  BY <1>1, <1>3, PointsOfJoin
<1>7. LedgersWithin(Join(got, f), PaidByType)
  BY <1>5 DEF LedgersWithin
<1>8. ReferralWithin(Join(got, f), PaidInAll)
  BY <1>1, <1>2, <1>6 DEF ReferralWithin
<1> QED
  BY <1>7, <1>8 DEF TotalsWithin, f

(* The tenths taken of a table within what was paid are a tenth of it.     *)
LEMMA TenthsOfTotals ==
  ASSUME credited \subseteq Credits, IsFiniteSet(credited),
         NEW ref \in [User -> User \cup {Nobody}], NEW total, IsTable(total, SeasonKey),
         LedgersWithin(total, PaidByType)
  PROVE  TenthsWithin(Tenths(ref, StakePoint(total, {u \in DOMAIN ref : ref[u] # Nobody})), PaidInAll)
<1> DEFINE tenths == Tenths(ref, StakePoint(total, {u \in DOMAIN ref : ref[u] # Nobody}))
<1>1. /\ IsTable(tenths, User \X Places)
      /\ \A p : 10 * SumOver(tenths, {k \in DOMAIN tenths : k[2] = p})
                  <= Points(total, "directHold", p) + Points(total, "tvl", p)
  BY TenthsFacts
<1> HIDE DEF tenths
<1>2. ASSUME NEW p \in Places
      PROVE  10 * SumOver(tenths, {k \in DOMAIN tenths : k[2] = p}) <= PaidInAll[p]
  <2> DEFINE S == {k \in DOMAIN tenths : k[2] = p}
             n == SumOver(tenths, S)
             d == Points(total, "directHold", p)
             l == Points(total, "tvl", p)
  <2>1. 10 * n <= d + l
    BY <1>1
  <2>2. S \in SUBSET (User \X Places) /\ \A k \in S : tenths[k] \in Nat
    BY <1>1 DEF IsTable
  <2> HIDE DEF S
  <2>3. n \in Nat
    <3>1. IsFiniteSet(S)
      BY <2>2, KeysAreFinite, FS_Subset
    <3> QED
      BY <2>2, <3>1, SumIsNumber
  <2>4. d \in Nat /\ l \in Nat
    BY RowsAreFinite
  <2>5. d <= PaidAs("directHold", p) /\ l <= PaidAs("tvl", p)
    BY DEF LedgersWithin, PaidByType, Ledger
  <2>6. /\ PaidAs("directHold", p) \in Nat /\ PaidAs("tvl", p) \in Nat
        /\ PaidInAll[p] = PaidAs("directHold", p) + PaidAs("tvl", p)
    BY PaidFacts DEF PaidInAll
  <2> HIDE DEF n, d, l
  <2>7. 10 * n <= PaidInAll[p]
    BY <2>1, <2>3, <2>4, <2>5, <2>6
  <2> QED
    BY <2>7 DEF n, S
<1> QED
  BY <1>2 DEF TenthsWithin, tenths

(* Every step keeps all copies within a tenth. *)
LEMMA NextTenth ==
  ASSUME IInv, Next
  PROVE  Tenth'
<1>0. /\ TableTypes /\ ReadTypes /\ OpenTypes
      /\ credited \subseteq Credits /\ IsFiniteSet(credited)
      /\ referrer \in [User -> User \cup {Nobody}]
  BY JobTypesSuffice DEF JobTypes, IInv, TypeOK, Shapes
<1>1. /\ LedgersWithin(seasonTotal, PaidByType) /\ ReferralWithin(seasonTotal, PaidInAll)
      /\ TenthsWithin(referralPoints, PaidInAll)
      /\ pc["totals"] \in {"lp", "referral"} => LedgersWithin(read["totals"], PaidByType)
      /\ \A rows \in open["totals"] : TotalsWithin(rows)
      /\ \A rows \in open["referral"] : TenthsWithin(rows, PaidInAll)
  BY DEF IInv, Tenth, TotalsWithin
<1>s. /\ IsTable(seasonTotal, SeasonKey) /\ IsTable(referralPoints, User \X Places)
  BY <1>0 DEF TableTypes
<1>2. CASE (\E c \in Credits : Pay(c)) \/ (\E s \in Source, u \in Gifted : Give(s, u))
             \/ (\E u \in User, r \in User \ Vault : Invite(u, r))
  <2>1. UNCHANGED <<seasonTotal, referralPoints, pc, read, open>>
    BY <1>2, OutsideKeeps
  <2> QED
    BY <1>1, <2>1, TenthByParts
<1>3. CASE ReadDirectHold
  <2> DEFINE got == DirectHoldPoint
  <2>1. Reads("totals", "idle", "lp", got) /\ UNCHANGED open
    BY <1>3 DEF ReadDirectHold
  <2>2. LedgersWithin(got, PaidByType)
    BY <1>0, HoldWithin
  <2> HIDE DEF got
  <2>3. "totals" \in Job /\ "lp" \in Stage
    BY DEF Job, Stage
  <2>4. pc'["totals"] = "lp" /\ read'["totals"] = got /\ UNCHANGED tables
    BY <2>1, <2>3, ReadsFacts
  <2> QED
    BY <1>1, <2>1, <2>2, <2>4, TenthByParts DEF tables
<1>4. CASE ReadLp
  <2> DEFINE f   == read["totals"]
             got == Join(f, LpPoint)
  <2>1. Reads("totals", "lp", "referral", got) /\ UNCHANGED open
    BY <1>4 DEF ReadLp
  <2>2. pc["totals"] = "lp"
    BY <2>1 DEF Reads
  <2>3. /\ IsTable(f, SeasonKey) /\ OfTypes(f, {"directHold"}) /\ LedgersWithin(f, PaidByType)
    BY <1>0, <1>1, <2>2 DEF ReadTypes
  <2> HIDE DEF f
  <2>4. LedgersWithin(got, PaidByType)
    BY <1>0, <2>3, LpWithin
  <2> HIDE DEF got
  <2>5. "totals" \in Job /\ "referral" \in Stage
    BY DEF Job, Stage
  <2>6. pc'["totals"] = "referral" /\ read'["totals"] = got /\ UNCHANGED tables
    BY <2>1, <2>5, ReadsFacts
  <2> QED
    BY <1>1, <2>1, <2>4, <2>6, TenthByParts DEF tables
<1>5. CASE ReadReferral
  <2> DEFINE f   == read["totals"]
             got == Join(f, ReferralPoint)
  <2>1. Opens("totals", "referral", got)
    BY <1>5 DEF ReadReferral
  <2>2. pc["totals"] = "referral"
    BY <2>1 DEF Opens, Reads
  <2>3. IsTable(f, SeasonKey) /\ OfTypes(f, Ledger) /\ LedgersWithin(f, PaidByType)
    BY <1>0, <1>1, <2>2 DEF ReadTypes
  <2> HIDE DEF f
  <2>4. TotalsWithin(got)
    BY <1>1, <1>s, <2>3, ReferralJoins
  <2> HIDE DEF got
  <2>5. "totals" \in Job /\ "referral" \in Job \ {"totals"} /\ "idle" \in Stage
    BY DEF Job, Stage
  <2>6. /\ open'["totals"] = {got} /\ open'["referral"] = open["referral"]
        /\ Reads("totals", "referral", "idle", Empty)
    BY <2>1, <2>5, OpensFacts
  <2>7. pc'["totals"] = "idle" /\ UNCHANGED tables
    BY <2>5, <2>6, ReadsFacts
  <2>8. \A rows \in open'["totals"] : TotalsWithin(rows)
    BY <2>4, <2>6
  <2> QED
    BY <1>1, <2>6, <2>7, <2>8, TenthByParts DEF tables
<1>6. CASE ReadReferrers \/ ReadPoints \/ ReadSupplement
  <2>1. PICK j, from, to, got : /\ j \in {"referral", "other"} /\ from \in Stage /\ to \in Stage
                                /\ Reads(j, from, to, got)
    BY <1>6 DEF ReadReferrers, ReadPoints, ReadSupplement, Stage
  <2>2. open' = open
    BY <1>6 DEF ReadReferrers, ReadPoints, ReadSupplement
  <2>3. j \in Job /\ "totals" \in Job \ {j}
    BY <2>1 DEF Job
  <2>4. pc'["totals"] = pc["totals"] /\ read'["totals"] = read["totals"] /\ UNCHANGED tables
    BY <2>1, <2>3, ReadsFacts
  <2> QED
    BY <1>1, <2>2, <2>4, TenthByParts DEF tables
<1>7. CASE ReadStake
  <2> DEFINE ref == read["referral"]
             got == Tenths(ref, StakePoint(seasonTotal, {u \in DOMAIN ref : ref[u] # Nobody}))
  <2>1. Opens("referral", "stake", got)
    BY <1>7 DEF ReadStake
  <2>2. pc["referral"] = "stake"
    BY <2>1 DEF Opens, Reads
  <2>3. ref \in [User -> User \cup {Nobody}]
    BY <1>0, <2>2 DEF ReadTypes
  <2> HIDE DEF ref
  <2>4. TenthsWithin(got, PaidInAll)
    BY <1>0, <1>1, <1>s, <2>3, TenthsOfTotals
  <2> HIDE DEF got
  <2>5. "referral" \in Job /\ "totals" \in Job \ {"referral"} /\ "idle" \in Stage
    BY DEF Job, Stage
  <2>6. /\ open'["referral"] = {got} /\ open'["totals"] = open["totals"]
        /\ Reads("referral", "stake", "idle", Empty)
    BY <2>1, <2>5, OpensFacts
  <2>7. pc'["totals"] = pc["totals"] /\ read'["totals"] = read["totals"] /\ UNCHANGED tables
    BY <2>5, <2>6, ReadsFacts
  <2>8. \A rows \in open'["referral"] : TenthsWithin(rows, PaidInAll)
    BY <2>4, <2>6
  <2> QED
    BY <1>1, <2>6, <2>7, <2>8, TenthByParts DEF tables
<1>8. CASE UpsertOther
  <2> DEFINE f == read["other"]
             total == seasonTotal
  <2>1. /\ pc["other"] = "write" /\ pc' = [pc EXCEPT !["other"] = "idle"]
        /\ read' = [read EXCEPT !["other"] = Empty]
        /\ seasonTotal' = Join(total, f) /\ UNCHANGED <<referralPoints, open>>
    BY <1>8 DEF UpsertOther
  <2>2. IsTable(f, SeasonKey) /\ OfTypes(f, {"other"}) /\ IsTable(total, SeasonKey)
    BY <1>0, <1>s, <2>1, OtherKeysAreKeys DEF ReadTypes
  <2>3. TotalsWithin(total)
    BY <1>1 DEF TotalsWithin
  <2>4. "other" \in Job /\ "totals" \in Job \ {"other"}
    BY DEF Job
  <2>5. pc'["totals"] = pc["totals"] /\ read'["totals"] = read["totals"]
    BY <2>1, <2>4, StopsFacts
  <2> HIDE DEF f, total
  <2>6. TotalsWithin(Join(total, f))
    BY <2>2, <2>3, WithinJoin
  <2>7. LedgersWithin(seasonTotal', PaidByType) /\ ReferralWithin(seasonTotal', PaidInAll)
    BY <2>1, <2>6 DEF TotalsWithin
  <2> QED
    BY <1>1, <2>1, <2>5, <2>7, TenthByParts
<1>9. CASE CommitTotals
  <2> DEFINE kept == DeleteBySeason(seasonTotal)
  <2>1. PICK rows \in open["totals"] : seasonTotal' = Join(kept, rows)
    BY <1>9 DEF CommitTotals
  <2>2. open' = [open EXCEPT !["totals"] = {}] /\ UNCHANGED <<referralPoints, pc, read>>
    BY <1>9 DEF CommitTotals
  <2>3. IsTable(kept, SeasonKey) /\ OfTypes(kept, {"other"})
    BY <1>s, DeleteFacts
  <2>4. IsTable(rows, SeasonKey) /\ TotalsWithin(rows)
    BY <1>0, <1>1 DEF OpenTypes
  <2> HIDE DEF kept
  <2>5. TotalsWithin(Join(kept, rows))
    BY <2>3, <2>4, WithinJoin
  <2>6. "totals" \in Job /\ "referral" \in Job \ {"totals"}
    BY DEF Job
  <2>7. open'["totals"] = {} /\ open'["referral"] = open["referral"]
    BY <2>2, <2>6, ClosesFacts
  <2>8. LedgersWithin(seasonTotal', PaidByType) /\ ReferralWithin(seasonTotal', PaidInAll)
    BY <2>1, <2>5 DEF TotalsWithin
  <2> QED
    BY <1>1, <2>2, <2>7, <2>8, TenthByParts
<1>10. CASE CommitReferral
  <2>1. PICK rows \in open["referral"] : referralPoints' = rows
    BY <1>10 DEF CommitReferral
  <2>2. open' = [open EXCEPT !["referral"] = {}] /\ UNCHANGED <<seasonTotal, pc, read>>
    BY <1>10 DEF CommitReferral
  <2>3. "referral" \in Job /\ "totals" \in Job \ {"referral"}
    BY DEF Job
  <2>4. open'["referral"] = {} /\ open'["totals"] = open["totals"]
    BY <2>2, <2>3, ClosesFacts
  <2>5. TenthsWithin(referralPoints', PaidInAll)
    BY <1>1, <2>1
  <2> QED
    BY <1>1, <2>2, <2>4, <2>5, TenthByParts
<1>11. CASE (\E j \in Job : JobFails(j)) \/ Crash
  <2>1. UNCHANGED <<seasonTotal, referralPoints>>
    BY <1>11 DEF JobFails, Crash, tables
  <2>2. /\ pc'["totals"] = "idle" \/ (pc'["totals"] = pc["totals"] /\ read'["totals"] = read["totals"])
        /\ open' = open \/ (open'["totals"] = {} /\ open'["referral"] = {})
    <3>1. CASE \E j \in Job : JobFails(j)
      <4>1. PICK j \in Job : /\ pc' = [pc EXCEPT ![j] = "idle"]
                             /\ read' = [read EXCEPT ![j] = Empty] /\ open' = open
        BY <3>1 DEF JobFails
      <4>2. "totals" = j \/ "totals" \in Job \ {j}
        BY DEF Job
      <4> QED
        BY <4>1, <4>2, StopsFacts
    <3>2. CASE Crash
      BY <3>2 DEF Crash, Job
    <3> QED
      BY <1>11, <3>1, <3>2
  <2>3. /\ \A rows \in open'["totals"] : TotalsWithin(rows)
        /\ \A rows \in open'["referral"] : TenthsWithin(rows, PaidInAll)
    BY <1>1, <2>2
  <2>4. pc'["totals"] \in {"lp", "referral"} => LedgersWithin(read'["totals"], PaidByType)
    BY <1>1, <2>2
  <2> QED
    BY <1>1, <2>1, <2>3, <2>4, TenthByParts
<1> QED
  BY <1>2, <1>3, <1>4, <1>5, <1>6, <1>7, <1>8, <1>9, <1>10, <1>11
     DEF Next, TotalsStep, ReferralStep, OtherStep

------------------------------------------------------------------------------
(* The invariant is inductive. *)
LEMMA NextInvariant == IInv /\ [Next]_vars => IInv'
<1> SUFFICES ASSUME IInv, [Next]_vars PROVE IInv'
  OBVIOUS
<1>1. CASE Next
  <2>1. TypeOK' /\ Shapes' /\ Types'
    <3>1. /\ JobTypes'
          /\ credited' \subseteq Credits /\ IsFiniteSet(credited')
          /\ given' \in [Source -> [User -> 0..MaxOther]]
          /\ referrer' \in [User -> User \cup {Nobody}]
      BY <1>1, NextJobTypes, OutsideTypes
    <3>2. (JobTypes /\ credited \subseteq Credits /\ IsFiniteSet(credited)
             /\ given \in [Source -> [User -> 0..MaxOther]]
             /\ referrer \in [User -> User \cup {Nobody}]
           => TypeOK /\ Shapes /\ Types)'
      BY JobTypesSuffice, PTL
    <3> QED
      BY <3>1, <3>2
  <2>2. OthersGrow' /\ Tenth'
    BY <1>1, NextOthers, NextTenth
  <2> QED
    BY <2>1, <2>2 DEF IInv
<1>2. CASE UNCHANGED vars
  BY <1>2 DEF vars, tables, locals, bounds, IInv, TypeOK, Shapes, Types, OthersGrow, Tenth,
              TotalsWithin, LedgersWithin, ReferralWithin, TenthsWithin, OtherWithin, Given,
              GivenFrom, PaidByType, PaidInAll, PaidAs, PaidRows, Paid, IsTable, OfTypes
<1> QED
  BY <1>1, <1>2

(* In every state the variables have their types, the rows of type "other" *)
(* and the referral points are bounded by what was given and paid, in the  *)
(* tables and in every copy a job or a transaction holds.                  *)
THEOREM SeasonInvariant == Spec => []IInv
<1>1. Init => IInv
  BY InitInvariant
<1>2. IInv /\ [Next]_vars => IInv'
  BY NextInvariant
<1> QED
  BY <1>1, <1>2, PTL DEF Spec

(* Every variable keeps its type, whatever the jobs and their transactions *)
(* interleave: the keys of the tables are season keys, no job has two      *)
(* transactions at a time and the loop that upserts has none.              *)
THEOREM TypeCorrect == Spec => []TypeOK
<1>1. IInv => TypeOK
  BY DEF IInv
<1> QED
  BY <1>1, SeasonInvariant, PTL

(* Referral points never compound: in both tables, in every state, those   *)
(* of a pair together are at most a tenth of what the ledgers paid in it,  *)
(* although each table is computed from the other.                         *)
THEOREM ReferralStaysATenth == Spec => []ReferralIsATenth
<1>1. IInv => ReferralIsATenth
  <2> SUFFICES ASSUME IInv, NEW p \in Places
               PROVE  /\ 10 * SumOver(referralPoints, {k \in DOMAIN referralPoints : k[2] = p}) <= Paid(p)
                      /\ 10 * SumOver(seasonTotal, {k \in DOMAIN seasonTotal :
                                                      k[1] = "referral" /\ k[3] = p}) <= Paid(p)
    BY DEF ReferralIsATenth
  <2>1. TenthsWithin(referralPoints, PaidInAll) /\ ReferralWithin(seasonTotal, PaidInAll)
    BY DEF IInv, Tenth, TotalsWithin
  <2>2. PaidInAll[p] = Paid(p)
    BY DEF PaidInAll
  <2>3. 10 * SumOver(referralPoints, {k \in DOMAIN referralPoints : k[2] = p}) <= Paid(p)
    BY <2>1, <2>2 DEF TenthsWithin
  <2>4. 10 * SumOver(seasonTotal, {k \in DOMAIN seasonTotal : k[1] = "referral" /\ k[3] = p})
          <= Paid(p)
    BY <2>1, <2>2 DEF ReferralWithin, Points, RowsOf
  <2> QED
    BY <2>3, <2>4
<1> QED
  BY <1>1, SeasonInvariant, PTL

(* A row of type "other" never leaves the season's table and never         *)
(* shrinks: the rebuild keeps it, and no row the rebuild inserts or the    *)
(* loop writes takes points from it.                                       *)
THEOREM OtherRowsStay == Spec => OtherRowsSurvive
<1> DEFINE Stay == \A k \in DOMAIN seasonTotal :
                     k[1] = "other" => k \in DOMAIN seasonTotal' /\ seasonTotal[k] <= seasonTotal'[k]
<1>1. ASSUME IInv, [Next]_vars PROVE Stay
  <2>0. OthersGrow /\ TableTypes /\ ReadTypes /\ OpenTypes
    BY <1>1, JobTypesSuffice DEF IInv, JobTypes
  <2>1. IsTable(seasonTotal, SeasonKey) /\ \A k \in DOMAIN seasonTotal : seasonTotal[k] <= seasonTotal[k]
    BY <2>0 DEF TableTypes, IsTable
  <2>2. CASE seasonTotal' = seasonTotal
    BY <2>1, <2>2
  <2>3. CASE UpsertOther
    <3> DEFINE f == read["other"]
    <3>1. seasonTotal' = Join(seasonTotal, f) /\ pc["other"] = "write"
      BY <2>3 DEF UpsertOther
    <3>2. \A k \in DOMAIN seasonTotal \cap DOMAIN f : seasonTotal[k] <= f[k]
      BY <2>0, <3>1 DEF OthersGrow
    <3> HIDE DEF f
    <3>3. /\ DOMAIN Join(seasonTotal, f) = DOMAIN seasonTotal \cup DOMAIN f
          /\ \A k \in DOMAIN f : Join(seasonTotal, f)[k] = f[k]
          /\ \A k \in DOMAIN seasonTotal \ DOMAIN f : Join(seasonTotal, f)[k] = seasonTotal[k]
      BY JoinFacts
    <3> QED
      BY <2>1, <3>1, <3>2, <3>3
  <2>4. CASE CommitTotals
    <3> DEFINE kept == DeleteBySeason(seasonTotal)
    <3>1. PICK rows \in open["totals"] : seasonTotal' = Join(kept, rows)
      BY <2>4 DEF CommitTotals
    <3>2. \A k \in DOMAIN rows : k[1] # "other"
      BY <2>0 DEF OpenTypes, OfTypes, Ledger
    <3>3. \A k \in DOMAIN seasonTotal : k[1] = "other" => k \in DOMAIN kept /\ kept[k] = seasonTotal[k]
      BY <2>1, DeleteFacts
    <3> HIDE DEF kept
    <3>4. /\ DOMAIN Join(kept, rows) = DOMAIN kept \cup DOMAIN rows
          /\ \A k \in DOMAIN kept \ DOMAIN rows : Join(kept, rows)[k] = kept[k]
      BY JoinFacts
    <3> QED
      BY <2>1, <3>1, <3>2, <3>3, <3>4
  <2>5. seasonTotal' = seasonTotal \/ UpsertOther \/ CommitTotals
    BY <1>1 DEF Next, Pay, Give, Invite, TotalsStep, ReadDirectHold, ReadLp, ReadReferral,
                ReferralStep, ReadReferrers, ReadStake, CommitReferral, OtherStep, ReadPoints,
                ReadSupplement, JobFails, Crash, Opens, Reads, tables, vars
  <2> QED
    BY <2>2, <2>3, <2>4, <2>5
<1>2. IInv /\ [Next]_vars => [Stay]_vars
  BY <1>1
<1> QED
  BY <1>2, SeasonInvariant, PTL DEF Spec, OtherRowsSurvive

=============================================================================
