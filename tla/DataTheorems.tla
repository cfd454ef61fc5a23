---------------------------- MODULE DataTheorems ----------------------------
(***************************************************************************)
(* Facts about numbers, finite sets and sums that the proofs of several    *)
(* components need.  Each is an induction, done as a search for the least  *)
(* counterexample.                                                         *)
(***************************************************************************)
EXTENDS Integers, FiniteSets, Sums, FiniteSetTheorems, WellFoundedInduction, TLAPS

(* A set of numbers has a least one. *)
LEMMA LeastNumber ==
  ASSUME NEW T, T \subseteq Nat, T # {}
  PROVE  \E x \in T : \A y \in T : x <= y
<1>1. \E x \in T : \A y \in T : ~ (<<y, x>> \in OpToRel(<, Nat))
  BY NatLessThanWellFounded, WFMin
<1>2. ASSUME NEW x \in T, NEW y \in T, ~ (<<y, x>> \in OpToRel(<, Nat)) PROVE x <= y
  BY <1>2 DEF OpToRel
<1> QED
  BY <1>1, <1>2

(* Of a set of numbers that are not above b there is a greatest one. *)
LEMMA GreatestNumber ==
  ASSUME NEW T, T \subseteq Nat, T # {}, NEW b \in Nat, \A x \in T : x <= b
  PROVE  Max(T) \in T /\ \A y \in T : y <= Max(T)
<1> DEFINE Gaps == {b - x : x \in T}
<1>1. Gaps \subseteq Nat /\ Gaps # {}
  <2>1. \A x \in T : b - x \in Nat
    OBVIOUS
  <2> QED
    BY <2>1
<1>2. PICK g \in Gaps : \A e \in Gaps : g <= e
  BY <1>1, LeastNumber
<1>3. PICK x \in T : g = b - x
  OBVIOUS
<1>4. \A y \in T : b - x <= b - y
  BY <1>2, <1>3
<1>5. \A y \in T : x >= y
  <2> SUFFICES ASSUME NEW y \in T PROVE x >= y
    OBVIOUS
  <2>1. b - x <= b - y /\ x \in Nat /\ y \in Nat
    BY <1>4
  <2> HIDE DEF Gaps
  <2> QED
    BY <2>1
<1>6. \E z \in T : \A y \in T : z >= y
  BY <1>5
<1>7. Max(T) \in T /\ \A y \in T : Max(T) >= y
  BY <1>6 DEF Max
<1>8. \A y \in T : y \in Nat /\ Max(T) \in Nat
  BY <1>7
<1> QED
  BY <1>7, <1>8

(* A place is a number, at least one for a number of the set.              *)
LEMMA PlaceFacts ==
  ASSUME NEW H, H \subseteq Nat, IsFiniteSet(H), NEW a \in H
  PROVE  Place(H, a) \in Nat /\ 1 <= Place(H, a)
<1>1. IsFiniteSet({x \in H : x <= a}) /\ a \in {x \in H : x <= a}
  BY FS_Subset
<1>2. Place(H, a) \in Nat /\ Place(H, a) # 0
  BY <1>1, FS_CardinalityType, FS_EmptySet DEF Place
<1> QED
  BY <1>2

(* The number with the next lower place is the greatest below it.          *)
LEMMA PlaceBelow ==
  ASSUME NEW H, H \subseteq Nat, IsFiniteSet(H), NEW a \in H, 1 < Place(H, a)
  PROVE  \E y \in H : y < a /\ Place(H, a) = Place(H, y) + 1
<1> DEFINE Below == {x \in H : x < a}
           Gaps  == {a - x : x \in Below}
<1>1. IsFiniteSet(Below)
  BY FS_Subset
<1>2. a \notin Below /\ {x \in H : x <= a} = Below \cup {a}
  <2>1. a \in Nat /\ \A x \in H : x \in Nat
    OBVIOUS
  <2>2. \A x \in H : x <= a <=> x < a \/ x = a
    BY <2>1
  <2>3. ~(a < a)
    BY <2>1
  <2>4. a \notin Below
    BY <2>3
  <2>5. {x \in H : x <= a} = Below \cup {a}
    BY <2>2
  <2> QED
    BY <2>4, <2>5
<1>3. Place(H, a) = Cardinality(Below) + 1 /\ Cardinality(Below) \in Nat
  BY <1>1, <1>2, FS_AddElement, FS_CardinalityType DEF Place
<1>4. Below # {}
  BY <1>3, FS_EmptySet
<1>5. Gaps # {} /\ \A e \in Gaps : e \in Nat
  <2>1. \A x \in Below : x \in Nat /\ a \in Nat /\ x < a
    OBVIOUS
  <2>2. \A x \in Below : a - x \in Nat
    BY <2>1
  <2> QED
    BY <1>4, <2>2
<1>6. PICK d \in Gaps : \A e \in Gaps : d <= e
  BY <1>5, LeastNumber
<1>7. PICK y \in Below : d = a - y
  OBVIOUS
<1>8. \A x \in Below : x <= y
  <2> SUFFICES ASSUME NEW x \in Below PROVE x <= y
    OBVIOUS
  <2>1. a - y <= a - x
    BY <1>6, <1>7
  <2>2. x \in Nat /\ y \in Nat /\ a \in Nat
    OBVIOUS
  <2> QED
    BY <2>1, <2>2
<1>9. y \in H /\ y < a /\ y \in Nat /\ a \in Nat
  OBVIOUS
<1>10. {x \in H : x <= y} = Below
  <2>1. \A x \in H : x \in Nat
    OBVIOUS
  <2>2. \A x \in H : x <= y <=> x < a
    BY <1>8, <1>9, <2>1
  <2> QED
    BY <2>2
<1> HIDE DEF Below
<1>11. Place(H, y) = Cardinality(Below)
  BY <1>10 DEF Place
<1> QED
  BY <1>3, <1>9, <1>11

(* If no place lies behind n up to n + m, none lies behind n.              *)
LEMMA PlacesHaveNoGaps ==
  ASSUME NEW H, H \subseteq Nat, IsFiniteSet(H), NEW n \in Nat, NEW m \in Nat \ {0},
         \A a \in H : ~ (n < Place(H, a) /\ Place(H, a) <= n + m)
  PROVE  \A a \in H : Place(H, a) <= n
<1> DEFINE Beyond == {a \in H : n < Place(H, a)}
<1>0. \A a \in H : Place(H, a) \in Nat /\ 1 <= Place(H, a)
  BY PlaceFacts
<1> SUFFICES ASSUME Beyond # {} PROVE FALSE
  BY <1>0
<1>1. PICK a \in Beyond : \A x \in Beyond : a <= x
  BY LeastNumber
<1>2. a \in H /\ n < Place(H, a) /\ Place(H, a) \in Nat
  BY PlaceFacts
<1>3. n + 1 < Place(H, a)
  BY <1>2
<1>4. PICK y \in H : y < a /\ Place(H, a) = Place(H, y) + 1
  <2>1. 1 < Place(H, a)
    BY <1>2, <1>3
  <2> HIDE DEF Beyond
  <2> QED
    BY <1>2, <2>1, PlaceBelow
<1>5. Place(H, y) \in Nat
  BY <1>0
<1>6. y \in Beyond
  BY <1>3, <1>4, <1>5
<1>7. a <= y /\ y < a /\ a \in Nat /\ y \in Nat
  BY <1>1, <1>4, <1>6
<1> QED
  BY <1>7

(* It is at most the number of the numbers, and may only grow with them    *)
(* and with the number; up to one of them it does grow.                    *)
LEMMA PlaceOrder ==
  ASSUME NEW H, H \subseteq Nat, IsFiniteSet(H), NEW a \in Nat, NEW b \in Nat, a <= b
  PROVE  /\ Place(H, a) \in Nat /\ Place(H, b) \in Nat /\ Place(H, a) <= Place(H, b)
         /\ Place(H, b) <= Cardinality(H) /\ Cardinality(H) \in Nat
         /\ b \in H /\ a < b => Place(H, a) < Place(H, b)
<1> DEFINE A == {x \in H : x <= a}
           B == {x \in H : x <= b}
<1>1. \A x \in H : x \in Nat
  OBVIOUS
<1>2. A \subseteq B
  <2>1. \A x \in H : x <= a => x <= b
    BY <1>1
  <2> QED
    BY <2>1
<1>3. b \in H /\ a < b => b \in B /\ b \notin A
  BY <1>1
<1>4. IsFiniteSet(B) /\ B \in SUBSET H
  BY FS_Subset
<1>5. Place(H, a) = Cardinality(A) /\ Place(H, b) = Cardinality(B)
  BY DEF Place
<1> HIDE DEF A, B
<1>6. IsFiniteSet(A) /\ Cardinality(A) <= Cardinality(B) /\ Cardinality(B) <= Cardinality(H)
  BY <1>2, <1>4, FS_Subset
<1>7. Cardinality(A) \in Nat /\ Cardinality(B) \in Nat /\ Cardinality(H) \in Nat
  BY <1>4, <1>6, FS_CardinalityType
<1>8. b \in H /\ a < b => Cardinality(A) # Cardinality(B)
  BY <1>2, <1>3, <1>4, FS_Subset
<1> QED
  BY <1>5, <1>6, <1>7, <1>8

(* More numbers, no lower place. *)
LEMMA PlaceGrows ==
  ASSUME NEW G, G \subseteq Nat, IsFiniteSet(G), NEW H, H \subseteq G, NEW a \in Nat
  PROVE  Place(H, a) \in Nat /\ Place(G, a) \in Nat /\ Place(H, a) <= Place(G, a)
<1> DEFINE A == {x \in H : x <= a}
           B == {x \in G : x <= a}
<1>1. A \subseteq B /\ IsFiniteSet(B)
  BY FS_Subset
<1>2. Place(H, a) = Cardinality(A) /\ Place(G, a) = Cardinality(B)
  BY DEF Place
<1> HIDE DEF A, B
<1>3. IsFiniteSet(A) /\ Cardinality(A) <= Cardinality(B)
  BY <1>1, FS_Subset
<1> QED
  BY <1>1, <1>2, <1>3, FS_CardinalityType

(* Every place below one that is taken is taken.                           *)
LEMMA PlaceTaken ==
  ASSUME NEW H, H \subseteq Nat, IsFiniteSet(H), NEW a \in H, NEW k \in 1..Place(H, a)
  PROVE  \E y \in H : Place(H, y) = k
<1> DEFINE Up == {x \in H : k <= Place(H, x)}
<1>0. \A x \in H : x \in Nat /\ Place(H, x) \in Nat
  BY PlaceFacts
<1>1. PICK y \in Up : \A x \in Up : y <= x
  <2>1. a \in Up
    BY <1>0
  <2> QED
    BY <2>1, LeastNumber
<1>2. y \in H /\ k <= Place(H, y) /\ k \in Nat /\ 1 <= k
  BY <1>0
<1>3. \A x \in H : x < y => Place(H, x) < k
  BY <1>0, <1>1, <1>2
<1> HIDE DEF Up
<1>4. CASE Place(H, y) = k
  BY <1>2, <1>4
<1>5. CASE k < Place(H, y)
  <2>1. 1 < Place(H, y)
    BY <1>0, <1>2, <1>5
  <2>2. PICK x \in H : x < y /\ Place(H, y) = Place(H, x) + 1
    BY <1>2, <2>1, PlaceBelow
  <2> QED
    BY <1>0, <1>2, <1>3, <1>5, <2>2
<1> QED
  BY <1>0, <1>2, <1>4, <1>5

(* The numbers with places from behind n up to n + m are m, unless there   *)
(* are no numbers with higher places.                                      *)
LEMMA PlacesAreFull ==
  ASSUME NEW H, H \subseteq Nat, IsFiniteSet(H), NEW n \in Nat, NEW m \in Nat \ {0},
         NEW a \in H, n + m < Place(H, a)
  PROVE  Cardinality({x \in H : n < Place(H, x) /\ Place(H, x) <= n + m}) = m
<1> DEFINE Low  == {x \in H : Place(H, x) <= n}
           High == {x \in H : Place(H, x) <= n + m}
           W    == {x \in H : n < Place(H, x) /\ Place(H, x) <= n + m}
<1>0. \A x \in H : x \in Nat /\ Place(H, x) \in Nat /\ 1 <= Place(H, x)
  BY PlaceFacts
<1>1. ASSUME NEW k \in Nat, k <= n + m
      PROVE  Cardinality({x \in H : Place(H, x) <= k}) = k
  <2>1. CASE k = 0
    <3>0. \A x \in H : ~(Place(H, x) <= k)
      BY <1>0, <2>1
    <3>1. {x \in H : Place(H, x) <= k} = {}
      BY <3>0
    <3> QED
      BY <2>1, <3>1, FS_EmptySet
  <2>2. CASE k # 0
    <3>1. k \in 1..Place(H, a)
      BY <1>0, <1>1, <2>2
    <3>2. PICK y \in H : Place(H, y) = k
      BY <3>1, PlaceTaken
    <3>3. \A x \in H : x <= y => Place(H, x) <= k
      BY <1>0, <3>2, PlaceOrder
    <3>4. \A x \in H : y < x => k < Place(H, x)
      <4> SUFFICES ASSUME NEW x \in H, y < x PROVE k < Place(H, x)
        OBVIOUS
      <4>1. y \in Nat /\ x \in Nat /\ y <= x
        BY <1>0
      <4> QED
        BY <3>2, <4>1, PlaceOrder
    <3>5. {x \in H : Place(H, x) <= k} = {x \in H : x <= y}
      <4>1. \A x \in H : Place(H, x) <= k <=> x <= y
        BY <1>0, <3>3, <3>4
      <4> QED
        BY <4>1
    <3> QED
      BY <3>2, <3>5 DEF Place
  <2> QED
    BY <2>1, <2>2
<1>2. Cardinality(Low) = n /\ Cardinality(High) = n + m
  BY <1>1
<1>3. W = High \ Low /\ High \cap Low = Low
  <2>1. \A x \in H : /\ n < Place(H, x) <=> ~(Place(H, x) <= n)
                     /\ Place(H, x) <= n => Place(H, x) <= n + m
    BY <1>0
  <2> QED
    BY <2>1
<1>4. IsFiniteSet(High)
  BY FS_Subset
<1> HIDE DEF Low, High, W
<1>5. Cardinality(High \ Low) = Cardinality(High) - Cardinality(High \cap Low)
  BY <1>4, FS_Difference
<1>6. Cardinality(W) = m
  BY <1>2, <1>3, <1>5
<1> QED
  BY <1>6 DEF W

------------------------------------------------------------------------------
(* Finite sets. *)

(* A set without one of its elements. *)
LEMMA SmallerSet ==
  ASSUME NEW S, IsFiniteSet(S), NEW x \in S
  PROVE  /\ IsFiniteSet(S \ {x}) /\ Cardinality(S \ {x}) \in Nat /\ Cardinality(S) \in Nat
         /\ Cardinality(S) = Cardinality(S \ {x}) + 1
<1>1. IsFiniteSet(S \ {x}) /\ Cardinality(S \ {x}) = Cardinality(S) - 1
  BY FS_RemoveElement
<1> QED
  BY <1>1, FS_CardinalityType

(* What holds of the empty set, and of a set if it holds of the set        *)
(* without any one of its elements, holds of every finite set.             *)
LEMMA SetInduction ==
  ASSUME NEW S, IsFiniteSet(S), NEW P, {} \in P,
         \A s \in SUBSET S : s # {} /\ (\A x \in s : s \ {x} \in P) => s \in P
  PROVE  S \in P
<1> DEFINE Bad == {n \in Nat : \E s \in SUBSET S : Cardinality(s) = n /\ s \notin P}
<1>0. \A s \in SUBSET S : IsFiniteSet(s) /\ Cardinality(s) \in Nat
  BY FS_Subset, FS_CardinalityType
<1>1. Bad = {}
  <2> SUFFICES ASSUME Bad # {} PROVE FALSE
    OBVIOUS
  <2>1. PICK n \in Bad : \A m \in Bad : n <= m
    BY LeastNumber
  <2>2. PICK s \in SUBSET S : Cardinality(s) = n /\ s \notin P
    OBVIOUS
  <2>3. PICK x \in s : s \ {x} \notin P
    BY <2>2
  <2> DEFINE t == s \ {x}
  <2>4. /\ t \in SUBSET S /\ t \notin P /\ Cardinality(t) \in Nat
        /\ Cardinality(s) = Cardinality(t) + 1
    BY <1>0, <2>3, SmallerSet
  <2> HIDE DEF t
  <2>5. n <= Cardinality(t) /\ n = Cardinality(t) + 1
    BY <2>1, <2>2, <2>4
  <2> QED
    BY <2>4, <2>5
<1> QED
  BY <1>0, <1>1

(* The image of a finite set is finite, and so are its triples.            *)
LEMMA FiniteImage ==
  ASSUME NEW S, IsFiniteSet(S), NEW m
  PROVE  IsFiniteSet({m[x] : x \in S})
<1> DEFINE P == {s \in SUBSET S : IsFiniteSet({m[x] : x \in s})}
<1>1. {} \in P
  BY FS_EmptySet
<1>2. ASSUME NEW s \in SUBSET S, s # {}, \A x \in s : s \ {x} \in P
      PROVE  s \in P
  <2>1. PICK x \in s : TRUE
    BY <1>2
  <2>2. IsFiniteSet({m[y] : y \in s \ {x}})
    BY <1>2
  <2>3. {m[y] : y \in s} = {m[y] : y \in s \ {x}} \cup {m[x]}
    OBVIOUS
  <2>4. IsFiniteSet({m[y] : y \in s \ {x}} \cup {m[x]})
    <3> DEFINE others == {m[y] : y \in s \ {x}}
    <3>1. IsFiniteSet(others)
      BY <2>2
    <3> HIDE DEF others
    <3>2. IsFiniteSet(others \cup {m[x]})
      BY <3>1, FS_AddElement
    <3> QED
      BY <3>2 DEF others
  <2> QED
    BY <2>3, <2>4
<1> HIDE DEF P
<1>3. S \in P
  BY <1>1, <1>2, SetInduction
<1> QED
  BY <1>3 DEF P

(* Triples of members of finite sets. *)
LEMMA FiniteTriples ==
  ASSUME NEW R, IsFiniteSet(R), NEW S, IsFiniteSet(S), NEW T, IsFiniteSet(T)
  PROVE  IsFiniteSet(R \X S \X T)
<1> DEFINE pairs == (R \X S) \X T
           flat  == [y \in pairs |-> <<y[1][1], y[1][2], y[2]>>]
<1>1. IsFiniteSet(pairs)
  <2>1. IsFiniteSet(R \X S)
    BY FS_Product
  <2> QED
    BY <2>1, FS_Product
<1>2. R \X S \X T = {flat[y] : y \in pairs}
  <2>1. ASSUME NEW t \in R \X S \X T PROVE t \in {flat[y] : y \in pairs}
    <3>1. PICK a \in R, b \in S, c \in T : t = <<a, b, c>>
      OBVIOUS
    <3>2. <<<<a, b>>, c>> \in pairs /\ flat[<<<<a, b>>, c>>] = <<a, b, c>>
      OBVIOUS
    <3> HIDE DEF pairs, flat
    <3> QED
      BY <3>1, <3>2
  <2>2. ASSUME NEW y \in pairs PROVE flat[y] \in R \X S \X T
    OBVIOUS
  <2> HIDE DEF pairs, flat
  <2> QED
    BY <2>1, <2>2
<1> HIDE DEF pairs, flat
<1> QED
  BY <1>1, <1>2, FiniteImage

------------------------------------------------------------------------------
(* Sums.  The library adds a set up element by element, in the order of    *)
(* CHOOSE.                                                                 *)
Taken(s) == CHOOSE x \in s : TRUE
IsRun(f, S, g) ==
  g = [s \in SUBSET S |-> IF s = {} THEN 0 ELSE f[Taken(s)] + g[s \ {Taken(s)}]]

(* A sum is found along any such run through the subsets.                   *)
LEMMA SumByRun ==
  ASSUME NEW f, NEW S
  PROVE  SumOver(f, S) = (CHOOSE g : IsRun(f, S, g))[S]
BY DEF SumOver, MapThenSumSet, MapThenFoldSet, IsRun, Taken

(* Two runs over the same table agree where both are defined.              *)
LEMMA RunsAgree ==
  ASSUME NEW f, NEW S, NEW T, NEW g, NEW h, IsRun(f, S, g), IsRun(f, T, h),
         NEW U \in SUBSET (S \cap T), IsFiniteSet(U)
  PROVE  g[U] = h[U]
<1> DEFINE P == {s \in SUBSET U : g[s] = h[s]}
<1>1. {} \in P
  BY DEF IsRun
<1>2. ASSUME NEW s \in SUBSET U, s # {}, \A x \in s : s \ {x} \in P
      PROVE  s \in P
  <2>1. Taken(s) \in s
    BY <1>2 DEF Taken
  <2>2. g[s \ {Taken(s)}] = h[s \ {Taken(s)}]
    BY <1>2, <2>1
  <2>3. s \in SUBSET S /\ s \in SUBSET T
    OBVIOUS
  <2>4. /\ g[s] = f[Taken(s)] + g[s \ {Taken(s)}]
        /\ h[s] = f[Taken(s)] + h[s \ {Taken(s)}]
    BY <1>2, <2>3 DEF IsRun
  <2> QED
    BY <2>2, <2>4
<1> HIDE DEF P
<1>3. U \in P
  BY <1>1, <1>2, SetInduction
<1> QED
  BY <1>3 DEF P

(* There is a run over every finite set: the sums of its parts.            *)
LEMMA RunExists ==
  ASSUME NEW f, NEW S0, IsFiniteSet(S0)
  PROVE  \E g : IsRun(f, S0, g)
<1> DEFINE Bad == {n \in Nat : \E s \in SUBSET S0 : Cardinality(s) = n /\ ~ \E g : IsRun(f, s, g)}
<1>0. \A s \in SUBSET S0 : IsFiniteSet(s) /\ Cardinality(s) \in Nat
  BY FS_Subset, FS_CardinalityType
<1>1. Bad = {}
  <2> SUFFICES ASSUME Bad # {} PROVE FALSE
    OBVIOUS
  <2>1. PICK n \in Bad : \A m \in Bad : n <= m
    BY LeastNumber
  <2>2. PICK S \in SUBSET S0 : Cardinality(S) = n /\ ~ \E g : IsRun(f, S, g)
    OBVIOUS
  <2> DEFINE Part(s) == (CHOOSE g : IsRun(f, s, g))[s]
             all     == [s \in SUBSET S |-> IF s = {} THEN 0
                                            ELSE f[Taken(s)] + Part(s \ {Taken(s)})]
  <2>3. ASSUME NEW s \in SUBSET S, NEW x \in s
        PROVE  /\ s \ {x} \in SUBSET S /\ IsFiniteSet(s \ {x})
               /\ IsRun(f, s \ {x}, CHOOSE g : IsRun(f, s \ {x}, g))
    <3>1. s \ {x} \in SUBSET S /\ s \in SUBSET S0 /\ s \ {x} \in SUBSET S0 /\ IsFiniteSet(s)
      BY <1>0
    <3>2. /\ Cardinality(s) = Cardinality(s \ {x}) + 1
          /\ Cardinality(s \ {x}) \in Nat /\ Cardinality(s) \in Nat
      BY <3>1, SmallerSet
    <3>3. Cardinality(s) <= Cardinality(S)
      BY <1>0, FS_Subset
    <3>4. Cardinality(s \ {x}) \notin Bad
      BY <1>0, <2>1, <2>2, <3>2, <3>3
    <3>5. \E g : IsRun(f, s \ {x}, g)
      BY <3>1, <3>2, <3>4
    <3> QED
      BY <1>0, <3>1, <3>5
  <2>4. ASSUME NEW s \in SUBSET S, s # {}
        PROVE  all[s \ {Taken(s)}] = Part(s \ {Taken(s)})
    <3>1. Taken(s) \in s
      BY <2>4 DEF Taken
    <3> DEFINE t == s \ {Taken(s)}
               h == CHOOSE g : IsRun(f, t, g)
    <3>2. t \in SUBSET S /\ IsRun(f, t, h)
      BY <2>3, <3>1
    <3>3. CASE t = {}
      <4>1. h[t] = 0
        BY <3>2, <3>3 DEF IsRun
      <4> QED
        BY <3>2, <3>3, <4>1
    <3>4. CASE t # {}
      <4>1. Taken(t) \in t
        BY <3>4 DEF Taken
      <4> DEFINE w == t \ {Taken(t)}
                 k == CHOOSE g : IsRun(f, w, g)
      <4>2. IsRun(f, w, k) /\ IsFiniteSet(w) /\ w \in SUBSET t
        BY <2>3, <3>2, <4>1
      <4>3. h[w] = k[w]
        <5>1. w \in SUBSET (t \cap w)
          BY <4>2
        <5> HIDE DEF h, k, w, t, all
        <5> QED
          BY <3>2, <4>2, <5>1, RunsAgree
      <4>4. h[t] = f[Taken(t)] + h[w]
        BY <3>2, <3>4 DEF IsRun
      <4>5. all[t] = f[Taken(t)] + k[w]
        BY <3>2, <3>4
      <4> QED
        BY <4>3, <4>4, <4>5
    <3> QED
      BY <3>3, <3>4
  <2>5. IsRun(f, S, all)
    <3> HIDE DEF Part
    <3>1. all = [s \in SUBSET S |-> IF s = {} THEN 0 ELSE f[Taken(s)] + all[s \ {Taken(s)}]]
      BY <2>4
    <3> HIDE DEF all
    <3> QED
      BY <3>1 DEF IsRun
  <2> QED
    BY <2>2, <2>5
<1> QED
  BY <1>0, <1>1

(* What a sum over a finite set is. *)
LEMMA SumRun ==
  ASSUME NEW f, NEW S, IsFiniteSet(S)
  PROVE  IsRun(f, S, CHOOSE g : IsRun(f, S, g))
BY RunExists

(* Nothing adds up to nothing. *)
LEMMA SumEmpty ==
  ASSUME NEW f
  PROVE  SumOver(f, {}) = 0
<1>1. IsRun(f, {}, CHOOSE g : IsRun(f, {}, g))
  BY SumRun, FS_EmptySet
<1> HIDE DEF IsRun
<1>2. (CHOOSE g : IsRun(f, {}, g))[{}] = 0
  BY <1>1 DEF IsRun
<1> QED
  BY <1>2, SumByRun

(* The first element and the sum of the rest. *)
LEMMA SumTaken ==
  ASSUME NEW f, NEW S, IsFiniteSet(S), S # {}
  PROVE  /\ Taken(S) \in S
         /\ SumOver(f, S) = f[Taken(S)] + SumOver(f, S \ {Taken(S)})
<1>1. Taken(S) \in S
  BY DEF Taken
<1> DEFINE t == S \ {Taken(S)}
           g == CHOOSE r : IsRun(f, S, r)
           h == CHOOSE r : IsRun(f, t, r)
<1>2. IsFiniteSet(t) /\ t \in SUBSET S /\ t \in SUBSET (S \cap t)
  BY FS_Subset
<1>3. IsRun(f, S, g) /\ IsRun(f, t, h)
  BY <1>2, SumRun
<1>4. SumOver(f, S) = g[S] /\ SumOver(f, t) = h[t]
  BY SumByRun
<1> HIDE DEF g, h
<1>5. g[t] = h[t]
  <2> HIDE DEF t
  <2> QED
    BY <1>2, <1>3, RunsAgree
<1>6. g[S] = f[Taken(S)] + g[t]
  BY <1>3 DEF IsRun
<1> QED
  BY <1>1, <1>4, <1>5, <1>6

(* The sum of numbers is a number. *)
LEMMA SumIsNumber ==
  ASSUME NEW f, NEW S, IsFiniteSet(S), \A x \in S : f[x] \in Nat
  PROVE  SumOver(f, S) \in Nat
<1> DEFINE P == {s \in SUBSET S : SumOver(f, s) \in Nat}
<1>1. {} \in P
  BY SumEmpty
<1>2. ASSUME NEW s \in SUBSET S, s # {}, \A x \in s : s \ {x} \in P
      PROVE  s \in P
  <2>1. IsFiniteSet(s)
    BY FS_Subset
  <2>2. Taken(s) \in s /\ SumOver(f, s) = f[Taken(s)] + SumOver(f, s \ {Taken(s)})
    BY <1>2, <2>1, SumTaken
  <2>3. SumOver(f, s \ {Taken(s)}) \in Nat /\ f[Taken(s)] \in Nat
    BY <1>2, <2>2
  <2> QED
    BY <2>2, <2>3
<1> HIDE DEF P
<1>3. S \in P
  BY <1>1, <1>2, SetInduction
<1> QED
  BY <1>3 DEF P

(* It does not matter which element is taken first.                        *)
LEMMA SumRemove ==
  ASSUME NEW f, NEW S, IsFiniteSet(S), \A x \in S : f[x] \in Nat, NEW x \in S
  PROVE  SumOver(f, S) = f[x] + SumOver(f, S \ {x})
<1> DEFINE P == {s \in SUBSET S : \A y \in s : SumOver(f, s) = f[y] + SumOver(f, s \ {y})}
<1>0. \A s \in SUBSET S : IsFiniteSet(s) /\ SumOver(f, s) \in Nat
  BY FS_Subset, SumIsNumber
<1>1. {} \in P
  OBVIOUS
<1>2. ASSUME NEW s \in SUBSET S, s # {}, \A y \in s : s \ {y} \in P
      PROVE  s \in P
  <2> SUFFICES ASSUME NEW y \in s PROVE SumOver(f, s) = f[y] + SumOver(f, s \ {y})
    OBVIOUS
  <2> DEFINE a == Taken(s)
  <2>1. a \in s /\ SumOver(f, s) = f[a] + SumOver(f, s \ {a})
    BY <1>0, <1>2, SumTaken
  <2> HIDE DEF a
  <2>2. CASE y = a
    BY <2>1, <2>2
  <2>3. CASE y # a
    <3>1. SumOver(f, s \ {a}) = f[y] + SumOver(f, (s \ {a}) \ {y})
      BY <1>2, <2>1, <2>3
    <3>2. SumOver(f, s \ {y}) = f[a] + SumOver(f, (s \ {y}) \ {a})
      BY <1>2, <2>1, <2>3
    <3>3. (s \ {a}) \ {y} = (s \ {y}) \ {a} /\ (s \ {a}) \ {y} \in SUBSET S
      OBVIOUS
    <3>4. f[a] \in Nat /\ f[y] \in Nat /\ SumOver(f, (s \ {a}) \ {y}) \in Nat
      BY <1>0, <2>1, <3>3
    <3> HIDE DEF P
    <3> QED
      BY <2>1, <3>1, <3>2, <3>3, <3>4
  <2> QED
    BY <2>2, <2>3
<1> HIDE DEF P
<1>3. S \in P
  BY <1>1, <1>2, SetInduction
<1> QED
  BY <1>3 DEF P

(* A new element adds its summand. *)
LEMMA SumAdd ==
  ASSUME NEW f, NEW S, IsFiniteSet(S), NEW x, x \notin S, \A y \in S \cup {x} : f[y] \in Nat
  PROVE  SumOver(f, S \cup {x}) = f[x] + SumOver(f, S)
<1>1. IsFiniteSet(S \cup {x}) /\ (S \cup {x}) \ {x} = S
  BY FS_AddElement
<1> QED
  BY <1>1, SumRemove

(* More and larger summands make a larger sum. *)
LEMMA SumLeq ==
  ASSUME NEW f, NEW g, NEW T, IsFiniteSet(T), NEW S \in SUBSET T,
         \A x \in S : f[x] \in Nat /\ f[x] <= g[x], \A x \in T : g[x] \in Nat
  PROVE  SumOver(f, S) <= SumOver(g, T)
<1> DEFINE P == {t \in SUBSET T : SumOver(f, S \cap t) <= SumOver(g, t)}
<1>0. \A t \in SUBSET T : /\ IsFiniteSet(t) /\ SumOver(g, t) \in Nat
                          /\ IsFiniteSet(S \cap t) /\ SumOver(f, S \cap t) \in Nat
  <2> SUFFICES ASSUME NEW t \in SUBSET T
               PROVE  /\ IsFiniteSet(t) /\ SumOver(g, t) \in Nat
                      /\ IsFiniteSet(S \cap t) /\ SumOver(f, S \cap t) \in Nat
    OBVIOUS
  <2>1. IsFiniteSet(t) /\ IsFiniteSet(S \cap t)
    BY FS_Subset
  <2>2. SumOver(g, t) \in Nat
    BY <2>1, SumIsNumber
  <2>3. SumOver(f, S \cap t) \in Nat
    BY <2>1, SumIsNumber
  <2> QED
    BY <2>1, <2>2, <2>3
<1>1. {} \in P
  <2>1. S \cap {} = {} /\ SumOver(f, {}) = 0 /\ SumOver(g, {}) = 0
    BY SumEmpty
  <2> QED
    BY <2>1
<1>2. ASSUME NEW t \in SUBSET T, t # {}, \A x \in t : t \ {x} \in P
      PROVE  t \in P
  <2>1. PICK x \in t : TRUE
    BY <1>2
  <2>2. SumOver(f, S \cap (t \ {x})) <= SumOver(g, t \ {x})
    BY <1>2
  <2>3. SumOver(g, t) = g[x] + SumOver(g, t \ {x}) /\ g[x] \in Nat
    <3>1. IsFiniteSet(t) /\ (\A y \in t : g[y] \in Nat) /\ x \in t
      BY <1>0
    <3> HIDE DEF P
    <3> QED
      BY <3>1, SumRemove
  <2>4. SumOver(g, t \ {x}) \in Nat /\ SumOver(f, S \cap (t \ {x})) \in Nat
    BY <1>0
  <2>5. CASE x \in S
    <3>1. SumOver(f, S \cap t) = f[x] + SumOver(f, (S \cap t) \ {x})
      BY <1>0, <2>5, SumRemove
    <3>2. (S \cap t) \ {x} = S \cap (t \ {x})
      OBVIOUS
    <3>4. f[x] \in Nat /\ f[x] <= g[x]
      BY <2>5
    <3>5. SumOver(f, S \cap t) = f[x] + SumOver(f, S \cap (t \ {x}))
      BY <3>1, <3>2
    <3>3. SumOver(f, S \cap t) <= SumOver(g, t)
      <4> HIDE DEF P
      <4> QED
        BY <2>2, <2>3, <2>4, <3>4, <3>5
    <3> QED
      BY <3>3
  <2>6. CASE x \notin S
    <3>1. S \cap t = S \cap (t \ {x})
      BY <2>6
    <3>2. SumOver(f, S \cap t) <= SumOver(g, t)
      <4> HIDE DEF P
      <4> QED
        BY <2>2, <2>3, <2>4, <3>1
    <3> QED
      BY <3>2
  <2> QED
    BY <2>5, <2>6
<1> HIDE DEF P
<1>3. T \in P
  BY <1>1, <1>2, SetInduction
<1>4. S \cap T = S
  OBVIOUS
<1> QED
  BY <1>3, <1>4 DEF P

(* A sum depends on the summands alone. *)
LEMMA SumSame ==
  ASSUME NEW f, NEW g, NEW S, IsFiniteSet(S), \A x \in S : f[x] \in Nat /\ f[x] = g[x]
  PROVE  SumOver(f, S) = SumOver(g, S)
<1>1. SumOver(f, S) <= SumOver(g, S)
  <2>1. \A x \in S : f[x] \in Nat /\ f[x] <= g[x]
    OBVIOUS
  <2>2. (\A x \in S : g[x] \in Nat) /\ S \in SUBSET S
    OBVIOUS
  <2> QED
    BY <2>1, <2>2, SumLeq
<1>2. SumOver(g, S) <= SumOver(f, S)
  <2>1. \A x \in S : g[x] \in Nat /\ g[x] <= f[x]
    OBVIOUS
  <2>2. (\A x \in S : f[x] \in Nat) /\ S \in SUBSET S
    OBVIOUS
  <2> QED
    BY <2>1, <2>2, SumLeq
<1>3. SumOver(f, S) \in Nat /\ SumOver(g, S) \in Nat
  BY SumIsNumber
<1> QED
  BY <1>1, <1>2, <1>3

(* Two sets with nothing in common add up. *)
LEMMA SumUnion ==
  ASSUME NEW f, NEW S, NEW T, IsFiniteSet(S), IsFiniteSet(T), S \cap T = {},
         \A x \in S \cup T : f[x] \in Nat
  PROVE  SumOver(f, S \cup T) = SumOver(f, S) + SumOver(f, T)
<1> DEFINE P == {t \in SUBSET T : SumOver(f, S \cup t) = SumOver(f, S) + SumOver(f, t)}
<1>0. \A t \in SUBSET T : /\ IsFiniteSet(t) /\ SumOver(f, t) \in Nat
                          /\ IsFiniteSet(S \cup t) /\ SumOver(f, S \cup t) \in Nat
  <2> SUFFICES ASSUME NEW t \in SUBSET T
               PROVE  /\ IsFiniteSet(t) /\ SumOver(f, t) \in Nat
                      /\ IsFiniteSet(S \cup t) /\ SumOver(f, S \cup t) \in Nat
    OBVIOUS
  <2>1. IsFiniteSet(t) /\ IsFiniteSet(S \cup t)
    BY FS_Subset, FS_Union
  <2>2. SumOver(f, t) \in Nat
    BY <2>1, SumIsNumber
  <2>3. SumOver(f, S \cup t) \in Nat
    BY <2>1, SumIsNumber
  <2> QED
    BY <2>1, <2>2, <2>3
<1>00. SumOver(f, S) \in Nat
  BY SumIsNumber
<1>1. {} \in P
  <2>1. S \cup {} = S /\ SumOver(f, {}) = 0
    BY SumEmpty
  <2> QED
    BY <1>00, <2>1
<1>2. ASSUME NEW t \in SUBSET T, t # {}, \A x \in t : t \ {x} \in P
      PROVE  t \in P
  <2>1. PICK x \in t : TRUE
    BY <1>2
  <2>2. SumOver(f, S \cup (t \ {x})) = SumOver(f, S) + SumOver(f, t \ {x})
    BY <1>2
  <2>3. SumOver(f, t) = f[x] + SumOver(f, t \ {x})
    <3>1. IsFiniteSet(t) /\ (\A y \in t : f[y] \in Nat) /\ x \in t
      BY <1>0
    <3> HIDE DEF P
    <3> QED
      BY <3>1, SumRemove
  <2>4. SumOver(f, S \cup t) = f[x] + SumOver(f, (S \cup t) \ {x})
    <3>1. IsFiniteSet(S \cup t) /\ (\A y \in S \cup t : f[y] \in Nat) /\ x \in S \cup t
      BY <1>0
    <3> HIDE DEF P
    <3> QED
      BY <3>1, SumRemove
  <2>5. (S \cup t) \ {x} = S \cup (t \ {x})
    OBVIOUS
  <2>6. f[x] \in Nat /\ SumOver(f, t \ {x}) \in Nat
    BY <1>0
  <2>7. SumOver(f, S \cup t) = f[x] + (SumOver(f, S) + SumOver(f, t \ {x}))
    BY <2>2, <2>4, <2>5
  <2>8. SumOver(f, S \cup t) = SumOver(f, S) + SumOver(f, t)
    <3> HIDE DEF P
    <3> QED
      BY <1>00, <2>3, <2>6, <2>7
  <2> QED
    BY <2>8
<1> HIDE DEF P
<1>3. T \in P
  BY <1>1, <1>2, SetInduction
<1> QED
  BY <1>3 DEF P

(* Equal summands: the sum counts the elements. *)
LEMMA SumOfEqual ==
  ASSUME NEW f, NEW S, IsFiniteSet(S), NEW c \in Nat, \A x \in S : f[x] = c
  PROVE  SumOver(f, S) = c * Cardinality(S)
<1> DEFINE P == {s \in SUBSET S : SumOver(f, s) = c * Cardinality(s)}
<1>1. {} \in P
  <2>1. SumOver(f, {}) = 0 /\ Cardinality({}) = 0 /\ c * 0 = 0
    BY SumEmpty, FS_EmptySet
  <2> QED
    BY <2>1
<1>2. ASSUME NEW s \in SUBSET S, s # {}, \A x \in s : s \ {x} \in P
      PROVE  s \in P
  <2>1. PICK x \in s : TRUE
    BY <1>2
  <2>2. IsFiniteSet(s) /\ \A y \in s : f[y] \in Nat
    BY FS_Subset
  <2>3. SumOver(f, s) = f[x] + SumOver(f, s \ {x}) /\ f[x] = c
    BY <2>2, SumRemove
  <2>4. SumOver(f, s \ {x}) = c * Cardinality(s \ {x})
    BY <1>2
  <2>5. Cardinality(s) = Cardinality(s \ {x}) + 1 /\ Cardinality(s \ {x}) \in Nat
    BY <2>2, SmallerSet
  <2>6. \A n \in Nat : c + c * n = c * (n + 1)
    OBVIOUS
  <2>7. SumOver(f, s) = c * Cardinality(s)
    BY <2>3, <2>4, <2>5, <2>6
  <2> QED
    BY <2>7
<1> HIDE DEF P
<1>3. S \in P
  BY <1>1, <1>2, SetInduction
<1> QED
  BY <1>3 DEF P

(* The elements of S that m puts in a class, or in one of several.         *)
Class(S, m, a)   == {x \in S : m[x] = a}
Classes(S, m, A) == {x \in S : m[x] \in A}

(* A sum class by class: g adds up f over the elements of each class that  *)
(* m puts them in.                                                         *)
LEMMA SumByClass ==
  ASSUME NEW f, NEW m, NEW g, NEW S, IsFiniteSet(S), \A x \in S : f[x] \in Nat,
         NEW A, IsFiniteSet(A), \A a \in A : g[a] = SumOver(f, Class(S, m, a))
  PROVE  SumOver(g, A) = SumOver(f, Classes(S, m, A))
<1> DEFINE P == {s \in SUBSET A : SumOver(g, s) = SumOver(f, Classes(S, m, s))}
<1>0. \A a \in A : g[a] \in Nat
  <2> SUFFICES ASSUME NEW a \in A PROVE g[a] \in Nat
    OBVIOUS
  <2>1. IsFiniteSet(Class(S, m, a)) /\ \A x \in Class(S, m, a) : f[x] \in Nat
    BY FS_Subset DEF Class
  <2>2. SumOver(f, Class(S, m, a)) \in Nat
    BY <2>1, SumIsNumber
  <2> QED
    BY <2>2
<1>1. {} \in P
  <2>1. Classes(S, m, {}) = {} /\ SumOver(f, {}) = 0 /\ SumOver(g, {}) = 0
    BY SumEmpty DEF Classes
  <2> QED
    BY <2>1
<1>2. ASSUME NEW s \in SUBSET A, s # {}, \A a \in s : s \ {a} \in P
      PROVE  s \in P
  <2>1. PICK a \in s : TRUE
    BY <1>2
  <2> DEFINE rest == Classes(S, m, s \ {a})
             same == Class(S, m, a)
  <2>2. SumOver(g, s \ {a}) = SumOver(f, rest)
    BY <1>2
  <2>3. IsFiniteSet(s) /\ (\A b \in s : g[b] \in Nat) /\ a \in s
    BY <1>0, FS_Subset
  <2>4. SumOver(g, s) = g[a] + SumOver(g, s \ {a})
    <3> HIDE DEF P
    <3> QED
      BY <2>3, SumRemove
  <2>5. IsFiniteSet(rest) /\ IsFiniteSet(same) /\ rest \cap same = {}
        /\ Classes(S, m, s) = same \cup rest
    BY FS_Subset DEF Class, Classes
  <2>6. \A x \in same \cup rest : f[x] \in Nat
    BY DEF Class, Classes
  <2>7. SumOver(f, same \cup rest) = SumOver(f, same) + SumOver(f, rest)
    <3> HIDE DEF P, same, rest
    <3> QED
      BY <2>5, <2>6, SumUnion
  <2>8. g[a] = SumOver(f, same)
    BY <2>3
  <2>9. SumOver(g, s) = SumOver(f, Classes(S, m, s))
    BY <2>2, <2>4, <2>5, <2>7, <2>8
  <2> QED
    BY <2>9
<1> HIDE DEF P
<1>3. A \in P
  BY <1>1, <1>2, SetInduction
<1> QED
  BY <1>3 DEF P

(* A factor can be taken in. *)
LEMMA SumScaled ==
  ASSUME NEW f, NEW S, IsFiniteSet(S), \A x \in S : f[x] \in Nat, NEW c \in Nat
  PROVE  SumOver([x \in S |-> c * f[x]], S) = c * SumOver(f, S)
<1> DEFINE g == [x \in S |-> c * f[x]]
           P == {s \in SUBSET S : SumOver(g, s) = c * SumOver(f, s)}
<1>0. /\ \A x \in S : g[x] \in Nat /\ g[x] = c * f[x]
      /\ \A s \in SUBSET S : IsFiniteSet(s) /\ SumOver(f, s) \in Nat
  BY FS_Subset, SumIsNumber
<1> HIDE DEF g
<1>1. {} \in P
  <2>1. SumOver(g, {}) = 0 /\ SumOver(f, {}) = 0 /\ c * 0 = 0
    BY SumEmpty
  <2> QED
    BY <2>1
<1>2. ASSUME NEW s \in SUBSET S, s # {}, \A x \in s : s \ {x} \in P
      PROVE  s \in P
  <2>1. PICK x \in s : TRUE
    BY <1>2
  <2>2. IsFiniteSet(s) /\ (\A y \in s : g[y] \in Nat) /\ (\A y \in s : f[y] \in Nat)
    BY <1>0
  <2>3. SumOver(g, s) = g[x] + SumOver(g, s \ {x})
    BY <2>2, SumRemove
  <2>4. SumOver(f, s) = f[x] + SumOver(f, s \ {x})
    BY <2>2, SumRemove
  <2>5. SumOver(g, s \ {x}) = c * SumOver(f, s \ {x}) /\ g[x] = c * f[x]
    BY <1>0, <1>2
  <2>6. f[x] \in Nat /\ SumOver(f, s \ {x}) \in Nat
    BY <1>0
  <2>7. \A m, n \in Nat : c * m + c * n = c * (m + n)
    OBVIOUS
  <2>8. SumOver(g, s) = c * SumOver(f, s)
    BY <2>3, <2>4, <2>5, <2>6, <2>7
  <2> QED
    BY <2>8
<1> HIDE DEF P
<1>3. S \in P
  BY <1>1, <1>2, SetInduction
<1> QED
  BY <1>3 DEF P, g

(* Raising the summands of a part of the set. *)
LEMMA SumRaised ==
  ASSUME NEW f, NEW g, NEW S, IsFiniteSet(S), \A x \in S : f[x] \in Nat,
         NEW A \in SUBSET S, NEW c \in Nat,
         \A x \in A : g[x] = f[x] + c, \A x \in S \ A : g[x] = f[x]
  PROVE  SumOver(g, S) = SumOver(f, S) + c * Cardinality(A)
<1> DEFINE P == {s \in SUBSET S : SumOver(g, s) = SumOver(f, s) + c * Cardinality(s \cap A)}
<1>0. \A x \in S : g[x] \in Nat /\ f[x] \in Nat
  BY DEF P
<1>s. \A s \in SUBSET S : /\ IsFiniteSet(s) /\ IsFiniteSet(s \cap A)
                          /\ SumOver(f, s) \in Nat /\ Cardinality(s \cap A) \in Nat
  <2> SUFFICES ASSUME NEW s \in SUBSET S
               PROVE  /\ IsFiniteSet(s) /\ IsFiniteSet(s \cap A)
                      /\ SumOver(f, s) \in Nat /\ Cardinality(s \cap A) \in Nat
    OBVIOUS
  <2>1. IsFiniteSet(s)
    BY FS_Subset
  <2>2. IsFiniteSet(s \cap A)
    BY <2>1, FS_Subset
  <2>3. Cardinality(s \cap A) \in Nat
    BY <2>2, FS_CardinalityType
  <2>4. SumOver(f, s) \in Nat
    BY <2>1, SumIsNumber
  <2> QED
    BY <2>1, <2>2, <2>3, <2>4
<1>1. {} \in P
  <2>1. SumOver(g, {}) = 0 /\ SumOver(f, {}) = 0 /\ {} \cap A = {}
    BY SumEmpty
  <2>2. Cardinality({}) = 0
    BY FS_EmptySet
  <2>3. SumOver(g, {}) = SumOver(f, {}) + c * Cardinality({} \cap A)
    BY <2>1, <2>2
  <2> QED
    BY <2>3
<1>2. ASSUME NEW s \in SUBSET S, s # {}, \A x \in s : s \ {x} \in P
      PROVE  s \in P
  <2>1. PICK x \in s : TRUE
    BY <1>2
  <2> DEFINE rest == s \ {x}
  <2>2. IsFiniteSet(s) /\ (\A y \in s : g[y] \in Nat) /\ (\A y \in s : f[y] \in Nat) /\ x \in S
    BY <1>0, <1>s
  <2>3. SumOver(g, s) = g[x] + SumOver(g, rest)
    BY <2>2, SumRemove
  <2>4. SumOver(f, s) = f[x] + SumOver(f, rest)
    BY <2>2, SumRemove
  <2>5. SumOver(g, rest) = SumOver(f, rest) + c * Cardinality(rest \cap A)
    BY <1>2
  <2>6. /\ SumOver(f, rest) \in Nat /\ Cardinality(rest \cap A) \in Nat /\ f[x] \in Nat
        /\ IsFiniteSet(rest \cap A) /\ rest \in SUBSET S
    BY <1>s, <2>2
  <2>7. CASE x \in A
    <3>1. s \cap A = (rest \cap A) \cup {x} /\ x \notin rest \cap A
      BY <2>7
    <3> DEFINE r == rest \cap A
    <3>2. IsFiniteSet(r) /\ x \notin r
      BY <2>6
    <3> HIDE DEF r
    <3>3. Cardinality(r \cup {x}) = Cardinality(r) + 1
      BY <3>2, FS_AddElement
    <3>4. Cardinality(s \cap A) = Cardinality(rest \cap A) + 1
      BY <3>1, <3>3 DEF r
    <3>5. g[x] = f[x] + c
      BY <2>7
    <3>6. \A m, n, k \in Nat : (k + c) + (n + c * m) = (k + n) + c * (m + 1)
      OBVIOUS
    <3> HIDE DEF rest
    <3>7. SumOver(g, s) = SumOver(f, s) + c * Cardinality(s \cap A)
      BY <2>3, <2>4, <2>5, <2>6, <3>4, <3>5, <3>6
    <3> QED
      BY <3>7
  <2>8. CASE x \notin A
    <3>1. s \cap A = rest \cap A /\ g[x] = f[x]
      BY <2>2, <2>8
    <3> DEFINE k == f[x]
               n == SumOver(f, rest)
               m == Cardinality(rest \cap A)
    <3>2. SumOver(g, s) = k + (n + c * m)
      BY <2>3, <2>5, <3>1
    <3>3. SumOver(f, s) = k + n
      BY <2>4
    <3>4. Cardinality(s \cap A) = m
      BY <3>1
    <3>5. k \in Nat /\ n \in Nat /\ m \in Nat
      BY <2>6
    <3> HIDE DEF k, n, m, rest
    <3>6. c * m \in Nat
      BY <3>5
    <3>7. k + (n + c * m) = (k + n) + c * m
      BY <3>5, <3>6
    <3>8. SumOver(g, s) = SumOver(f, s) + c * Cardinality(s \cap A)
      BY <3>2, <3>3, <3>4, <3>7
    <3> QED
      BY <3>8
  <2> QED
    BY <2>7, <2>8
<1> HIDE DEF P
<1>3. S \in P
  BY <1>1, <1>2, SetInduction
<1>4. S \cap A = A
  OBVIOUS
<1> QED
  BY <1>3, <1>4 DEF P

=============================================================================
