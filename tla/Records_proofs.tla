--------------------------- MODULE Records_proofs ---------------------------
(***************************************************************************)
(* What the records somebody keeps come to, for any stretch of days, any   *)
(* bookings, absences, weeks and holidays, any years of vacation, and any  *)
(* shifts worked.                                                          *)
(***************************************************************************)
EXTENDS MCRecords, FiniteSetTheorems, WellFoundedInduction, NaturalsInduction, TLAPS

-----------------------------------------------------------------------------
(* Adding up numbers, one of a finite set after the other.                 *)

\* A set of numbers has a least one.
LEMMA Least == ASSUME NEW T \in SUBSET Nat, T # {} PROVE \E x \in T : \A y \in T : x <= y
<1> DEFINE Before == OpToRel(<, Nat)
<1>1. IsWellFoundedOn(Before, Nat)
  BY NatLessThanWellFounded, Zenon
<1>2. \A y, x \in Nat : y < x => <<y, x>> \in Before
  BY DEF OpToRel
<1> HIDE DEF Before
<1>3. PICK x \in T : \A y \in T : ~ (<<y, x>> \in Before)
  BY <1>1, WFMin
<1>4. ASSUME NEW y \in T PROVE x <= y
  <2>1. x \in Nat /\ y \in Nat /\ ~(<<y, x>> \in Before)
    BY <1>3
  <2>2. ~(y < x)
    BY <1>2, <2>1
  <2> QED
    BY <2>1, <2>2
<1> QED
  BY <1>4


\* Among finite sets there is one of whose proper subsets none is among them.
LEMMA Smallest ==
  ASSUME NEW B, B # {}, \A T \in B : IsFiniteSet(T)
  PROVE  \E T \in B : \A U \in SUBSET T : U \in B => U = T
<1> DEFINE Sizes == {Cardinality(T) : T \in B}
<1>1. Sizes \in SUBSET Nat /\ Sizes # {}
  BY FS_CardinalityType
<1>2. PICK n \in Sizes : \A m \in Sizes : n <= m
  BY <1>1, Least
<1>3. PICK T \in B : Cardinality(T) = n
  BY <1>2
<1>4. ASSUME NEW U \in SUBSET T, U \in B PROVE U = T
  <2>1. Cardinality(U) \in Nat /\ Cardinality(T) \in Nat
    BY <1>4, FS_CardinalityType
  <2>2. Cardinality(T) <= Cardinality(U) /\ Cardinality(U) <= Cardinality(T)
    BY <1>2, <1>3, <1>4, FS_Subset
  <2> QED
    BY <1>4, <2>1, <2>2, FS_Subset
<1> QED
  BY <1>4

\* The sum of the numbers of the members of S, and the function in which they
\* are added up, one member chosen after the other.
SumOf(num, S) == SumFunctionOnSet(num, S)

OneOf(S) == CHOOSE x \in S : TRUE

AddsUp(num, S, it) ==
  it = [s \in SUBSET S |-> IF s = {} THEN 0
                           ELSE num[OneOf(s)] + it[s \ {OneOf(s)}]]

LEMMA SumAddsUp ==
  ASSUME NEW num, NEW S
  PROVE  SumOf(num, S) = (CHOOSE it : AddsUp(num, S, it))[S]
BY DEF SumOf, SumFunctionOnSet, FoldFunctionOnSet, MapThenFoldSet, AddsUp, OneOf

LEMMA OneOfIsIn ==
  ASSUME NEW S, S # {}
  PROVE  OneOf(S) \in S
BY DEF OneOf

\* Two such functions, over different sets and of different numbers, agree on
\* the sets both have whose members have the same numbers in both.
LEMMA SumsAgree ==
  ASSUME NEW num1, NEW num2, NEW S1, NEW S2, NEW it1, NEW it2,
         AddsUp(num1, S1, it1), AddsUp(num2, S2, it2),
         NEW T \in SUBSET S1, T \in SUBSET S2, IsFiniteSet(T),
         \A e \in T : num1[e] = num2[e]
  PROVE  it1[T] = it2[T]
<1> DEFINE B == {U \in SUBSET T : it1[U] # it2[U]}
<1> SUFFICES ASSUME B # {} PROVE FALSE
  OBVIOUS
<1>1. \A U \in B : IsFiniteSet(U)
  BY FS_Subset
<1>2. PICK U \in B : \A V \in SUBSET U : V \in B => V = U
  <2> HIDE DEF B
  <2> QED
    BY <1>1, Smallest
<1>3. U \in SUBSET S1 /\ U \in SUBSET S2 /\ U \in SUBSET T
  OBVIOUS
<1>4. /\ it1[U] = IF U = {} THEN 0 ELSE num1[OneOf(U)] + it1[U \ {OneOf(U)}]
      /\ it2[U] = IF U = {} THEN 0 ELSE num2[OneOf(U)] + it2[U \ {OneOf(U)}]
  BY <1>3 DEF AddsUp
<1>5. U # {}
  BY <1>4
<1>6. OneOf(U) \in U /\ U \ {OneOf(U)} \in SUBSET U /\ U \ {OneOf(U)} # U
  BY <1>5, OneOfIsIn
<1>7. it1[U \ {OneOf(U)}] = it2[U \ {OneOf(U)}]
  BY <1>2, <1>3, <1>6
<1>8. num1[OneOf(U)] = num2[OneOf(U)]
  BY <1>3, <1>6
<1> QED
  BY <1>4, <1>7, <1>8

\* There is such a function for every finite set.
LEMMA SumExists ==
  ASSUME NEW num, NEW S, IsFiniteSet(S)
  PROVE  \E it : AddsUp(num, S, it)
<1> DEFINE B == {U \in SUBSET S : ~ \E it : AddsUp(num, U, it)}
<1> SUFFICES ASSUME S \in B PROVE FALSE
  OBVIOUS
<1>1. \A U \in B : IsFiniteSet(U)
  BY FS_Subset
<1>2. PICK U \in B : \A V \in SUBSET U : V \in B => V = U
  <2> HIDE DEF B
  <2> QED
    BY <1>1, Smallest
<1>3. \A V \in SUBSET U : V # U => \E it : AddsUp(num, V, it)
  BY <1>2
<1> DEFINE sum(V) == (CHOOSE it : AddsUp(num, V, it))[V]
           below(V) == IF V = {} THEN 0 ELSE num[OneOf(V)] + sum(V \ {OneOf(V)})
           it == [V \in SUBSET U |-> IF V = U THEN below(U) ELSE sum(V)]
<1>4. ASSUME NEW V \in SUBSET U
      PROVE  it[V] = IF V = {} THEN 0 ELSE num[OneOf(V)] + it[V \ {OneOf(V)}]
  <2>1. V # {} => OneOf(V) \in V /\ V \ {OneOf(V)} \in SUBSET U /\ V \ {OneOf(V)} # U
    BY OneOfIsIn
  <2>2. V # {} => it[V \ {OneOf(V)}] = sum(V \ {OneOf(V)})
    BY <2>1
  <2>3. CASE V = U
    BY <2>2, <2>3
  <2>4. CASE V # U
    <3> DEFINE f == CHOOSE g : AddsUp(num, V, g)
    <3>1. it[V] = f[V]
      BY <2>4
    <3>2. AddsUp(num, V, f)
      BY <1>3, <2>4
    <3>3. f[V] = IF V = {} THEN 0 ELSE num[OneOf(V)] + f[V \ {OneOf(V)}]
      <4> HIDE DEF f
      <4> QED
        BY <3>2 DEF AddsUp
    <3>4. ASSUME V # {} PROVE f[V \ {OneOf(V)}] = sum(V \ {OneOf(V)})
      <4> DEFINE Less == V \ {OneOf(V)}
                 g == CHOOSE h : AddsUp(num, Less, h)
      <4>1. Less \in SUBSET U /\ Less # U /\ Less \in SUBSET V /\ Less \in SUBSET Less
        BY <2>1, <3>4
      <4>2. AddsUp(num, Less, g)
        BY <1>3, <4>1
      <4>3. IsFiniteSet(Less)
        BY <1>1, <4>1, FS_Subset
      <4> HIDE DEF f, g, Less
      <4>4. f[Less] = g[Less]
        BY <3>2, <4>1, <4>2, <4>3, SumsAgree
      <4> QED
        BY <4>4 DEF g, Less
    <3> HIDE DEF f, it, sum
    <3> QED
      BY <2>2, <3>1, <3>3, <3>4
  <2> QED
    BY <2>3, <2>4
<1>5. AddsUp(num, U, it)
  <2>1. it = [V \in SUBSET U |-> it[V]]
    OBVIOUS
  <2> HIDE DEF it
  <2> QED
    BY <1>4, <2>1 DEF AddsUp
<1> HIDE DEF it
<1> QED
  BY <1>2, <1>5

\* The sum depends on the numbers of the members alone,
LEMMA SumSame ==
  ASSUME NEW num1, NEW num2, NEW S, IsFiniteSet(S),
         \A e \in S : num1[e] = num2[e]
  PROVE  SumOf(num1, S) = SumOf(num2, S)
<1> DEFINE f1 == CHOOSE it : AddsUp(num1, S, it)
           f2 == CHOOSE it : AddsUp(num2, S, it)
<1>1. AddsUp(num1, S, f1) /\ AddsUp(num2, S, f2)
  BY SumExists
<1>2. SumOf(num1, S) = f1[S] /\ SumOf(num2, S) = f2[S]
  BY SumAddsUp
<1> HIDE DEF f1, f2
<1>3. S \in SUBSET S
  OBVIOUS
<1> QED
  BY <1>1, <1>2, <1>3, SumsAgree

LEMMA SumOfNone ==
  ASSUME NEW num
  PROVE  SumOf(num, {}) = 0
<1> DEFINE f == CHOOSE it : AddsUp(num, {}, it)
<1>1. AddsUp(num, {}, f)
  BY SumExists, FS_EmptySet
<1>2. SumOf(num, {}) = f[{}]
  BY SumAddsUp
<1> HIDE DEF f
<1>3. {} \in SUBSET {}
  OBVIOUS
<1> QED
  BY <1>1, <1>2, <1>3 DEF AddsUp

LEMMA SumFirst ==
  ASSUME NEW num, NEW S, IsFiniteSet(S), S # {}
  PROVE  SumOf(num, S) = num[OneOf(S)] + SumOf(num, S \ {OneOf(S)})
<1> DEFINE Less == S \ {OneOf(S)}
           f == CHOOSE it : AddsUp(num, S, it)
           g == CHOOSE it : AddsUp(num, Less, it)
<1>1. IsFiniteSet(Less) /\ Less \in SUBSET S /\ Less \in SUBSET Less /\ S \in SUBSET S
  BY FS_Subset
<1>2. AddsUp(num, S, f) /\ AddsUp(num, Less, g)
  BY <1>1, SumExists
<1>3. SumOf(num, S) = f[S] /\ SumOf(num, Less) = g[Less]
  BY SumAddsUp
<1> HIDE DEF f, g
<1>4. f[S] = num[OneOf(S)] + f[Less]
  BY <1>1, <1>2 DEF AddsUp
<1> HIDE DEF Less
<1>5. f[Less] = g[Less]
  BY <1>1, <1>2, SumsAgree
<1> QED
  BY <1>3, <1>4, <1>5 DEF Less

\* The members of S each have a number.
Numbers(num, S) == \A e \in S : num[e] \in Int

LEMMA SumTyped ==
  ASSUME NEW num, NEW S, IsFiniteSet(S), Numbers(num, S)
  PROVE  SumOf(num, S) \in Int
<1> DEFINE B == {U \in SUBSET S : SumOf(num, U) \notin Int}
<1> SUFFICES ASSUME S \in B PROVE FALSE
  OBVIOUS
<1>1. \A U \in B : IsFiniteSet(U)
  BY FS_Subset
<1>2. PICK U \in B : \A V \in SUBSET U : V \in B => V = U
  <2> HIDE DEF B
  <2> QED
    BY <1>1, Smallest
<1>3. U # {}
  BY SumOfNone
<1>4. OneOf(U) \in U /\ U \ {OneOf(U)} \in SUBSET U /\ U \ {OneOf(U)} # U
  BY <1>3, OneOfIsIn
<1>5. SumOf(num, U \ {OneOf(U)}) \in Int
  BY <1>2, <1>4
<1>6. SumOf(num, U) = num[OneOf(U)] + SumOf(num, U \ {OneOf(U)})
  BY <1>1, <1>3, SumFirst
<1>7. num[OneOf(U)] \in Int
  BY <1>4 DEF Numbers
<1> QED
  BY <1>5, <1>6, <1>7

\* nor on the order in which they are added: any one of them may come first.
LEMMA SumWith ==
  ASSUME NEW num, NEW S, IsFiniteSet(S), Numbers(num, S), NEW x \in S
  PROVE  SumOf(num, S) = num[x] + SumOf(num, S \ {x})
<1> DEFINE Good(U) == \A y \in U : SumOf(num, U) = num[y] + SumOf(num, U \ {y})
           B == {U \in SUBSET S : ~Good(U)}
<1> SUFFICES ASSUME S \in B PROVE FALSE
  OBVIOUS
<1>1. \A U \in B : IsFiniteSet(U)
  BY FS_Subset
<1>2. PICK U \in B : \A V \in SUBSET U : V \in B => V = U
  <2> HIDE DEF B
  <2> QED
    BY <1>1, Smallest
<1>3. PICK y \in U : SumOf(num, U) # num[y] + SumOf(num, U \ {y})
  OBVIOUS
<1> DEFINE p == OneOf(U)
<1>4. p \in U /\ SumOf(num, U) = num[p] + SumOf(num, U \ {p})
  BY <1>1, SumFirst, OneOfIsIn
<1> HIDE DEF p
<1>5. p # y
  BY <1>3, <1>4
<1>6. SumOf(num, U \ {p}) = num[y] + SumOf(num, (U \ {p}) \ {y})
  <2>1. U \ {p} \in SUBSET U /\ U \ {p} # U /\ y \in U \ {p}
    BY <1>4, <1>5
  <2> QED
    BY <1>2, <2>1
<1>7. SumOf(num, U \ {y}) = num[p] + SumOf(num, (U \ {y}) \ {p})
  <2>1. U \ {y} \in SUBSET U /\ U \ {y} # U /\ p \in U \ {y}
    BY <1>4, <1>5
  <2> QED
    BY <1>2, <2>1
<1>8. (U \ {p}) \ {y} = (U \ {y}) \ {p}
  OBVIOUS
<1>9. /\ SumOf(num, (U \ {y}) \ {p}) \in Int
      /\ num[p] \in Int /\ num[y] \in Int
  <2>1. (U \ {y}) \ {p} \in SUBSET S /\ p \in S /\ y \in S
    BY <1>4
  <2>2. IsFiniteSet((U \ {y}) \ {p}) /\ Numbers(num, (U \ {y}) \ {p})
    BY <2>1, FS_Subset DEF Numbers
  <2> QED
    BY <2>1, <2>2, SumTyped DEF Numbers
<1> DEFINE n == SumOf(num, (U \ {y}) \ {p})
           a == num[p]
           b == num[y]
<1>10. SumOf(num, U) = a + (b + n)
  BY <1>4, <1>6, <1>8
<1>11. b + SumOf(num, U \ {y}) = b + (a + n)
  BY <1>7
<1>12. a \in Int /\ b \in Int /\ n \in Int
  BY <1>9
<1> HIDE DEF Good, B, a, b, n
<1>13. a + (b + n) = b + (a + n)
  BY <1>12
<1> QED
  BY <1>3, <1>10, <1>11, <1>13 DEF b

\* Two sets that share nothing are added up one after the other.
LEMMA SumOfTwo ==
  ASSUME NEW num, NEW S, NEW T, IsFiniteSet(S), IsFiniteSet(T), S \intersect T = {},
         Numbers(num, S \union T)
  PROVE  SumOf(num, S \union T) = SumOf(num, S) + SumOf(num, T)
<1> DEFINE B == {U \in SUBSET S : SumOf(num, U \union T) # SumOf(num, U) + SumOf(num, T)}
<1> SUFFICES ASSUME S \in B PROVE FALSE
  OBVIOUS
<1>1. \A U \in B : IsFiniteSet(U)
  BY FS_Subset
<1>2. PICK U \in B : \A V \in SUBSET U : V \in B => V = U
  <2> HIDE DEF B
  <2> QED
    BY <1>1, Smallest
<1>3. /\ IsFiniteSet(U) /\ IsFiniteSet(U \union T) /\ Numbers(num, U) /\ Numbers(num, T)
      /\ Numbers(num, U \union T)
  BY <1>1, FS_Union DEF Numbers
<1>4. SumOf(num, T) \in Int
  BY <1>3, SumTyped
<1>5. U # {}
  <2>1. ASSUME U = {} PROVE FALSE
    <3>1. U \union T = T /\ SumOf(num, U) = 0
      BY <2>1, SumOfNone
    <3>2. SumOf(num, U \union T) = SumOf(num, T) /\ SumOf(num, U) + SumOf(num, T) = 0 + SumOf(num, T)
      BY <3>1
    <3>3. 0 + SumOf(num, T) = SumOf(num, T)
      BY <1>4
    <3> QED
      BY <3>2, <3>3
  <2> QED
    BY <2>1
<1>6. PICK x \in U : TRUE
  BY <1>5
<1>7. U \ {x} \in SUBSET U /\ U \ {x} # U /\ x \notin T /\ (U \union T) \ {x} = (U \ {x}) \union T
  OBVIOUS
<1>8. SumOf(num, (U \ {x}) \union T) = SumOf(num, U \ {x}) + SumOf(num, T)
  BY <1>2, <1>7
<1>9. SumOf(num, U) = num[x] + SumOf(num, U \ {x})
  BY <1>3, SumWith
<1>10. SumOf(num, U \union T) = num[x] + SumOf(num, (U \ {x}) \union T)
  BY <1>3, <1>7, SumWith
<1>11. num[x] \in Int /\ SumOf(num, U \ {x}) \in Int
  <2>1. IsFiniteSet(U \ {x}) /\ Numbers(num, U \ {x})
    BY <1>3, FS_Subset DEF Numbers
  <2> QED
    BY <1>3, <2>1, SumTyped DEF Numbers
<1> QED
  BY <1>2, <1>4, <1>8, <1>9, <1>10, <1>11

\* Counting the members of S under other names, each under one of its own, comes to the same.
LEMMA SumRenamed ==
  ASSUME NEW num1, NEW num2, NEW S, IsFiniteSet(S), NEW R, NEW name \in [S -> R], Numbers(num1, S),
         \A x, y \in S : name[x] = name[y] => x = y,
         \A x \in S : num2[name[x]] = num1[x]
  PROVE  SumOf(num2, {name[x] : x \in S}) = SumOf(num1, S)
<1> DEFINE Named(U) == {name[x] : x \in U}
           B == {U \in SUBSET S : SumOf(num2, Named(U)) # SumOf(num1, U)}
<1> SUFFICES ASSUME S \in B PROVE FALSE
  OBVIOUS
<1>1. \A U \in B : IsFiniteSet(U)
  BY FS_Subset
<1>2. PICK U \in B : \A V \in SUBSET U : V \in B => V = U
  <2> HIDE DEF B
  <2> QED
    BY <1>1, Smallest
<1>3. U \in SUBSET S /\ IsFiniteSet(U) /\ Numbers(num1, U)
  BY <1>1 DEF Numbers
<1>4. U # {}
  <2>1. Named({}) = {}
    OBVIOUS
  <2> QED
    BY <2>1, SumOfNone
<1>5. PICK x \in U : TRUE
  BY <1>4
<1>6. Named(U) \ {name[x]} = Named(U \ {x}) /\ name[x] \in Named(U)
  BY <1>3
<1>7. IsFiniteSet(Named(U)) /\ Numbers(num2, Named(U))
  <2>1. IsFiniteSet(Named(U))
    <3> DEFINE f == [y \in U |-> name[y]]
    <3>1. f \in Surjection(U, Named(U))
      BY DEF Surjection
    <3> QED
      BY <1>3, <3>1, FS_Surjection
  <2> QED
    BY <1>3, <2>1 DEF Numbers
<1>8. SumOf(num2, Named(U)) = num2[name[x]] + SumOf(num2, Named(U) \ {name[x]})
  <2> HIDE DEF Named
  <2> QED
    BY <1>6, <1>7, SumWith
<1>9. SumOf(num1, U) = num1[x] + SumOf(num1, U \ {x})
  BY <1>3, SumWith
<1>10. SumOf(num2, Named(U \ {x})) = SumOf(num1, U \ {x})
  BY <1>2
<1> HIDE DEF Named
<1> QED
  BY <1>2, <1>3, <1>6, <1>8, <1>9, <1>10

-----------------------------------------------------------------------------
(* Days and what they ask.                                                 *)

\* What is kept about somebody's days.
CalendarTyped ==
  /\ booked \in [CalendarDays -> Nat] /\ weekPlan \in [CalendarDays -> {"", "halves", "free"}]
  /\ entitled \in [Years -> Int]
  /\ countsFrom \in CalendarDays \union {0} /\ currentDate \in CalendarDays

LEMMA DaysAreNumbers ==
  /\ CalendarDays \in SUBSET Nat /\ 0 \notin CalendarDays
  /\ \A d \in CalendarDays : FirstDay <= d /\ d <= LastDay
  /\ \A c, d \in CalendarDays : c..d \in SUBSET CalendarDays
  /\ IsFiniteSet(CalendarDays)
BY CalendarAssumption, FS_Interval DEF CalendarDays

LEMMA DatesAreNumbers ==
  /\ \A d \in CalendarDays : d \in Nat /\ d > 0
  /\ CalendarTyped => countsFrom \in Nat /\ currentDate \in Nat
<1>1. \A d \in CalendarDays : d \in Nat /\ d > 0
  BY CalendarAssumption DEF CalendarDays
<1>2. ASSUME CalendarTyped PROVE countsFrom \in Nat /\ currentDate \in Nat
  <2>1. countsFrom \in CalendarDays \union {0} /\ currentDate \in CalendarDays
    BY <1>2 DEF CalendarTyped
  <2> QED
    BY <1>1, <2>1
<1> QED
  BY <1>1, <1>2

LEMMA EarliestIsLeast ==
  ASSUME NEW T \in SUBSET Nat, T # {}
  PROVE  Earliest(T) \in T /\ \A x \in T : Earliest(T) <= x
BY Least DEF Earliest

LEMMA LatestIsGreatest ==
  ASSUME NEW T \in SUBSET Nat, T # {}, NEW n \in Nat, \A x \in T : x <= n
  PROVE  Latest(T) \in T /\ \A x \in T : x <= Latest(T)
<1> DEFINE Under == {n - x : x \in T}
<1>1. Under \in SUBSET Nat /\ Under # {}
  <2>1. \A x \in T : n - x \in Nat
    OBVIOUS
  <2> QED
    BY <2>1
<1>2. PICK u \in Under : \A v \in Under : u <= v
  BY <1>1, Least
<1>3. PICK x \in T : u = n - x
  OBVIOUS
<1>4. \A y \in T : y <= x
  <2> SUFFICES ASSUME NEW y \in T PROVE y <= x
    OBVIOUS
  <2>1. n - x <= n - y
    BY <1>2, <1>3
  <2> QED
    BY <2>1
<1> QED
  BY <1>4 DEF Latest

\* A week asks for nothing, half a day or a whole one,
LEMMA WeekAsks ==
  ASSUME CalendarTyped, NEW d \in CalendarDays
  PROVE  TargetOn(d) \in {0, 4, 8}
<1> DEFINE since == {x \in FirstDay..d : weekPlan[x] # ""}
<1>1. CASE since = {}
  BY <1>1 DEF TargetOn, On, DefaultWeek
<1>2. CASE since # {}
  <2>1. since \in SUBSET CalendarDays /\ since \in SUBSET Nat /\ d \in Nat /\ \A x \in since : x <= d
    <3>1. d \in Nat /\ FirstDay \in Nat /\ FirstDay..d \in SUBSET CalendarDays
      BY DaysAreNumbers, CalendarAssumption DEF CalendarDays
    <3>2. \A x \in FirstDay..d : x \in Nat /\ x <= d
      BY <3>1
    <3> QED
      BY <3>1, <3>2
  <2>2. Latest(since) \in since
    <3> HIDE DEF since
    <3> QED
      BY <1>2, <2>1, LatestIsGreatest
  <2>3. weekPlan[Latest(since)] \in {"halves", "free"}
    BY <2>1, <2>2 DEF CalendarTyped
  <2>4. TargetOn(d) = On(weekPlan[Latest(since)], d)
    BY <1>2 DEF TargetOn
  <2> HIDE DEF since
  <2> QED
    BY <2>3, <2>4 DEF On, DefaultWeek
<1> QED
  BY <1>1, <1>2

\* and a day for no more than its week.
LEMMA DayAsks ==
  ASSUME CalendarTyped, NEW d \in CalendarDays
  PROVE  of(d).target \in Nat
<1>1. TargetOn(d) \in {0, 4, 8}
  BY WeekAsks
<1>2. TargetOn(d) \div 2 \in Nat
  BY <1>1
<1> DEFINE p == TargetOn(d)
<1>3. AbsenceTarget(absent[d], p) \in Nat
  BY <1>1, <1>2 DEF AbsenceTarget
<1> HIDE DEF p
<1>4. of(d).target \in {p, 0, AbsenceTarget(absent[d], p)}
  BY DEF of, p
<1> QED
  BY <1>1, <1>3, <1>4 DEF p

-----------------------------------------------------------------------------
(* The balance of a stretch of days, whichever way they are gone through.  *)

\* What a day adds to a balance.
Worth == [d \in CalendarDays |-> booked[d] - of(d).target]
Counting(days) == {d \in days : of(d).counts}

LEMMA CandidatesAreOfTheStretch ==
  ASSUME CalendarTyped, NEW a \in CalendarDays, NEW c \in CalendarDays
  PROVE  /\ candidates(a, c) \in SUBSET (a..c) /\ candidates(a, c) \in SUBSET CalendarDays
         /\ IsFiniteSet(Counting(candidates(a, c)))
<1>1. candidates(a, c) \in SUBSET (a..c)
  <2>1. a \in Nat /\ c \in Nat /\ countsFrom \in Nat /\ currentDate \in Nat
    BY DatesAreNumbers
  <2> QED
    BY <2>1 DEF candidates, latest, earliest
<1>2. candidates(a, c) \in SUBSET CalendarDays
  BY <1>1, DaysAreNumbers
<1> QED
  BY <1>1, <1>2, DaysAreNumbers, FS_Subset DEF Counting

LEMMA WorthIsNumber ==
  ASSUME CalendarTyped, NEW S \in SUBSET CalendarDays
  PROVE  Numbers(Worth, S) /\ IsFiniteSet(S)
<1>1. \A d \in S : booked[d] \in Nat /\ of(d).target \in Nat
  BY DayAsks DEF CalendarTyped
<1>2. \A d \in S : booked[d] - of(d).target \in Int
  BY <1>1
<1> QED
  BY <1>2, DaysAreNumbers, FS_Subset DEF Worth, Numbers

LEMMA BalanceIsSum ==
  ASSUME CalendarTyped, NEW a \in CalendarDays, NEW c \in CalendarDays
  PROVE  Balance(a, c) = SumOf(Worth, Counting(candidates(a, c)))
<1> DEFINE X == Counting(candidates(a, c))
           f == [d \in X |-> booked[d] - of(d).target]
<1>1. Balance(a, c) = SumOf(f, X)
  BY DEF Balance, SumFunction, SumOf, Counting
<1>2. X \in SUBSET CalendarDays /\ IsFiniteSet(X)
  BY CandidatesAreOfTheStretch DEF Counting
<1>3. \A d \in X : f[d] = Worth[d]
  BY <1>2 DEF Worth
<1> HIDE DEF f, X
<1>4. SumOf(f, X) = SumOf(Worth, X)
  BY <1>2, <1>3, SumSame
<1> QED
  BY <1>1, <1>4 DEF X

\* A day of the stretch that counts is among those looked at.
LEMMA CountingIsLookedAt ==
  ASSUME CalendarTyped, NEW a \in CalendarDays, NEW c \in CalendarDays
  PROVE  Counting(candidates(a, c)) = Counting(a..c)
<1>1. candidates(a, c) \in SUBSET (a..c)
  BY CandidatesAreOfTheStretch
<1>2. ASSUME NEW d \in a..c, of(d).counts PROVE d \in candidates(a, c)
  <2>1. d \in Nat /\ a \in Nat /\ c \in Nat /\ countsFrom \in Nat /\ currentDate \in Nat
    BY DatesAreNumbers
  <2>2. booked[d] > 0 \/ (countsFrom # 0 /\ d >= countsFrom /\ d <= currentDate)
    BY <1>2 DEF of
  <2> QED
    BY <2>1, <2>2 DEF candidates, latest, earliest
<1> QED
  BY <1>1, <1>2 DEF Counting

\* A stretch of days comes to what its two parts come to.
LEMMA StretchesAddUp == CalendarTyped => BalancesAdd
<1> SUFFICES ASSUME CalendarTyped, NEW a \in CalendarDays, NEW c \in CalendarDays, a < c
             PROVE  Balance(a, c) = Balance(a, a) + Balance(a + 1, c)
  BY DEF BalancesAdd
<1>1. a \in Nat /\ c \in Nat /\ a + 1 \in CalendarDays
  BY DaysAreNumbers, CalendarAssumption DEF CalendarDays
<1> DEFINE S == Counting(a..a)
           T == Counting((a + 1)..c)
<1>2. /\ Balance(a, c) = SumOf(Worth, Counting(a..c)) /\ Balance(a, a) = SumOf(Worth, S)
      /\ Balance(a + 1, c) = SumOf(Worth, T)
  BY <1>1, BalanceIsSum, CountingIsLookedAt
<1>3. Counting(a..c) = S \union T /\ S \intersect T = {}
  BY <1>1 DEF Counting
<1>4. S \in SUBSET CalendarDays /\ T \in SUBSET CalendarDays
  BY <1>1, DaysAreNumbers DEF Counting
<1> HIDE DEF S, T
<1>5. S \union T \in SUBSET CalendarDays
  BY <1>4
<1> QED
  BY <1>2, <1>3, <1>4, <1>5, WorthIsNumber, SumOfTwo

\* What the calendar page lists day by day adds up to what the report says.
LEMMA PageAndReport == CalendarTyped => CalendarAndReportAgree
<1> SUFFICES ASSUME CalendarTyped, NEW a \in CalendarDays, NEW c \in CalendarDays, a <= c
             PROVE  Balance(a, c) =
                      SumFunction([x \in {e \in DaysBetween(a, c) : e.counts} |-> x.booked - x.target])
  BY DEF CalendarAndReportAgree
<1> DEFINE X == Counting(a..c)
           line(d) == [date |-> d, booked |-> booked[d], target |-> of(d).target, counts |-> of(d).counts]
           L == {e \in DaysBetween(a, c) : e.counts}
           name == [d \in X |-> line(d)]
           num == [x \in L |-> x.booked - x.target]
<1>1. Balance(a, c) = SumOf(Worth, X)
  BY BalanceIsSum, CountingIsLookedAt
<1>2. L = {name[d] : d \in X}
  <2>1. \A d \in a..c : line(d).counts = of(d).counts
    OBVIOUS
  <2>2. DaysBetween(a, c) = {line(d) : d \in a..c}
    BY DEF DaysBetween
  <2>3. L = {line(d) : d \in X}
    <3> HIDE DEF line
    <3> QED
      BY <2>1, <2>2 DEF Counting
  <2> QED
    BY <2>3
<1>3. X \in SUBSET CalendarDays
  BY DaysAreNumbers DEF Counting
<1>4. name \in [X -> L]
  BY <1>2
<1>5. \A x, y \in X : name[x] = name[y] => x = y
  <2>1. \A d \in X : name[d].date = d
    OBVIOUS
  <2> HIDE DEF name
  <2> QED
    BY <2>1
<1>6. \A x \in X : num[name[x]] = Worth[x]
  <2> SUFFICES ASSUME NEW x \in X PROVE num[name[x]] = Worth[x]
    OBVIOUS
  <2>1. name[x] \in L /\ name[x].booked = booked[x] /\ name[x].target = of(x).target
    BY <1>4
  <2>2. Worth[x] = booked[x] - of(x).target
    BY <1>3 DEF Worth
  <2> HIDE DEF name, L
  <2> QED
    BY <2>1, <2>2
<1>7. IsFiniteSet(X) /\ Numbers(Worth, X)
  BY <1>3, WorthIsNumber
<1>8. SumOf(num, L) = SumFunction(num)
  BY DEF SumOf, SumFunction
<1> HIDE DEF X, L, name, num
<1>9. SumOf(num, L) = SumOf(Worth, X)
  BY <1>2, <1>4, <1>5, <1>6, <1>7, SumRenamed
<1> QED
  BY <1>1, <1>8, <1>9 DEF L, num

-----------------------------------------------------------------------------
(* The balance beside the clock, and the reminder.                         *)

LEMMA BookedDaysAreDays ==
  ASSUME CalendarTyped
  PROVE  /\ BookedDays \in SUBSET Nat /\ BookedDays \in SUBSET CalendarDays
         /\ \A d \in CalendarDays : booked[d] \in Nat /\ (d \in BookedDays <=> booked[d] > 0)
BY DatesAreNumbers DEF CalendarTyped, BookedDays

\* What has begun has begun with the first booking or the day every day counts from.
LEMMA BeginningIsFirst ==
  ASSUME CalendarTyped
  PROVE  /\ beginning \in CalendarDays \union {0}
         /\ beginning = 0 <=> (countsFrom = 0 /\ BookedDays = {})
         /\ \A d \in BookedDays : beginning <= d
         /\ countsFrom # 0 => beginning <= countsFrom
<1>1. BookedDays \in SUBSET Nat /\ BookedDays \in SUBSET CalendarDays
  BY BookedDaysAreDays
<1>2. countsFrom \in CalendarDays \union {0} /\ countsFrom \in Nat
  BY DatesAreNumbers DEF CalendarTyped
<1>3. BookedDays # {} => /\ Earliest(BookedDays) \in BookedDays
                         /\ \A d \in BookedDays : Earliest(BookedDays) <= d
  BY <1>1, EarliestIsLeast
<1> DEFINE e == Earliest(BookedDays)
<1>4. BookedDays # {} => e \in CalendarDays /\ e \in Nat /\ e > 0
  BY <1>1, <1>3, DatesAreNumbers
<1>5. beginning = IF countsFrom # 0 /\ (BookedDays = {} \/ countsFrom < e) THEN countsFrom
                  ELSE IF BookedDays = {} THEN 0 ELSE e
  BY DEF beginning
<1> HIDE DEF e
<1>6. BookedDays # {} => \A d \in BookedDays : e <= d /\ d \in Nat
  BY <1>1, <1>3 DEF e
<1>7. CASE BookedDays = {}
  BY <1>2, <1>5, <1>7
<1>8. CASE BookedDays # {}
  BY <1>2, <1>4, <1>5, <1>6, <1>8
<1> QED
  BY <1>7, <1>8

\* The balance beside the clock is that of everything up to today.
LEMMA RunningWhole == CalendarTyped => RunningIsWhole
<1> SUFFICES ASSUME CalendarTyped PROVE running = Balance(FirstDay, currentDate)
  BY DEF RunningIsWhole
<1>1. /\ currentDate \in CalendarDays /\ currentDate \in Nat /\ countsFrom \in Nat
      /\ FirstDay \in CalendarDays /\ FirstDay \in Nat
  <2>1. currentDate \in CalendarDays
    BY DEF CalendarTyped
  <2> QED
    BY <2>1, DatesAreNumbers, CalendarAssumption DEF CalendarDays
<1>2. Balance(FirstDay, currentDate) = SumOf(Worth, Counting(FirstDay..currentDate))
  BY <1>1, BalanceIsSum, CountingIsLookedAt
<1>3. beginning \in Nat /\ (beginning # 0 => beginning \in CalendarDays /\ FirstDay <= beginning)
  BY BeginningIsFirst, DatesAreNumbers, DaysAreNumbers
<1>4. ASSUME NEW d \in FirstDay..currentDate, of(d).counts
      PROVE  beginning # 0 /\ beginning <= d
  <2>1. d \in CalendarDays
    BY <1>1, DaysAreNumbers
  <2>2. d \in BookedDays \/ (countsFrom # 0 /\ countsFrom <= d)
    BY <1>4, <2>1, BookedDaysAreDays DEF of
  <2>3. d \in Nat
    BY <2>1, DatesAreNumbers
  <2> QED
    BY <1>1, <1>3, <2>2, <2>3, BeginningIsFirst
<1>5. CASE beginning = 0 \/ beginning > currentDate
  <2>1. Counting(FirstDay..currentDate) = {}
    BY <1>1, <1>3, <1>4, <1>5 DEF Counting
  <2> QED
    BY <1>2, <1>5, <2>1, SumOfNone DEF running
<1>6. CASE ~(beginning = 0 \/ beginning > currentDate)
  <2>1. running = SumOf(Worth, Counting(beginning..currentDate))
    BY <1>1, <1>3, <1>6, BalanceIsSum, CountingIsLookedAt DEF running
  <2>2. Counting(beginning..currentDate) = Counting(FirstDay..currentDate)
    <3>1. \A d \in beginning..currentDate : d \in FirstDay..currentDate
      BY <1>1, <1>3, <1>6
    <3>2. ASSUME NEW d \in FirstDay..currentDate, of(d).counts PROVE d \in beginning..currentDate
      BY <1>1, <1>3, <1>4, <3>2
    <3> QED
      BY <3>1, <3>2 DEF Counting
  <2> QED
    BY <1>2, <2>1, <2>2
<1> QED
  BY <1>5, <1>6

\* The day a reminder names is the last before today that hours are owed on.
LEMMA ReminderOwed == CalendarTyped => ReminderIsOwed
<1> SUFFICES ASSUME CalendarTyped, NEW d \in CalendarDays, d = unbookedDay, countsFrom # 0, d >= countsFrom
             PROVE  LET owed == {x \in d..(currentDate - 1) : x >= countsFrom /\ booked[x] = 0 /\ of(x).counts}
                    IN d \in owed /\ \A x \in owed \ {d} : absent[x] = "flexDay"
  BY DEF ReminderIsOwed
<1> DEFINE since == latest(currentDate - LookBack, FirstDay)
           missed == {x \in since..(currentDate - 1) : beginning # 0 /\ x >= beginning /\ expectsWork(x)}
           noted == {0} \union missed
<1>1. /\ currentDate \in CalendarDays /\ currentDate \in Nat /\ countsFrom \in Nat
      /\ FirstDay \in Nat /\ FirstDay > 0 /\ LookBack \in Nat /\ beginning \in Nat
      /\ d \in Nat /\ d > 0
  <2>1. currentDate \in CalendarDays
    BY DEF CalendarTyped
  <2> QED
    BY <2>1, BeginningIsFirst, DatesAreNumbers, CalendarAssumption
<1>2. since \in Nat /\ since >= FirstDay
  BY <1>1 DEF latest
<1>3. noted \in SUBSET Nat /\ noted # {} /\ \A x \in noted : x <= currentDate
  <2>1. \A x \in since..(currentDate - 1) : x \in Nat /\ x <= currentDate
    BY <1>1, <1>2
  <2> QED
    BY <1>1, <2>1
<1>4. Latest(noted) \in noted /\ \A x \in noted : x <= Latest(noted)
  <2> HIDE DEF noted
  <2> QED
    BY <1>1, <1>3, LatestIsGreatest
<1>5. unbookedDay = IfUnbooked(Latest(noted))
  BY DEF unbookedDay
<1>6. d = Latest(noted) /\ ~(booked[d] > 0)
  <2> HIDE DEF noted
  <2> QED
    BY <1>1, <1>5 DEF IfUnbooked
<1>7. d \in missed
  BY <1>1, <1>4, <1>6
<1>8. d \in since..(currentDate - 1) /\ beginning # 0 /\ d >= beginning /\ expectsWork(d)
  BY <1>7
<1>9. \A x \in missed : x <= d
  BY <1>4, <1>6
<1>10. ASSUME NEW x \in since..(currentDate - 1), x > d PROVE ~expectsWork(x)
  <2>1. x \in Nat /\ x >= beginning
    BY <1>1, <1>2, <1>8, <1>10
  <2>2. x \notin missed
    BY <1>1, <1>9, <1>10, <2>1
  <2> QED
    BY <1>8, <2>1, <2>2
<1> HIDE DEF since, missed, noted
<1>11. \A x \in since..(currentDate - 1) : x \in CalendarDays /\ x \in Nat /\ x < currentDate
  <2> SUFFICES ASSUME NEW x \in since..(currentDate - 1)
               PROVE  x \in CalendarDays /\ x \in Nat /\ x < currentDate
    OBVIOUS
  <2>1. x \in Nat /\ FirstDay <= x /\ x < currentDate
    BY <1>1, <1>2
  <2>2. currentDate <= LastDay
    BY <1>1, DaysAreNumbers
  <2> QED
    BY <1>1, <2>1, <2>2, CalendarAssumption DEF CalendarDays
<1>12. booked[d] = 0 /\ of(d).counts /\ d <= currentDate - 1
  <2>1. booked[d] \in Nat
    BY DEF CalendarTyped
  <2>2. TargetOn(d) \in {4, 8} /\ d \notin holidaysOf(d, d) /\ absent[d] \in {"", "halfVacation"}
    <3>1. TargetOn(d) \in {0, 4, 8}
      BY WeekAsks
    <3>2. d \notin holidaysOf(d, d) /\ absent[d] \in {"", "halfVacation"}
      BY <1>8 DEF expectsWork
    <3>3. TargetOn(d) > 0
      BY <1>8 DEF expectsWork
    <3>4. TargetOn(d) \in {4, 8}
      BY <3>1, <3>3
    <3> QED
      BY <3>2, <3>4
  <2>3. AbsenceTarget("halfVacation", TargetOn(d)) > 0
    <3> DEFINE p == TargetOn(d)
    <3>1. AbsenceTarget("halfVacation", p) = p \div 2
      BY DEF AbsenceTarget
    <3>2. p \in {4, 8}
      BY <2>2
    <3> HIDE DEF p
    <3> QED
      BY <3>1, <3>2 DEF p
  <2>4. of(d).target > 0
    <3> DEFINE a == AbsenceTarget("halfVacation", TargetOn(d))
               p == TargetOn(d)
    <3>1. of(d).target = IF countsFrom = 0 \/ d < countsFrom THEN p
                         ELSE IF d \in holidaysOf(d, d) THEN 0
                         ELSE IF absent[d] # "" THEN AbsenceTarget(absent[d], p) ELSE p
      BY DEF of
    <3>2. ~(countsFrom = 0 \/ d < countsFrom)
      BY <1>1
    <3>3. of(d).target \in {p, a}
      BY <2>2, <3>1, <3>2
    <3>4. p > 0 /\ a > 0
      <4>1. p \in {4, 8}
        BY <2>2
      <4> HIDE DEF p
      <4> QED
        BY <2>3, <4>1 DEF p
    <3> HIDE DEF a, p
    <3> QED
      BY <3>3, <3>4
  <2>5. d <= currentDate /\ d <= currentDate - 1
    BY <1>1, <1>8, <1>11
  <2> QED
    <3>1. booked[d] = 0
      BY <1>6, <2>1
    <3>2. countsFrom # 0 /\ d >= countsFrom /\ of(d).target > 0 /\ d <= currentDate
      BY <2>4, <2>5
    <3>3. of(d).counts = \/ booked[d] > 0
                         \/ countsFrom # 0 /\ d >= countsFrom /\ of(d).target > 0 /\ d <= currentDate
      BY DEF of
    <3> QED
      BY <2>5, <3>1, <3>2, <3>3
<1>13. ASSUME NEW x \in d..(currentDate - 1), x >= countsFrom, booked[x] = 0, of(x).counts, x # d
       PROVE  absent[x] = "flexDay"
  <2>1. x \in since..(currentDate - 1) /\ x > d /\ x \in CalendarDays
    BY <1>1, <1>2, <1>8, <1>11, <1>13
  <2>2. ~expectsWork(x) /\ of(x).target > 0
    <3>1. of(x).counts = \/ booked[x] > 0
                         \/ countsFrom # 0 /\ x >= countsFrom /\ of(x).target > 0 /\ x <= currentDate
      BY DEF of
    <3>2. ~(booked[x] > 0)
      BY <1>13
    <3> QED
      BY <1>10, <1>13, <2>1, <3>1, <3>2
  <2>3. TargetOn(x) \in {0, 4, 8}
    BY <2>1, WeekAsks
  <2> DEFINE p == TargetOn(x)
             a == AbsenceTarget(absent[x], p)
  <2>4. x \in Nat /\ ~(countsFrom = 0 \/ x < countsFrom)
    BY <1>1, <1>13, <2>1, DatesAreNumbers
  <2>5. x \notin holidaysOf(x, x) /\ (absent[x] # "" => a > 0) /\ (absent[x] = "" => p > 0)
    <3>1. x \in holidaysOf(x, x) => of(x).target = 0
      BY <2>4 DEF of
    <3>2. x \notin holidaysOf(x, x) /\ absent[x] # "" => of(x).target = a
      BY <2>4 DEF of
    <3>3. x \notin holidaysOf(x, x) /\ absent[x] = "" => of(x).target = p
      BY <2>4 DEF of
    <3> DEFINE t == of(x).target
               off == x \in holidaysOf(x, x)
    <3>4. t > 0
      BY <2>2
    <3> HIDE DEF a, p, t, off
    <3>5. ~off
      BY <3>1, <3>4 DEF off, t
    <3> QED
      BY <3>2, <3>3, <3>4, <3>5 DEF off, t
  <2>6. absent[x] # ""
    BY <2>2, <2>5 DEF expectsWork
  <2>7. a > 0 /\ (absent[x] = "halfVacation" => p \div 2 > 0)
    BY <2>5, <2>6 DEF AbsenceTarget
  <2>8. p > 0 => absent[x] # "halfVacation"
    BY <2>2, <2>5 DEF expectsWork
  <2>9. absent[x] # "halfVacation"
    BY <2>3, <2>7, <2>8
  <2> QED
    BY <2>7, <2>9 DEF AbsenceTarget
<1>14. d \in d..(currentDate - 1)
  BY <1>1, <1>12
<1> QED
  BY <1>12, <1>13, <1>14

-----------------------------------------------------------------------------
(* The account of vacation.                                                *)

LEMMA UsedIsNumber ==
  ASSUME NEW S \in SUBSET CalendarDays
  PROVE  Used(S) \in Int
<1> DEFINE X == {x \in S : TargetOn(x) > 0 /\ x \notin holidaysOf(x, x)}
           f == [d \in X |-> VacationDays(absent[d])]
<1>1. IsFiniteSet(X)
  <2>1. X \in SUBSET CalendarDays
    OBVIOUS
  <2> QED
    BY <2>1, DaysAreNumbers, FS_Subset
<1>2. Used(S) = SumOf(f, X)
  BY DEF Used, SumFunction, SumOf
<1>3. \A d \in X : VacationDays(absent[d]) \in Int
  BY DEF VacationDays
<1> HIDE DEF X
<1>4. Numbers(f, X)
  BY <1>3 DEF Numbers
<1> HIDE DEF f
<1> QED
  BY <1>1, <1>2, <1>4, SumTyped

LEMMA YearsUseNumbers ==
  ASSUME NEW y \in Years
  PROVE  taken(y) \in Int /\ planned(y) \in Int
<1>1. /\ {d \in DaysIn[y] : d <= currentDate} \in SUBSET CalendarDays
      /\ {d \in DaysIn[y] : d > currentDate} \in SUBSET CalendarDays
  BY DEF DaysIn
<1> QED
  BY <1>1, UsedIsNumber DEF taken, planned

LEMMA EntitlementIsNumber ==
  ASSUME CalendarTyped, NEW y \in Years
  PROVE  EntitlementIn(y) \in Int
<1> DEFINE since == {z \in Entitling : z <= y}
<1>1. since \in SUBSET Years /\ since \in SUBSET Nat /\ y \in Nat /\ \A z \in since : z <= y
  BY CalendarAssumption DEF Entitling
<1>2. EntitlementIn(y) = IF since = {} THEN 0 ELSE entitled[Latest(since)]
  BY DEF EntitlementIn
<1> HIDE DEF since
<1>3. since # {} => Latest(since) \in Years
  BY <1>1, LatestIsGreatest
<1>4. \A z \in Years : entitled[z] \in Int
  BY DEF CalendarTyped
<1> QED
  BY <1>2, <1>3, <1>4

\* What is left of a year for itself.
Left == [z \in Years |-> EntitlementIn(z) - taken(z) - planned(z)]

LEMMA CarriedIsSum ==
  ASSUME CalendarTyped, NEW first \in Years, NEW n \in Int, first..(n - 1) \in SUBSET Years
  PROVE  /\ carried(first, n) = SumOf(Left, first..(n - 1))
         /\ Numbers(Left, first..(n - 1)) /\ IsFiniteSet(first..(n - 1))
<1> DEFINE X == first..(n - 1)
           f == [z \in X |-> EntitlementIn(z) - taken(z) - planned(z)]
<1>1. carried(first, n) = SumOf(f, X)
  BY DEF carried, SumFunction, SumOf
<1>2. \A z \in X : f[z] = Left[z]
  BY DEF Left
<1>3. IsFiniteSet(X)
  BY CalendarAssumption, FS_Interval
<1>4. \A z \in X : Left[z] \in Int
  <2> SUFFICES ASSUME NEW z \in Years PROVE Left[z] \in Int
    OBVIOUS
  <2>1. EntitlementIn(z) \in Int /\ taken(z) \in Int /\ planned(z) \in Int
    BY EntitlementIsNumber, YearsUseNumbers
  <2>2. EntitlementIn(z) - taken(z) - planned(z) \in Int
    BY <2>1
  <2> QED
    BY <2>2 DEF Left
<1> HIDE DEF f, X
<1>5. SumOf(f, X) = SumOf(Left, X)
  BY <1>2, <1>3, SumSame
<1> QED
  BY <1>1, <1>3, <1>4, <1>5 DEF X, Numbers

\* A year carries over what the year before it left.
LEMMA CarriedOver == CalendarTyped => CarriedOverIsWhatRemained
<1> SUFFICES ASSUME CalendarTyped, NEW y \in Years, y + 1 \in Years,
                    Entitling # {}, y >= Earliest(Entitling)
             PROVE  VacationYear(y + 1).carriedOver = Remaining(VacationYear(y))
  BY DEF CarriedOverIsWhatRemained
<1> DEFINE e == Earliest(Entitling)
<1>1. Entitling \in SUBSET Years /\ Entitling \in SUBSET Nat
  BY CalendarAssumption DEF Entitling
<1>2. e \in Years /\ e \in Nat /\ y \in Nat
  BY <1>1, EarliestIsLeast, CalendarAssumption
<1>3. ~(y < e) /\ ~(y + 1 < e) /\ y >= e
  <2> HIDE DEF e
  <2> QED
    BY <1>2 DEF e
<1> HIDE DEF e
<1>4. e..y \in SUBSET Years /\ e..(y - 1) \in SUBSET Years /\ (y + 1) - 1 = y
  <2>1. e..y \in SUBSET Years
    BY <1>2, CalendarAssumption
  <2>2. \A z \in e..(y - 1) : z \in e..y
    BY <1>2
  <2> QED
    BY <1>2, <2>1, <2>2
<1>5. carried(e, y + 1) = SumOf(Left, e..y) /\ Numbers(Left, e..y) /\ IsFiniteSet(e..y)
  BY <1>2, <1>4, CarriedIsSum
<1>6. carried(e, y) = SumOf(Left, e..(y - 1)) /\ Numbers(Left, e..(y - 1)) /\ IsFiniteSet(e..(y - 1))
  BY <1>2, <1>4, CarriedIsSum
<1>7. y \in e..y /\ (e..y) \ {y} = e..(y - 1)
  BY <1>2, <1>3
<1>8. carried(e, y + 1) = Left[y] + carried(e, y)
  <2>1. SumOf(Left, e..y) = Left[y] + SumOf(Left, (e..y) \ {y})
    <3> DEFINE S == e..y
    <3>1. IsFiniteSet(S) /\ Numbers(Left, S) /\ y \in S
      BY <1>5, <1>7
    <3> HIDE DEF S
    <3>2. SumOf(Left, S) = Left[y] + SumOf(Left, S \ {y})
      BY <3>1, SumWith
    <3> QED
      BY <3>2 DEF S
  <2> QED
    BY <1>5, <1>6, <1>7, <2>1
<1>9. VacationYear(y + 1).carriedOver = carried(e, y + 1)
  BY <1>3 DEF VacationYear, e
<1>10. Remaining(VacationYear(y)) = EntitlementIn(y) + carried(e, y) - taken(y) - planned(y)
  BY <1>3 DEF VacationYear, Remaining, e
<1> DEFINE a == EntitlementIn(y)
           b == taken(y)
           c == planned(y)
           m == carried(e, y)
<1>11. Left[y] = a - b - c
  BY DEF Left
<1>12. a \in Int /\ b \in Int /\ c \in Int /\ m \in Int
  BY <1>6, EntitlementIsNumber, YearsUseNumbers, SumTyped
<1> HIDE DEF a, b, c, m
<1>13. (a - b - c) + m = a + m - b - c
  BY <1>12
<1> QED
  BY <1>8, <1>9, <1>10, <1>11, <1>13 DEF a, b, c, m

-----------------------------------------------------------------------------
(* Whatever is booked, planned, recorded and entitled.                     *)

LEMMA NoneIsNumber == NoEntitlement \in Int /\ 4 \in Int
BY DEF NoEntitlement

LEMMA CalendarInitTyped == CalendarInit => CalendarTyped
<1> SUFFICES ASSUME NEW s \in Starts,
                    booked = [d \in CalendarDays |-> IF d \in s.booked THEN 8 ELSE 0],
                    countsFrom = s.countsFrom, currentDate = s.today,
                    weekPlan = [d \in CalendarDays |-> ""],
                    entitled = [y \in Years |-> IF y \in s.entitled THEN 4 ELSE NoEntitlement]
             PROVE  CalendarTyped
  BY DEF CalendarInit
<1>1. booked \in [CalendarDays -> Nat]
  OBVIOUS
<1>2. entitled \in [Years -> Int]
  BY NoneIsNumber
<1>3. weekPlan \in [CalendarDays -> {"", "halves", "free"}]
  OBVIOUS
<1> QED
  BY <1>1, <1>2, <1>3, CalendarAssumption DEF CalendarTyped

LEMMA CalendarStepTyped ==
  ASSUME CalendarTyped, CalendarNext
  PROVE  CalendarTyped'
<1>1. CASE DayPasses
  <2>1. currentDate' \in CalendarDays
    <3>1. currentDate \in CalendarDays /\ currentDate < LastDay /\ currentDate' = currentDate + 1
      BY <1>1 DEF CalendarTyped, DayPasses
    <3> QED
      BY <3>1, CalendarAssumption DEF CalendarDays
  <2> QED
    BY <1>1, <2>1 DEF CalendarTyped, DayPasses
<1>2. ASSUME NEW d \in CalendarDays, NEW hours \in {0, 10}, Booking(d, hours) PROVE CalendarTyped'
  <2>1. booked' = [booked EXCEPT ![d] = hours] /\ hours \in Nat
    BY <1>2 DEF Booking
  <2>2. booked' \in [CalendarDays -> Nat]
    BY <2>1 DEF CalendarTyped
  <2> QED
    BY <1>2, <2>2 DEF CalendarTyped, Booking
<1>3. ASSUME NEW d \in CalendarDays, NEW week \in {"halves", "free"}, SavePlan(d, week) PROVE CalendarTyped'
  <2>1. week \in {"", "halves", "free"}
    OBVIOUS
  <2> QED
    BY <1>3, <2>1 DEF CalendarTyped, SavePlan, Plan, saveWeek
<1>4. ASSUME NEW d \in CalendarDays, DeleteAbsence(d) PROVE CalendarTyped'
  BY <1>4 DEF CalendarTyped, DeleteAbsence, RemoveAbsence, deleteAbsence
<1>5. ASSUME NEW d \in CalendarDays, DeletePlan(d) PROVE CalendarTyped'
  <2>1. "" \in {"", "halves", "free"}
    OBVIOUS
  <2>2. weekPlan' = [weekPlan EXCEPT ![d] = ""]
    BY <1>5 DEF DeletePlan, RemovePlan, deleteWeek
  <2>3. weekPlan' \in [CalendarDays -> {"", "halves", "free"}]
    BY <2>1, <2>2 DEF CalendarTyped
  <2> QED
    BY <1>5, <2>3 DEF CalendarTyped, DeletePlan, RemovePlan
<1>6. ASSUME NEW d \in CalendarDays \union {0}, SetEveryDayCountsFrom(d) PROVE CalendarTyped'
  BY <1>6 DEF CalendarTyped, SetEveryDayCountsFrom, UpdateWorkingTimes
<1>7. ASSUME NEW range \in Ranges, NEW kind \in Kinds, SaveAbsence(range, kind) PROVE CalendarTyped'
  BY <1>7 DEF CalendarTyped, SaveAbsence, RecordAbsence
<1>8. ASSUME NEW y \in Years, DeleteEntitlement(y) PROVE CalendarTyped'
  <2>1. NoEntitlement \in Int
    BY DEF NoEntitlement
  <2> QED
    BY <1>8, <2>1 DEF CalendarTyped, DeleteEntitlement, Withdraw, deleteEntitlement
<1>9. ASSUME NEW y \in Years, NEW n \in Entitlements, SaveEntitlement(y, n) PROVE CalendarTyped'
  <2>1. n \in Int
    BY CalendarAssumption
  <2> QED
    BY <1>9, <2>1 DEF CalendarTyped, SaveEntitlement, Entitle, saveEntitlement
<1>10. ASSUME NEW c \in PlaceChoices, SetMyPlace(c) \/ SetInstallationPlace(c) PROVE CalendarTyped'
  BY <1>10 DEF CalendarTyped, SetMyPlace, SetInstallationPlace, SetHolidayPlace, SaveHolidayPlace
<1> QED
  BY <1>1, <1>2, <1>3, <1>4, <1>5, <1>6, <1>7, <1>8, <1>9, <1>10 DEF CalendarNext

LEMMA CalendarStepOrNone ==
  ASSUME CalendarTyped, [CalendarNext]_calendarVars
  PROVE  CalendarTyped'
<1>1. CASE CalendarNext
  BY <1>1, CalendarStepTyped
<1>2. CASE UNCHANGED calendarVars
  BY <1>2 DEF calendarVars, CalendarTyped
<1> QED
  BY <1>1, <1>2

LEMMA AllWaysAgree == CalendarTyped => AccountsAddUp
BY StretchesAddUp, PageAndReport, RunningWhole, ReminderOwed, CarriedOver DEF AccountsAddUp

\* Hours and vacation come to the same by whichever way they are worked out, for any days,
\* bookings, absences, weeks, holidays and years (Balance, Days, running, unbookedDay, Year).
THEOREM CalendarAlwaysAddsUp == CalendarSpec => []AccountsAddUp
<1>1. CalendarTyped /\ [CalendarNext]_calendarVars => CalendarTyped'
  BY CalendarStepOrNone
<1> QED
  BY <1>1, CalendarInitTyped, AllWaysAgree, PTL DEF CalendarSpec

\* The same where somebody's days are one of the records that may be followed.
THEOREM DaysAlwaysAddUp == Spec => []DaysAddUp
<1>1. Init => CalendarTyped
  BY CalendarInitTyped DEF Init
<1>2. CalendarTyped /\ [Next]_allVars => CalendarTyped'
  <2> SUFFICES ASSUME CalendarTyped, [Next]_allVars PROVE CalendarTyped'
    OBVIOUS
  <2>1. [CalendarNext]_calendarVars
    BY DEF Next, allVars, calendarsVars
  <2> QED
    BY <2>1, CalendarStepOrNone
<1>3. CalendarTyped => DaysAddUp
  BY AllWaysAgree DEF DaysAddUp
<1> QED
  BY <1>1, <1>2, <1>3, PTL DEF Spec

-----------------------------------------------------------------------------
(* When somebody worked: the shifts of a stretch of days.                  *)

\* What a day's record may be.
DayRecord ==
  {w \in [start : Nat, end : Nat, breaks : Nat] :
     w = NoWork \/ (w.start < 1440 /\ w.start < w.end /\ w.end <= 1440 /\ w.breaks < w.end - w.start)}
WorkTyped == record \in [1..LastDate -> DayRecord]

LEMMA RecordIs ==
  ASSUME WorkTyped, NEW d \in 1..LastDate
  PROVE  /\ record[d] \in DayRecord
         /\ record[d].start \in Nat /\ record[d].end \in Nat /\ record[d].breaks \in Nat
         /\ record[d].start <= 1440 /\ record[d].end <= 1440
         /\ WorkedMinutes(record[d]) \in Int
<1>1. record[d] \in DayRecord
  BY DEF WorkTyped
<1>2. \A w \in DayRecord : /\ w.start \in Nat /\ w.end \in Nat /\ w.breaks \in Nat
                            /\ w.start <= 1440 /\ w.end <= 1440
  BY DEF DayRecord, NoWork
<1> QED
  BY <1>1, <1>2 DEF WorkedMinutes

\* A day begins and ends on the line of minutes as it says.
LEMMA JoinedIs ==
  ASSUME WorkTyped, NEW d \in 2..LastDate
  PROVE  Joined(d) <=> Recorded(d - 1) /\ Recorded(d) /\ record[d - 1].end = 1440 /\ record[d].start = 0
<1>1. d \in 1..LastDate /\ d - 1 \in 1..LastDate /\ d \in Nat /\ d > 1
  BY WorkDaysAssumption
<1>2. /\ record[d - 1].end \in Nat /\ record[d].start \in Nat
      /\ record[d - 1].end <= 1440
  BY <1>1, RecordIs
<1> DEFINE a == record[d - 1].end
           b == record[d].start
<1>3. EndOf(d - 1) = (d - 1) * 1440 + a /\ BeginOf(d) = d * 1440 + b
  BY DEF EndOf, BeginOf, MinutesPerDay
<1> HIDE DEF a, b
<1>4. EndOf(d - 1) = BeginOf(d) <=> a = 1440 /\ b = 0
  BY <1>1, <1>2, <1>3 DEF a, b
<1> QED
  BY <1>1, <1>4 DEF Joined, a, b

\* The minutes worked and the breaks of each day.
WorkedOn == [e \in 1..LastDate |-> WorkedMinutes(record[e])]
BreaksOn == [e \in 1..LastDate |-> record[e].breaks]

LEMMA MinutesAreNumbers ==
  ASSUME WorkTyped, NEW a \in 1..LastDate, NEW c \in 1..LastDate
  PROVE  /\ Numbers(WorkedOn, a..c) /\ Numbers(BreaksOn, a..c) /\ IsFiniteSet(a..c)
         /\ a..c \in SUBSET (1..LastDate)
<1>1. a..c \in SUBSET (1..LastDate) /\ IsFiniteSet(a..c)
  BY WorkDaysAssumption, FS_Interval
<1>2. \A d \in 1..LastDate : WorkedOn[d] \in Int /\ BreaksOn[d] \in Int
  BY RecordIs DEF WorkedOn, BreaksOn
<1> QED
  BY <1>1, <1>2 DEF Numbers

Shifts == [startDay : Nat, endDay : Nat, start : Nat, end : Nat, worked : Int, breaks : Int]

\* The shift s of the days from f to n is one, and is what its days come to.
IsShift(s, f, n) ==
  /\ s \in Shifts
  /\ f <= s.startDay /\ s.startDay <= s.endDay /\ s.endDay <= n
  /\ \A x \in s.startDay..s.endDay : Recorded(x)
  /\ \A x \in (s.startDay + 1)..s.endDay : Joined(x)
  /\ s.startDay > f => ~Joined(s.startDay)
  /\ s.start = record[s.startDay].start /\ s.end = record[s.endDay].end
  /\ s.worked = SumOf(WorkedOn, s.startDay..s.endDay)
  /\ s.breaks = SumOf(BreaksOn, s.startDay..s.endDay)

\* Nothing was worked between the i-th shift of S and the one before it.
FollowsOn(S, i, f) ==
  /\ i > 1 => S[i - 1].endDay < S[i].startDay
  /\ \A x \in f..(S[i].startDay - 1) : Recorded(x) => i > 1 /\ x <= S[i - 1].endDay

\* S lists the shifts of the days from f to n.
Listed(S, f, n) ==
  /\ S \in Seq(Shifts)
  /\ \A i \in 1..Len(S) : IsShift(S[i], f, n) /\ FollowsOn(S, i, f)
  /\ \A i \in 1..(Len(S) - 1) : ~Joined(S[i].endDay + 1)
  /\ \A x \in f..n : Recorded(x) => \E i \in 1..Len(S) : x \in S[i].startDay..S[i].endDay
  /\ \A x \in f..n : Recorded(x) => Len(S) > 0 /\ x <= S[Len(S)].endDay

\* Looking at one day more keeps a shift one.
LEMMA ShiftStays ==
  ASSUME NEW s, NEW f \in Nat, NEW n \in Nat, IsShift(s, f, n)
  PROVE  IsShift(s, f, n + 1)
BY DEF IsShift, Shifts

\* A day without a record changes nothing,
LEMMA FreeDayListed ==
  ASSUME NEW S, NEW f \in Nat, NEW n \in Nat, Listed(S, f, n), ~Recorded(n + 1)
  PROVE  Listed(S, f, n + 1)
<1>1. \A x \in f..(n + 1) : x = n + 1 \/ x \in f..n
  OBVIOUS
<1> QED
  BY <1>1, ShiftStays DEF Listed

LEMMA LongerIs ==
  ASSUME NEW s \in Shifts, NEW d \in Nat, record[d].end \in Nat, record[d].breaks \in Nat,
         WorkedMinutes(record[d]) \in Int
  PROVE  /\ Longer(s, d).startDay = s.startDay /\ Longer(s, d).endDay = d
         /\ Longer(s, d).start = s.start /\ Longer(s, d).end = record[d].end
         /\ Longer(s, d).worked = s.worked + WorkedMinutes(record[d])
         /\ Longer(s, d).breaks = s.breaks + record[d].breaks
         /\ Longer(s, d) \in Shifts
<1> DEFINE n == WorkedMinutes(record[d])
           b == record[d].breaks
           e == record[d].end
<1>1. Longer(s, d) = [s EXCEPT !.endDay = d, !.end = e, !.breaks = @ + b, !.worked = @ + n]
  BY DEF Longer
<1>2. n \in Int /\ b \in Nat /\ e \in Nat
  OBVIOUS
<1> HIDE DEF n, b, e
<1>3. s.breaks + b \in Int /\ s.worked + n \in Int
  BY <1>2 DEF Shifts
<1>4. Longer(s, d) = [startDay |-> s.startDay, endDay |-> d, start |-> s.start, end |-> e,
                      worked |-> s.worked + n, breaks |-> s.breaks + b]
  BY <1>1 DEF Shifts
<1> QED
  BY <1>2, <1>3, <1>4 DEF Shifts, n, b, e

\* a day that goes on from the one before makes the last shift longer,
LEMMA LongerListed ==
  ASSUME WorkTyped, NEW S, NEW f \in Nat, NEW n \in Nat, f >= 1, n + 1 <= LastDate,
         Listed(S, f, n), Recorded(n + 1), S # <<>>, GoesOn(Last(S), n + 1)
  PROVE  Listed(ReplaceAt(S, Len(S), Longer(Last(S), n + 1)), f, n + 1)
<1> DEFINE k == Len(S)
           l == S[k]
           m == Longer(l, n + 1)
           R == [S EXCEPT ![k] = m]
<1>1. k \in Nat /\ k >= 1 /\ S \in Seq(Shifts) /\ Last(S) = l /\ l \in Shifts
  BY DEF Listed, Last
<1>2. IsShift(l, f, n) /\ FollowsOn(S, k, f)
  BY <1>1 DEF Listed
<1>3. l.end = 1440 /\ record[n + 1].start = 0 /\ n = l.endDay /\ l.startDay \in Nat /\ l.startDay >= 1
      /\ l.startDay <= n /\ n >= 1
  <2>1. l.endDay \in Nat /\ l.startDay \in Nat /\ f <= l.startDay /\ l.startDay <= l.endDay
    BY <1>1, <1>2 DEF IsShift, Shifts
  <2>2. l.end = 1440 /\ record[n + 1].start = 0 /\ n + 1 = l.endDay + 1
    BY <1>1 DEF GoesOn, MinutesPerDay
  <2> QED
    BY <2>1, <2>2
<1>4. Joined(n + 1)
  <2>1. n + 1 \in 2..LastDate /\ (n + 1) - 1 = n
    BY <1>3, WorkDaysAssumption
  <2>2. Recorded(n) /\ record[n].end = 1440
    <3>1. n \in l.startDay..l.endDay
      BY <1>3
    <3>2. l.end = record[l.endDay].end /\ Recorded(n)
      BY <1>2, <3>1 DEF IsShift
    <3> HIDE DEF l
    <3> QED
      BY <1>3, <3>2
  <2> QED
    BY <1>3, <2>1, <2>2, JoinedIs
<1>5. /\ m.startDay = l.startDay /\ m.endDay = n + 1 /\ m.start = l.start /\ m.end = record[n + 1].end
      /\ m.worked = l.worked + WorkedMinutes(record[n + 1]) /\ m.breaks = l.breaks + record[n + 1].breaks
      /\ m \in Shifts
  <2>1. n + 1 \in 1..LastDate
    BY WorkDaysAssumption
  <2>2. record[n + 1].end \in Nat /\ record[n + 1].breaks \in Nat /\ WorkedMinutes(record[n + 1]) \in Int
    BY <2>1, RecordIs
  <2> HIDE DEF l
  <2> QED
    BY <1>1, <2>2, LongerIs
<1>6. IsShift(m, f, n + 1)
  <2>1. f <= m.startDay /\ m.startDay <= m.endDay /\ m.endDay <= n + 1
    BY <1>2, <1>3, <1>5 DEF IsShift
  <2>2. \A x \in m.startDay..m.endDay : x = n + 1 \/ x \in l.startDay..l.endDay
    BY <1>3, <1>5
  <2>3. \A x \in (m.startDay + 1)..m.endDay : x = n + 1 \/ x \in (l.startDay + 1)..l.endDay
    BY <1>3, <1>5
  <2>4. /\ \A x \in m.startDay..m.endDay : Recorded(x)
        /\ \A x \in (m.startDay + 1)..m.endDay : Joined(x)
    BY <1>2, <1>4, <2>2, <2>3 DEF IsShift
  <2> DEFINE D == l.startDay..(n + 1)
  <2>5. n + 1 \in D /\ D \ {n + 1} = l.startDay..l.endDay
    BY <1>3
  <2>6. /\ Numbers(WorkedOn, D) /\ Numbers(BreaksOn, D) /\ IsFiniteSet(D)
        /\ Numbers(WorkedOn, D \ {n + 1}) /\ Numbers(BreaksOn, D \ {n + 1}) /\ IsFiniteSet(D \ {n + 1})
    <3>1. l.startDay \in 1..LastDate /\ n + 1 \in 1..LastDate
      BY <1>3, WorkDaysAssumption
    <3>2. Numbers(WorkedOn, D) /\ Numbers(BreaksOn, D) /\ IsFiniteSet(D)
      BY <3>1, MinutesAreNumbers
    <3> HIDE DEF D
    <3> QED
      BY <3>2, FS_Subset DEF Numbers
  <2> HIDE DEF D
  <2>7. /\ SumOf(WorkedOn, D) = WorkedOn[n + 1] + SumOf(WorkedOn, D \ {n + 1})
        /\ SumOf(BreaksOn, D) = BreaksOn[n + 1] + SumOf(BreaksOn, D \ {n + 1})
    BY <2>5, <2>6, SumWith
  <2>8. SumOf(WorkedOn, D \ {n + 1}) = l.worked /\ SumOf(BreaksOn, D \ {n + 1}) = l.breaks
    BY <1>2, <2>5 DEF IsShift
  <2>9. n + 1 \in 1..LastDate /\ WorkedOn[n + 1] = WorkedMinutes(record[n + 1])
        /\ BreaksOn[n + 1] = record[n + 1].breaks
    BY WorkDaysAssumption DEF WorkedOn, BreaksOn
  <2>10. /\ record[n + 1].breaks \in Int /\ WorkedMinutes(record[n + 1]) \in Int
         /\ l.worked \in Int /\ l.breaks \in Int
    <3>1. record[n + 1].breaks \in Nat /\ WorkedMinutes(record[n + 1]) \in Int
      BY <2>9, RecordIs
    <3>2. l.worked \in Int /\ l.breaks \in Int
      BY <1>1 DEF Shifts
    <3> HIDE DEF l
    <3> QED
      BY <3>1, <3>2
  <2>11. m.worked = SumOf(WorkedOn, D) /\ m.breaks = SumOf(BreaksOn, D)
    BY <1>5, <2>7, <2>8, <2>9, <2>10
  <2>12. D = m.startDay..m.endDay
    BY <1>5 DEF D
  <2>13. m.start = record[m.startDay].start /\ m.end = record[m.endDay].end
         /\ (m.startDay > f => ~Joined(m.startDay))
    BY <1>2, <1>5 DEF IsShift
  <2> HIDE DEF m, l
  <2> QED
    BY <1>5, <2>1, <2>4, <2>11, <2>12, <2>13 DEF IsShift
<1> HIDE DEF m
<1>7. R \in Seq(Shifts) /\ Len(R) = k /\ R[k] = m /\ \A i \in 1..(k - 1) : R[i] = S[i]
  BY <1>1, <1>5
<1> HIDE DEF R
<1>8. \A i \in 1..k : R[i].startDay = S[i].startDay /\ (i # k => R[i] = S[i])
  BY <1>1, <1>5, <1>7
<1>9. \A i \in 1..k : IsShift(R[i], f, n + 1)
  <2> SUFFICES ASSUME NEW i \in 1..k PROVE IsShift(R[i], f, n + 1)
    OBVIOUS
  <2>1. CASE i = k
    BY <1>6, <1>7, <2>1
  <2>2. CASE i # k
    BY <1>8, <2>2, ShiftStays DEF Listed
  <2> QED
    BY <2>1, <2>2
<1>10. \A i \in 1..k : FollowsOn(R, i, f)
  <2> SUFFICES ASSUME NEW i \in 1..k PROVE FollowsOn(R, i, f)
    OBVIOUS
  <2>1. FollowsOn(S, i, f)
    BY DEF Listed
  <2>2. R[i].startDay = S[i].startDay /\ (i > 1 => R[i - 1] = S[i - 1])
    BY <1>1, <1>7, <1>8
  <2> QED
    BY <2>1, <2>2 DEF FollowsOn
<1>11. \A i \in 1..(k - 1) : ~Joined(R[i].endDay + 1)
  BY <1>7 DEF Listed
<1>12. \A x \in f..(n + 1) : Recorded(x) => \E i \in 1..k : x \in R[i].startDay..R[i].endDay
  <2> SUFFICES ASSUME NEW x \in f..(n + 1), Recorded(x)
               PROVE  \E i \in 1..k : x \in R[i].startDay..R[i].endDay
    OBVIOUS
  <2>1. CASE x = n + 1
    BY <1>1, <1>3, <1>5, <1>7, <2>1
  <2>2. CASE x # n + 1
    <3>1. x \in f..n
      BY <2>2
    <3>2. PICK i \in 1..k : x \in S[i].startDay..S[i].endDay
      BY <3>1 DEF Listed
    <3>3. CASE i = k
      BY <1>1, <1>3, <1>5, <1>7, <3>2, <3>3
    <3>4. CASE i # k
      BY <1>8, <3>2, <3>4
    <3> QED
      BY <3>3, <3>4
  <2> QED
    BY <2>1, <2>2
<1>13. \A x \in f..(n + 1) : Recorded(x) => k > 0 /\ x <= R[k].endDay
  BY <1>1, <1>5, <1>7
<1>14. ReplaceAt(S, Len(S), Longer(Last(S), n + 1)) = R
  BY <1>1 DEF ReplaceAt, R, m
<1> QED
  BY <1>7, <1>9, <1>10, <1>11, <1>12, <1>13, <1>14 DEF Listed

LEMMA SumOfOne ==
  ASSUME NEW num, NEW x, num[x] \in Int
  PROVE  SumOf(num, {x}) = num[x]
<1> DEFINE X == {x}
<1>1. IsFiniteSet(X) /\ Numbers(num, X) /\ x \in X /\ X \ {x} = {}
  BY FS_Singleton DEF Numbers
<1> HIDE DEF X
<1>2. SumOf(num, X) = num[x] + SumOf(num, X \ {x})
  BY <1>1, SumWith
<1>3. SumOf(num, X \ {x}) = 0
  BY <1>1, SumOfNone
<1> QED
  BY <1>2, <1>3 DEF X

\* and any other day with a record begins a shift of its own.
LEMMA AnotherListed ==
  ASSUME WorkTyped, NEW S, NEW f \in Nat, NEW n \in Nat, f >= 1, f <= n + 1, n + 1 <= LastDate,
         Listed(S, f, n), Recorded(n + 1), ~(S # <<>> /\ GoesOn(Last(S), n + 1))
  PROVE  Listed(Append(S, shift(n + 1)), f, n + 1)
<1> DEFINE k == Len(S)
           m == shift(n + 1)
           R == Append(S, m)
<1>1. k \in Nat /\ S \in Seq(Shifts) /\ (S # <<>> <=> k > 0) /\ n + 1 \in 1..LastDate
  BY WorkDaysAssumption DEF Listed
<1>2. /\ record[n + 1].start \in Nat /\ record[n + 1].end \in Nat /\ record[n + 1].breaks \in Nat
      /\ WorkedMinutes(record[n + 1]) \in Int
  BY <1>1, RecordIs
<1>3. /\ m.startDay = n + 1 /\ m.endDay = n + 1 /\ m.start = record[n + 1].start
      /\ m.end = record[n + 1].end /\ m.worked = WorkedMinutes(record[n + 1])
      /\ m.breaks = record[n + 1].breaks /\ m \in Shifts
  BY <1>1, <1>2 DEF shift, Shifts
\* The last shift so far ends before, and not where this one begins.
<1>4. ASSUME k > 0
      PROVE  /\ S[k].endDay \in Nat /\ S[k].endDay <= n /\ S[k].endDay >= f /\ Recorded(S[k].endDay)
             /\ S[k].end = record[S[k].endDay].end
  <2>1. IsShift(S[k], f, n)
    BY <1>1, <1>4 DEF Listed
  <2>2. S[k].endDay \in Nat /\ S[k].startDay \in Nat /\ f <= S[k].startDay
        /\ S[k].startDay <= S[k].endDay /\ S[k].endDay <= n
    BY <2>1 DEF IsShift, Shifts
  <2>3. S[k].endDay \in S[k].startDay..S[k].endDay
    BY <2>2
  <2> QED
    BY <2>1, <2>2, <2>3 DEF IsShift
<1>5. ASSUME n + 1 > f PROVE ~Joined(n + 1)
  <2> SUFFICES ASSUME Joined(n + 1) PROVE FALSE
    OBVIOUS
  <2>1. n + 1 \in 2..LastDate /\ (n + 1) - 1 = n /\ n \in f..n
    BY <1>5, WorkDaysAssumption
  <2>2. Recorded(n) /\ record[n].end = 1440 /\ record[n + 1].start = 0
    BY <2>1, JoinedIs
  <2>3. k > 0 /\ n <= S[k].endDay
    BY <2>1, <2>2 DEF Listed
  <2>4. S[k].endDay = n /\ S[k].end = 1440
    BY <1>4, <2>2, <2>3
  <2>5. S # <<>> /\ Last(S) = S[k]
    BY <1>1, <2>3 DEF Last
  <2> QED
    BY <2>2, <2>4, <2>5 DEF GoesOn, MinutesPerDay
<1>6. ASSUME k > 0 PROVE ~Joined(S[k].endDay + 1)
  <2>1. CASE S[k].endDay = n
    BY <1>4, <1>5, <1>6, <2>1
  <2>2. CASE S[k].endDay # n
    <3>1. S[k].endDay + 1 \in f..n /\ ~(S[k].endDay + 1 <= S[k].endDay)
      BY <1>4, <1>6, <2>2
    <3>2. ~Recorded(S[k].endDay + 1)
      BY <3>1 DEF Listed
    <3> QED
      BY <3>2 DEF Joined
  <2> QED
    BY <2>1, <2>2
<1>7. IsShift(m, f, n + 1)
  <2>1. m.startDay..m.endDay = {n + 1} /\ (m.startDay + 1)..m.endDay = {}
    BY <1>3
  <2>2. WorkedOn[n + 1] = WorkedMinutes(record[n + 1]) /\ BreaksOn[n + 1] = record[n + 1].breaks
    BY <1>1 DEF WorkedOn, BreaksOn
  <2>3. SumOf(WorkedOn, {n + 1}) = m.worked /\ SumOf(BreaksOn, {n + 1}) = m.breaks
    <3>1. WorkedOn[n + 1] \in Int /\ BreaksOn[n + 1] \in Int
      BY <1>2, <2>2
    <3>2. SumOf(WorkedOn, {n + 1}) = WorkedOn[n + 1] /\ SumOf(BreaksOn, {n + 1}) = BreaksOn[n + 1]
      BY <3>1, SumOfOne
    <3> QED
      BY <1>3, <2>2, <3>2
  <2> HIDE DEF m
  <2> QED
    BY <1>3, <1>5, <2>1, <2>3 DEF IsShift
<1> HIDE DEF m
<1>8. R \in Seq(Shifts) /\ Len(R) = k + 1 /\ R[k + 1] = m /\ \A i \in 1..k : R[i] = S[i]
  BY <1>1, <1>3
<1> HIDE DEF R
<1>9. \A i \in 1..(k + 1) : IsShift(R[i], f, n + 1)
  <2> SUFFICES ASSUME NEW i \in 1..(k + 1) PROVE IsShift(R[i], f, n + 1)
    OBVIOUS
  <2>1. CASE i = k + 1
    BY <1>7, <1>8, <2>1
  <2>2. CASE i # k + 1
    <3>1. i \in 1..k
      BY <1>1, <2>2
    <3> QED
      BY <1>8, <3>1, ShiftStays DEF Listed
  <2> QED
    BY <2>1, <2>2
<1>10. \A i \in 1..(k + 1) : FollowsOn(R, i, f)
  <2> SUFFICES ASSUME NEW i \in 1..(k + 1) PROVE FollowsOn(R, i, f)
    OBVIOUS
  <2>1. CASE i = k + 1
    <3>1. i > 1 => R[i - 1] = S[k]
      BY <1>1, <1>8, <2>1
    <3>2. R[i].startDay = n + 1
      BY <1>3, <1>8, <2>1
    <3>3. \A x \in f..n : Recorded(x) => k > 0 /\ x <= S[k].endDay
      BY DEF Listed
    <3> QED
      BY <1>1, <1>4, <2>1, <3>1, <3>2, <3>3 DEF FollowsOn
  <2>2. CASE i # k + 1
    <3>1. i \in 1..k
      BY <1>1, <2>2
    <3>2. FollowsOn(S, i, f) /\ R[i] = S[i] /\ (i > 1 => R[i - 1] = S[i - 1])
      BY <1>1, <1>8, <3>1 DEF Listed
    <3> QED
      BY <3>2 DEF FollowsOn
  <2> QED
    BY <2>1, <2>2
<1>11. \A i \in 1..((k + 1) - 1) : ~Joined(R[i].endDay + 1)
  <2> SUFFICES ASSUME NEW i \in 1..k PROVE ~Joined(S[i].endDay + 1)
    BY <1>1, <1>8
  <2>1. CASE i = k
    BY <1>1, <1>6, <2>1
  <2>2. CASE i # k
    BY <1>1, <2>2 DEF Listed
  <2> QED
    BY <2>1, <2>2
<1>12. \A x \in f..(n + 1) : Recorded(x) => \E i \in 1..(k + 1) : x \in R[i].startDay..R[i].endDay
  <2> SUFFICES ASSUME NEW x \in f..(n + 1), Recorded(x)
               PROVE  \E i \in 1..(k + 1) : x \in R[i].startDay..R[i].endDay
    OBVIOUS
  <2>1. CASE x = n + 1
    BY <1>1, <1>3, <1>8, <2>1
  <2>2. CASE x # n + 1
    <3>1. x \in f..n
      BY <2>2
    <3>2. PICK i \in 1..k : x \in S[i].startDay..S[i].endDay
      BY <3>1 DEF Listed
    <3> QED
      BY <1>1, <1>8, <3>2
  <2> QED
    BY <2>1, <2>2
<1>13. \A x \in f..(n + 1) : Recorded(x) => k + 1 > 0 /\ x <= R[k + 1].endDay
  BY <1>1, <1>3, <1>8
<1>14. Append(S, shift(n + 1)) = R
  BY DEF R, m
<1> QED
  BY <1>8, <1>9, <1>10, <1>11, <1>12, <1>13, <1>14 DEF Listed

-----------------------------------------------------------------------------
(* The shifts of a stretch, a day after the other.                         *)

NextShifts(S, d) == IF Recorded(d) THEN withDay(S, d) ELSE S

\* The function in which they are gathered.
Gathers(f, n, g) == g = [d \in (f - 1)..n |-> IF d < f THEN <<>> ELSE NextShifts(g[d - 1], d)]

LEMMA ShiftsAreGathered ==
  ASSUME NEW f, NEW n
  PROVE  shiftsOf(f, n) = (CHOOSE g : Gathers(f, n, g))[n]
<1>1. \A g : Gathers(f, n, g) <=>
        g = [d \in (f - 1)..n |->
               IF d < f THEN <<>> ELSE IF Recorded(d) THEN withDay(g[d - 1], d) ELSE g[d - 1]]
  BY DEF Gathers, NextShifts
<1> QED
  BY <1>1 DEF shiftsOf, Gathers, NextShifts

LEMMA Gathered ==
  ASSUME NEW f \in Nat, f >= 1, NEW n \in Nat, n >= f - 1
  PROVE  \E g : Gathers(f, n, g)
<1> DEFINE B == {k \in Nat : k >= f - 1 /\ ~ \E g : Gathers(f, k, g)}
<1> SUFFICES ASSUME n \in B PROVE FALSE
  OBVIOUS
<1>1. PICK k \in B : \A j \in B : k <= j
  <2> HIDE DEF B
  <2>1. B \in SUBSET Nat
    BY DEF B
  <2> QED
    BY <2>1, Least
<1>2. k \in Nat /\ k >= f - 1 /\ ~ \E g : Gathers(f, k, g)
  OBVIOUS
<1>3. CASE k = f - 1
  <2> DEFINE g == [d \in (f - 1)..k |-> <<>>]
  <2>1. \A d \in (f - 1)..k : d < f
    BY <1>2, <1>3
  <2>2. g = [d \in (f - 1)..k |-> IF d < f THEN <<>> ELSE NextShifts(g[d - 1], d)]
    BY <2>1
  <2> HIDE DEF g
  <2> QED
    BY <1>2, <2>2 DEF Gathers
<1>4. CASE k # f - 1
  <2>1. k - 1 \in Nat /\ k - 1 >= f - 1 /\ k - 1 \notin B
    BY <1>1, <1>2, <1>4
  <2>2. PICK h : Gathers(f, k - 1, h)
    BY <2>1
  <2> DEFINE g == [d \in (f - 1)..k |-> IF d = k THEN NextShifts(h[k - 1], k) ELSE h[d]]
  <2>3. ASSUME NEW d \in (f - 1)..k
        PROVE  g[d] = IF d < f THEN <<>> ELSE NextShifts(g[d - 1], d)
    <3>1. d \in Int /\ k >= f /\ d <= k /\ d >= f - 1
      BY <1>2, <1>4
    <3>2. CASE d = k
      <4>1. ~(d < f) /\ d - 1 \in (f - 1)..k /\ d - 1 # k
        BY <1>2, <3>1, <3>2
      <4>2. g[d - 1] = h[k - 1] /\ g[d] = NextShifts(h[k - 1], k)
        BY <3>2, <4>1
      <4> HIDE DEF g
      <4> QED
        BY <3>2, <4>1, <4>2
    <3>3. CASE d # k
      <4>1. d \in (f - 1)..(k - 1)
        BY <1>2, <3>1, <3>3
      <4>2. h[d] = IF d < f THEN <<>> ELSE NextShifts(h[d - 1], d)
        BY <2>2, <4>1 DEF Gathers
      <4>3. ~(d < f) => g[d - 1] = h[d - 1]
        <5>1. ~(d < f) => d - 1 \in (f - 1)..k /\ d - 1 # k
          BY <1>2, <3>1, <3>3
        <5> QED
          BY <5>1
      <4>4. g[d] = h[d]
        BY <3>3
      <4> HIDE DEF g
      <4> QED
        BY <4>2, <4>3, <4>4
    <3> QED
      BY <3>2, <3>3
  <2>4. g = [d \in (f - 1)..k |-> g[d]]
    OBVIOUS
  <2> HIDE DEF g
  <2>5. Gathers(f, k, g)
    BY <2>3, <2>4 DEF Gathers
  <2> QED
    BY <1>2, <2>5
<1> QED
  BY <1>3, <1>4

LEMMA NextShiftsListed ==
  ASSUME WorkTyped, NEW S, NEW f \in Nat, NEW d \in Nat, f >= 1, f <= d, d <= LastDate, Listed(S, f, d - 1)
  PROVE  Listed(NextShifts(S, d), f, d)
<1>1. d - 1 \in Nat /\ (d - 1) + 1 = d
  OBVIOUS
<1> DEFINE n == d - 1
<1> HIDE DEF n
<1>2. n \in Nat /\ d = n + 1 /\ Listed(S, f, n)
  BY <1>1 DEF n
<1>3. CASE ~Recorded(d)
  BY <1>2, <1>3, FreeDayListed DEF NextShifts
<1>4. CASE Recorded(d) /\ S # <<>> /\ GoesOn(Last(S), d)
  BY <1>2, <1>4, LongerListed DEF NextShifts, withDay
<1>5. CASE Recorded(d) /\ ~(S # <<>> /\ GoesOn(Last(S), d))
  BY <1>2, <1>5, AnotherListed DEF NextShifts, withDay
<1> QED
  BY <1>3, <1>4, <1>5

LEMMA NoneListed ==
  ASSUME NEW f \in Nat
  PROVE  Listed(<<>>, f, f - 1)
<1>1. Len(<<>>) = 0 /\ <<>> \in Seq(Shifts) /\ f..(f - 1) = {} /\ 1..0 = {} /\ 1..(0 - 1) = {}
  OBVIOUS
<1> QED
  BY <1>1 DEF Listed

\* So the shifts of a stretch of days are listed.
LEMMA ShiftsListed ==
  ASSUME WorkTyped, NEW f \in 1..LastDate, NEW n \in f..LastDate
  PROVE  Listed(shiftsOf(f, n), f, n)
<1>1. f \in Nat /\ n \in Nat /\ f >= 1 /\ n >= f /\ n <= LastDate /\ LastDate \in Nat
  BY WorkDaysAssumption
<1> DEFINE g == CHOOSE h : Gathers(f, n, h)
<1>2. Gathers(f, n, g)
  BY <1>1, Gathered
<1>3. shiftsOf(f, n) = g[n]
  BY ShiftsAreGathered
<1> HIDE DEF g
<1> DEFINE B == {d \in Nat : d >= f - 1 /\ d <= n /\ ~Listed(g[d], f, d)}
<1> SUFFICES ASSUME n \in B PROVE FALSE
  BY <1>1, <1>3
<1>4. PICK d \in B : \A e \in B : d <= e
  <2> HIDE DEF B
  <2>1. B \in SUBSET Nat
    BY DEF B
  <2> QED
    BY <2>1, Least
<1>5. d \in Nat /\ d >= f - 1 /\ d <= n /\ ~Listed(g[d], f, d)
  OBVIOUS
<1>6. g[d] = IF d < f THEN <<>> ELSE NextShifts(g[d - 1], d)
  BY <1>1, <1>2, <1>5 DEF Gathers
<1>7. CASE d < f
  BY <1>1, <1>5, <1>6, <1>7, NoneListed
<1>8. CASE ~(d < f)
  <2>1. d - 1 \in Nat /\ d - 1 >= f - 1 /\ d - 1 <= n /\ d - 1 \notin B
    BY <1>1, <1>4, <1>5, <1>8
  <2>2. Listed(g[d - 1], f, d - 1)
    BY <2>1
  <2> QED
    BY <1>1, <1>5, <1>6, <1>8, <2>2, NextShiftsListed
<1> QED
  BY <1>7, <1>8

-----------------------------------------------------------------------------
(* What the act says of a shift.                                           *)

\* A listed shift is the whole one, where the list begins before it and ends where one does.
LEMMA ShiftIsWhole ==
  ASSUME WorkTyped, NEW f \in 1..LastDate, NEW n \in f..LastDate, ~(n < LastDate /\ Joined(n + 1)),
         NEW S, Listed(S, f, n), NEW i \in 1..Len(S), S[i].startDay > f \/ f = 1
  PROVE  LET s == S[i] d == S[i].startDay
         IN /\ s \in Shifts /\ d \in f..n /\ s.endDay \in d..n /\ Recorded(d) /\ ~Joined(d)
            /\ WholeShift(d) = d..s.endDay
<1> DEFINE s == S[i]
           d == s.startDay
           e == s.endDay
<1>1. f \in Nat /\ n \in Nat /\ f >= 1 /\ n >= f /\ n <= LastDate /\ LastDate \in Nat
  BY WorkDaysAssumption
<1>2. IsShift(s, f, n)
  BY DEF Listed
<1>3. s \in Shifts /\ d \in Nat /\ e \in Nat /\ f <= d /\ d <= e /\ e <= n
  BY <1>2 DEF IsShift, Shifts
<1>4. Recorded(d) /\ ~Joined(d) /\ \A x \in (d + 1)..e : Joined(x)
  <2>1. d \in d..e
    BY <1>3
  <2>2. CASE d > f
    BY <1>2, <2>1, <2>2 DEF IsShift
  <2>3. CASE ~(d > f)
    <3>1. ~(d > 1)
      BY <1>1, <1>3, <2>3
    <3> QED
      BY <1>2, <2>1, <3>1 DEF IsShift, Joined
  <2> QED
    BY <2>2, <2>3
<1>5. ASSUME e < LastDate PROVE ~Joined(e + 1)
  <2>1. CASE i < Len(S)
    <3>1. i \in 1..(Len(S) - 1)
      BY <2>1 DEF Listed
    <3> QED
      BY <3>1 DEF Listed
  <2>2. CASE i = Len(S)
    <3>1. CASE e = n
      BY <1>5, <3>1
    <3>2. CASE e # n
      <4>1. e + 1 \in f..n /\ ~(e + 1 <= e)
        BY <1>1, <1>3, <3>2
      <4>2. ~Recorded(e + 1)
        BY <2>2, <4>1 DEF Listed
      <4> QED
        BY <1>3, <4>2 DEF Joined
    <3> QED
      BY <3>1, <3>2
  <2> QED
    BY <2>1, <2>2 DEF Listed
<1> HIDE DEF s, d, e
<1>6. ASSUME NEW x \in d..LastDate, \A y \in (d + 1)..x : Joined(y) PROVE x <= e
  <2> SUFFICES ASSUME ~(x <= e) PROVE FALSE
    OBVIOUS
  <2>1. e + 1 \in (d + 1)..x /\ e < LastDate
    BY <1>1, <1>3
  <2> QED
    BY <1>5, <1>6, <2>1
<1>7. ASSUME NEW x \in d..e PROVE x \in d..LastDate /\ \A y \in (d + 1)..x : Joined(y)
  BY <1>1, <1>3, <1>4
<1>8. WholeShift(d) = d..e
  BY <1>1, <1>3, <1>6, <1>7 DEF WholeShift
<1> QED
  BY <1>1, <1>3, <1>4, <1>8 DEF s, d, e

LEMMA NoLessThanNone ==
  ASSUME NEW num, NEW S, IsFiniteSet(S), \A x \in S : num[x] \in Nat
  PROVE  SumOf(num, S) \in Nat
<1> DEFINE B == {U \in SUBSET S : SumOf(num, U) \notin Nat}
<1> SUFFICES ASSUME S \in B PROVE FALSE
  OBVIOUS
<1>1. \A U \in B : IsFiniteSet(U)
  BY FS_Subset
<1>2. PICK U \in B : \A V \in SUBSET U : V \in B => V = U
  <2> HIDE DEF B
  <2> QED
    BY <1>1, Smallest
<1>3. U # {}
  BY SumOfNone
<1>4. OneOf(U) \in U /\ U \ {OneOf(U)} \in SUBSET U /\ U \ {OneOf(U)} # U
  BY <1>3, OneOfIsIn
<1>5. SumOf(num, U \ {OneOf(U)}) \in Nat
  BY <1>2, <1>4
<1>6. SumOf(num, U) = num[OneOf(U)] + SumOf(num, U \ {OneOf(U)})
  BY <1>1, <1>3, SumFirst
<1>7. num[OneOf(U)] \in Nat
  BY <1>4
<1> QED
  BY <1>5, <1>6, <1>7

\* What the whole shift comes to is what is listed of it.
LEMMA WholeComesTo ==
  ASSUME WorkTyped, NEW f \in 1..LastDate, NEW n \in f..LastDate, NEW s, IsShift(s, f, n)
  PROVE  LET D == s.startDay..s.endDay
         IN /\ SumFunction([e \in D |-> WorkedMinutes(record[e])]) = s.worked
            /\ SumFunction([e \in D |-> record[e].breaks]) = s.breaks
            /\ s.breaks \in Nat /\ s.worked \in Int
<1> DEFINE D == s.startDay..s.endDay
           g == [e \in D |-> WorkedMinutes(record[e])]
           h == [e \in D |-> record[e].breaks]
<1>1. s.startDay \in 1..LastDate /\ s.endDay \in 1..LastDate
  BY WorkDaysAssumption DEF IsShift, Shifts
<1>2. IsFiniteSet(D) /\ D \in SUBSET (1..LastDate)
  BY <1>1, MinutesAreNumbers
<1>3. SumFunction(g) = SumOf(g, D) /\ SumFunction(h) = SumOf(h, D)
  BY DEF SumFunction, SumOf
<1>4. \A e \in D : g[e] = WorkedOn[e] /\ h[e] = BreaksOn[e] /\ BreaksOn[e] \in Nat
  BY <1>2, RecordIs DEF WorkedOn, BreaksOn
<1>5. s.worked = SumOf(WorkedOn, D) /\ s.breaks = SumOf(BreaksOn, D) /\ s.worked \in Int
  BY DEF IsShift, Shifts
<1> HIDE DEF D, g, h
<1>6. SumOf(g, D) = SumOf(WorkedOn, D) /\ SumOf(h, D) = SumOf(BreaksOn, D)
  BY <1>2, <1>4, SumSame
<1>7. SumOf(BreaksOn, D) \in Nat
  BY <1>2, <1>4, NoLessThanNone
<1> QED
  BY <1>3, <1>5, <1>6, <1>7 DEF D, g, h

\* The rest before a listed shift is too short just where it is short after some earlier day.
RestBefore(S, i) == (S[i].startDay - S[i - 1].endDay) * MinutesPerDay + S[i].start - S[i - 1].end

LEMMA RestIsShort ==
  ASSUME WorkTyped, NEW f \in 1..LastDate, NEW n \in f..LastDate,
         NEW S, Listed(S, f, n), NEW i \in 1..Len(S), S[i].startDay > f \/ f = 1
  PROVE  i > 1 /\ RestBefore(S, i) < 660 <=>
           \E e \in 1..(S[i].startDay - 1) : Recorded(e) /\ BeginOf(S[i].startDay) - EndOf(e) < 660
<1> DEFINE d == S[i].startDay
<1>1. f \in Nat /\ n \in Nat /\ f >= 1 /\ n >= f /\ n <= LastDate /\ LastDate \in Nat
  BY WorkDaysAssumption
<1>2. IsShift(S[i], f, n) /\ FollowsOn(S, i, f)
  BY DEF Listed
<1>3. d \in Nat /\ f <= d /\ d <= n /\ S[i].start = record[d].start /\ d \in 1..LastDate
  BY <1>1, <1>2 DEF IsShift, Shifts
<1>4. record[d].start \in Nat
  BY <1>3, RecordIs
<1>5. ASSUME i > 1
      PROVE  LET e == S[i - 1].endDay
             IN /\ e \in 1..(d - 1) /\ Recorded(e) /\ RestBefore(S, i) = BeginOf(d) - EndOf(e)
  <2> DEFINE e == S[i - 1].endDay
  <2>1. IsShift(S[i - 1], f, n)
    <3>1. i - 1 \in 1..Len(S)
      BY <1>5 DEF Listed
    <3> QED
      BY <3>1 DEF Listed
  <2>2. e \in Nat /\ S[i - 1].startDay \in Nat /\ f <= S[i - 1].startDay /\ S[i - 1].startDay <= e
        /\ e <= n /\ S[i - 1].end = record[e].end
    BY <2>1 DEF IsShift, Shifts
  <2>3. e < d
    BY <1>2, <1>5 DEF FollowsOn
  <2>4. Recorded(e)
    <3>1. e \in S[i - 1].startDay..S[i - 1].endDay
      BY <2>2
    <3> QED
      BY <2>1, <3>1 DEF IsShift
  <2>5. e \in 1..LastDate /\ e \in 1..(d - 1)
    BY <1>1, <1>3, <2>2, <2>3
  <2>6. record[e].end \in Nat
    BY <2>5, RecordIs
  <2> DEFINE a == record[d].start
             b == record[e].end
  <2>7. RestBefore(S, i) = (d - e) * 1440 + a - b
    BY <1>3, <2>2 DEF RestBefore, MinutesPerDay
  <2>8. BeginOf(d) = d * 1440 + a /\ EndOf(e) = e * 1440 + b
    BY DEF BeginOf, EndOf, MinutesPerDay
  <2> HIDE DEF d, e, a, b
  <2>9. (d - e) * 1440 + a - b = (d * 1440 + a) - (e * 1440 + b)
    <3>1. a \in Nat /\ b \in Nat
      BY <1>4, <2>6 DEF a, b
    <3>2. d \in Nat /\ e \in Nat
      BY <1>3, <2>2
    <3> QED
      BY <3>1, <3>2
  <2> QED
    BY <2>4, <2>5, <2>7, <2>8, <2>9 DEF d, e
<1>6. ASSUME i > 1, RestBefore(S, i) < 660
      PROVE  \E e \in 1..(d - 1) : Recorded(e) /\ BeginOf(d) - EndOf(e) < 660
  BY <1>5, <1>6
<1>7. ASSUME NEW e \in 1..(d - 1), Recorded(e), BeginOf(d) - EndOf(e) < 660
      PROVE  i > 1 /\ RestBefore(S, i) < 660
  <2>1. e \in 1..LastDate /\ e \in Nat /\ e >= 1 /\ e <= d - 1
    BY <1>1, <1>3
  <2>2. record[e].end \in Nat /\ record[e].end <= 1440
    BY <2>1, RecordIs
  <2> DEFINE a == record[d].start
             b == record[e].end
  <2>3. BeginOf(d) = d * 1440 + a /\ EndOf(e) = e * 1440 + b
    BY DEF BeginOf, EndOf, MinutesPerDay
  <2> HIDE DEF a, b
  <2>4. a \in Nat /\ b \in Nat /\ b <= 1440
    BY <1>4, <2>2 DEF a, b
  <2>5. (d * 1440 + a) - (e * 1440 + b) < 660
    BY <1>7, <2>3
  <2> HIDE DEF d
  <2>6. e = d - 1
    BY <1>3, <2>1, <2>4, <2>5
  <2>7. d > f
    BY <1>1, <1>3, <2>1, <2>6 DEF d
  <2>8. e \in f..(d - 1)
    BY <1>1, <1>3, <2>1, <2>6, <2>7
  <2>9. i > 1 /\ e <= S[i - 1].endDay
    BY <1>2, <1>7, <2>8 DEF FollowsOn, d
  <2>10. S[i - 1].endDay = e /\ RestBefore(S, i) = BeginOf(d) - EndOf(S[i - 1].endDay)
    <3>1. S[i - 1].endDay \in 1..(d - 1) /\ RestBefore(S, i) = BeginOf(d) - EndOf(S[i - 1].endDay)
      BY <1>5, <2>9 DEF d
    <3> QED
      BY <1>3, <2>1, <2>6, <2>9, <3>1
  <2> QED
    BY <1>7, <2>9, <2>10
<1> QED
  BY <1>6, <1>7

-----------------------------------------------------------------------------
(* What is said beside a day.                                              *)

\* There is something of the rule to say of the i-th shift of S.
Notable(S, i, rule) ==
  \/ rule = "longDay" /\ S[i].worked > longestShiftMinutes
  \/ rule = "shortBreak" /\ S[i].breaks < breakNeeded(S[i].worked)
  \/ rule = "shortRest" /\ i > 1 /\ RestBefore(S, i) < shortestRestMinutes

LEMMA SaidIsNotable ==
  ASSUME NEW f, NEW n, NEW d, NEW rule \in Rules
  PROVE  (\E x \in WorkingTimeNotices(f, n) : x.day = d /\ x.rule = rule) <=>
           \E i \in DOMAIN shiftsOf(f, n) : shiftsOf(f, n)[i].startDay = d /\ Notable(shiftsOf(f, n), i, rule)
<1> DEFINE S == shiftsOf(f, n)
           Notice(i, r, m) == [day |-> S[i].startDay, rule |-> r, minutes |-> m]
           L == {i \in DOMAIN S : S[i].worked > longestShiftMinutes}
           B == {i \in DOMAIN S : S[i].breaks < breakNeeded(S[i].worked)}
           R == {i \in DOMAIN S : i > 1 /\ RestBefore(S, i) < shortestRestMinutes}
           long == {Notice(i, "longDay", S[i].worked) : i \in L}
           break == {Notice(i, "shortBreak", breakNeeded(S[i].worked)) : i \in B}
           rest == {Notice(i, "shortRest", RestBefore(S, i)) : i \in R}
<1>1. WorkingTimeNotices(f, n) = long \union break \union rest
  BY DEF WorkingTimeNotices, RestBefore
<1> HIDE DEF S
<1>2. \A i, r, m : Notice(i, r, m).day = S[i].startDay /\ Notice(i, r, m).rule = r
  OBVIOUS
<1> HIDE DEF Notice, L, B, R
<1>3. (\E x \in long : x.day = d /\ x.rule = rule) <=>
        \E i \in L : S[i].startDay = d /\ rule = "longDay"
  <2>1. ASSUME NEW x \in long, x.day = d, x.rule = rule
        PROVE  \E i \in L : S[i].startDay = d /\ rule = "longDay"
    <3>1. PICK i \in L : x = Notice(i, "longDay", S[i].worked)
      OBVIOUS
    <3> QED
      BY <1>2, <2>1, <3>1
  <2>2. ASSUME NEW i \in L, S[i].startDay = d, rule = "longDay"
        PROVE  \E x \in long : x.day = d /\ x.rule = rule
    <3>1. Notice(i, "longDay", S[i].worked) \in long
      OBVIOUS
    <3> QED
      BY <1>2, <2>2, <3>1
  <2> QED
    BY <2>1, <2>2
<1>4. (\E x \in break : x.day = d /\ x.rule = rule) <=>
        \E i \in B : S[i].startDay = d /\ rule = "shortBreak"
  <2>1. ASSUME NEW x \in break, x.day = d, x.rule = rule
        PROVE  \E i \in B : S[i].startDay = d /\ rule = "shortBreak"
    <3>1. PICK i \in B : x = Notice(i, "shortBreak", breakNeeded(S[i].worked))
      OBVIOUS
    <3> QED
      BY <1>2, <2>1, <3>1
  <2>2. ASSUME NEW i \in B, S[i].startDay = d, rule = "shortBreak"
        PROVE  \E x \in break : x.day = d /\ x.rule = rule
    <3>1. Notice(i, "shortBreak", breakNeeded(S[i].worked)) \in break
      OBVIOUS
    <3> QED
      BY <1>2, <2>2, <3>1
  <2> QED
    BY <2>1, <2>2
<1>5. (\E x \in rest : x.day = d /\ x.rule = rule) <=>
        \E i \in R : S[i].startDay = d /\ rule = "shortRest"
  <2>1. ASSUME NEW x \in rest, x.day = d, x.rule = rule
        PROVE  \E i \in R : S[i].startDay = d /\ rule = "shortRest"
    <3>1. PICK i \in R : x = Notice(i, "shortRest", RestBefore(S, i))
      OBVIOUS
    <3> QED
      BY <1>2, <2>1, <3>1
  <2>2. ASSUME NEW i \in R, S[i].startDay = d, rule = "shortRest"
        PROVE  \E x \in rest : x.day = d /\ x.rule = rule
    <3>1. Notice(i, "shortRest", RestBefore(S, i)) \in rest
      OBVIOUS
    <3> QED
      BY <1>2, <2>2, <3>1
  <2> QED
    BY <2>1, <2>2
<1>6. /\ \A i \in L : i \in DOMAIN S /\ S[i].worked > longestShiftMinutes
      /\ \A i \in B : i \in DOMAIN S /\ S[i].breaks < breakNeeded(S[i].worked)
      /\ \A i \in R : i \in DOMAIN S /\ i > 1 /\ RestBefore(S, i) < shortestRestMinutes
  BY DEF L, B, R
<1>7. \A i \in DOMAIN S : Notable(S, i, rule) <=>
        (rule = "longDay" /\ i \in L) \/ (rule = "shortBreak" /\ i \in B) \/ (rule = "shortRest" /\ i \in R)
  BY DEF Notable, L, B, R
<1> HIDE DEF long, break, rest
<1>8. (\E x \in WorkingTimeNotices(f, n) : x.day = d /\ x.rule = rule) <=>
        \E i \in DOMAIN S : S[i].startDay = d /\ Notable(S, i, rule)
  BY <1>1, <1>3, <1>4, <1>5, <1>6, <1>7
<1> QED
  BY <1>8 DEF S

\* What is notable of a whole shift is what the act says of it.
LEMMA NotableIsTheAct ==
  ASSUME WorkTyped, NEW f \in 1..LastDate, NEW n \in f..LastDate, ~(n < LastDate /\ Joined(n + 1)),
         NEW S, Listed(S, f, n), NEW i \in 1..Len(S), S[i].startDay > f \/ f = 1, NEW rule \in Rules
  PROVE  Notable(S, i, rule) <=> TheActSays(S[i].startDay, rule)
<1> DEFINE d == S[i].startDay
           w == S[i].worked
           b == S[i].breaks
<1>1. Recorded(d) /\ ~Joined(d) /\ WholeShift(d) = d..S[i].endDay
  BY ShiftIsWhole
<1>2. IsShift(S[i], f, n)
  BY DEF Listed
<1>3. /\ SumFunction([e \in WholeShift(d) |-> WorkedMinutes(record[e])]) = w
      /\ SumFunction([e \in WholeShift(d) |-> record[e].breaks]) = b
      /\ b \in Nat /\ w \in Int
  BY <1>1, <1>2, WholeComesTo
<1>4. i > 1 /\ RestBefore(S, i) < 660 <=> \E e \in 1..(d - 1) : Recorded(e) /\ BeginOf(d) - EndOf(e) < 660
  BY RestIsShort
<1> HIDE DEF d, w, b
<1>5. CASE rule = "longDay"
  <2>1. TheActSays(d, rule) <=> w > 600
    BY <1>1, <1>3, <1>5 DEF TheActSays
  <2>2. Notable(S, i, rule) <=> w > 600
    BY <1>5 DEF Notable, longestShiftMinutes, w
  <2> QED
    BY <2>1, <2>2 DEF d
<1>6. CASE rule = "shortBreak"
  <2>1. TheActSays(d, rule) <=> (w > 360 /\ b < 30) \/ (w > 540 /\ b < 45)
    BY <1>1, <1>3, <1>6 DEF TheActSays
  <2>2. Notable(S, i, rule) <=> b < breakNeeded(w)
    BY <1>6 DEF Notable, w, b
  <2>3. b < breakNeeded(w) <=> (w > 360 /\ b < 30) \/ (w > 540 /\ b < 45)
    BY <1>3 DEF breakNeeded
  <2> QED
    BY <2>1, <2>2, <2>3 DEF d
<1>7. CASE rule = "shortRest"
  <2>1. TheActSays(d, rule) <=> \E e \in 1..(d - 1) : Recorded(e) /\ BeginOf(d) - EndOf(e) < 660
    BY <1>1, <1>7 DEF TheActSays
  <2>2. Notable(S, i, rule) <=> i > 1 /\ RestBefore(S, i) < 660
    BY <1>7 DEF Notable, shortestRestMinutes
  <2> QED
    BY <1>4, <2>1, <2>2 DEF d
<1> QED
  BY <1>5, <1>6, <1>7 DEF Rules

LEMMA EveryDayHasItsNotices ==
  ASSUME WorkTyped, NEW first \in 1..LastDate, NEW last \in 1..LastDate, first <= last,
         ~(last < LastDate /\ Joined(last + 1)), NEW d \in first..last, NEW rule \in Rules
  PROVE  Said(first, last, d, rule) <=> TheActSays(d, rule)
<1> DEFINE f == IF first > 1 THEN first - 1 ELSE first
           S == shiftsOf(f, last)
<1>1. /\ f \in 1..LastDate /\ last \in f..LastDate /\ d \in f..last /\ (d > f \/ f = 1)
      /\ d \in Nat /\ d >= first /\ f \in Nat
  BY WorkDaysAssumption
<1>2. Between(first, last) = {x \in WorkingTimeNotices(f, last) : x.day >= first}
  BY DEF Between
<1> HIDE DEF f
<1>3. Listed(S, f, last)
  BY <1>1, ShiftsListed
<1>4. DOMAIN S = 1..Len(S)
  BY <1>3 DEF Listed
<1>5. Said(first, last, d, rule) <=> \E x \in WorkingTimeNotices(f, last) : x.day = d /\ x.rule = rule
  BY <1>1, <1>2 DEF Said
<1>6. Said(first, last, d, rule) <=> \E i \in 1..Len(S) : S[i].startDay = d /\ Notable(S, i, rule)
  <2>1. (\E x \in WorkingTimeNotices(f, last) : x.day = d /\ x.rule = rule) <=>
          \E i \in DOMAIN S : S[i].startDay = d /\ Notable(S, i, rule)
    BY SaidIsNotable
  <2> HIDE DEF S
  <2> QED
    BY <1>4, <1>5, <2>1
<1> HIDE DEF S
<1>7. ASSUME NEW i \in 1..Len(S), S[i].startDay = d PROVE Notable(S, i, rule) <=> TheActSays(d, rule)
  BY <1>1, <1>3, <1>7, NotableIsTheAct
\* Where the act says something a shift begins, and it is listed.
<1>8. ASSUME TheActSays(d, rule) PROVE \E i \in 1..Len(S) : S[i].startDay = d
  <2>1. Recorded(d) /\ ~Joined(d)
    BY <1>8 DEF TheActSays
  <2>2. PICK i \in 1..Len(S) : d \in S[i].startDay..S[i].endDay
    BY <1>1, <1>3, <2>1 DEF Listed
  <2>3. IsShift(S[i], f, last)
    BY <1>3 DEF Listed
  <2>4. ASSUME S[i].startDay # d PROVE FALSE
    <3>1. S[i].startDay \in Nat /\ S[i].endDay \in Nat
      BY <2>3 DEF IsShift, Shifts
    <3>2. d \in (S[i].startDay + 1)..S[i].endDay
      BY <1>1, <2>2, <2>4, <3>1
    <3> QED
      BY <2>1, <2>3, <3>2 DEF IsShift
  <2> QED
    BY <2>4
<1> QED
  BY <1>6, <1>7, <1>8

LEMMA NoticesStand == WorkTyped => StandsBesideItsDay
BY EveryDayHasItsNotices DEF StandsBesideItsDay

LEMMA WorkInitTyped == WorkDaysInit => WorkTyped
<1>1. NoWork \in DayRecord
  BY DEF NoWork, DayRecord
<1> QED
  BY <1>1 DEF WorkDaysInit, WorkTyped

LEMMA WorkStepTyped ==
  ASSUME WorkTyped, [WorkDaysNext]_workdayVars
  PROVE  WorkTyped'
<1>1. NoWork \in DayRecord
  BY DEF NoWork, DayRecord
<1>2. ASSUME NEW d \in 1..LastDate, RemoveDay(d) PROVE WorkTyped'
  BY <1>1, <1>2 DEF WorkTyped, RemoveDay, deleteDay
<1>3. ASSUME NEW d \in 1..LastDate, NEW w \in Clocks, RecordDay(d, w.from, w.to, w.breaks) PROVE WorkTyped'
  <2> DEFINE s == minuteOf(w.from)
             e == minuteOf(w.to)
             r == [start |-> s, end |-> e, breaks |-> w.breaks]
  <2>1. s \in Int /\ e \in Int /\ w.breaks \in Int
    BY WorkDaysAssumption DEF minuteOf
  <2>2. ValidDay(r) /\ record' = [record EXCEPT ![d] = r]
    BY <1>3 DEF RecordDay, Record, saveDay
  <2> HIDE DEF s, e
  <2>3. s >= 0 /\ s < 1440 /\ e > s /\ e <= 1440 /\ w.breaks >= 0 /\ w.breaks < e - s
    BY <2>2 DEF ValidDay, MinutesPerDay
  <2>4. r \in DayRecord
    BY <2>1, <2>3 DEF DayRecord
  <2> HIDE DEF r
  <2> QED
    BY <2>2, <2>4 DEF WorkTyped
<1>4. CASE WorkDaysNext
  BY <1>2, <1>3, <1>4 DEF WorkDaysNext
<1>5. CASE UNCHANGED workdayVars
  BY <1>5 DEF workdayVars, WorkTyped
<1> QED
  BY <1>4, <1>5

\* Beside each day stands what the act says of the shift that began on it, for any days,
\* records and stretches (WorkingTimeNotices, shiftsOf).
THEOREM NoticesAlwaysStand == Spec => []NoticesStandBesideTheirDay
<1>1. Init => WorkTyped
  BY WorkInitTyped DEF Init
<1>2. WorkTyped /\ [Next]_allVars => WorkTyped'
  <2> SUFFICES ASSUME WorkTyped, [Next]_allVars PROVE WorkTyped'
    OBVIOUS
  <2>1. [WorkDaysNext]_workdayVars
    BY DEF Next, allVars, calendarsVars
  <2> QED
    BY <2>1, WorkStepTyped
<1>3. WorkTyped => NoticesStandBesideTheirDay
  BY NoticesStand DEF NoticesStandBesideTheirDay
<1> QED
  BY <1>1, <1>2, <1>3, PTL DEF Spec
=============================================================================
